------------------------------ MODULE RomProps ------------------------------
(* What the patch build and the patching of a ROM must guarantee. *)
EXTENDS Rom

\* The new address of an old code address; other addresses stay.
Image(t) ==
  IF t \in DOMAIN Mapping THEN Mapping[t] ELSE IF t = PreludeOldCpu THEN PreludeNewCpu ELSE t

\* Where the instruction or pointer at cell c of address a leads.
Target(c, a) == IF c.op = "rel" THEN a + 2 + c.v ELSE c.v

\* The region of an old code address; the cell at an old and at a new one.
RegionOf(a) == CHOOSE r \in ToSet(OldRegions) : a \in r.cpu .. r.cpu + r.len - 1
OldCell(a) == oldRom[RegionOf(a).file + a - RegionOf(a).cpu + 1]
NewCell(final, a) == final[NewBaseFile + a - NewBaseCpu + 1]

\* Does the instruction at old address a end inside its region.
Whole(a) == a + ModeLen(OldCell(a)) <= RegionOf(a).cpu + RegionOf(a).len

Built == Apply(Vanilla, patch)

\* relocate_patch.py "behaves identically to the original": every instruction
\* and table pointer of the packed code leads to the new place of what its
\* original led to, both hooks enter at the new place of the old entry, and
\* nothing is left at the old sites.  (A branch out of the patch, and an
\* instruction cut off by the end of its region, are outside the claim.)
SameControlFlow ==
  build # "todo" =>
    LET final == Built
    IN /\ \A a \in DOMAIN Mapping :
            LET o == OldCell(a)
                n == NewCell(final, Mapping[a])
            IN /\ n.op = o.op
               /\ o.op \in {"abs", "rel", "ptr"} /\ Whole(a)
                  /\ (o.op = "rel" => Target(o, a) \in DOMAIN Mapping) =>
                    Target(n, Mapping[a]) = Image(Target(o, a))
       /\ final[MainHookFile + 1].v = Image(MainHookCpu)
       /\ final[NmiHookNewFile + 1].v = Image(NmiDrainCpu)
       /\ \A r \in ToSet(OldRegions) : Slice(final, r.file, r.len) = Slice(Vanilla, r.file, r.len)

\* The offsets at which the shipped patch changes the vanilla ROM.
Sites == {o \in 0 .. Len(Built) - 1 : Differs(Vanilla, Built, o)}

Agrees(bytes, ref, os) == \A o \in os : o < Len(bytes) /\ o < Len(ref) /\ bytes[o + 1] = ref[o + 1]

\* Every file the GUI or `bridge patch` writes is one of the user's ROMs, which
\* was vanilla at every patch site, with exactly those sites changed: a
\* randomizer's changes are never overwritten (RomConflict), whatever state an
\* interrupted build left the sidecar in.
WritesAreOverlays ==
  [][\A f \in Paths : files'[f] # files[f] =>
       \E p \in Picks :
         /\ files[p] # None /\ Agrees(files[p], Vanilla, Sites)
         /\ Len(files'[f]) = Len(files[p])
         /\ \A o \in 0 .. Len(files[p]) - 1 :
              files'[f][o + 1] = IF o \in Sites THEN Built[o + 1] ELSE files[p][o + 1]]_vars

\* Past the ROM screen there is a ROM that carries the whole patch, the one
\* stashed for the later screens or, when the file was patched behind the
\* GUI's back, the chosen one; and every complete copy on the cart, and every ROM launched
\* there, is such a ROM.
ReadyRomPatched ==
  /\ screen = "relay_setup" =>
       Agrees(files[IF stash # None THEN stash ELSE rom], Built, Sites)
  /\ \A f \in {"copy", "run"} : cart[f] # None => Agrees(cart[f], Built, Sites)

\* The patch build is run at most once: started again on the patch it wrote,
\* relocate_patch.py refuses before it overwrites anything.
BuiltOnce == [][build = "built" => UNCHANGED patch]_vars
=============================================================================
