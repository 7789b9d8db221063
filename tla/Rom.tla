-------------------------------- MODULE Rom --------------------------------
(***************************************************************************)
(* From the build of the shipped patch (relocate_patch.py) to the patched  *)
(* ROM on the cart: the ROM screen of the GUI for the EverDrive            *)
(* (bridge_gui/setup_screen.py) and `bridge patch` (bridge_cli).  The two  *)
(* programs share the user's files.  Status texts are left out.            *)
(***************************************************************************)
EXTENDS Relocate

CONSTANTS
  Vanilla,     \* the vanilla ROM
  Paths,       \* the user's files
  Picks,       \* the ones the user chooses as input
  Starts,      \* pairs of the ROM the original patch makes of Vanilla and
               \* the user's files, [Paths -> bytes or None]
  GuiOut, CliOut,    \* the paths the two programs write to: [Picks -> Paths]
  Magic,       \* the first byte of a NES header
  MinRom,      \* 16, the length of the header
  None

Bytes == Seq([op : {"abs", "rel", "arg", "ptr", "byte"}, v : Int])

ASSUME RomAssumption ==
  /\ Picks \subseteq Paths /\ None \notin Paths /\ None \notin Bytes
  /\ GuiOut \in [Picks -> Paths] /\ CliOut \in [Picks -> Paths]

\* The vanilla ROM has every byte the build reads or writes, and no pointer of
\* the patch where the jump table goes (main expects 0xFF there).
ASSUME VanillaAssumption ==
  /\ Vanilla \in Bytes /\ PreludeBytes \in Bytes
  /\ FixedPokes \in Seq([offset : Nat, length : Nat \ {0}, count : {0}, data : Bytes])
  /\ \A i \in DOMAIN FixedPokes : Len(FixedPokes[i].data) = FixedPokes[i].length
  /\ \A i \in DOMAIN Layout : Layout[i] \subseteq 0 .. Len(Vanilla) - 1
  /\ \A r \in ToSet(OldRegions) : r.file + r.len <= Len(Vanilla)
  /\ \E r \in ToSet(OldRegions) : r.cpu = JumpTableCpu /\ ~IsInternal(Vanilla[r.file + 1].v)

\* The original patch keeps the length of the ROM, can be written as an IPS file
\* and has pointers in the jump table and nowhere else in its code.
ASSUME StartsAssumption ==
  \A s \in Starts :
    /\ s[1] \in Bytes /\ Len(s[1]) = Len(Vanilla) /\ MakeIps(Vanilla, s[1]) # Error
    /\ \A r \in ToSet(OldRegions) : \A i \in 1 .. r.len :
         s[1][r.file + i].op = "ptr" <=> r.cpu = JumpTableCpu
    /\ DOMAIN s[2] = Paths /\ \A p \in Paths : s[2][p] = None \/ s[2][p] \in Bytes

VARIABLES
  oldRom,      \* the ROM the original patch produces
  patch, expected,   \* the .ips and its .expected.json sidecar
  build,       \* the build tool: "todo", "manifest" still to be written, "built"
  files,       \* path -> bytes; None: no such file
  rom, patched,      \* _rom_path, _patched_path
  cont,        \* is the Continue button enabled
  stash,       \* controller.patched_rom_path
  screen,
  cart         \* the copy on the SD card (None: there is none, or one that was
               \* cut off) and the ROM that was launched

buildVars == <<oldRom, patch, expected, build>>
guiVars == <<rom, patched, cont, stash, screen, cart>>
vars == <<buildVars, files, guiVars>>

Path == Paths \cup {None}

TypeOK ==
  /\ oldRom \in Bytes /\ build \in {"todo", "manifest", "built"}
  /\ DOMAIN files = Paths /\ \A p \in Paths : files[p] = None \/ files[p] \in Bytes
  /\ rom \in Path /\ patched \in Path /\ stash \in Path
  /\ cont \in BOOLEAN /\ screen \in {"rom_setup", "relay_setup"}
  /\ \A f \in {"copy", "run"} : cart[f] = None \/ cart[f] \in Bytes

Init ==
  /\ \E s \in Starts : oldRom = s[1] /\ files = s[2]
  /\ patch = MakeIps(Vanilla, oldRom) /\ expected = {} /\ build = "todo"
  /\ rom = None /\ patched = None /\ cont = FALSE /\ stash = None
  /\ screen = "rom_setup" /\ cart = [copy |-> None, run |-> None]

-----------------------------------------------------------------------------
(* The build *)

\* main, up to patch_path.write_bytes.  A second run reads the patch the first
\* one wrote.
RelocatePatch ==
  LET final == FinalRom(Vanilla, patch)
  IN /\ build # "manifest" /\ final # Error
     /\ patch' = MakeIps(Vanilla, final) /\ patch' # Error
     /\ build' = "manifest"
     /\ UNCHANGED <<oldRom, expected, files, guiVars>>

\* The sidecar is written last; the --prg1 file in between may be unreadable.
WriteManifest ==
  /\ build = "manifest" /\ build' = "built"
  /\ \/ expected' = ExpectedOf(Vanilla, patch)
     \/ UNCHANGED expected
  /\ UNCHANGED <<oldRom, patch, files, guiVars>>

-----------------------------------------------------------------------------
(* The ROM screen, EverDrive *)

IsNes(bytes) == Len(bytes) >= MinRom /\ bytes[1] = Magic

\* _inspect_rom: patched is left alone by the two early returns.
InspectRom(p) ==
  IF files[p] = None \/ ~IsNes(files[p])
  THEN cont' = FALSE /\ UNCHANGED patched
  ELSE cont' = TRUE /\ patched' = IF IsPatched(files[p], patch) THEN p ELSE None

PickFile(p) ==
  /\ build = "built" /\ screen = "rom_setup"
  /\ rom' = p /\ InspectRom(p)
  /\ UNCHANGED <<buildVars, files, stash, screen, cart>>

\* _upload_to_edn8: the box may be unticked or edlink-n8 missing; mkdir, copy and
\* launch may each fail, the copy half way; the caller goes on all the same.
UploadToEdn8(bytes) ==
  \/ UNCHANGED cart
  \/ cart' = [cart EXCEPT !.copy = None]
  \/ cart' = [cart EXCEPT !.copy = bytes]
  \/ cart' = [copy |-> bytes, run |-> bytes]

\* Mutant: the later screens get the bytes in place of the path.
ProceedWithBytes(p, written) ==
  /\ IF p = None THEN UNCHANGED cart ELSE UploadToEdn8(written[p])
  /\ patched' = p /\ stash' = IF p = None THEN None ELSE written[p]
  /\ screen' = "relay_setup" /\ files' = written
Proceed(p, written) ==
  /\ IF p = None THEN UNCHANGED cart ELSE UploadToEdn8(written[p])
  /\ patched' = p /\ stash' = p
  /\ screen' = "relay_setup" /\ files' = written

\* Mutant: a conflict is reported but does not return.
ContinueOnConflict ==
  /\ build = "built" /\ screen = "rom_setup" /\ cont
  /\ LET out == ApplyValidated(files[rom], patch, expected)
     IN IF IsPatched(files[rom], patch) \/ out = Error THEN Proceed(patched, files)
        ELSE Proceed(GuiOut[rom], [files EXCEPT ![GuiOut[rom]] = out])
  /\ UNCHANGED <<buildVars, rom, cont>>
\* _continue: a conflict stays on this screen.
Continue ==
  /\ build = "built" /\ screen = "rom_setup" /\ cont
  /\ IF IsPatched(files[rom], patch) THEN Proceed(patched, files)
     ELSE LET out == ApplyValidated(files[rom], patch, expected)
          IN out # Error /\ Proceed(GuiOut[rom], [files EXCEPT ![GuiOut[rom]] = out])
  /\ UNCHANGED <<buildVars, rom, cont>>

Back ==
  /\ screen = "relay_setup" /\ screen' = "rom_setup"
  /\ UNCHANGED <<buildVars, files, rom, patched, cont, stash, cart>>

-----------------------------------------------------------------------------
(* bridge patch, without --output *)

CmdPatch(p) ==
  /\ build = "built" /\ files[p] # None /\ ~IsPatched(files[p], patch)
  /\ LET out == ApplyValidated(files[p], patch, expected)
     IN out # Error /\ files' = [files EXCEPT ![CliOut[p]] = out]
  /\ UNCHANGED <<buildVars, guiVars>>

-----------------------------------------------------------------------------
Next ==
  \/ RelocatePatch \/ WriteManifest \/ Continue \/ Back
  \/ \E p \in Picks : PickFile(p) \/ CmdPatch(p)

Spec == Init /\ [][Next]_vars
=============================================================================
