------------------------------ MODULE Relocate ------------------------------
(***************************************************************************)
(* bridge/relocate_patch.py, the build tool that moves the code of the     *)
(* original patch out of bank 6, packs it into bank 4 and rewrites what    *)
(* points at it.                                                           *)
(*                                                                         *)
(* A byte of a ROM is a cell.  The first byte of an instruction carries    *)
(* its addressing mode and its operand (a target, or the displacement of   *)
(* a branch), the operand bytes that follow are "arg" cells; a pointer of  *)
(* the jump table is one "ptr" cell; everything else is a plain "byte".    *)
(***************************************************************************)
EXTENDS Ips

CONSTANTS
  OldRegions,               \* OLD_REGIONS: <<[file, cpu, len], ...>>
  JumpTableCpu,             \* the region that holds pointers
  NewBaseFile, NewBaseCpu,  \* where the packed code goes
  WindowEnd,                \* 0xBFFF
  Reach,                    \* 128, the reach of a relative branch
  PreludeOldCpu, PreludeBytes,
  SkipRanges,               \* the other old sites that are not kept: <<first, end>>
  SecondaryOldFile, SecondaryNewFile, SecondaryNewCpu, SecondaryLen,
  NmiHookNewFile, NmiHookNewCpu, NmiVectorFile, NmiDrainCpu,
  MainHookFile, MainHookCpu, SecondaryHookFile,
  FixedPokes                \* bank value, JMP operand and title: records

Cell(op, v) == [op |-> op, v |-> v]
Blank == Cell("byte", 255)

\* OPCODES and MODE_LEN: what the decoder tells apart of an instruction.
Abs(t) == <<Cell("abs", t), Cell("arg", 0), Cell("arg", 0)>>
Rel(d) == <<Cell("rel", d), Cell("arg", 0)>>
Plain == <<Cell("byte", 1)>>
ModeLen(cell) == CASE cell.op = "abs" -> 3 [] cell.op = "rel" -> 2 [] OTHER -> 1

\* The bytes of the first k regions.
Total[k \in 0 .. Len(OldRegions)] == IF k = 0 THEN 0 ELSE Total[k - 1] + OldRegions[k].len
CodeLen == Total[Len(OldRegions)]
PreludeNewCpu == NewBaseCpu + CodeLen

OldRangeEnd == Max({r.cpu + r.len - 1 : r \in ToSet(OldRegions)})
IsInternal(t) == OldRegions[1].cpu <= t /\ t <= OldRangeEnd

\* build_mapping: old CPU address -> new CPU address, regions packed in order.
Mapping ==
  [t \in UNION {r.cpu .. r.cpu + r.len - 1 : r \in ToSet(OldRegions)} |->
     LET k == CHOOSE j \in DOMAIN OldRegions :
                t \in OldRegions[j].cpu .. OldRegions[j].cpu + OldRegions[j].len - 1
     IN NewBaseCpu + Total[k - 1] + t - OldRegions[k].cpu]

\* The offsets main writes, one write after the other: the packed code with the
\* prelude, the hooks and the fixed pokes.
Span(first, n) == first .. first + n - 1
Layout ==
  <<Span(NewBaseFile, CodeLen + Len(PreludeBytes)), Span(SecondaryNewFile, SecondaryLen),
    Span(SecondaryOldFile, SecondaryLen), {NmiHookNewFile}, {MainHookFile}, {SecondaryHookFile},
    {NmiVectorFile}>>
  \o [i \in DOMAIN FixedPokes |-> Span(FixedPokes[i].offset, FixedPokes[i].length)]

\* The literals of the script: the regions ascend, the two entry points are in
\* them, and no byte is written twice or inside an old region.
ASSUME LayoutAssumption ==
  /\ OldRegions \in Seq([file : Nat, cpu : Nat, len : Nat \ {0}]) /\ OldRegions # <<>>
  /\ \A j, k \in DOMAIN OldRegions :
       j < k => OldRegions[j].cpu + OldRegions[j].len <= OldRegions[k].cpu
  /\ {NmiDrainCpu, MainHookCpu} \subseteq DOMAIN Mapping
  /\ {NewBaseFile, NewBaseCpu, SecondaryOldFile, SecondaryNewFile, SecondaryNewCpu, NmiHookNewFile,
      NmiHookNewCpu, NmiVectorFile, MainHookFile, SecondaryHookFile} \subseteq Nat
  /\ SecondaryLen \in Nat \ {0}
  /\ \A i, j \in DOMAIN Layout : i # j => Layout[i] \cap Layout[j] = {}
  /\ \A i \in DOMAIN Layout : \A r \in ToSet(OldRegions) : Layout[i] \cap Span(r.file, r.len) = {}

-----------------------------------------------------------------------------
(* relocate_region.  Bad stands for the KeyError of a target in a gap, and  *)
(* for the RuntimeErrors of a pointer outside the patch and of a branch     *)
(* that no longer reaches.                                                  *)

Bad == Cell("bad", 0)
MapTarget(t) == IF t \in DOMAIN Mapping THEN Mapping[t] ELSE -1

\* Mutant: a pointer outside the patch is left alone.
RelocatePointerLenient(cell) ==
  IF IsInternal(cell.v) THEN [cell EXCEPT !.v = MapTarget(@)] ELSE cell
RelocatePointer(cell) ==
  IF IsInternal(cell.v) /\ MapTarget(cell.v) # -1
  THEN [cell EXCEPT !.v = MapTarget(@)] ELSE Bad

RelocateAbs(cell) ==
  IF IsInternal(cell.v)
  THEN IF MapTarget(cell.v) = -1 THEN Bad ELSE [cell EXCEPT !.v = MapTarget(@)]
  ELSE IF cell.v = PreludeOldCpu THEN [cell EXCEPT !.v = PreludeNewCpu] ELSE cell

\* Mutant: a branch keeps its displacement.
RelocateRelKept(cell, old, new) == cell
\* old and new are the addresses of the branch before and after the move.
RelocateRel(cell, old, new) ==
  LET target == old + 2 + cell.v
      offset == MapTarget(target) - (new + 2)
  IN IF ~IsInternal(target) THEN cell
     ELSE IF MapTarget(target) = -1 \/ offset \notin -Reach .. Reach - 1 THEN Bad
     ELSE [cell EXCEPT !.v = offset]

\* An instruction cut off by the end of its region is left as it is.
RelocateRegion(cells, oldCpu, newCpu) ==
  [i \in DOMAIN cells |->
     CASE oldCpu = JumpTableCpu -> RelocatePointer(cells[i])
       [] oldCpu # JumpTableCpu /\ i + ModeLen(cells[i]) - 1 > Len(cells) -> cells[i]
       [] OTHER -> CASE cells[i].op = "abs" -> RelocateAbs(cells[i])
                     [] cells[i].op = "rel" -> RelocateRel(cells[i], oldCpu + i - 1, newCpu + i - 1)
                     [] OTHER -> cells[i]]

-----------------------------------------------------------------------------
(* main *)

\* The packed block; the prelude bytes follow the code.
NewBlock(patched) ==
  FlattenSeq([k \in DOMAIN OldRegions |->
    LET r == OldRegions[k]
    IN RelocateRegion(Slice(patched, r.file, r.len), r.cpu, NewBaseCpu + Total[k - 1])])
  \o PreludeBytes

IsSkipped(o) ==
  \/ \E r \in ToSet(OldRegions) : r.file <= o /\ o < r.file + r.len
  \/ \E s \in SkipRanges : s[1] <= o /\ o < s[2]

\* The old patch, byte by byte, without the sites that are not kept.
Kept(vanilla, patched) ==
  [i \in DOMAIN patched |->
     IF ~IsSkipped(i - 1) THEN patched[i] ELSE IF i \in DOMAIN vanilla THEN vanilla[i] ELSE Zero]

\* The hooks that enter the relocated code.
HookPokes(patched) ==
  <<Raw(SecondaryNewFile, Slice(patched, SecondaryOldFile, SecondaryLen)),
    Raw(SecondaryOldFile, [i \in 1 .. SecondaryLen |-> Blank]),
    Raw(NmiHookNewFile, <<Cell("abs", MapTarget(NmiDrainCpu))>>),
    Raw(MainHookFile, <<Cell("abs", MapTarget(MainHookCpu))>>),
    Raw(SecondaryHookFile, <<Cell("abs", SecondaryNewCpu)>>),
    Raw(NmiVectorFile, <<Cell("ptr", NmiHookNewCpu)>>)>>

\* The ROM the new patch must produce from vanilla, or Error.
FinalRom(vanilla, old) ==
  LET patched == Apply(vanilla, old)
      block == NewBlock(patched)
  IN IF PreludeNewCpu > WindowEnd \/ Bad \in ToSet(block) THEN Error
     ELSE Overlaid(Kept(vanilla, patched),
                   <<Raw(NewBaseFile, block)>> \o HookPokes(patched) \o FixedPokes)

\* The sidecar: the vanilla bytes at every record of the new patch.
ExpectedOf(vanilla, patch) ==
  {<<r.offset, Slice(vanilla, r.offset, r.length)>> : r \in ToSet(Parse(patch))}
=============================================================================
