------------------------------- MODULE MCRom -------------------------------
(* A ROM of 31 bytes: two code regions and the jump table, packed into the  *)
(* free bytes 11 to 19.                                                     *)
EXTENDS RomProps

B(v) == Cell("byte", v)
MCVanilla ==
  <<B(78)>> \o [i \in 1 .. 19 |-> Blank]
  \o <<Cell("abs", 7), B(9), Blank, Blank, B(3), Cell("ptr", 5), B(36), B(36), B(2), B(3), B(0)>>

MCOldRegions == <<[file |-> 1, cpu |-> 41, len |-> 4], [file |-> 6, cpu |-> 46, len |-> 2],
                  [file |-> 8, cpu |-> 48, len |-> 2]>>
MCZero == B(0)
MCMagic == B(78)
MCPrelude == <<B(43)>>
MCSkip == {<<21, 22>>, <<22, 23>>, <<5, 6>>, <<26, 27>>}
MCPokes == <<Raw(29, <<B(4)>>), Raw(27, <<B(35)>>)>>

\* Code of n bytes, the last instruction possibly cut off.
Instrs == {Abs(t) : t \in {41, 47, 45, 81}}
  \cup {Rel(d) : d \in {-2, 3}} \cup {Plain, <<Blank>>}
Code[n \in 0 .. 4] ==
  IF n = 0 THEN {<<>>}
  ELSE UNION {IF Len(i) <= n THEN {i \o c : c \in Code[n - Len(i)]} ELSE {SubSeq(i, 1, n)} : i \in Instrs}

OldRomOf(c1, c2, table) ==
  Overlaid(MCVanilla,
    <<Raw(1, c1), Raw(5, <<B(6)>>), Raw(6, c2), Raw(8, table), Raw(20, <<Cell("abs", 42), B(43), B(44)>>),
      Raw(24, <<Cell("abs", 45), Cell("ptr", 82), B(33)>>), Raw(28, <<B(1), B(14)>>)>>)
OldRoms(t) ==
  {OldRomOf(c1, c2, <<Cell("ptr", 46), Cell("ptr", t)>>) : c1 \in Code[4], c2 \in Code[2]}

\* Vanilla, a seed that leaves the patch sites alone, two that do not, a longer
\* and a shorter dump, no NES ROM, no file.
UserFiles ==
  [a : {MCVanilla, [MCVanilla EXCEPT ![31] = B(8)], [MCVanilla EXCEPT ![28] = B(8)],
        [MCVanilla EXCEPT ![15] = B(8)], Append(MCVanilla, B(8)), SubSeq(MCVanilla, 1, 25),
        [MCVanilla EXCEPT ![1] = B(8)], None},
   b : {None, MCVanilla}, c : {None}]

\* All code for the build, two patches for the screens.
MCStarts ==
  ((OldRoms(41) \cup OldRoms(45)) \X {[p \in {"a", "b", "c"} |-> None]})
  \cup {OldRomOf(c, Rel(-2), <<Cell("ptr", 46), Cell("ptr", 41)>>) :
          c \in {Abs(47) \o Plain, Plain \o Plain \o Plain \o Plain}} \X UserFiles
MCGuiOut == [a |-> "b", b |-> "c"]
MCCliOut == [a |-> "a", b |-> "c"]
=============================================================================
