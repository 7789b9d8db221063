-------------------------------- MODULE Ips --------------------------------
(***************************************************************************)
(* The IPS patch format: bridge_core/ips.py applies patches,               *)
(* bridge_core/ips_build.py makes them.  A ROM is a sequence of bytes; the *)
(* byte at file offset o is rom[o + 1].  A patch is the sequence of its    *)
(* records; the three bytes "EOF" that end it are what a record at offset  *)
(* EOF_OFFSET would start with, so the trailer is written as that record.  *)
(***************************************************************************)
EXTENDS Integers, Sequences, SequencesExt

CONSTANTS
  MaxLen,      \* 0xFFFF, the longest record
  RleMin,      \* 8, from where on a run of one byte is run-length encoded
  EofOffset,   \* EOF_OFFSET
  Zero,        \* the byte b"\x00"
  Error        \* an exception is raised

ASSUME IpsAssumption == MaxLen \in Nat \ {0} /\ RleMin \in Nat \ {0} /\ EofOffset \in Nat

\* A length field of 0 marks a run-length encoded record.
Raw(o, data) == [offset |-> o, length |-> Len(data), count |-> 0, data |-> data]
Rle(o, count, fill) == [offset |-> o, length |-> 0, count |-> count, data |-> <<fill>>]
Trailer == Raw(EofOffset, <<>>)

\* rom_bytes[o : o + n]: a Python slice stops at the end.
Slice(rom, o, n) == SubSeq(rom, o + 1, IF o + n > Len(rom) THEN Len(rom) ELSE o + n)

-----------------------------------------------------------------------------
(* ips.py *)

\* The (offset, data) records before the first trailer.
Parse(patch) ==
  LET ends == {i \in DOMAIN patch : patch[i].offset = EofOffset}
      Expand(r) == IF r.length = 0
                   THEN Raw(r.offset, [i \in 1 .. r.count |-> r.data[1]])
                   ELSE r
  IN IF ends = {} THEN Error
     ELSE [i \in 1 .. (CHOOSE e \in ends : \A f \in ends : e <= f) - 1 |-> Expand(patch[i])]

\* One iteration of apply's loop: out is extended with zeroes up to the record.
Overlay(out, r) ==
  LET end == r.offset + r.length
      long == IF end <= Len(out) THEN out ELSE out \o [i \in 1 .. end - Len(out) |-> Zero]
  IN Slice(long, 0, r.offset) \o r.data \o SubSeq(long, end + 1, Len(long))
\* The loop: out[k] is what the first k records made of rom.
Overlaid(rom, records) ==
  LET out[k \in 0 .. Len(records)] == IF k = 0 THEN rom ELSE Overlay(out[k - 1], records[k])
  IN out[Len(records)]
Apply(rom, patch) == Overlaid(rom, Parse(patch))

IsPatched(rom, patch) ==
  \A r \in ToSet(Parse(patch)) :
    r.offset + r.length <= Len(rom) /\ Slice(rom, r.offset, r.length) = r.data

\* expected: a set of <<offset, bytes>>, at most one for each offset.
\* Mutant: an offset the manifest does not know is not a mismatch.
MismatchesKnownOnly(rom, patch, expected) ==
  {r \in ToSet(Parse(patch)) :
     \E e \in expected : e[1] = r.offset /\ Slice(rom, r.offset, r.length) # e[2]}
Mismatches(rom, patch, expected) ==
  {r \in ToSet(Parse(patch)) :
     ~ \E e \in expected : e[1] = r.offset /\ Slice(rom, r.offset, r.length) = e[2]}

ApplyValidated(rom, patch, expected) ==
  IF Mismatches(rom, patch, expected) = {} THEN Apply(rom, patch) ELSE Error

-----------------------------------------------------------------------------
(* ips_build.py *)

Differs(orig, modified, o) == o >= Len(orig) \/ modified[o + 1] # orig[o + 1]

\* The maximal runs of differing bytes, in the order of their offsets.
DiffRuns(orig, modified) ==
  LET n == Len(modified)
      D(o) == o \in 0 .. n - 1 /\ Differs(orig, modified, o)
      starts == {o \in 0 .. n - 1 : D(o) /\ ~D(o - 1)}
      End(o) == CHOOSE e \in o .. n : ~D(e) /\ \A k \in o .. e - 1 : D(k)
      Nth(i) == CHOOSE o \in starts : Cardinality({p \in starts : p < o}) = i - 1
  IN [i \in 1 .. Cardinality(starts) |-> Raw(Nth(i), SubSeq(modified, Nth(i) + 1, End(Nth(i))))]

\* Chunks of at most MaxLen bytes, each run-length encoded if it is one long run.
EncodeRecord(r) ==
  [k \in 1 .. (r.length + MaxLen - 1) \div MaxLen |->
     LET chunk == Slice(r.data, (k - 1) * MaxLen, MaxLen)
         offset == r.offset + (k - 1) * MaxLen
     IN IF Len(chunk) >= RleMin /\ \A i \in DOMAIN chunk : chunk[i] = chunk[1]
        THEN Rle(offset, Len(chunk), chunk[1])
        ELSE Raw(offset, chunk)]

\* A shrinking ROM and a record at EOF_OFFSET raise ValueError.
MakeIps(original, modified) ==
  LET runs == DiffRuns(original, modified)
      records == FlattenSeq([i \in DOMAIN runs |-> EncodeRecord(runs[i])])
  IN IF Len(modified) < Len(original) \/ \E i \in DOMAIN records : records[i].offset = EofOffset
     THEN Error
     ELSE Append(records, Trailer)
=============================================================================
