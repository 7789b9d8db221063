--------------------------- MODULE RecordChanged ---------------------------
(***************************************************************************)
(* record_changed of bridge_core/sync_engine.py: whether a change of one   *)
(* address is sent (receiving = FALSE) or applied (TRUE), and with what    *)
(* value.  A bit field is the set of its bits, a heart byte the pair of    *)
(* its nibbles, other values are numbers.  Addresses of one byte only, as  *)
(* in the mode tables; no record of these has a cond.                      *)
(***************************************************************************)
EXTENDS Integers, Sequences

CONSTANTS
  Order,       \* the addresses of SYNC, in order
  OrAddrs, HighAddrs, DeltaAddrs, HeartAddrs,  \* by kind
  Bits,        \* bits of a bit field
  Masked,      \* the OrAddrs with a mask
  Mask,        \* their mask
  MaxHigh,     \* largest plausible value of a high record
  MaxCount,    \* 255, or 15 for a nibble, scaled down
  Bombs        \* the DeltaAddrs with deltaMin, deltaMax and ignoreZeroBoundary

Addrs == {Order[n] : n \in DOMAIN Order}

ASSUME RecordAssumption ==
  /\ Order \in Seq(OrAddrs \cup HighAddrs \cup DeltaAddrs \cup HeartAddrs)
  /\ OrAddrs \cap HighAddrs = {} /\ (OrAddrs \cup HighAddrs) \cap DeltaAddrs = {}
  /\ (OrAddrs \cup HighAddrs \cup DeltaAddrs) \cap HeartAddrs = {}
  /\ Mask \subseteq Bits /\ Bombs \subseteq DeltaAddrs
  /\ MaxHigh \in Nat /\ MaxCount \in Nat \ {0}

\* What RAM may hold at an address; a high record may show one implausible value.
Value(a) == CASE a \in OrAddrs -> SUBSET Bits
              [] a \in HighAddrs -> 0 .. MaxHigh + 1
              [] a \in HeartAddrs -> [containers : 0 .. MaxCount, filled : 0 .. MaxCount]
              [] OTHER -> 0 .. MaxCount

Zero(a) == CASE a \in OrAddrs -> {}
             [] a \in HeartAddrs -> [containers |-> 0, filled |-> 0]
             [] OTHER -> 0

\* Mutant: the bound is one too large.
ImplausibleLoose(a, v) == a \in HighAddrs /\ v > MaxHigh + 1
Implausible(a, v) == a \in HighAddrs /\ v > MaxHigh

MaskOf(a) == IF a \in Masked THEN Mask ELSE Bits

\* masked_value: the bits outside the mask are those of the previous value.
MaskedValue(a, v, prev) == (v \cap MaskOf(a)) \cup (prev \ MaskOf(a))

OrChanged(a, v, prev, receiving) ==
  LET m == MaskedValue(a, v, prev)
  IN [allow |-> m # prev, value |-> IF receiving THEN m \cup prev ELSE m]

HighChanged(v, prev) == [allow |-> v > prev, value |-> v]

\* Mutant: only deltaMin is applied.
ClampBelow(a, n) == IF n < 1 THEN 1 ELSE n

\* deltaMin and deltaMax, then `& 0xFF`.
Clamp(a, n) ==
  IF a \in Bombs THEN IF n < 1 THEN 1 ELSE IF n > MaxCount THEN MaxCount ELSE n
  ELSE IF n < 0 THEN 0 ELSE n % (MaxCount + 1)

\* ignoreZeroBoundary: a step from or to zero is a reset, not a purchase.
SuppressedDelta(a, v, prev) == a \in Bombs /\ (v = 0 \/ prev = 0)

DeltaChanged(a, v, prev, receiving) ==
  IF receiving THEN [allow |-> v # 0, value |-> Clamp(a, prev + v)]
  ELSE [allow |-> v # prev /\ ~SuppressedDelta(a, v, prev), value |-> v - prev]

\* Mutant: hearts are kept when containers are lost.
NewFilledKept(v, prev) ==
  IF v.containers > prev.containers
  THEN (prev.filled + (v.containers - prev.containers)) % (MaxCount + 1)
  ELSE prev.filled
\* The low nibble of _heart_kind: new containers come filled, lost ones empty.
NewFilled(v, prev) ==
  IF v.containers > prev.containers
  THEN (prev.filled + (v.containers - prev.containers)) % (MaxCount + 1)
  ELSE IF prev.filled < v.containers THEN prev.filled ELSE v.containers

\* _heart_kind: a received container count is taken over as it is.
HeartChanged(v, prev, receiving) ==
  IF receiving
  THEN [allow |-> TRUE, value |-> [containers |-> v.containers, filled |-> NewFilled(v, prev)]]
  ELSE [allow |-> v.containers # prev.containers, value |-> v]

Changed(a, v, prev, receiving) ==
  CASE a \in OrAddrs -> OrChanged(a, v, prev, receiving)
    [] a \in HighAddrs -> HighChanged(v, prev)
    [] a \in HeartAddrs -> HeartChanged(v, prev, receiving)
    [] OTHER -> DeltaChanged(a, v, prev, receiving)
=============================================================================
