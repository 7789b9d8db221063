---------------------------- MODULE RelaySession ----------------------------
(***************************************************************************)
(* What a session code promises its users, without sockets and tasks: a    *)
(* slot per code, and in it the peer_ids the relay would pair.             *)
(***************************************************************************)
EXTENDS Naturals, FiniteSets

CONSTANTS PeerIds, Codes, MaxPairs

VARIABLE slot   \* code -> what is registered under it

Free == [state |-> "FREE", peers |-> {}]

InUse == {k \in Codes : slot[k] # Free}

SlotInit == slot = [k \in Codes |-> Free]

\* The first peer takes a free slot, if the relay is not full.
Open(k, p) ==
  /\ slot[k] = Free
  /\ Cardinality(InUse) < MaxPairs
  /\ slot' = [slot EXCEPT ![k] = [state |-> "WAITING", peers |-> {p}]]

\* A second, different peer completes the pair: it is the partner that was
\* waited for, or one taking the place of a partner that dropped.
Complete(k, p) ==
  /\ slot[k].state \in {"WAITING", "HALF_BROKEN"}
  /\ p \notin slot[k].peers
  /\ slot' = [slot EXCEPT ![k] = [state |-> "PAIRED", peers |-> slot[k].peers \cup {p}]]

\* One of the two drops; the slot is held for the other.
Break(k, p) ==
  /\ slot[k].state = "PAIRED"
  /\ p \in slot[k].peers
  /\ slot' = [slot EXCEPT ![k] = [state |-> "HALF_BROKEN", peers |-> slot[k].peers \ {p}]]

Vacate(k) ==
  /\ slot[k] # Free
  /\ slot' = [slot EXCEPT ![k] = Free]

SlotNext == \E k \in Codes :
  \/ \E p \in PeerIds : Open(k, p) \/ Complete(k, p) \/ Break(k, p)
  \/ Vacate(k)

SlotSpec == SlotInit /\ [][SlotNext]_slot
=============================================================================
