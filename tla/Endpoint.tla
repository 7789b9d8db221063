----------------------------- MODULE Endpoint -----------------------------
(***************************************************************************)
(* session_worker._open_endpoint: a session talks to one device, chosen by *)
(* its configuration, through read_ranges, read_byte and write_pairs.      *)
(***************************************************************************)
EXTENDS Mister, CrowdControl

VARIABLE device

vars == <<misterVars, ccVars, device>>

TypeOK == device \in {"mister", "edn8"} /\ MisterTypeOK /\ CcTypeOK

Init == MisterInit /\ CcInit /\ device \in {"mister", "edn8"}

Next ==
  /\ UNCHANGED device
  /\ \/ device = "mister" /\ MisterNext /\ UNCHANGED ccVars
     \/ device = "edn8" /\ CcNext /\ UNCHANGED misterVars

Spec == Init /\ [][Next]_vars
=============================================================================
