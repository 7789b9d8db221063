---------------------------- MODULE MCEndpoint ----------------------------
(* An instance of EndpointProps; endpoints.cfg gives the other constants. *)
EXTENDS EndpointProps

CONSTANTS ram1, ram2

\* The helper treats its connections alike.
Symmetry == Permutations(Clients)

MCReads == {<<>>, <<ram1, ram2>>}
MCWrites == {<<>>, <<<<Rom, 1>>>>, <<<<ram1, 1>>>>, <<<<ram2, 1>>, <<ram2, 0>>>>}

\* One address, one range, and two ranges of which the second needs its own frame.
MCReadCalls ==
  {[action |-> READ_ADDRS, parts |-> <<<<2>>>>],
   [action |-> READ_ARRAY, parts |-> <<<<1, 2>>>>],
   [action |-> READ_ARRAY, parts |-> <<<<2, 1>>, <<2>>>>]}
MCWriteCalls == {<<<<1, 165>>>>, <<<<1, 32>>, <<2, 2>>>>, <<<<2, 165>>>>}
=============================================================================
