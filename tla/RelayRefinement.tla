-------------------------- MODULE RelayRefinement --------------------------
(* The relay's session table implements one slot per code, within capacity. *)
EXTENDS RelayProofs, FiniteSetTheorems

\* The one-line abbreviations of Relay.
USE DEF AwaitDone, StartTimer, StopTimer, Enter, Lookup, HasRoom, Routes

FreeSlot == [state |-> "FREE", peers |-> {}]
SlotOf(s) == [state |-> state[s], peers |-> Keys(peers[s])]

\* The slot that a code maps to, in terms of _sessions.
LEMMA SlotValue ==
  ASSUME NEW k \in Codes
  PROVE  Slot[k] = IF sessions[k] = None THEN FreeSlot ELSE SlotOf(sessions[k])
BY DEF Slot, FreeSlot, SlotOf, Members

\* A slot is free exactly when its code is not in _sessions.
LEMMA SlotFree ==
  ASSUME TypeOK, NEW k \in Codes
  PROVE  Slot[k] = FreeSlot <=> sessions[k] = None
<1>1. ASSUME sessions[k] # None PROVE SlotOf(sessions[k]) # FreeSlot
  <2>1. state[sessions[k]] # "FREE"
    BY <1>1, ZenonT(60) DEF TypeOK, Conn
  <2> QED  BY <2>1 DEF SlotOf, FreeSlot
<1> QED  BY <1>1, SlotValue

\* The slots only see the registered sessions.
LEMMA SlotStutter ==
  ASSUME TypeOK, sessions' = sessions,
         \A k \in Codes : sessions[k] # None =>
           /\ state'[sessions[k]] = state[sessions[k]]
           /\ Keys(peers'[sessions[k]]) = Keys(peers[sessions[k]])
  PROVE  Slot' = Slot
BY DEF Slot, Members

\* A step that changes one slot.
LEMMA SlotChange ==
  ASSUME TypeOK, NEW k \in Codes, NEW s, NEW st, NEW ps, s # None,
         sessions'[k] = s, state'[s] = st, Keys(peers'[s]) = ps,
         \A j \in Codes \ {k} :
           /\ sessions'[j] = sessions[j]
           /\ sessions[j] # None =>
                /\ state'[sessions[j]] = state[sessions[j]]
                /\ Keys(peers'[sessions[j]]) = Keys(peers[sessions[j]])
  PROVE  Slot' = [Slot EXCEPT ![k] = [state |-> st, peers |-> ps]]
<1>1. Slot' = [Slot EXCEPT ![k] = [state |-> state'[sessions'[k]],
                                   peers |-> Keys(peers'[sessions'[k]])]]
  BY ZenonT(60) DEF Slot, Members
<1> QED  BY <1>1

\* _sessions.pop(code) vacates a slot, or changes nothing if it was free.
LEMMA SlotVacated ==
  ASSUME TypeOK, NEW k \in Codes, sessions' = [sessions EXCEPT ![k] = None],
         \A j \in Codes \ {k} : sessions[j] # None =>
           /\ state'[sessions[j]] = state[sessions[j]]
           /\ Keys(peers'[sessions[j]]) = Keys(peers[sessions[j]])
  PROVE  Slot' = Slot \/ Abs!Vacate(k)
<1>1. Slot' = [Slot EXCEPT ![k] = FreeSlot]
  BY DEF Slot, Members, FreeSlot, TypeOK
<1>2. CASE sessions[k] = None
  <2>1. Slot[k] = FreeSlot
    BY <1>2, SlotFree
  <2>2. [Slot EXCEPT ![k] = FreeSlot] = Slot
    BY <2>1 DEF Slot
  <2> QED  BY <1>1, <2>2
<1>3. CASE sessions[k] # None
  <2>1. Slot[k] # FreeSlot
    BY <1>3, SlotFree
  <2> QED  BY <1>1, <2>1 DEF Abs!Vacate, Abs!Free, FreeSlot
<1> QED  BY <1>2, <1>3

\* The slots in use are the codes in _sessions.
LEMMA InUseRegistered == TypeOK => Abs!InUse = Registered
BY SlotFree DEF Abs!InUse, Abs!Free, FreeSlot, Registered

-----------------------------------------------------------------------------
\* Every step of the relay is a step of one slot, or of none.
LEMMA SlotStep ==
  ASSUME FullInv, NEW c \in Conns,
         HandleClient(c) \/ Watch(c) \/ Forward(c) \/ Timer(c) \/ Client(c)
  PROVE  Abs!SlotNext \/ Slot' = Slot
<1>0. /\ TypeOK /\ SessionShape /\ HandlerOK(c)
      /\ pc[c] = "accepted" => state[c] = "NEW" /\ pid[c] \in PeerIds /\ Keys(peers[c]) = {}
  BY DEF FullInv, Inv, HandlerInv, HandlerOK, FreshInv, Members, TypeOK
<1>r. \A k \in Codes : sessions[k] # None =>
        /\ sessions[k] \in Conns /\ code[sessions[k]] = k /\ state[sessions[k]] # "NEW"
  BY <1>0 DEF SessionShape, TypeOK, Conn
<1>1. CASE JoinNew(c)
  <2> DEFINE k == code[c]
  <2>1. /\ k \in Codes /\ sessions[k] = None /\ sessions' = [sessions EXCEPT ![k] = c]
        /\ state' = [state EXCEPT ![c] = "WAITING"] /\ pid[c] \in PeerIds
    BY <1>0, <1>1 DEF JoinNew, TypeOK
  <2>2. /\ Keys(peers'[c]) = Keys(peers[c]) \cup {pid[c]}
        /\ \A t \in Conns \ {c} : Keys(peers'[t]) = Keys(peers[t])
    BY <1>0, <1>1, <2>1, EnterMembers, RelayAssumption DEF JoinNew
  <2>3. Keys(peers'[c]) = {pid[c]}
    BY <1>0, <1>1, <2>2 DEF JoinNew
  <2>4. sessions'[k] = c /\ c # None /\ state'[c] = "WAITING"
    BY <1>0, <2>1, RelayAssumption DEF TypeOK
  <2>5. \A j \in Codes \ {k} :
          /\ sessions'[j] = sessions[j]
          /\ sessions[j] # None =>
               /\ state'[sessions[j]] = state[sessions[j]]
               /\ Keys(peers'[sessions[j]]) = Keys(peers[sessions[j]])
    BY <1>0, <1>1, <1>r, <2>1, <2>2 DEF JoinNew, TypeOK
  <2>6. Slot' = [Slot EXCEPT ![k] = [state |-> "WAITING", peers |-> {pid[c]}]]
    <3> HIDE DEF k
    <3> QED  BY <1>0, <2>1, <2>3, <2>4, <2>5, SlotChange
  <2>7. Slot[k] = FreeSlot
    BY <1>0, <2>1, SlotFree
  <2>8. Cardinality(Abs!InUse) < MaxPairs
    BY <1>0, <1>1, InUseRegistered DEF JoinNew
  <2>a. Abs!Cardinality(Abs!InUse) = Cardinality(Abs!InUse)
    BY DEF Abs!Cardinality, Cardinality
  <2>9. Abs!Open(k, pid[c])
    <3> HIDE DEF k
    <3> QED  BY <2>6, <2>7, <2>8, <2>a DEF Abs!Open, Abs!Free, FreeSlot
  <2> QED  BY <2>1, <2>9 DEF Abs!SlotNext
<1>2. ASSUME NEW s \in Conns,
             JoinReplaceWaiting(c, s) \/ JoinSwapPaired(c, s) \/ JoinSurvivor(c, s)
      PROVE  Slot' = Slot
  <2>1. /\ pc[c] = "accepted" /\ pid[c] \in Keys(peers[s])
        /\ peers' = [peers EXCEPT ![s][pid[c]] = c] /\ UNCHANGED <<sessions, state>>
    BY <1>2 DEF JoinReplaceWaiting, JoinSwapPaired, JoinSurvivor, Finds, Enter, Members
  <2>2. /\ Keys(peers'[s]) = Keys(peers[s]) \cup {pid[c]}
        /\ \A t \in Conns \ {s} : Keys(peers'[t]) = Keys(peers[t])
    BY <1>0, <2>1, EnterMembers, RelayAssumption
  <2>3. \A t \in Conns : Keys(peers'[t]) = Keys(peers[t])
    BY <2>1, <2>2
  <2> QED  BY <1>0, <1>r, <2>1, <2>3, SlotStutter
<1>3. ASSUME NEW s \in Conns, JoinPair(c, s) \/ JoinHalfBroken(c, s)
      PROVE  Abs!SlotNext
  <2> DEFINE k == code[c]
  <2>1. /\ pc[c] = "accepted" /\ k \in Codes /\ sessions[k] = s /\ sessions' = sessions
        /\ state[s] \in {"WAITING", "HALF_BROKEN"} /\ pid[c] \notin Keys(peers[s])
        /\ state' = [state EXCEPT ![s] = "PAIRED"]
        /\ peers' = [peers EXCEPT ![s][pid[c]] = c]
    BY <1>0, <1>3 DEF JoinPair, JoinHalfBroken, Finds, Enter, Members, TypeOK
  <2>2. /\ Keys(peers'[s]) = Keys(peers[s]) \cup {pid[c]}
        /\ \A t \in Conns \ {s} : Keys(peers'[t]) = Keys(peers[t])
    BY <1>0, <2>1, EnterMembers, RelayAssumption
  <2>3. \A j \in Codes \ {k} :
          /\ sessions'[j] = sessions[j]
          /\ sessions[j] # None =>
               /\ state'[sessions[j]] = state[sessions[j]]
               /\ Keys(peers'[sessions[j]]) = Keys(peers[sessions[j]])
    BY <1>0, <1>r, <2>1, <2>2, RelayAssumption DEF TypeOK
  <2>4. s # None /\ state'[s] = "PAIRED"
    BY <1>0, <2>1, RelayAssumption DEF TypeOK
  <2>5. Slot' = [Slot EXCEPT ![k] = [state |-> "PAIRED",
                                     peers |-> Keys(peers[s]) \cup {pid[c]}]]
    BY <1>0, <2>1, <2>2, <2>3, <2>4, SlotChange, SMTT(40)
  <2>6. Slot[k] = [state |-> state[s], peers |-> Keys(peers[s])]
    BY <2>1, <2>4, SlotValue DEF SlotOf
  <2>7. Abs!Complete(k, pid[c])
    BY <2>1, <2>5, <2>6 DEF Abs!Complete
  <2> QED  BY <1>0, <2>1, <2>7 DEF Abs!SlotNext
<1>4. CASE DisconnectWaiting(c)
  <2>1. /\ hsess[c] \in Conns /\ code[c] \in Codes /\ code[hsess[c]] = code[c] /\ Leave(c)
        /\ sessions' = [sessions EXCEPT ![code[c]] = None] /\ state' = state
    BY <1>0, <1>4 DEF DisconnectWaiting, Wakes, HandlerOK, TypeOK, Conn
  <2>2. \A t \in Conns \ {hsess[c]} : Keys(peers'[t]) = Keys(peers[t])
    BY <1>0, <2>1, LeaveMembers
  <2>3. Slot' = Slot \/ Abs!Vacate(code[c])
    BY <1>0, <1>r, <2>1, <2>2, SlotVacated
  <2> QED  BY <2>1, <2>3 DEF Abs!SlotNext
<1>5. CASE DisconnectPaired(c)
  <2> DEFINE s == hsess[c]
             k == code[c]
  <2>1. /\ s \in Conns /\ k \in Codes /\ code[s] = k /\ Leave(c)
        /\ state[s] = "PAIRED" /\ pid[c] \in PeerIds /\ peers[s][pid[c]] = c
        /\ sessions' = sessions /\ state' = [state EXCEPT ![s] = "HALF_BROKEN"]
    BY <1>0, <1>5 DEF DisconnectPaired, Wakes, IsCurrent, HandlerOK, TypeOK, Conn
  <2>2. /\ Keys(peers'[s]) = Keys(peers[s]) \ {pid[c]}
        /\ \A t \in Conns \ {s} : Keys(peers'[t]) = Keys(peers[t])
    BY <1>0, <2>1, LeaveMembers
  <2>3. pid[c] \in Keys(peers[s])
    BY <2>1, RelayAssumption DEF Keys
  <2>4. CASE sessions[k] = s
    <3>1. s # None /\ state'[s] = "HALF_BROKEN"
      BY <1>0, <2>1, RelayAssumption DEF TypeOK
    <3>2. \A j \in Codes \ {k} :
            /\ sessions'[j] = sessions[j]
            /\ sessions[j] # None =>
                 /\ state'[sessions[j]] = state[sessions[j]]
                 /\ Keys(peers'[sessions[j]]) = Keys(peers[sessions[j]])
      BY <1>0, <1>r, <2>1, <2>2 DEF TypeOK
    <3>3. Slot' = [Slot EXCEPT ![k] = [state |-> "HALF_BROKEN",
                                       peers |-> Keys(peers[s]) \ {pid[c]}]]
      <4> HIDE DEF s, k
      <4> QED  BY <1>0, <2>1, <2>2, <2>4, <3>1, <3>2, SlotChange
    <3>4. Slot[k] = [state |-> "PAIRED", peers |-> Keys(peers[s])]
      BY <2>1, <2>4, <3>1, SlotValue DEF SlotOf
    <3>5. Abs!Break(k, pid[c])
      BY <2>3, <3>3, <3>4 DEF Abs!Break
    <3> QED  BY <2>1, <3>5 DEF Abs!SlotNext
  <2>5. CASE sessions[k] # s
    <3>1. \A j \in Codes : sessions[j] # s
      BY <1>r, <2>1, <2>5, RelayAssumption
    <3> QED  BY <1>0, <1>r, <2>1, <2>2, <3>1, SlotStutter DEF TypeOK
  <2> QED  BY <2>4, <2>5
<1>6. CASE TimerPops(c)
  <2>1. code[c] \in Codes /\ sessions' = [sessions EXCEPT ![code[c]] = None]
    BY <1>0, <1>6 DEF TimerPops, FullInv, Inv, FreshInv, TypeOK
  <2>2. Slot' = Slot \/ Abs!Vacate(code[c])
    BY <1>0, <1>6, <2>1, SlotVacated DEF TimerPops
  <2> QED  BY <2>1, <2>2 DEF Abs!SlotNext
<1>7. CASE UNCHANGED <<sessions, state, peers>>
  BY <1>0, <1>7, SlotStutter
<1>8. CASE \/ CloseSilently(c) \/ RejectJoin(c) \/ JoinRelayFull(c) \/ JoinCodeInUse(c)
           \/ FinishPair(c) \/ PairFails(c) \/ FinishRejoin(c) \/ DisconnectReplaced(c)
           \/ FinishSurvivor(c) \/ DisconnectHalfBroken(c)
  <2>1. UNCHANGED <<sessions, state, peers>>
    BY <1>8 DEF CloseSilently, RejectJoin, JoinRelayFull, JoinCodeInUse, FinishPair,
       PairFails, FinishRejoin, DisconnectReplaced, FinishSurvivor, DisconnectHalfBroken,
       AbortClose, sessVars
  <2> QED  BY <1>7, <2>1
<1>9. CASE Watch(c) \/ Forward(c) \/ TimerFires(c) \/ Client(c)
  <2>1. UNCHANGED <<sessions, state, peers>>
    BY <1>9 DEF Watch, Forward, WatcherDiscards, WatcherEof, ForwardFrame,
       ForwardWriteFails, ForwardEnds, TimerFires, Client, Connect, ClientSends, ClientGone,
       sessVars
  <2> QED  BY <1>7, <2>1
<1> QED  BY <1>1, <1>2, <1>3, <1>4, <1>5, <1>6, <1>8, <1>9 DEF HandleClient, Timer

\* An empty _sessions is a table of free slots.
LEMMA SlotInitial == Init => Abs!SlotInit
BY DEF Init, Abs!SlotInit, Abs!Free, Slot

\* The session table implements one slot per code: whatever sockets, handlers
\* and timers do, a code is opened, completed, broken and vacated by one peer_id
\* at a time.
THEOREM SlotsImplemented == Spec => ImplementsSlots
<1>1. FullInv /\ [Next]_vars => [Abs!SlotNext]_Slot
  <2>1. FullInv /\ UNCHANGED vars => Slot' = Slot
    BY DEF Slot, Members, vars, sessVars
  <2> QED  BY <2>1, SlotStep DEF Next
<1> QED  BY <1>1, SlotInitial, InvHolds, PTL DEF Spec, ImplementsSlots, Abs!SlotSpec

-----------------------------------------------------------------------------
\* What a step does to the table: at most one code more, and that only below
\* MAX_PAIRS.
LEMMA CapacityStep ==
  ASSUME TypeOK, WithinCapacity, NEW c \in Conns,
         HandleClient(c) \/ Watch(c) \/ Forward(c) \/ Timer(c) \/ Client(c)
  PROVE  WithinCapacity'
<1>f. IsFiniteSet(Registered) /\ Cardinality(Registered) \in Nat
  BY RelayAssumption, FS_Subset, FS_CardinalityType DEF Registered
<1>1. CASE JoinNew(c)
  <2>1. Registered' = Registered \cup {code[c]} /\ code[c] \notin Registered
    BY <1>1, RelayAssumption DEF JoinNew, Registered, TypeOK
  <2>2. Cardinality(Registered') = Cardinality(Registered) + 1
    BY <1>f, <2>1, FS_AddElement
  <2>3. Cardinality(Registered) < MaxPairs
    BY <1>1 DEF JoinNew
  <2> QED  BY <1>f, <2>2, <2>3, RelayAssumption DEF WithinCapacity
<1>2. CASE Registered' \subseteq Registered
  <2>1. Cardinality(Registered') <= Cardinality(Registered)
    BY <1>f, <1>2, FS_Subset
  <2>2. Cardinality(Registered') \in Nat
    BY <1>f, <1>2, FS_Subset, FS_CardinalityType
  <2> QED  BY <1>f, <2>1, <2>2, RelayAssumption DEF WithinCapacity
<1>3. CASE DisconnectWaiting(c) \/ TimerPops(c)
  <2>1. Registered' \subseteq Registered
    BY <1>3 DEF DisconnectWaiting, TimerPops, Registered, TypeOK
  <2> QED  BY <1>2, <2>1
<1>4. CASE sessions' = sessions
  BY <1>2, <1>4 DEF Registered
<1>5. ASSUME NEW s \in Conns,
             \/ JoinReplaceWaiting(c, s) \/ JoinPair(c, s) \/ JoinSwapPaired(c, s)
             \/ JoinSurvivor(c, s) \/ JoinHalfBroken(c, s)
      PROVE  sessions' = sessions
  BY <1>5 DEF JoinReplaceWaiting, JoinPair, JoinSwapPaired, JoinSurvivor, JoinHalfBroken
<1>6. CASE \/ CloseSilently(c) \/ RejectJoin(c) \/ JoinRelayFull(c) \/ JoinCodeInUse(c)
           \/ FinishPair(c) \/ PairFails(c) \/ FinishRejoin(c) \/ DisconnectReplaced(c)
           \/ DisconnectPaired(c) \/ FinishSurvivor(c) \/ DisconnectHalfBroken(c)
  <2>1. sessions' = sessions
    BY <1>6 DEF CloseSilently, RejectJoin, JoinRelayFull, JoinCodeInUse, FinishPair,
       PairFails, FinishRejoin, DisconnectReplaced, DisconnectPaired, FinishSurvivor,
       DisconnectHalfBroken, AbortClose, sessVars
  <2> QED  BY <1>4, <2>1
<1>7. CASE Watch(c) \/ Forward(c) \/ TimerFires(c) \/ Client(c)
  <2>1. sessions' = sessions
    BY <1>7 DEF Watch, Forward, WatcherDiscards, WatcherEof, ForwardFrame,
       ForwardWriteFails, ForwardEnds, TimerFires, Client, Connect, ClientSends, ClientGone,
       sessVars
  <2> QED  BY <1>4, <2>1
<1> QED  BY <1>1, <1>3, <1>4, <1>5, <1>6, <1>7 DEF HandleClient, Timer

\* _sessions never exceeds MAX_PAIRS.
THEOREM CapacityKept == Spec => []WithinCapacity
<1>1. Init => WithinCapacity
  <2>1. Init => Registered = {}
    BY DEF Init, Registered
  <2> QED  BY <2>1, FS_EmptySet, RelayAssumption DEF WithinCapacity
<1>2. FullInv /\ WithinCapacity /\ [Next]_vars => WithinCapacity'
  <2>1. FullInv /\ WithinCapacity /\ UNCHANGED vars => WithinCapacity'
    BY DEF WithinCapacity, Registered, vars, sessVars
  <2> QED  BY <2>1, CapacityStep DEF Next, FullInv, Inv
<1> QED  BY <1>1, <1>2, InvHolds, PTL DEF Spec
=============================================================================
