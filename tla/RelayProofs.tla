---------------------------- MODULE RelayProofs ----------------------------
(* Theorems about the relay, for any number of sockets, peers and codes. *)
EXTENDS RelayProps, TLAPS

\* The one-line abbreviations of Relay.
USE DEF AwaitDone, StartTimer, StopTimer, Enter, Lookup, HasRoom, Routes

\* A written frame keeps the output streams well formed.
LEMMA PutType ==
  ASSUME NEW t \in [Conns -> Seq(Frame)], NEW c,
         NEW kind \in {"joined", "partner-reconnected", "abort"} \cup Payload,
         NEW from \in Conns \cup {None}
  PROVE  Put(t, c, kind, from) \in [Conns -> Seq(Frame)]
<1>1. [kind |-> kind, from |-> from] \in Frame
  BY DEF Frame
<1>2. \A s \in Seq(Frame) : Append(s, [kind |-> kind, from |-> from]) \in Seq(Frame)
  BY <1>1
<1> QED  BY <1>2 DEF Put

\* Cancelling tasks yields tasks.
LEMMA CancelType ==
  /\ \A t \in [Conns -> {"none", "run", "ended"}] : \A cs :
       Cancelled(t, cs) \in [Conns -> {"none", "run", "ended"}]
  /\ \A t \in [Conns -> {"none", "run", "ended", "wfail"}] : \A cs :
       Cancelled(t, cs) \in [Conns -> {"none", "run", "ended", "wfail"}]
BY DEF Cancelled

\* So does starting forwarders.
LEMMA StartType ==
  ASSUME TypeOK, NEW cs \in SUBSET Conns, NEW to, \A c \in cs : to[c] \in Conn,
         StartForwarding(cs, to)
  PROVE  /\ fwd' \in [Conns -> {"none", "run", "ended", "wfail"}]
         /\ dst' \in [Conns -> Conn]
         /\ done' \subseteq Conns
BY DEF TypeOK, StartForwarding

\* The members of a session are sockets.
LEMMA MembersType ==
  ASSUME TypeOK, NEW s \in Conns
  PROVE  /\ \A p \in Members(s) : p \in PeerIds /\ peers[s][p] \in Conns
         /\ MemberConns(s) \subseteq Conns
<1>1. \A p \in Members(s) : p \in PeerIds /\ peers[s][p] \in Conns
  BY DEF TypeOK, Members, Keys, Conn
<1> QED  BY <1>1 DEF MemberConns

\* What entering and leaving sess.peers does.
LEMMA PeersUpdate ==
  ASSUME TypeOK, NEW s \in Conns, NEW p, NEW v \in Conn
  PROVE  /\ [peers EXCEPT ![s][p] = v] \in [Conns -> [PeerIds -> Conn]]
         /\ \A t \in Conns, q \in PeerIds :
              [peers EXCEPT ![s][p] = v][t][q] = IF t = s /\ q = p THEN v ELSE peers[t][q]
<1>1. peers \in [Conns -> [PeerIds -> Conn]]
  BY DEF TypeOK
<1>2. peers[s] \in [PeerIds -> Conn]
  BY <1>1
<1>3. [peers[s] EXCEPT ![p] = v] \in [PeerIds -> Conn]
  BY <1>2
<1>4. [peers EXCEPT ![s] = [peers[s] EXCEPT ![p] = v]] \in [Conns -> [PeerIds -> Conn]]
  BY <1>1, <1>3
<1>5. \A t \in Conns, q \in PeerIds :
        [peers EXCEPT ![s] = [peers[s] EXCEPT ![p] = v]][t][q]
          = IF t = s /\ q = p THEN v ELSE peers[t][q]
  BY <1>1, <1>2, <1>3
<1> QED  BY <1>4, <1>5

-----------------------------------------------------------------------------
\* Two sockets that joined with the same code under different peer_ids.
Linked(c, d) ==
  pc[c] # "idle" /\ pc[d] # "idle" /\ code[c] = code[d] /\ pid[c] # pid[d]

\* Every socket and session a handler works with exists by the time it is used.
HandlerOK(c) ==
  /\ pc[c] # "idle" => pid[c] # None
  /\ pc[c] \in {"pairing", "notify", "waiting", "survivor"}
       => /\ hsess[c] # None /\ code[c] # None
          /\ code[hsess[c]] = code[c]
          /\ state[hsess[c]] # "NEW"
  /\ pc[c] = "survivor" => other[c] # None
  /\ pc[c] = "notify" => other[c] # None /\ Linked(c, other[c])
HandlerInv == \A c \in Conns : HandlerOK(c)

\* A session is created by the first join of its socket.
FreshInv == \A s \in Conns :
  /\ pc[s] \in {"idle", "accepted"} => state[s] = "NEW"
  /\ state[s] = "NEW" => Members(s) = {} /\ timer[s] = "none"
  /\ state[s] # "NEW" => code[s] # None

\* sess.peers files a socket under the peer_id and the code of its join.
MemberInv == \A s \in Conns, p \in PeerIds : peers[s][p] # None =>
  /\ pid[peers[s][p]] = p
  /\ code[peers[s][p]] = code[s]
  /\ pc[peers[s][p]] # "idle"

\* The sockets whose frames were written to x.
Sources(t, x) == {t[x][i].from : i \in DOMAIN t[x]}

\* Forwarders and the frames they wrote link partners.
RouteInv == \A c \in Conns :
  /\ fwd[c] = "run" => dst[c] # None /\ Linked(c, dst[c])
  /\ \A f \in Sources(tx, c) : f # None => Linked(c, f)

Inv == TypeOK /\ HandlerInv /\ FreshInv /\ SessionShape /\ TimerArmed

-----------------------------------------------------------------------------
\* Before the first connection the state of server.py is well typed.
LEMMA InitType == Init => TypeOK
BY RelayAssumption DEF Init, TypeOK, Conn, Frame

\* send_abort_close keeps the state well typed.
LEMMA AbortCloseType ==
  ASSUME TypeOK, NEW c \in Conns, AbortClose(c)
  PROVE  TypeOK'
<1>1. tx' \in [Conns -> Seq(Frame)]
  BY PutType DEF TypeOK, AbortClose
<1> QED  BY <1>1 DEF TypeOK, AbortClose, Goto, sessVars, joinVars, taskVars

\* The join branches of handle_client that find a session keep it well typed.
LEMMA JoinType ==
  ASSUME TypeOK, NEW c \in Conns, NEW s \in Conns,
         \/ JoinReplaceWaiting(c, s) \/ JoinPair(c, s) \/ JoinSwapPaired(c, s)
         \/ JoinSurvivor(c, s) \/ JoinHalfBroken(c, s)
  PROVE  TypeOK'
<1>0. \A p \in Members(s) : p \in PeerIds /\ peers[s][p] \in Conns
  BY MembersType
<1>m. MemberConns(s) \subseteq Conns
  BY MembersType
<1>e. Enter(c, s) => peers' \in [Conns -> [PeerIds -> Conn]]
  BY PeersUpdate DEF Enter, Conn
<1>h. \A st : Finds(c, s, st, TRUE) \/ Finds(c, s, st, FALSE)
                => hsess' = [hsess EXCEPT ![c] = s]
  BY DEF Finds
<1>g. (hsess' = [hsess EXCEPT ![c] = s]) => hsess' \in [Conns -> Conn]
  BY DEF TypeOK, Conn
<1>f. \A st : Finds(c, s, st, TRUE) => peers[s][pid[c]] \in Conns
  BY <1>0 DEF Finds
<1>t. \A w : [Cancelled(watcher, w) EXCEPT ![c] = "run"] \in [Conns -> {"none", "run", "ended"}]
  BY CancelType DEF TypeOK
<1>u. \A x : [watcher EXCEPT ![x] = "none"] \in [Conns -> {"none", "run", "ended"}]
  BY DEF TypeOK
<1>v. \A x \in Conns : [other EXCEPT ![c] = x] \in [Conns -> Conn]
  BY DEF TypeOK, Conn
<1>w. \A x : Cancelled(fwd, x) \in [Conns -> {"none", "run", "ended", "wfail"}]
  BY CancelType DEF TypeOK
<1>p. \A x, k : k \in {"joined", "partner-reconnected"} =>
        Put(tx, x, k, None) \in [Conns -> Seq(Frame)]
  BY PutType DEF TypeOK
<1>1. CASE JoinReplaceWaiting(c, s)
  <2>1. watcher' \in [Conns -> {"none", "run", "ended"}]
    BY <1>1, <1>t DEF JoinReplaceWaiting
  <2>2. closed' \subseteq Conns
    BY <1>1, <1>f, ZenonT(60) DEF TypeOK, JoinReplaceWaiting
  <2>3. hsess' \in [Conns -> Conn] /\ peers' \in [Conns -> [PeerIds -> Conn]]
    BY <1>1, <1>e, <1>h, <1>g DEF JoinReplaceWaiting
  <2> QED  BY <1>1, <2>1, <2>2, <2>3 DEF TypeOK, JoinReplaceWaiting, Goto, joinVars
<1>2. CASE JoinPair(c, s)
  <2>1. watcher' \in [Conns -> {"none", "run", "ended"}]
    BY <1>2, <1>u DEF JoinPair
  <2>2. tx' \in [Conns -> Seq(Frame)] /\ other' \in [Conns -> Conn]
    BY <1>2, <1>m, <1>p, <1>v DEF JoinPair
  <2>3. hsess' \in [Conns -> Conn] /\ peers' \in [Conns -> [PeerIds -> Conn]]
    BY <1>2, <1>e, <1>h, <1>g DEF JoinPair
  <2> QED  BY <1>2, <2>1, <2>2, <2>3 DEF TypeOK, JoinPair, Goto, joinVars
<1>3. CASE JoinSwapPaired(c, s)
  <2>1. fwd' \in [Conns -> {"none", "run", "ended", "wfail"}]
    BY <1>3, <1>w DEF JoinSwapPaired
  <2>2. closed' \subseteq Conns
    BY <1>3, <1>f, ZenonT(60) DEF TypeOK, JoinSwapPaired
  <2>3. hsess' \in [Conns -> Conn] /\ peers' \in [Conns -> [PeerIds -> Conn]]
    BY <1>3, <1>e, <1>h, <1>g DEF JoinSwapPaired
  <2>4. tx' \in [Conns -> Seq(Frame)] /\ other' \in [Conns -> Conn]
    BY <1>3, <1>0, <1>p, <1>v DEF JoinSwapPaired
  <2> QED  BY <1>3, <2>1, <2>2, <2>3, <2>4 DEF TypeOK, JoinSwapPaired, Goto, joinVars
<1>4. CASE JoinSurvivor(c, s)
  <2>1. watcher' \in [Conns -> {"none", "run", "ended"}]
    BY <1>4, <1>t DEF JoinSurvivor
  <2>2. fwd' \in [Conns -> {"none", "run", "ended", "wfail"}]
    BY <1>4, <1>w DEF JoinSurvivor
  <2>3. closed' \subseteq Conns /\ done' \subseteq Conns
    BY <1>4, <1>f, ZenonT(60) DEF TypeOK, JoinSurvivor
  <2>4. hsess' \in [Conns -> Conn] /\ peers' \in [Conns -> [PeerIds -> Conn]]
    BY <1>4, <1>e, <1>h, <1>g DEF JoinSurvivor
  <2>5. tx' \in [Conns -> Seq(Frame)]
    BY <1>4, <1>p DEF JoinSurvivor
  <2> QED  BY <1>4, <2>1, <2>2, <2>3, <2>4, <2>5 DEF TypeOK, JoinSurvivor, Goto, joinVars
<1>5. CASE JoinHalfBroken(c, s)
  <2>1. watcher' \in [Conns -> {"none", "run", "ended"}]
    BY <1>5, <1>u DEF JoinHalfBroken
  <2>2. tx' \in [Conns -> Seq(Frame)] /\ other' \in [Conns -> Conn]
    BY <1>5, <1>m, <1>p, <1>v DEF JoinHalfBroken
  <2>3. hsess' \in [Conns -> Conn] /\ peers' \in [Conns -> [PeerIds -> Conn]]
    BY <1>5, <1>e, <1>h, <1>g DEF JoinHalfBroken
  <2> QED  BY <1>5, <2>1, <2>2, <2>3 DEF TypeOK, JoinHalfBroken, Goto, joinVars
<1> QED  BY <1>1, <1>2, <1>3, <1>4, <1>5

\* The other steps of handle_client and _on_peer_disconnect do too.
LEMMA HandlerType ==
  ASSUME TypeOK, HandlerInv, NEW c \in Conns,
         \/ CloseSilently(c) \/ JoinNew(c) \/ FinishPair(c) \/ PairFails(c) \/ FinishRejoin(c)
         \/ DisconnectReplaced(c) \/ DisconnectWaiting(c) \/ DisconnectPaired(c)
         \/ FinishSurvivor(c) \/ DisconnectHalfBroken(c)
  PROVE  TypeOK'
<1>h. pc[c] \in {"pairing", "notify", "waiting", "survivor"} => hsess[c] \in Conns
  BY DEF TypeOK, HandlerInv, HandlerOK, Conn
<1>o. pc[c] \in {"notify", "survivor"} => other[c] \in Conns
  BY DEF TypeOK, HandlerInv, HandlerOK, Conn
<1>m. hsess[c] \in Conns => \A p \in Members(hsess[c]) : peers[hsess[c]][p] \in Conns
  BY MembersType
<1>l. hsess[c] \in Conns /\ Leave(c) => peers' \in [Conns -> [PeerIds -> Conn]]
  BY PeersUpdate DEF Leave, Conn
<1>w. Cancelled(watcher, {c}) \in [Conns -> {"none", "run", "ended"}]
  BY CancelType DEF TypeOK
<1>f. Cancelled(fwd, {c}) \in [Conns -> {"none", "run", "ended", "wfail"}]
  BY CancelType DEF TypeOK
<1>p. \A x : Put(tx, x, "joined", None) \in [Conns -> Seq(Frame)]
  BY PutType DEF TypeOK
<1>1. CASE CloseSilently(c)
  BY <1>1 DEF TypeOK, CloseSilently, Raises, Goto, sessVars, joinVars, taskVars
<1>2. CASE JoinNew(c)
  <2>1. peers' \in [Conns -> [PeerIds -> Conn]]
    BY <1>2, PeersUpdate, SMTT(40) DEF JoinNew, Conn
  <2>2. sessions' \in [Codes -> Conn] /\ hsess' \in [Conns -> Conn]
    BY <1>2 DEF TypeOK, JoinNew, Conn
  <2> QED  BY <1>2, <2>1, <2>2 DEF TypeOK, JoinNew, Goto, joinVars, sockVars
<1>3. CASE FinishPair(c)
  <2>1. PICK p \in Members(hsess[c]), q \in Members(hsess[c]) :
          LET a == peers[hsess[c]][p]
              b == peers[hsess[c]][q]
          IN /\ tx' = Put(tx, b, "joined", None)
             /\ StartForwarding({a, b}, Routes(a, b))
    BY <1>3 DEF FinishPair
  <2>2. peers[hsess[c]][p] \in Conns /\ peers[hsess[c]][q] \in Conns
    BY <1>3, <1>h, <1>m DEF FinishPair
  <2>3. /\ fwd' \in [Conns -> {"none", "run", "ended", "wfail"}]
        /\ dst' \in [Conns -> Conn] /\ done' \subseteq Conns
    BY <2>1, <2>2, StartType DEF Conn
  <2> QED  BY <1>3, <1>p, <2>1, <2>3
           DEF TypeOK, FinishPair, Goto, sessVars, joinVars
<1>4. CASE PairFails(c)
  <2>1. tx' \in [Conns -> Seq(Frame)]
    BY <1>4, <1>p DEF PairFails, TypeOK
  <2> QED  BY <1>4, <2>1 DEF TypeOK, PairFails, Raises, Goto, sessVars, joinVars, taskVars
<1>5. CASE FinishRejoin(c)
  <2> DEFINE o == other[c]
             cs == IF fwd[o] = "run" THEN {c} ELSE {c, o}
             to == Routes(c, o)
  <2>1. StartForwarding(cs, to) /\ o \in Conns
    BY <1>5, <1>o DEF FinishRejoin
  <2>2. cs \in SUBSET Conns /\ \A x \in cs : to[x] \in Conn
    BY <2>1 DEF Conn
  <2>3. /\ fwd' \in [Conns -> {"none", "run", "ended", "wfail"}]
        /\ dst' \in [Conns -> Conn] /\ done' \subseteq Conns
    <3> HIDE DEF cs, to
    <3> QED  BY <2>1, <2>2, StartType
  <2> QED  BY <1>5, <1>p, <2>3 DEF TypeOK, FinishRejoin, Goto, sessVars, joinVars
<1>6. CASE DisconnectReplaced(c)
  BY <1>6 DEF TypeOK, DisconnectReplaced, Goto, sessVars, joinVars, taskVars, sockVars
<1>7. CASE DisconnectWaiting(c)
  <2>1. peers' \in [Conns -> [PeerIds -> Conn]]
    BY <1>7, <1>h, <1>l DEF DisconnectWaiting, Wakes
  <2>2. sessions' \in [Codes -> Conn]
    BY <1>7 DEF TypeOK, DisconnectWaiting, Conn
  <2> QED  BY <1>7, <1>w, <1>f, <2>1, <2>2, ZenonT(60) DEF TypeOK, DisconnectWaiting, Goto, joinVars
<1>8. CASE DisconnectPaired(c)
  <2>1. peers' \in [Conns -> [PeerIds -> Conn]]
    BY <1>8, <1>h, <1>l, ZenonT(60) DEF DisconnectPaired, Wakes
  <2>2. PICK v \in Conns :
          /\ other' = [h \in Conns |-> IF h = c THEN v
                                        ELSE IF h \in Iterating(c) THEN None ELSE other[h]]
          /\ fwd' = [Cancelled(fwd, {c}) EXCEPT ![v] = IF watcher[v] = "none" THEN "none" ELSE @]
          /\ watcher' = [Cancelled(watcher, {c}) EXCEPT ![v] =
                IF watcher[v] = "none" /\ ~(watcher[v] = "none" /\ fwd[v] = "run") THEN "run" ELSE @]
          /\ Goto(c, IF watcher[v] = "none" /\ fwd[v] = "run" THEN "survivor" ELSE "ended")
    BY <1>8, <1>h, <1>m DEF DisconnectPaired, Wakes
  <2>3. watcher' \in [Conns -> {"none", "run", "ended"}]
    BY <2>2, <1>w
  <2>4. fwd' \in [Conns -> {"none", "run", "ended", "wfail"}]
    BY <2>2, <1>f
  <2>5. other' \in [Conns -> Conn]
    BY <2>2 DEF TypeOK, Conn
  <2>6. pc' \in [Conns -> {"idle", "accepted", "pairing", "notify", "waiting",
                          "survivor", "ended", "failed"}]
    BY <2>2, SMTT(40) DEF TypeOK, Goto
  <2>7. /\ state' \in [Conns -> {"NEW", "WAITING", "PAIRED", "HALF_BROKEN"}]
        /\ timer' \in [Conns -> {"none", "sleep", "closing", "over"}]
        /\ closed' \subseteq Conns
    BY <1>8 DEF TypeOK, DisconnectPaired
  <2>8. UNCHANGED <<sessions, joinVars, hsess, done, dst, eof, sent, rx, tx>>
    BY <1>8 DEF DisconnectPaired
  <2> QED  BY <2>1, <2>3, <2>4, <2>5, <2>6, <2>7, <2>8 DEF TypeOK, joinVars
<1>9. CASE FinishSurvivor(c)
  <2>1. watcher' \in [Conns -> {"none", "run", "ended"}] /\ done' \subseteq Conns
    BY <1>9, <1>o DEF TypeOK, FinishSurvivor
  <2> QED  BY <1>9, <2>1 DEF TypeOK, FinishSurvivor, Goto, sessVars, joinVars, sockVars
<1>10. CASE DisconnectHalfBroken(c)
  BY <1>10, <1>w, <1>f, ZenonT(60) DEF TypeOK, DisconnectHalfBroken, Goto, sessVars, joinVars
<1> QED  BY <1>1, <1>2, <1>3, <1>4, <1>5, <1>6, <1>7, <1>8, <1>9, <1>10

\* The steps of the reader tasks, the timers and the clients do too.
LEMMA TaskType ==
  ASSUME TypeOK, HandlerInv, NEW c \in Conns, Watch(c) \/ Forward(c) \/ Timer(c) \/ Client(c)
  PROVE  TypeOK'
<1>t. rx[c] # <<>> => /\ [rx EXCEPT ![c] = Tail(@)] \in [Conns -> Seq(Payload)]
                      /\ Head(rx[c]) \in Payload
  BY DEF TypeOK
<1>1. CASE WatcherDiscards(c)
  BY <1>1, <1>t DEF TypeOK, WatcherDiscards, sessVars, joinVars, taskVars
<1>2. CASE WatcherEof(c)
  BY <1>2 DEF TypeOK, WatcherEof, sessVars, joinVars, sockVars
<1>3. CASE ForwardFrame(c)
  <2>1. tx' \in [Conns -> Seq(Frame)]
    BY <1>3, <1>t, PutType DEF TypeOK, ForwardFrame
  <2> QED  BY <1>3, <1>t, <2>1 DEF TypeOK, ForwardFrame, sessVars, joinVars, taskVars
<1>4. CASE ForwardWriteFails(c)
  BY <1>4, <1>t DEF TypeOK, ForwardWriteFails, sessVars, joinVars
<1>5. CASE ForwardEnds(c)
  BY <1>5 DEF TypeOK, ForwardEnds, sessVars, joinVars, sockVars
<1>6. CASE TimerFires(c)
  <2>1. [kind |-> "abort", from |-> None] \in Frame
    BY DEF Frame
  <2>2. \A x \in Conns : Append(tx[x], [kind |-> "abort", from |-> None]) \in Seq(Frame)
    BY <2>1 DEF TypeOK
  <2>3. tx' \in [Conns -> Seq(Frame)]
    BY <1>6, <2>2 DEF TypeOK, TimerFires
  <2>4. closed' \subseteq Conns
    BY <1>6, MembersType DEF TypeOK, TimerFires
  <2> QED  BY <1>6, <2>3, <2>4 DEF TypeOK, TimerFires, joinVars, taskVars
<1>7. CASE TimerPops(c)
  <2>1. sessions' \in [Codes -> Conn]
    BY <1>7 DEF TypeOK, TimerPops, Conn
  <2> QED  BY <1>7, <2>1 DEF TypeOK, TimerPops, joinVars, taskVars, sockVars
<1>8. ASSUME NEW k \in Codes \cup {None}, NEW p \in PeerIds, Connect(c, k, p) PROVE TypeOK'
  BY <1>8 DEF TypeOK, Connect, Goto, sessVars, taskVars, sockVars
<1>9. ASSUME NEW m \in Payload, ClientSends(c, m) PROVE TypeOK'
  <2>1. rx' \in [Conns -> Seq(Payload)]
    BY <1>9 DEF TypeOK, ClientSends
  <2>2. sent' \in [Conns -> 0 .. MaxSends]
    BY <1>9, RelayAssumption DEF TypeOK, ClientSends
  <2> QED  BY <1>9, <2>1, <2>2 DEF TypeOK, ClientSends, sessVars, joinVars, taskVars
<1>10. CASE ClientGone(c)
  <2>0. \A S : <<>> \in Seq(S)
    OBVIOUS
  <2>1. rx' = rx \/ rx' = [rx EXCEPT ![c] = <<>>]
    BY <1>10 DEF ClientGone
  <2>2. rx' \in [Conns -> Seq(Payload)]
    BY <2>0, <2>1, ZenonT(60) DEF TypeOK
  <2>3. tx' \in [Conns -> Seq(Frame)]
    BY <1>10, <2>0 DEF TypeOK, ClientGone
  <2> QED  BY <1>10, <2>2, <2>3 DEF TypeOK, ClientGone, sessVars, joinVars, taskVars
<1> QED  BY <1>1, <1>2, <1>3, <1>4, <1>5, <1>6, <1>7, <1>8, <1>9, <1>10
         DEF Watch, Forward, Timer, Client

\* Every step of the relay keeps its state well typed.
LEMMA TypeStep ==
  ASSUME TypeOK, HandlerInv, [Next]_vars
  PROVE  TypeOK'
<1>1. CASE Next
  <2>1. PICK c \in Conns :
          HandleClient(c) \/ Watch(c) \/ Forward(c) \/ Timer(c) \/ Client(c)
    BY <1>1 DEF Next
  <2>2. CASE RejectJoin(c) \/ JoinRelayFull(c) \/ JoinCodeInUse(c)
    BY <2>2, AbortCloseType DEF RejectJoin, JoinRelayFull, JoinCodeInUse
  <2> QED  BY <2>1, <2>2, JoinType, HandlerType, TaskType DEF HandleClient
<1>2. CASE UNCHANGED vars
  BY <1>2 DEF TypeOK, vars, sessVars, joinVars, taskVars, sockVars
<1> QED  BY <1>1, <1>2

-----------------------------------------------------------------------------
(* The session table *)


\* Entering and leaving change the membership of one session by one peer_id.
LEMMA EnterMembers ==
  ASSUME TypeOK, NEW c \in Conns, NEW s \in Conns, pid[c] # None,
         peers' = [peers EXCEPT ![s][pid[c]] = c]
  PROVE  /\ Keys(peers'[s]) = Keys(peers[s]) \cup {pid[c]}
         /\ \A t \in Conns \ {s} : Keys(peers'[t]) = Keys(peers[t])
<1>1. \A t \in Conns, q \in PeerIds :
        peers'[t][q] = IF t = s /\ q = pid[c] THEN c ELSE peers[t][q]
  BY PeersUpdate DEF Conn
<1>2. c # None /\ pid[c] \in PeerIds
  BY RelayAssumption DEF TypeOK
<1> QED  BY <1>1, <1>2 DEF Keys

\* sess.peers.pop(peer_id) takes one peer_id out of one session.
LEMMA LeaveMembers ==
  ASSUME TypeOK, NEW c \in Conns, hsess[c] \in Conns, Leave(c)
  PROVE  /\ Keys(peers'[hsess[c]]) = Keys(peers[hsess[c]]) \ {pid[c]}
         /\ \A t \in Conns \ {hsess[c]} : Keys(peers'[t]) = Keys(peers[t])
<1>1. \A t \in Conns, q \in PeerIds :
        peers'[t][q] = IF t = hsess[c] /\ q = pid[c] THEN None ELSE peers[t][q]
  BY PeersUpdate DEF Conn, Leave
<1> QED  BY <1>1 DEF Keys

\* Steps that leave the session table alone.
LEMMA TableFrame ==
  ASSUME SessionShape, TimerArmed, UNCHANGED <<sessions, state, peers, timer, code>>
  PROVE  SessionShape' /\ TimerArmed'
BY DEF SessionShape, TimerArmed, Members

\* The table after a join.
LEMMA TableJoin ==
  ASSUME Inv, NEW c \in Conns,
         \/ JoinNew(c)
         \/ \E s \in Conns :
              \/ JoinReplaceWaiting(c, s) \/ JoinPair(c, s) \/ JoinSwapPaired(c, s)
              \/ JoinSurvivor(c, s) \/ JoinHalfBroken(c, s)
  PROVE  SessionShape' /\ TimerArmed'
<1> USE DEF Inv, Members
<1>c. c # None /\ pid[c] # None /\ pid[c] \in PeerIds /\ state[c] = "NEW" /\ Members(c) = {}
  <2>1. pc[c] = "accepted"
    BY DEF JoinNew, JoinReplaceWaiting, JoinPair, JoinSwapPaired, JoinSurvivor,
           JoinHalfBroken, Finds
  <2> QED  BY <2>1, RelayAssumption DEF TypeOK, HandlerInv, HandlerOK, FreshInv
<1>1. CASE JoinNew(c)
  <2>1. /\ Keys(peers'[c]) = {pid[c]}
        /\ \A t \in Conns \ {c} : Keys(peers'[t]) = Keys(peers[t])
    BY <1>1, <1>c, EnterMembers, ZenonT(60) DEF JoinNew
  <2>2. code[c] \in Codes /\ code' = code
    BY <1>1 DEF JoinNew, TypeOK, joinVars
  <2>a. \A t \in Conns :
          /\ (state'[t] = "PAIRED") => Pair(Keys(peers'[t]))
          /\ (state'[t] = "HALF_BROKEN") => Singleton(Keys(peers'[t]))
          /\ (state'[t] = "WAITING") => Singleton(Keys(peers'[t])) \/ Keys(peers'[t]) = {}
    <3>1. Singleton(Keys(peers'[c]))
      BY <1>c, <2>1 DEF Singleton
    <3> QED  BY <1>1, <2>1, <3>1 DEF JoinNew, SessionShape, TypeOK
  <2>b. \A k \in Codes : sessions'[k] # None =>
          /\ code[sessions'[k]] = k /\ state'[sessions'[k]] # "NEW"
          /\ Keys(peers'[sessions'[k]]) # {}
    <3> SUFFICES ASSUME NEW k \in Codes, sessions'[k] # None
                 PROVE  /\ code[sessions'[k]] = k /\ state'[sessions'[k]] # "NEW"
                        /\ Keys(peers'[sessions'[k]]) # {}
      OBVIOUS
    <3>1. CASE k = code[c]
      <4>1. sessions'[k] = c /\ state'[c] = "WAITING"
        BY <1>1, <3>1 DEF JoinNew, TypeOK
      <4> QED  BY <2>1, <3>1, <4>1
    <3>2. CASE k # code[c]
      <4>1. sessions'[k] = sessions[k] /\ sessions[k] \in Conns
        BY <1>1, <3>2 DEF JoinNew, TypeOK, Conn
      <4>2. sessions[k] # c
        BY <1>c, <4>1 DEF SessionShape
      <4> QED  BY <1>1, <2>1, <4>1, <4>2, ZenonT(60) DEF JoinNew, SessionShape, TypeOK
    <3> QED  BY <3>1, <3>2
  <2>3. SessionShape'
    BY <2>2, <2>a, <2>b DEF SessionShape
  <2>4. TimerArmed'
    BY <1>1, <1>c, <2>2 DEF JoinNew, SessionShape, TimerArmed, TypeOK, Conn
  <2> QED  BY <2>3, <2>4
<1>2. ASSUME NEW s \in Conns,
             JoinReplaceWaiting(c, s) \/ JoinSwapPaired(c, s) \/ JoinSurvivor(c, s)
      PROVE  SessionShape' /\ TimerArmed'
  <2>1. pid[c] \in Members(s) /\ Enter(c, s)
    BY <1>2 DEF JoinReplaceWaiting, JoinSwapPaired, JoinSurvivor, Finds
  <2>a. /\ Keys(peers'[s]) = Keys(peers[s]) \cup {pid[c]}
        /\ \A t \in Conns \ {s} : Keys(peers'[t]) = Keys(peers[t])
    BY <1>c, <2>1, EnterMembers DEF Enter
  <2>2. \A t \in Conns : Keys(peers'[t]) = Keys(peers[t])
    BY <2>1, <2>a
  <2>3. UNCHANGED <<sessions, state, timer, code>>
    BY <1>2 DEF JoinReplaceWaiting, JoinSwapPaired, JoinSurvivor, joinVars
  <2> QED  BY <2>2, <2>3 DEF SessionShape, TimerArmed, TypeOK, Conn
<1>3. ASSUME NEW s \in Conns, JoinPair(c, s) \/ JoinHalfBroken(c, s)
      PROVE  SessionShape' /\ TimerArmed'
  <2>1. /\ code[c] \in Codes /\ sessions[code[c]] = s
        /\ state[s] \in {"WAITING", "HALF_BROKEN"} /\ pid[c] \notin Members(s)
    BY <1>3 DEF JoinPair, JoinHalfBroken, Finds, TypeOK
  <2>2. Singleton(Members(s))
    BY <2>1, RelayAssumption DEF SessionShape
  <2>3. /\ Keys(peers'[s]) = Keys(peers[s]) \cup {pid[c]}
        /\ \A t \in Conns \ {s} : Keys(peers'[t]) = Keys(peers[t])
    BY <1>3, <1>c, EnterMembers, ZenonT(60) DEF JoinPair, JoinHalfBroken, Enter
  <2>4. Pair(Keys(peers'[s]))
    BY <2>1, <2>2, <2>3, <1>c DEF Singleton, Pair
  <2>5. /\ UNCHANGED <<sessions, code>>
        /\ state' = [state EXCEPT ![s] = "PAIRED"]
        /\ timer' = [timer EXCEPT ![s] = "over"]
    BY <1>3 DEF JoinPair, JoinHalfBroken, joinVars
  <2>a. \A t \in Conns :
          /\ (state'[t] = "PAIRED") => Pair(Keys(peers'[t]))
          /\ (state'[t] = "HALF_BROKEN") => Singleton(Keys(peers'[t]))
          /\ (state'[t] = "WAITING") => Singleton(Keys(peers'[t])) \/ Keys(peers'[t]) = {}
    BY <2>3, <2>4, <2>5, ZenonT(60) DEF SessionShape, TypeOK
  <2>b. \A k \in Codes : sessions[k] # None =>
          /\ code[sessions[k]] = k /\ state'[sessions[k]] # "NEW"
          /\ Keys(peers'[sessions[k]]) # {}
    <3> SUFFICES ASSUME NEW k \in Codes, sessions[k] # None
                 PROVE  /\ code[sessions[k]] = k /\ state'[sessions[k]] # "NEW"
                        /\ Keys(peers'[sessions[k]]) # {}
      OBVIOUS
    <3>1. sessions[k] \in Conns
      BY DEF TypeOK, Conn
    <3>2. Keys(peers'[s]) # {}
      BY <2>3
    <3> QED  BY <2>3, <2>5, <3>1, <3>2 DEF SessionShape, TypeOK
  <2>6. SessionShape'
    BY <2>5, <2>a, <2>b DEF SessionShape
  <2>7. TimerArmed'
    BY <2>5 DEF TimerArmed, TypeOK, Conn
  <2> QED  BY <2>6, <2>7
<1> QED  BY <1>1, <1>2, <1>3

\* The table after a disconnect, a timer or a new connection.
LEMMA TableOther ==
  ASSUME Inv, NEW c \in Conns,
         \/ DisconnectWaiting(c) \/ DisconnectPaired(c) \/ Timer(c)
         \/ \E k \in Codes \cup {None}, p \in PeerIds : Connect(c, k, p)
  PROVE  SessionShape' /\ TimerArmed'
<1> USE DEF Inv, Members
<1>1. CASE DisconnectWaiting(c)
  <2> DEFINE s == hsess[c]
  <2>1. s \in Conns /\ code[c] \in Codes /\ code[s] = code[c] /\ state[s] = "WAITING"
    BY <1>1 DEF DisconnectWaiting, Wakes, HandlerInv, HandlerOK, TypeOK, Conn
  <2>2. /\ Keys(peers'[s]) = Keys(peers[s]) \ {pid[c]}
        /\ \A t \in Conns \ {s} : Keys(peers'[t]) = Keys(peers[t])
    BY <1>1, <2>1, LeaveMembers DEF DisconnectWaiting
  <2>3. /\ state' = state /\ code' = code
        /\ timer' = [timer EXCEPT ![s] = "over"]
        /\ sessions' = [sessions EXCEPT ![code[c]] = None]
    BY <1>1 DEF DisconnectWaiting, joinVars
  <2>4. Singleton(Keys(peers'[s])) \/ Keys(peers'[s]) = {}
    BY <2>1, <2>2 DEF SessionShape, Singleton
  <2>5. \A k \in Codes : sessions'[k] # None =>
          sessions'[k] = sessions[k] /\ sessions[k] \in Conns \ {s}
    BY <2>1, <2>3 DEF SessionShape, TypeOK, Conn
  <2> HIDE DEF s
  <2>6. \A t \in Conns :
          /\ (state'[t] = "PAIRED") => Pair(Keys(peers'[t]))
          /\ (state'[t] = "HALF_BROKEN") => Singleton(Keys(peers'[t]))
          /\ (state'[t] = "WAITING") => Singleton(Keys(peers'[t])) \/ Keys(peers'[t]) = {}
    BY <2>1, <2>2, <2>3, <2>4 DEF SessionShape
  <2>7. SessionShape'
    BY <2>2, <2>3, <2>5, <2>6 DEF SessionShape
  <2>8. TimerArmed'
    BY <2>1, <2>3, <2>5, SMTT(40) DEF TimerArmed, TypeOK
  <2> QED  BY <2>7, <2>8
<1>2. CASE DisconnectPaired(c)
  <2> DEFINE s == hsess[c]
  <2>1. s \in Conns /\ state[s] = "PAIRED" /\ pid[c] \in PeerIds /\ peers[s][pid[c]] = c
    BY <1>2, SMTT(40) DEF DisconnectPaired, Wakes, IsCurrent, HandlerInv, HandlerOK, TypeOK, Conn
  <2>2. /\ Keys(peers'[s]) = Keys(peers[s]) \ {pid[c]}
        /\ \A t \in Conns \ {s} : Keys(peers'[t]) = Keys(peers[t])
    BY <1>2, <2>1, LeaveMembers, ZenonT(60) DEF DisconnectPaired
  <2>3. /\ sessions' = sessions /\ code' = code
        /\ state' = [state EXCEPT ![s] = "HALF_BROKEN"]
        /\ timer' = [timer EXCEPT ![s] = "sleep"]
    BY <1>2 DEF DisconnectPaired, joinVars
  <2>4. pid[c] \in Keys(peers[s])
    BY <2>1, RelayAssumption DEF Keys
  <2>5. Singleton(Keys(peers'[s]))
    BY <2>1, <2>2, <2>4 DEF SessionShape, Singleton, Pair
  <2>6. Keys(peers'[s]) # {}
    BY <2>5 DEF Singleton
  <2> HIDE DEF s
  <2>7. \A t \in Conns :
          /\ (state'[t] = "PAIRED") => Pair(Keys(peers'[t]))
          /\ (state'[t] = "HALF_BROKEN") => Singleton(Keys(peers'[t]))
          /\ (state'[t] = "WAITING") => Singleton(Keys(peers'[t])) \/ Keys(peers'[t]) = {}
    BY <2>1, <2>2, <2>3, <2>5 DEF SessionShape, TypeOK
  <2>8. \A k \in Codes : sessions[k] # None =>
          /\ code[sessions[k]] = k /\ state'[sessions[k]] # "NEW"
          /\ Keys(peers'[sessions[k]]) # {}
    <3>1. \A k \in Codes : sessions[k] # None => sessions[k] \in Conns
      BY DEF TypeOK, Conn
    <3> QED  BY <2>1, <2>2, <2>3, <2>6, <3>1 DEF SessionShape, TypeOK
  <2>9. SessionShape'
    BY <2>3, <2>7, <2>8 DEF SessionShape
  <2>10. TimerArmed'
    BY <2>1, <2>3 DEF TimerArmed, TypeOK, Conn
  <2> QED  BY <2>9, <2>10
<1>3. CASE TimerFires(c)
  <2>1. SessionShape'
    BY <1>3 DEF TimerFires, SessionShape, joinVars
  <2>2. TimerArmed'
    BY <1>3 DEF TimerFires, TimerArmed, TypeOK, Conn
  <2> QED  BY <2>1, <2>2
<1>4. CASE TimerPops(c)
  <2>1. \A k \in Codes : sessions'[k] # None =>
          sessions'[k] = sessions[k] /\ sessions[k] \in Conns \ {c}
    BY <1>4 DEF TimerPops, SessionShape, TypeOK, Conn
  <2>2. SessionShape'
    BY <1>4, <2>1 DEF TimerPops, SessionShape, joinVars
  <2>3. TimerArmed'
    BY <1>4, <2>1 DEF TimerPops, TimerArmed, TypeOK
  <2> QED  BY <2>2, <2>3
<1>5. ASSUME NEW k \in Codes \cup {None}, NEW p \in PeerIds, Connect(c, k, p)
      PROVE  SessionShape' /\ TimerArmed'
  <2>1. \A j \in Codes : sessions[j] # c
    BY <1>5, RelayAssumption DEF Connect, FreshInv, SessionShape
  <2>a. \A j \in Codes : sessions[j] # None => code'[sessions[j]] = code[sessions[j]]
    BY <1>5, <2>1 DEF Connect, TypeOK, Conn
  <2>2. SessionShape'
    BY <1>5, <2>a DEF Connect, SessionShape, sessVars
  <2>3. TimerArmed'
    BY <1>5 DEF Connect, TimerArmed, sessVars
  <2> QED  BY <2>2, <2>3
<1> QED  BY <1>1, <1>2, <1>3, <1>4, <1>5 DEF Timer

-----------------------------------------------------------------------------
(* What no step takes back *)

\* A step of c moves only the handler of c; at most it takes away the entry on which
\* another one's iteration stands.
LEMMA OwnHandler ==
  ASSUME TypeOK, NEW c \in Conns, NEW x \in Conns \ {c},
         HandleClient(c) \/ Watch(c) \/ Forward(c) \/ Timer(c) \/ Client(c)
  PROVE  /\ pc'[x] = pc[x] /\ hsess'[x] = hsess[x]
         /\ code'[x] = code[x] /\ pid'[x] = pid[x]
         /\ \/ other'[x] = other[x]
            \/ DisconnectPaired(c) /\ pc[x] = "pairing" /\ hsess[x] = hsess[c]
<1> USE DEF TypeOK, Goto, Raises, AbortClose, Finds, joinVars
<1>1. CASE \/ CloseSilently(c) \/ RejectJoin(c) \/ JoinRelayFull(c) \/ JoinNew(c)
           \/ JoinCodeInUse(c) \/ FinishPair(c) \/ PairFails(c) \/ FinishRejoin(c)
  BY <1>1 DEF CloseSilently, RejectJoin, JoinRelayFull, JoinNew, JoinCodeInUse, FinishPair,
              PairFails, FinishRejoin
<1>2. ASSUME NEW s \in Conns,
             \/ JoinReplaceWaiting(c, s) \/ JoinPair(c, s) \/ JoinSwapPaired(c, s)
             \/ JoinSurvivor(c, s) \/ JoinHalfBroken(c, s)
      PROVE  /\ pc'[x] = pc[x] /\ hsess'[x] = hsess[x] /\ other'[x] = other[x]
             /\ code'[x] = code[x] /\ pid'[x] = pid[x]
  BY <1>2 DEF JoinReplaceWaiting, JoinPair, JoinSwapPaired, JoinSurvivor, JoinHalfBroken
<1>3. CASE \/ DisconnectReplaced(c) \/ DisconnectWaiting(c) \/ FinishSurvivor(c)
           \/ DisconnectHalfBroken(c)
  BY <1>3 DEF DisconnectReplaced, DisconnectWaiting, FinishSurvivor, DisconnectHalfBroken
<1>6. CASE DisconnectPaired(c)
  <2>1. pc'[x] = pc[x] /\ hsess' = hsess /\ code' = code /\ pid' = pid
    BY <1>6 DEF DisconnectPaired
  <2>2. other'[x] = IF x \in Iterating(c) THEN None ELSE other[x]
    BY <1>6 DEF DisconnectPaired
  <2> QED  BY <1>6, <2>1, <2>2 DEF Iterating
<1>4. CASE Watch(c) \/ Forward(c) \/ Timer(c)
  BY <1>4 DEF Watch, Forward, Timer, WatcherDiscards, WatcherEof, ForwardFrame,
              ForwardWriteFails, ForwardEnds, TimerFires, TimerPops
<1>5. CASE Client(c)
  BY <1>5 DEF Client, Connect, ClientSends, ClientGone
<1> QED  BY <1>1, <1>2, <1>3, <1>4, <1>5, <1>6 DEF HandleClient

\* The join frame of a socket is fixed, and its session, once created, exists.
LEMMA JoinKept ==
  ASSUME TypeOK, FreshInv, NEW c \in Conns,
         HandleClient(c) \/ Watch(c) \/ Forward(c) \/ Timer(c) \/ Client(c)
  PROVE  /\ \A x \in Conns : pc[x] # "idle" =>
              pc'[x] # "idle" /\ code'[x] = code[x] /\ pid'[x] = pid[x]
         /\ \A s \in Conns : state[s] # "NEW" => state'[s] # "NEW" /\ code'[s] = code[s]
<1>1. pc[c] # "idle" => pc'[c] # "idle" /\ code'[c] = code[c] /\ pid'[c] = pid[c]
  <2> SUFFICES ASSUME pc[c] # "idle"
               PROVE  pc'[c] # "idle" /\ code'[c] = code[c] /\ pid'[c] = pid[c]
    OBVIOUS
  <2> USE DEF TypeOK, Goto, Raises, AbortClose, Finds, joinVars
  <2>1. CASE \/ CloseSilently(c) \/ RejectJoin(c) \/ JoinRelayFull(c) \/ JoinNew(c)
             \/ JoinCodeInUse(c) \/ FinishPair(c) \/ PairFails(c) \/ FinishRejoin(c)
    BY <2>1 DEF CloseSilently, RejectJoin, JoinRelayFull, JoinNew, JoinCodeInUse, FinishPair,
                PairFails, FinishRejoin
  <2>2. ASSUME NEW s \in Conns,
               \/ JoinReplaceWaiting(c, s) \/ JoinPair(c, s) \/ JoinSwapPaired(c, s)
               \/ JoinSurvivor(c, s) \/ JoinHalfBroken(c, s)
        PROVE  pc'[c] # "idle" /\ code'[c] = code[c] /\ pid'[c] = pid[c]
    BY <2>2 DEF JoinReplaceWaiting, JoinPair, JoinSwapPaired, JoinSurvivor, JoinHalfBroken
  <2>3. CASE \/ DisconnectReplaced(c) \/ DisconnectWaiting(c) \/ DisconnectPaired(c)
             \/ FinishSurvivor(c) \/ DisconnectHalfBroken(c)
    BY <2>3 DEF DisconnectReplaced, DisconnectWaiting, DisconnectPaired, FinishSurvivor,
                DisconnectHalfBroken
  <2>4. CASE Watch(c) \/ Forward(c) \/ Timer(c)
    BY <2>4 DEF Watch, Forward, Timer, WatcherDiscards, WatcherEof, ForwardFrame,
                ForwardWriteFails, ForwardEnds, TimerFires, TimerPops
  <2>5. CASE Client(c)
    BY <2>5 DEF Client, Connect, ClientSends, ClientGone
  <2> QED  BY <2>1, <2>2, <2>3, <2>4, <2>5 DEF HandleClient
<1>2. \A x \in Conns : pc[x] # "idle" =>
        pc'[x] # "idle" /\ code'[x] = code[x] /\ pid'[x] = pid[x]
  BY <1>1, OwnHandler
<1>3. \A s \in Conns : state[s] # "NEW" => state'[s] # "NEW"
  <2> USE DEF TypeOK, AbortClose, sessVars
  <2>1. CASE JoinNew(c)
    BY <2>1 DEF JoinNew
  <2>2. ASSUME NEW s \in Conns,
               \/ JoinReplaceWaiting(c, s) \/ JoinPair(c, s) \/ JoinSwapPaired(c, s)
               \/ JoinSurvivor(c, s) \/ JoinHalfBroken(c, s)
        PROVE  \A t \in Conns : state[t] # "NEW" => state'[t] # "NEW"
    BY <2>2 DEF JoinReplaceWaiting, JoinPair, JoinSwapPaired, JoinSurvivor, JoinHalfBroken
  <2>3. CASE DisconnectPaired(c)
    BY <2>3 DEF DisconnectPaired
  <2>4. CASE \/ CloseSilently(c) \/ RejectJoin(c) \/ JoinRelayFull(c) \/ JoinCodeInUse(c)
             \/ FinishPair(c) \/ PairFails(c) \/ FinishRejoin(c) \/ DisconnectReplaced(c)
             \/ DisconnectWaiting(c) \/ FinishSurvivor(c) \/ DisconnectHalfBroken(c)
    BY <2>4 DEF CloseSilently, RejectJoin, JoinRelayFull, JoinCodeInUse, FinishPair,
                PairFails, FinishRejoin, DisconnectReplaced, DisconnectWaiting,
                FinishSurvivor, DisconnectHalfBroken
  <2>5. CASE Watch(c) \/ Forward(c) \/ Timer(c) \/ Client(c)
    BY <2>5 DEF Watch, Forward, Timer, WatcherDiscards, WatcherEof, ForwardFrame,
                ForwardWriteFails, ForwardEnds, TimerFires, TimerPops,
                Client, Connect, ClientSends, ClientGone
  <2> QED  BY <2>1, <2>2, <2>3, <2>4, <2>5 DEF HandleClient
<1>4. \A s \in Conns : state[s] # "NEW" => pc[s] # "idle"
  BY DEF FreshInv
<1> QED  BY <1>2, <1>3, <1>4

-----------------------------------------------------------------------------
(* The handlers *)

\* The step of one handler leaves the others as they are.
LEMMA OtherHandlers ==
  ASSUME Inv, NEW c \in Conns, NEW x \in Conns \ {c},
         HandleClient(c) \/ Watch(c) \/ Forward(c) \/ Timer(c) \/ Client(c)
  PROVE  HandlerOK(x)'
<1>1. HandlerOK(x) /\ hsess[x] \in Conn /\ other[x] \in Conn
  BY DEF Inv, HandlerInv, TypeOK
<1>2. /\ pc'[x] = pc[x] /\ hsess'[x] = hsess[x] /\ (pc[x] # "pairing" => other'[x] = other[x])
      /\ code'[x] = code[x] /\ pid'[x] = pid[x]
  BY OwnHandler DEF Inv
<1>3. /\ \A y \in Conns : pc[y] # "idle" =>
            pc'[y] # "idle" /\ code'[y] = code[y] /\ pid'[y] = pid[y]
      /\ \A s \in Conns : state[s] # "NEW" => state'[s] # "NEW" /\ code'[s] = code[s]
  BY JoinKept DEF Inv
<1> QED  BY <1>1, <1>2, <1>3 DEF HandlerOK, Linked, Conn

\* A session found by a join: the handler may work on it.
LEMMA FoundSession ==
  ASSUME Inv, NEW c \in Conns, NEW s \in Conns,
         pc[c] = "accepted", code[c] # None, sessions[code[c]] = s
  PROVE  code[s] = code[c] /\ state[s] # "NEW" /\ pid[c] \in PeerIds /\ s # c
BY RelayAssumption DEF Inv, SessionShape, FreshInv, HandlerInv, HandlerOK, TypeOK

\* Every handler keeps the facts it relies on after an await: its session exists
\* and has its code, and its partner is a socket of the same code.
LEMMA HandlerStep ==
  ASSUME Inv, MemberInv, NEW c \in Conns,
         HandleClient(c) \/ Watch(c) \/ Forward(c) \/ Timer(c) \/ Client(c)
  PROVE  HandlerInv'
<1> USE DEF Goto
<1>0. TypeOK /\ HandlerOK(c) /\ FreshInv
  BY DEF Inv, HandlerInv
<1>n. c # None
  BY RelayAssumption
<1>s. /\ \A y \in Conns : pc[y] # "idle" =>
            pc'[y] # "idle" /\ code'[y] = code[y] /\ pid'[y] = pid[y]
      /\ \A s \in Conns : state[s] # "NEW" => state'[s] # "NEW" /\ code'[s] = code[s]
  BY <1>0, JoinKept
<1> SUFFICES HandlerOK(c)'
  BY OtherHandlers DEF HandlerInv
<1>1. CASE pc'[c] = pc[c] /\ hsess'[c] = hsess[c] /\ other'[c] = other[c] /\ pc[c] # "idle"
  BY <1>0, <1>1, <1>s DEF HandlerOK, Linked, TypeOK, Conn
<1>2. CASE pc[c] # "idle" /\ pc'[c] \in {"ended", "failed"}
  BY <1>0, <1>2, <1>s DEF HandlerOK
<1>3. CASE \/ CloseSilently(c) \/ RejectJoin(c) \/ JoinRelayFull(c) \/ JoinCodeInUse(c)
           \/ PairFails(c) \/ DisconnectReplaced(c) \/ DisconnectWaiting(c)
           \/ FinishSurvivor(c) \/ DisconnectHalfBroken(c)
  <2>1. pc[c] # "idle" /\ pc'[c] \in {"ended", "failed"}
    BY <1>0, <1>3 DEF CloseSilently, RejectJoin, JoinRelayFull, JoinCodeInUse, PairFails,
         DisconnectReplaced, DisconnectWaiting, FinishSurvivor, DisconnectHalfBroken,
         AbortClose, Raises, Wakes, TypeOK
  <2> QED  BY <2>1, <1>2
<1>4. CASE JoinNew(c)
  <2>1. /\ pc[c] = "accepted" /\ code[c] # None
        /\ pc'[c] = "waiting" /\ hsess'[c] = c /\ state'[c] = "WAITING"
    BY <1>0, <1>4 DEF JoinNew, TypeOK
  <2> QED  BY <1>0, <1>n, <1>s, <2>1 DEF HandlerOK
<1>5. ASSUME NEW s \in Conns,
             \/ JoinReplaceWaiting(c, s) \/ JoinPair(c, s) \/ JoinSwapPaired(c, s)
             \/ JoinSurvivor(c, s) \/ JoinHalfBroken(c, s)
      PROVE  HandlerOK(c)'
  <2>1. /\ pc[c] = "accepted" /\ code[c] # None /\ sessions[code[c]] = s
        /\ hsess'[c] = s /\ pc'[c] \in {"waiting", "pairing", "notify"}
    BY <1>0, <1>5 DEF JoinReplaceWaiting, JoinPair, JoinSwapPaired, JoinSurvivor,
                      JoinHalfBroken, Finds, TypeOK
  <2>2. code[s] = code[c] /\ state[s] # "NEW" /\ pid[c] \in PeerIds /\ s # None
    BY <2>1, FoundSession, RelayAssumption
  <2>3. \A q \in Members(s) \ {pid[c]} : peers[s][q] # None /\ Linked(c, peers[s][q])
    BY <2>1, <2>2 DEF MemberInv, Members, Keys, Linked
  <2>4. pc'[c] = "notify" => \E q \in Members(s) \ {pid[c]} : other'[c] = peers[s][q]
    <3>1. CASE JoinSwapPaired(c, s)
      BY <1>0, <3>1 DEF JoinSwapPaired, TypeOK
    <3>2. CASE JoinHalfBroken(c, s)
      BY <1>0, <3>2 DEF JoinHalfBroken, Finds, MemberConns, TypeOK
    <3>3. CASE JoinReplaceWaiting(c, s) \/ JoinPair(c, s) \/ JoinSurvivor(c, s)
      BY <1>0, <3>3 DEF JoinReplaceWaiting, JoinPair, JoinSurvivor, TypeOK
    <3> QED  BY <1>5, <3>1, <3>2, <3>3
  <2>5. \A q \in Members(s) : peers[s][q] \in Conns
    BY <1>0, MembersType
  <2>6. pc'[c] = "notify" => other'[c] \in Conns /\ Linked(c, other'[c])
    BY <2>3, <2>4, <2>5
  <2> QED  BY <1>s, <2>1, <2>2, <2>6, RelayAssumption DEF HandlerOK, Linked
<1>6. CASE FinishPair(c) \/ FinishRejoin(c)
  <2>1. /\ pc[c] \in {"pairing", "notify"} /\ pc'[c] = "waiting"
        /\ hsess'[c] = hsess[c] /\ hsess[c] \in Conn
    BY <1>0, <1>6 DEF FinishPair, FinishRejoin, TypeOK
  <2> QED  BY <1>0, <1>s, <2>1 DEF HandlerOK, Conn
<1>7. CASE DisconnectPaired(c)
  <2>1. pc[c] = "waiting" /\ hsess'[c] = hsess[c] /\ hsess[c] \in Conns
    BY <1>0, <1>7 DEF DisconnectPaired, Wakes, HandlerOK, TypeOK, Conn
  <2>2. \A p \in Members(hsess[c]) : peers[hsess[c]][p] \in Conns
    BY <1>0, <2>1, MembersType
  <2>3. other'[c] \in Conns /\ pc'[c] \in {"survivor", "ended"}
    BY <1>0, <1>7, <2>2 DEF DisconnectPaired, TypeOK
  <2> QED  BY <1>0, <1>s, <2>1, <2>3, RelayAssumption DEF HandlerOK
<1>8. CASE Watch(c) \/ Forward(c) \/ Timer(c) \/ Client(c)
  <2>1. CASE pc[c] # "idle"
    <3>1. UNCHANGED <<pc, hsess, other>>
      BY <1>8, <2>1 DEF Watch, Forward, Timer, WatcherDiscards, WatcherEof, ForwardFrame,
         ForwardWriteFails, ForwardEnds, TimerFires, TimerPops, Client, Connect, ClientSends,
         ClientGone
    <3> QED  BY <1>1, <2>1, <3>1
  <2>2. CASE pc[c] = "idle"
    <3>1. \/ pc'[c] = "idle"
          \/ pc'[c] = "accepted" /\ pid'[c] \in PeerIds
      BY <1>0, <1>8, <2>2 DEF Watch, Forward, Timer, WatcherDiscards, WatcherEof,
         ForwardFrame, ForwardWriteFails, ForwardEnds, TimerFires, TimerPops, Client, Connect,
         ClientSends, ClientGone, TypeOK
    <3> QED  BY <3>1, RelayAssumption DEF HandlerOK
  <2> QED  BY <2>1, <2>2
<1> QED  BY <1>3, <1>4, <1>5, <1>6, <1>7, <1>8 DEF HandleClient

-----------------------------------------------------------------------------
(* Fresh sessions and members *)

\* What a step of c can do to sess.peers.
LEMMA PeersStep ==
  ASSUME Inv, NEW c \in Conns, NEW t \in Conns, NEW q \in PeerIds,
         HandleClient(c) \/ Watch(c) \/ Forward(c) \/ Timer(c) \/ Client(c)
  PROVE  \/ peers'[t][q] = peers[t][q]
         \/ peers'[t][q] = None /\ state[t] # "NEW"
         \/ /\ peers'[t][q] = c /\ q = pid[c]
            /\ pc[c] = "accepted" /\ code[t] = code[c] /\ code[c] # None
            /\ (t = c /\ JoinNew(c)) \/ state[t] # "NEW"
<1>0. TypeOK /\ HandlerOK(c)
  BY DEF Inv, HandlerInv
<1>u. \A s \in Conns, p, v \in Conn :
        peers' = [peers EXCEPT ![s][p] = v]
          => peers'[t][q] = IF t = s /\ q = p THEN v ELSE peers[t][q]
  BY <1>0, PeersUpdate
<1>1. CASE JoinNew(c)
  <2>1. pc[c] = "accepted" /\ code[c] # None /\ peers' = [peers EXCEPT ![c][pid[c]] = c]
    BY <1>1 DEF JoinNew
  <2> QED  BY <1>1, <1>u, <2>1 DEF Conn
<1>2. ASSUME NEW s \in Conns,
             \/ JoinReplaceWaiting(c, s) \/ JoinPair(c, s) \/ JoinSwapPaired(c, s)
             \/ JoinSurvivor(c, s) \/ JoinHalfBroken(c, s)
      PROVE  \/ peers'[t][q] = peers[t][q]
             \/ /\ peers'[t][q] = c /\ q = pid[c]
                /\ pc[c] = "accepted" /\ code[t] = code[c] /\ code[c] # None
                /\ state[t] # "NEW"
  <2>1. /\ pc[c] = "accepted" /\ code[c] # None /\ sessions[code[c]] = s
        /\ peers' = [peers EXCEPT ![s][pid[c]] = c]
    BY <1>2 DEF JoinReplaceWaiting, JoinPair, JoinSwapPaired, JoinSurvivor, JoinHalfBroken,
                Finds, Enter
  <2>2. code[s] = code[c] /\ state[s] # "NEW"
    BY <2>1, FoundSession
  <2> QED  BY <1>u, <2>1, <2>2 DEF Conn
<1>3. CASE DisconnectWaiting(c) \/ DisconnectPaired(c)
  <2>1. /\ hsess[c] \in Conns /\ state[hsess[c]] # "NEW"
        /\ peers' = [peers EXCEPT ![hsess[c]][pid[c]] = None]
    BY <1>0, <1>3 DEF DisconnectWaiting, DisconnectPaired, Wakes, Leave, HandlerOK, TypeOK,
                      Conn
  <2> QED  BY <1>u, <2>1 DEF Conn
<1>4. CASE \/ CloseSilently(c) \/ RejectJoin(c) \/ JoinRelayFull(c) \/ JoinCodeInUse(c)
           \/ FinishPair(c) \/ PairFails(c) \/ FinishRejoin(c) \/ DisconnectReplaced(c)
           \/ FinishSurvivor(c) \/ DisconnectHalfBroken(c)
  BY <1>4 DEF CloseSilently, RejectJoin, JoinRelayFull, JoinCodeInUse, FinishPair, PairFails,
              FinishRejoin, DisconnectReplaced, FinishSurvivor, DisconnectHalfBroken,
              AbortClose, sessVars
<1>5. CASE Watch(c) \/ Forward(c) \/ Timer(c) \/ Client(c)
  BY <1>5 DEF Watch, Forward, Timer, WatcherDiscards, WatcherEof, ForwardFrame,
              ForwardWriteFails, ForwardEnds, TimerFires, TimerPops, Client, Connect,
              ClientSends, ClientGone, sessVars
<1> QED  BY <1>1, <1>2, <1>3, <1>4, <1>5 DEF HandleClient

\* Only a socket's own first join creates its session.
LEMMA FreshStep ==
  ASSUME Inv, NEW c \in Conns,
         HandleClient(c) \/ Watch(c) \/ Forward(c) \/ Timer(c) \/ Client(c)
  PROVE  FreshInv'
<1>0. TypeOK /\ FreshInv /\ HandlerOK(c)
  BY DEF Inv, HandlerInv
<1>s. \A x \in Conns : state[x] # "NEW" => state'[x] # "NEW" /\ code'[x] = code[x]
  BY <1>0, JoinKept
<1>p. \A x \in Conns : pc'[x] \in {"idle", "accepted"} => pc[x] \in {"idle", "accepted"}
  <2>1. pc'[c] \in {"idle", "accepted"} => pc[c] \in {"idle", "accepted"}
    <3> USE DEF Goto, Raises, AbortClose, TypeOK
    <3>1. CASE HandleClient(c)
      <4>1. ASSUME NEW s \in Conns,
                   \/ JoinReplaceWaiting(c, s) \/ JoinPair(c, s) \/ JoinSwapPaired(c, s)
                   \/ JoinSurvivor(c, s) \/ JoinHalfBroken(c, s)
            PROVE  pc[c] = "accepted"
        BY <4>1 DEF JoinReplaceWaiting, JoinPair, JoinSwapPaired, JoinSurvivor,
                    JoinHalfBroken, Finds
      <4>2. CASE \/ CloseSilently(c) \/ RejectJoin(c) \/ JoinRelayFull(c) \/ JoinNew(c)
                 \/ JoinCodeInUse(c)
        BY <4>2 DEF CloseSilently, RejectJoin, JoinRelayFull, JoinNew, JoinCodeInUse
      <4>3. CASE \/ FinishPair(c) \/ PairFails(c) \/ FinishRejoin(c) \/ DisconnectReplaced(c)
                 \/ DisconnectWaiting(c) \/ DisconnectPaired(c) \/ FinishSurvivor(c)
                 \/ DisconnectHalfBroken(c)
        BY <1>0, <4>3 DEF FinishPair, PairFails, FinishRejoin, DisconnectReplaced,
           DisconnectWaiting, DisconnectPaired, FinishSurvivor, DisconnectHalfBroken
      <4> QED  BY <3>1, <4>1, <4>2, <4>3 DEF HandleClient
    <3>2. CASE Watch(c) \/ Forward(c) \/ Timer(c) \/ Client(c)
      BY <3>2 DEF Watch, Forward, Timer, WatcherDiscards, WatcherEof, ForwardFrame,
         ForwardWriteFails, ForwardEnds, TimerFires, TimerPops, Client, Connect, ClientSends,
         ClientGone
    <3> QED  BY <3>1, <3>2
  <2> QED  BY <1>0, <2>1, OwnHandler
<1>t. \A x \in Conns : state[x] = "NEW" /\ ~(x = c /\ JoinNew(c)) =>
        state'[x] = "NEW" /\ timer'[x] = timer[x]
  <2> SUFFICES ASSUME NEW x \in Conns, state[x] = "NEW", ~(x = c /\ JoinNew(c))
               PROVE  state'[x] = "NEW" /\ timer'[x] = timer[x]
    OBVIOUS
  <2> USE DEF sessVars, TypeOK
  <2>1. CASE JoinNew(c)
    BY <1>0, <2>1 DEF JoinNew
  <2>2. ASSUME NEW s \in Conns,
               \/ JoinReplaceWaiting(c, s) \/ JoinPair(c, s) \/ JoinSwapPaired(c, s)
               \/ JoinSurvivor(c, s) \/ JoinHalfBroken(c, s)
        PROVE  state'[x] = "NEW" /\ timer'[x] = timer[x]
    BY <1>0, <2>2 DEF JoinReplaceWaiting, JoinPair, JoinSwapPaired, JoinSurvivor,
                      JoinHalfBroken, Finds
  <2>3. CASE DisconnectWaiting(c) \/ DisconnectPaired(c)
    BY <1>0, <2>3 DEF DisconnectWaiting, DisconnectPaired
  <2>4. CASE \/ CloseSilently(c) \/ RejectJoin(c) \/ JoinRelayFull(c) \/ JoinCodeInUse(c)
             \/ FinishPair(c) \/ PairFails(c) \/ FinishRejoin(c) \/ DisconnectReplaced(c)
             \/ FinishSurvivor(c) \/ DisconnectHalfBroken(c)
    BY <2>4 DEF CloseSilently, RejectJoin, JoinRelayFull, JoinCodeInUse, FinishPair,
       PairFails, FinishRejoin, DisconnectReplaced, FinishSurvivor, DisconnectHalfBroken,
       AbortClose
  <2>5. CASE Timer(c)
    BY <1>0, <2>5 DEF Timer, TimerFires, TimerPops, FreshInv
  <2>6. CASE Watch(c) \/ Forward(c) \/ Client(c)
    BY <2>6 DEF Watch, Forward, WatcherDiscards, WatcherEof, ForwardFrame,
       ForwardWriteFails, ForwardEnds, Client, Connect, ClientSends, ClientGone
  <2> QED  BY <2>1, <2>2, <2>3, <2>4, <2>5, <2>6 DEF HandleClient
<1>m. \A x \in Conns : state[x] = "NEW" /\ ~(x = c /\ JoinNew(c)) => Keys(peers'[x]) = {}
  <2> SUFFICES ASSUME NEW x \in Conns, state[x] = "NEW", ~(x = c /\ JoinNew(c)),
                      NEW q \in PeerIds
               PROVE  peers'[x][q] = None
    BY DEF Keys
  <2>1. peers[x][q] = None
    BY <1>0 DEF FreshInv, Members, Keys
  <2> QED  BY <2>1, PeersStep
<1>j. JoinNew(c) => state'[c] # "NEW" /\ code'[c] # None /\ pc'[c] = "waiting"
  BY <1>0 DEF JoinNew, joinVars, Goto, TypeOK
<1>1. \A x \in Conns : pc'[x] \in {"idle", "accepted"} => state'[x] = "NEW"
  BY <1>0, <1>p, <1>t, <1>j DEF FreshInv
<1>2. \A x \in Conns : state'[x] = "NEW" => Keys(peers'[x]) = {} /\ timer'[x] = "none"
  BY <1>0, <1>s, <1>t, <1>j, <1>m DEF FreshInv
<1>3. \A x \in Conns : state'[x] # "NEW" => code'[x] # None
  BY <1>0, <1>s, <1>t, <1>j DEF FreshInv
<1> QED  BY <1>1, <1>2, <1>3 DEF FreshInv, Members

\* sess.peers keeps filing sockets under their own peer_id and code.
LEMMA MemberStep ==
  ASSUME Inv, MemberInv, NEW c \in Conns,
         HandleClient(c) \/ Watch(c) \/ Forward(c) \/ Timer(c) \/ Client(c)
  PROVE  MemberInv'
<1> SUFFICES ASSUME NEW t \in Conns, NEW q \in PeerIds, peers'[t][q] # None
             PROVE  /\ pid'[peers'[t][q]] = q
                    /\ code'[peers'[t][q]] = code'[t]
                    /\ pc'[peers'[t][q]] # "idle"
  BY DEF MemberInv
<1>s. /\ \A y \in Conns : pc[y] # "idle" =>
            pc'[y] # "idle" /\ code'[y] = code[y] /\ pid'[y] = pid[y]
      /\ \A s \in Conns : state[s] # "NEW" => state'[s] # "NEW" /\ code'[s] = code[s]
  BY JoinKept DEF Inv
<1>1. CASE peers'[t][q] = peers[t][q]
  <2>1. peers[t][q] \in Conns /\ state[t] # "NEW"
    BY <1>1 DEF Inv, FreshInv, Members, Keys, TypeOK, Conn
  <2> QED  BY <1>1, <1>s, <2>1 DEF MemberInv
<1>2. CASE /\ peers'[t][q] = c /\ q = pid[c]
           /\ pc[c] = "accepted" /\ code[t] = code[c]
           /\ t = c \/ state[t] # "NEW"
  BY <1>2, <1>s
<1> QED  BY <1>1, <1>2, PeersStep

-----------------------------------------------------------------------------
(* Routing *)

\* Writing a frame adds its sender to the sources of one socket.
LEMMA PutSources ==
  ASSUME NEW t \in [Conns -> Seq(Frame)], NEW c, NEW kind, NEW from, NEW x \in Conns
  PROVE  Sources(Put(t, c, kind, from), x)
           \subseteq Sources(t, x) \cup (IF x = c THEN {from} ELSE {})
<1> DEFINE r == [kind |-> kind, from |-> from]
           u == Put(t, c, kind, from)
<1>1. u[x] = t[x] \/ (x = c /\ u[x] = Append(t[x], r))
  BY DEF Put
<1>2. CASE u[x] = t[x]
  BY <1>2 DEF Sources
<1>3. CASE x = c /\ u[x] = Append(t[x], r)
  <2>1. t[x] \in Seq(Frame)
    OBVIOUS
  <2>2. \A i \in DOMAIN u[x] : (i \in DOMAIN t[x] /\ u[x][i] = t[x][i]) \/ u[x][i] = r
    BY <1>3, <2>1
  <2>3. r.from = from
    OBVIOUS
  <2> HIDE DEF r, u
  <2>4. ASSUME NEW i \in DOMAIN u[x] PROVE u[x][i].from \in Sources(t, x) \cup {from}
    BY <2>2, <2>3 DEF Sources
  <2>5. Sources(u, x) \subseteq Sources(t, x) \cup {from}
    BY <2>4 DEF Sources
  <2> QED  BY <1>3, <2>5 DEF u
<1> QED  BY <1>1, <1>2, <1>3

\* Starting forwarders between linked sockets.
LEMMA StartRoutes ==
  ASSUME TypeOK, NEW cs \in SUBSET Conns, NEW to, StartForwarding(cs, to), NEW x \in Conns,
         fwd'[x] = "run"
  PROVE  \/ fwd[x] = "run" /\ dst'[x] = dst[x]
         \/ x \in cs /\ dst'[x] = to[x]
BY DEF StartForwarding, Reading, TypeOK

\* Only the two joins that complete a pair start forwarders.
LEMMA NoNewForwarder ==
  ASSUME TypeOK, NEW c \in Conns, NEW x \in Conns, fwd'[x] = "run",
         HandleClient(c) \/ Watch(c) \/ Forward(c) \/ Timer(c) \/ Client(c),
         ~FinishPair(c), ~FinishRejoin(c)
  PROVE  fwd[x] = "run" /\ dst'[x] = dst[x]
<1>0. TypeOK
  OBVIOUS
<1>1. CASE DisconnectPaired(c)
  <2>1. dst' = dst
    BY <1>1 DEF DisconnectPaired
  <2>2. PICK v : fwd' = [Cancelled(fwd, {c}) EXCEPT ![v] =
                           IF watcher[v] = "none" THEN "none" ELSE @]
    BY <1>1 DEF DisconnectPaired
  <2> QED  BY <1>0, <2>1, <2>2 DEF Cancelled, TypeOK
<1>2. ASSUME NEW s \in Conns,
             \/ JoinReplaceWaiting(c, s) \/ JoinPair(c, s) \/ JoinSwapPaired(c, s)
             \/ JoinSurvivor(c, s) \/ JoinHalfBroken(c, s)
      PROVE  fwd[x] = "run" /\ dst'[x] = dst[x]
  <2>1. dst' = dst
    BY <1>2 DEF JoinReplaceWaiting, JoinPair, JoinSwapPaired, JoinSurvivor, JoinHalfBroken
  <2>2. fwd' = fwd \/ \E cs : fwd' = Cancelled(fwd, cs)
    BY <1>2 DEF JoinReplaceWaiting, JoinPair, JoinSwapPaired, JoinSurvivor, JoinHalfBroken
  <2> QED  BY <2>1, <2>2 DEF Cancelled
<1>3. CASE \/ CloseSilently(c) \/ RejectJoin(c) \/ JoinRelayFull(c) \/ JoinCodeInUse(c)
           \/ JoinNew(c) \/ PairFails(c) \/ DisconnectReplaced(c) \/ DisconnectWaiting(c)
           \/ FinishSurvivor(c) \/ DisconnectHalfBroken(c)
  BY <1>0, <1>3 DEF CloseSilently, RejectJoin, JoinRelayFull, JoinCodeInUse, JoinNew,
     PairFails, DisconnectReplaced, DisconnectWaiting, FinishSurvivor, DisconnectHalfBroken,
     AbortClose, Cancelled, taskVars, TypeOK
<1>4. CASE Watch(c) \/ Forward(c) \/ Timer(c) \/ Client(c)
  BY <1>0, <1>4 DEF Watch, Forward, Timer, WatcherDiscards, WatcherEof, ForwardFrame,
     ForwardWriteFails, ForwardEnds, TimerFires, TimerPops, Client, Connect, ClientSends,
     ClientGone, taskVars, TypeOK
<1> QED  BY <1>1, <1>2, <1>3, <1>4 DEF HandleClient

\* What a step of c can do to the forwarders.
LEMMA ForwardStep ==
  ASSUME Inv, MemberInv, NEW c \in Conns, NEW x \in Conns, fwd'[x] = "run",
         HandleClient(c) \/ Watch(c) \/ Forward(c) \/ Timer(c) \/ Client(c)
  PROVE  \/ fwd[x] = "run" /\ dst'[x] = dst[x]
         \/ dst'[x] \in Conns /\ Linked(x, dst'[x])
<1>0. TypeOK /\ HandlerOK(c)
  BY DEF Inv, HandlerInv
<1>1. CASE FinishPair(c)
  <2>1. PICK p \in Members(hsess[c]), q \in Members(hsess[c]) :
          LET a == peers[hsess[c]][p]
              b == peers[hsess[c]][q]
          IN /\ p # q
             /\ StartForwarding({a, b}, Routes(a, b))
    BY <1>1 DEF FinishPair
  <2> DEFINE a == peers[hsess[c]][p]
             b == peers[hsess[c]][q]
             to == Routes(a, b)
  <2>2. hsess[c] \in Conns
    BY <1>0, <1>1 DEF FinishPair, HandlerOK, TypeOK, Conn
  <2>3. a \in Conns /\ b \in Conns /\ p \in PeerIds /\ q \in PeerIds
    BY <1>0, <2>2, MembersType
  <2>4. Linked(a, b) /\ Linked(b, a)
    BY <2>1, <2>2, <2>3, RelayAssumption DEF MemberInv, Linked
  <2>5. StartForwarding({a, b}, to) /\ {a, b} \in SUBSET Conns
    BY <2>1, <2>3
  <2>6. \/ fwd[x] = "run" /\ dst'[x] = dst[x]
        \/ x \in {a, b} /\ dst'[x] = to[x]
    <3> HIDE DEF a, b, to
    <3> QED  BY <1>0, <2>5, StartRoutes
  <2> HIDE DEF a, b
  <2> QED  BY <2>3, <2>4, <2>6
<1>2. CASE FinishRejoin(c)
  <2> DEFINE o == other[c]
             cs == IF fwd[o] = "run" THEN {c} ELSE {c, o}
             to == Routes(c, o)
  <2>1. StartForwarding(cs, to) /\ o \in Conns /\ Linked(c, o) /\ Linked(o, c)
    BY <1>0, <1>2 DEF FinishRejoin, HandlerOK, Linked, TypeOK, Conn
  <2>2. cs \in SUBSET Conns /\ cs \subseteq {c, o}
    BY <2>1
  <2>3. \/ fwd[x] = "run" /\ dst'[x] = dst[x]
        \/ x \in cs /\ dst'[x] = to[x]
    <3> HIDE DEF cs, to
    <3> QED  BY <1>0, <2>1, <2>2, StartRoutes
  <2> HIDE DEF o, cs
  <2> QED  BY <2>1, <2>2, <2>3
<1>3. CASE ~FinishPair(c) /\ ~FinishRejoin(c)
  BY <1>0, <1>3, NoNewForwarder
<1> QED  BY <1>1, <1>2, <1>3

\* What a step of c can do to the frames written to x.
LEMMA SourceStep ==
  ASSUME Inv, RouteInv, NEW c \in Conns, NEW x \in Conns, NEW f \in Sources(tx', x), f # None,
         HandleClient(c) \/ Watch(c) \/ Forward(c) \/ Timer(c) \/ Client(c)
  PROVE  f \in Sources(tx, x) \/ (f \in Conns /\ Linked(x, f))
<1>0. TypeOK
  BY DEF Inv
<1>p. ASSUME NEW y, NEW kind, NEW from, tx' = Put(tx, y, kind, from)
      PROVE  f \in Sources(tx, x) \/ (x = y /\ f = from)
  <2>1. tx \in [Conns -> Seq(Frame)]
    BY <1>0 DEF TypeOK
  <2>2. Sources(tx', x) \subseteq Sources(tx, x) \cup (IF x = y THEN {from} ELSE {})
    BY <1>p, <2>1, PutSources
  <2> QED  BY <2>2
<1>1. CASE ForwardFrame(c)
  <2>1. tx' = Put(tx, dst[c], Head(rx[c]), c) /\ fwd[c] = "run"
    BY <1>1 DEF ForwardFrame
  <2>2. Linked(dst[c], c)
    BY <2>1 DEF RouteInv, Linked
  <2> QED  BY <1>p, <2>1, <2>2
<1>2. CASE tx' = tx \/ \E y, kind : tx' = Put(tx, y, kind, None)
  BY <1>2, <1>p
<1>3. CASE TimerFires(c)
  <2> DEFINE r == [kind |-> "abort", from |-> None]
  <2>1. tx'[x] = tx[x] \/ tx'[x] = Append(tx[x], r)
    BY <1>3 DEF TimerFires
  <2>2. tx[x] \in Seq(Frame) /\ r.from = None
    BY <1>0 DEF TypeOK
  <2>3. PICK i \in DOMAIN tx'[x] : f = tx'[x][i].from
    BY DEF Sources
  <2>4. (i \in DOMAIN tx[x] /\ tx'[x][i] = tx[x][i]) \/ tx'[x][i] = r
    BY <2>1, <2>2, <2>3
  <2> HIDE DEF r
  <2> QED  BY <2>2, <2>3, <2>4 DEF Sources
<1>4. CASE ClientGone(c)
  <2>1. PICK i \in DOMAIN tx'[x] : f = tx'[x][i].from
    BY DEF Sources
  <2>2. tx'[x] = tx[x] \/ tx'[x] = <<>>
    BY <1>0, <1>4 DEF ClientGone, TypeOK
  <2>3. tx'[x] = tx[x]
    BY <2>1, <2>2
  <2> QED  BY <2>1, <2>3 DEF Sources
<1>5. ASSUME NEW s \in Conns,
             \/ JoinReplaceWaiting(c, s) \/ JoinPair(c, s) \/ JoinSwapPaired(c, s)
             \/ JoinSurvivor(c, s) \/ JoinHalfBroken(c, s)
      PROVE  tx' = tx \/ \E y, kind : tx' = Put(tx, y, kind, None)
  BY <1>5 DEF JoinReplaceWaiting, JoinPair, JoinSwapPaired, JoinSurvivor, JoinHalfBroken
<1>6. CASE \/ RejectJoin(c) \/ JoinRelayFull(c) \/ JoinCodeInUse(c)
           \/ FinishPair(c) \/ FinishRejoin(c)
  <2>1. \E y, kind : tx' = Put(tx, y, kind, None)
    BY <1>6 DEF RejectJoin, JoinRelayFull, JoinCodeInUse, AbortClose, FinishPair,
                FinishRejoin
  <2> QED  BY <1>2, <2>1
<1>7. CASE \/ CloseSilently(c) \/ JoinNew(c) \/ DisconnectReplaced(c)
           \/ DisconnectWaiting(c) \/ DisconnectPaired(c) \/ FinishSurvivor(c)
           \/ DisconnectHalfBroken(c)
  <2>1. tx' = tx
    BY <1>7 DEF CloseSilently, JoinNew, DisconnectReplaced, DisconnectWaiting,
       DisconnectPaired, FinishSurvivor, DisconnectHalfBroken, sockVars
  <2> QED  BY <1>2, <2>1
<1>8. CASE \/ Watch(c) \/ ForwardWriteFails(c) \/ ForwardEnds(c) \/ TimerPops(c)
           \/ \E k \in Codes \cup {None}, p \in PeerIds : Connect(c, k, p)
           \/ \E m \in Payload : ClientSends(c, m)
  <2>1. tx' = tx
    BY <1>8 DEF Watch, WatcherDiscards, WatcherEof, ForwardWriteFails, ForwardEnds,
       TimerPops, Connect, ClientSends, sockVars
  <2> QED  BY <1>2, <2>1
<1>9. CASE PairFails(c)
  <2>1. tx' = tx \/ \E y, kind : tx' = Put(tx, y, kind, None)
    BY <1>9 DEF PairFails
  <2> QED  BY <1>2, <2>1
<1> QED  BY <1>1, <1>2, <1>3, <1>4, <1>5, <1>6, <1>7, <1>8, <1>9
         DEF HandleClient, Forward, Timer, Client

\* Every step keeps all running forwarders, and all frames already written,
\* between sockets of one code and two peer_ids.
LEMMA RouteStep ==
  ASSUME Inv, MemberInv, RouteInv, NEW c \in Conns,
         HandleClient(c) \/ Watch(c) \/ Forward(c) \/ Timer(c) \/ Client(c)
  PROVE  RouteInv'
<1>s. \A y \in Conns : pc[y] # "idle" =>
        pc'[y] # "idle" /\ code'[y] = code[y] /\ pid'[y] = pid[y]
  BY JoinKept DEF Inv
<1>l. \A x, y \in Conns : Linked(x, y) =>
        pc'[x] # "idle" /\ pc'[y] # "idle" /\ code'[x] = code'[y] /\ pid'[x] # pid'[y]
  BY <1>s DEF Linked
<1> SUFFICES ASSUME NEW x \in Conns
             PROVE  /\ (fwd'[x] = "run") => dst'[x] # None /\ Linked(x, dst[x])'
                    /\ \A f \in Sources(tx', x) : f # None => Linked(x, f)'
  BY DEF RouteInv, Sources
<1>1. ASSUME fwd'[x] = "run" PROVE dst'[x] # None /\ Linked(x, dst[x])'
  <2>1. dst'[x] \in Conns /\ Linked(x, dst'[x])
    BY <1>1, ForwardStep DEF RouteInv, Inv, TypeOK, Conn
  <2> QED  BY <1>l, <2>1, RelayAssumption DEF Linked
<1>2. ASSUME NEW f \in Sources(tx', x), f # None PROVE Linked(x, f)'
  <2>1. f \in Conns
    <3>1. PICK i \in DOMAIN tx'[x] : f = tx'[x][i].from
      BY DEF Sources
    <3>2. tx' \in [Conns -> Seq(Frame)]
      BY TypeStep DEF Inv, Next, TypeOK
    <3>3. tx'[x][i] \in Frame
      BY <3>1, <3>2
    <3> QED  BY <1>2, <3>1, <3>3 DEF Frame
  <2>2. Linked(x, f)
    BY <1>2, <2>1, SourceStep DEF RouteInv
  <2> QED  BY <1>l, <2>1, <2>2 DEF Linked
<1> QED  BY <1>1, <1>2

-----------------------------------------------------------------------------
(* The handlers of a pair *)

Alive(c, s) ==
  /\ hsess[c] = s
  /\ pc[c] \in {"notify", "waiting"} \/ (pc[c] = "pairing" /\ other[c] # None)

\* A step that is not a join completing the pair leaves a PAIRED session's members
\* alone.
LEMMA PairUntouched ==
  ASSUME Inv, NEW c \in Conns, NEW s \in Conns, state'[s] = "PAIRED",
         HandleClient(c) \/ Watch(c) \/ Forward(c) \/ Timer(c) \/ Client(c),
         ~(JoinPair(c, s) \/ JoinSwapPaired(c, s) \/ JoinHalfBroken(c, s))
  PROVE  state[s] = "PAIRED" /\ peers'[s] = peers[s]
<1>0. TypeOK /\ HandlerOK(c)
  BY DEF Inv, HandlerInv
<1> USE DEF TypeOK
<1>1. CASE JoinNew(c)
  BY <1>0, <1>1 DEF JoinNew, Enter
<1>2. ASSUME NEW t \in Conns,
             \/ JoinReplaceWaiting(c, t) \/ JoinPair(c, t) \/ JoinSwapPaired(c, t)
             \/ JoinSurvivor(c, t) \/ JoinHalfBroken(c, t)
      PROVE  state[s] = "PAIRED" /\ peers'[s] = peers[s]
  <2>1. CASE JoinReplaceWaiting(c, t) \/ JoinSurvivor(c, t)
    BY <1>0, <2>1 DEF JoinReplaceWaiting, JoinSurvivor, Finds, Enter
  <2>2. CASE JoinPair(c, t) \/ JoinSwapPaired(c, t) \/ JoinHalfBroken(c, t)
    BY <1>0, <2>2, ZenonT(60) DEF JoinPair, JoinSwapPaired, JoinHalfBroken, Finds, Enter
  <2> QED  BY <1>2, <2>1, <2>2
<1>3. CASE DisconnectWaiting(c)
  BY <1>0, <1>3 DEF DisconnectWaiting, Leave
<1>4. CASE DisconnectPaired(c)
  BY <1>0, <1>4 DEF DisconnectPaired, Leave
<1>5. CASE \/ CloseSilently(c) \/ RejectJoin(c) \/ JoinRelayFull(c) \/ JoinCodeInUse(c)
           \/ FinishPair(c) \/ PairFails(c) \/ FinishRejoin(c) \/ DisconnectReplaced(c)
           \/ FinishSurvivor(c) \/ DisconnectHalfBroken(c)
  BY <1>5 DEF CloseSilently, RejectJoin, JoinRelayFull, JoinCodeInUse, FinishPair, PairFails,
              FinishRejoin, DisconnectReplaced, FinishSurvivor, DisconnectHalfBroken,
              AbortClose, sessVars
<1>6. CASE Watch(c) \/ Forward(c) \/ Timer(c) \/ Client(c)
  BY <1>6 DEF Watch, Forward, Timer, WatcherDiscards, WatcherEof, ForwardFrame,
              ForwardWriteFails, ForwardEnds, TimerFires, TimerPops, Client, Connect,
              ClientSends, ClientGone, sessVars
<1> QED  BY <1>1, <1>2, <1>3, <1>4, <1>5, <1>6 DEF HandleClient

\* The handler of a member does not end as long as its session is PAIRED.
LEMMA AliveStays ==
  ASSUME Inv, MemberInv, NEW c \in Conns, NEW s \in Conns, NEW p \in PeerIds,
         state[s] = "PAIRED", state'[s] = "PAIRED", peers[s][p] = c, Alive(c, s),
         HandleClient(c) \/ Watch(c) \/ Forward(c) \/ Timer(c) \/ Client(c)
  PROVE  Alive(c, s)'
<1>0. TypeOK
  BY DEF Inv
<1>1. /\ IsCurrent(c) /\ Pair(Members(s)) /\ hsess[c] = s
      /\ pc[c] \in {"notify", "waiting"} \/ (pc[c] = "pairing" /\ other[c] # None)
  BY RelayAssumption DEF IsCurrent, Alive, MemberInv, Inv, SessionShape
<1>2. ~PairFails(c)
  BY <1>1 DEF PairFails, Pair
<1>3. CASE FinishPair(c) \/ FinishRejoin(c)
  BY <1>0, <1>1, <1>3 DEF FinishPair, FinishRejoin, AwaitDone, Goto, Alive, TypeOK
<1>4. CASE \/ DisconnectReplaced(c) \/ DisconnectWaiting(c) \/ DisconnectPaired(c)
           \/ DisconnectHalfBroken(c)
  BY <1>0, <1>1, <1>4 DEF DisconnectReplaced, DisconnectWaiting, DisconnectPaired,
                          DisconnectHalfBroken, TypeOK
<1>5. CASE \/ CloseSilently(c) \/ RejectJoin(c) \/ JoinRelayFull(c) \/ JoinNew(c)
           \/ JoinCodeInUse(c) \/ FinishSurvivor(c)
  BY <1>1, <1>5 DEF CloseSilently, RejectJoin, JoinRelayFull, JoinNew, JoinCodeInUse,
                    FinishSurvivor
<1>6. ASSUME NEW t \in Conns,
             \/ JoinReplaceWaiting(c, t) \/ JoinPair(c, t) \/ JoinSwapPaired(c, t)
             \/ JoinSurvivor(c, t) \/ JoinHalfBroken(c, t)
      PROVE  FALSE
  BY <1>1, <1>6 DEF JoinReplaceWaiting, JoinPair, JoinSwapPaired, JoinSurvivor,
                    JoinHalfBroken, Finds
<1>7. CASE Watch(c) \/ Forward(c) \/ Timer(c) \/ Client(c)
  BY <1>1, <1>7 DEF Watch, Forward, Timer, WatcherDiscards, WatcherEof, ForwardFrame,
              ForwardWriteFails, ForwardEnds, TimerFires, TimerPops, Client, Connect,
              ClientSends, ClientGone, Alive
<1> QED  BY <1>2, <1>3, <1>4, <1>5, <1>6, <1>7 DEF HandleClient

\* A PAIRED session never loses its last handler.
LEMMA AliveStep ==
  ASSUME Inv, MemberInv, PairHasHandler, NEW c \in Conns,
         HandleClient(c) \/ Watch(c) \/ Forward(c) \/ Timer(c) \/ Client(c)
  PROVE  PairHasHandler'
<1>0. TypeOK
  BY DEF Inv
<1> SUFFICES ASSUME NEW s \in Conns, state'[s] = "PAIRED"
             PROVE  \E p \in PeerIds : (peers[s][p] # None /\ Alive(peers[s][p], s))'
  BY DEF PairHasHandler, MemberConns, Members, Keys, Alive
<1>1. CASE JoinPair(c, s) \/ JoinSwapPaired(c, s) \/ JoinHalfBroken(c, s)
  <2>1. /\ pc[c] = "accepted" /\ code[c] # None /\ sessions[code[c]] = s
        /\ peers' = [peers EXCEPT ![s][pid[c]] = c]
        /\ hsess' = [hsess EXCEPT ![c] = s]
        /\ \/ pc' = [pc EXCEPT ![c] = "notify"]
           \/ /\ pc' = [pc EXCEPT ![c] = "pairing"]
              /\ \E first \in MemberConns(s) : other' = [other EXCEPT ![c] = first]
    BY <1>1 DEF JoinPair, JoinSwapPaired, JoinHalfBroken, Finds, Enter, Goto
  <2>5. \A first \in MemberConns(s) : first # None
    BY DEF MemberConns, Members, Keys
  <2>2. pid[c] \in PeerIds
    BY <2>1, FoundSession
  <2>3. peers'[s][pid[c]] = c
    BY <1>0, <2>1, <2>2, PeersUpdate DEF Conn
  <2>4. Alive(c, s)'
    BY <1>0, <2>1, <2>5 DEF Alive, TypeOK
  <2> QED  BY <2>2, <2>3, <2>4, RelayAssumption DEF Alive
<1>2. CASE ~(JoinPair(c, s) \/ JoinSwapPaired(c, s) \/ JoinHalfBroken(c, s))
  <2>1. state[s] = "PAIRED" /\ peers'[s] = peers[s]
    BY <1>2, PairUntouched
  <2>2. PICK p \in PeerIds : peers[s][p] # None /\ Alive(peers[s][p], s)
    BY <2>1 DEF PairHasHandler, MemberConns, Members, Keys, Alive
  <2>3. peers[s][p] \in Conns
    BY <1>0, <2>2 DEF TypeOK, Conn
  <2>4. CASE peers[s][p] = c
    <3>1. Alive(c, s)'
      BY <2>1, <2>2, <2>4, AliveStays
    <3> QED  BY <2>1, <2>2, <2>4, <3>1 DEF Alive
  <2>5. CASE peers[s][p] # c
    <3> DEFINE x == peers[s][p]
    <3>1. /\ pc'[x] = pc[x] /\ hsess'[x] = hsess[x]
          /\ \/ other'[x] = other[x]
             \/ DisconnectPaired(c) /\ pc[x] = "pairing" /\ hsess[x] = hsess[c]
      <4>1. x \in Conns \ {c}
        BY <2>3, <2>5
      <4> HIDE DEF x
      <4> QED  BY <1>0, <4>1, OwnHandler
    <3>2. ~(DisconnectPaired(c) /\ hsess[c] = s)
      BY <1>0 DEF DisconnectPaired, TypeOK
    <3> QED  BY <2>1, <2>2, <3>1, <3>2 DEF Alive
  <2> QED  BY <2>4, <2>5
<1> QED  BY <1>1, <1>2

-----------------------------------------------------------------------------
(* The theorems *)

FullInv == Inv /\ MemberInv /\ RouteInv

\* The inductive invariant holds before the first connection.
LEMMA InitInv == Init => FullInv
<1> SUFFICES ASSUME Init PROVE FullInv
  OBVIOUS
<1>1. \A s \in Conns : Members(s) = {}
  BY DEF Init, Members, Keys
<1>2. FreshInv /\ HandlerInv /\ MemberInv
  BY <1>1 DEF Init, FreshInv, HandlerInv, HandlerOK, MemberInv
<1>3. SessionShape /\ TimerArmed
  BY <1>1 DEF Init, SessionShape, TimerArmed
<1>4. \A c \in Conns : Sources(tx, c) = {}
  BY DEF Init, Sources
<1>5. RouteInv
  BY <1>4 DEF Init, RouteInv
<1> QED  BY <1>2, <1>3, <1>5, InitType DEF FullInv, Inv

\* Every step of the relay preserves the inductive invariant.
LEMMA NextInv == FullInv /\ [Next]_vars => FullInv'
<1> SUFFICES ASSUME FullInv, [Next]_vars PROVE FullInv'
  OBVIOUS
<1>t. TypeOK'
  BY TypeStep DEF FullInv, Inv
<1>1. CASE Next
  <2>1. PICK c \in Conns : HandleClient(c) \/ Watch(c) \/ Forward(c) \/ Timer(c) \/ Client(c)
    BY <1>1 DEF Next
  <2>2. HandlerInv' /\ FreshInv' /\ MemberInv' /\ RouteInv'
    BY <2>1, HandlerStep, FreshStep, MemberStep, RouteStep DEF FullInv
  <2>3. SessionShape' /\ TimerArmed'
    <3>1. CASE \/ JoinNew(c)
               \/ \E s \in Conns :
                    \/ JoinReplaceWaiting(c, s) \/ JoinPair(c, s) \/ JoinSwapPaired(c, s)
                    \/ JoinSurvivor(c, s) \/ JoinHalfBroken(c, s)
      BY <3>1, TableJoin DEF FullInv
    <3>2. CASE \/ DisconnectWaiting(c) \/ DisconnectPaired(c) \/ Timer(c)
               \/ \E k \in Codes \cup {None}, p \in PeerIds : Connect(c, k, p)
      BY <3>2, TableOther DEF FullInv
    <3>3. CASE \/ CloseSilently(c) \/ RejectJoin(c) \/ JoinRelayFull(c) \/ JoinCodeInUse(c)
               \/ FinishPair(c) \/ PairFails(c) \/ FinishRejoin(c) \/ DisconnectReplaced(c)
               \/ FinishSurvivor(c) \/ DisconnectHalfBroken(c)
      <4>1. UNCHANGED <<sessions, state, peers, timer, code>>
        BY <3>3 DEF CloseSilently, RejectJoin, JoinRelayFull, JoinCodeInUse, FinishPair,
           PairFails, FinishRejoin, DisconnectReplaced, FinishSurvivor,
           DisconnectHalfBroken, AbortClose, sessVars, joinVars
      <4> QED  BY <4>1, TableFrame DEF FullInv, Inv
    <3>4. CASE Watch(c) \/ Forward(c) \/ (\E m \in Payload : ClientSends(c, m)) \/ ClientGone(c)
      <4>1. UNCHANGED <<sessions, state, peers, timer, code>>
        BY <3>4 DEF Watch, Forward, WatcherDiscards, WatcherEof, ForwardFrame,
           ForwardWriteFails, ForwardEnds, ClientSends, ClientGone, sessVars, joinVars
      <4> QED  BY <4>1, TableFrame DEF FullInv, Inv
    <3> QED  BY <2>1, <3>1, <3>2, <3>3, <3>4 DEF HandleClient, Client
  <2> QED  BY <1>t, <2>2, <2>3 DEF FullInv, Inv
<1>2. CASE UNCHANGED vars
  <2>1. HandlerInv' /\ FreshInv' /\ MemberInv' /\ RouteInv'
    BY <1>2 DEF FullInv, Inv, HandlerInv, HandlerOK, Linked, FreshInv, MemberInv, RouteInv,
       Sources, Members, vars, sessVars, joinVars, taskVars, sockVars
  <2>2. SessionShape' /\ TimerArmed'
    BY <1>2, TableFrame DEF FullInv, Inv, vars, sessVars, joinVars
  <2> QED  BY <1>t, <2>1, <2>2 DEF FullInv, Inv
<1> QED  BY <1>1, <1>2

\* The inductive invariant of server.py: well-typed state, handlers and timers
\* that agree with the session table, members filed under their own peer_id and
\* code, and forwarders that stay inside their code.
THEOREM InvHolds == Spec => []FullInv
BY InitInv, NextInv, PTL DEF Spec

\* The relay's state stays well typed: in particular handlers never follow a
\* missing session or partner.
THEOREM TypeCorrect == Spec => []TypeOK
<1>1. FullInv => TypeOK
  BY DEF FullInv, Inv
<1> QED  BY <1>1, InvHolds, PTL

\* The state of every session agrees with the number of its peers.
THEOREM ShapeCorrect == Spec => []SessionShape
<1>1. FullInv => SessionShape
  BY DEF FullInv, Inv
<1> QED  BY <1>1, InvHolds, PTL

\* A registered session is PAIRED or has a timer, and never both.
THEOREM TimersCorrect == Spec => []TimerArmed
<1>1. FullInv => TimerArmed
  BY DEF FullInv, Inv
<1> QED  BY <1>1, InvHolds, PTL

\* Bytes only go to sockets of the same code and another peer_id.
THEOREM RoutingCorrect == Spec => []NoCrossTalk
<1>1. FullInv => NoCrossTalk
  BY DEF FullInv, RouteInv, NoCrossTalk, Linked, Sources
<1> QED  BY <1>1, InvHolds, PTL

\* A PAIRED session always has a peer whose handler is alive.
THEOREM HandlersCorrect == Spec => []PairHasHandler
<1>1. Init => PairHasHandler
  BY DEF Init, PairHasHandler
<1>2. FullInv /\ PairHasHandler /\ [Next]_vars => PairHasHandler'
  <2> SUFFICES ASSUME FullInv, PairHasHandler, [Next]_vars PROVE PairHasHandler'
    OBVIOUS
  <2>1. CASE Next
    BY <2>1, AliveStep DEF Next, FullInv
  <2>2. CASE UNCHANGED vars
    BY <2>2 DEF PairHasHandler, MemberConns, Members, Keys, vars, sessVars
  <2> QED  BY <2>1, <2>2
<1> QED  BY <1>1, <1>2, InvHolds, PTL DEF Spec
=============================================================================
