---------------------------- MODULE PipeProofs ----------------------------
(***************************************************************************)
(* Theorems about two bridges and the relay between them, for any number   *)
(* of connections, breaks and timers.                                      *)
(***************************************************************************)
EXTENDS PipeProps, RelayProofs

-----------------------------------------------------------------------------
(* The invariants *)

PipeStates == {"INIT", "JOIN_SENT", "JOINED", "HELLO_SENT", "ESTABLISHED", "RECONNECTING"}

\* The fields of a PipeClient.
ClientRec == [st : PipeStates, sock : Conn, open : BOOLEAN, joined : BOOLEAN, sent : BOOLEAN,
              rcvd : BOOLEAN, buf : Seq(Frame), app : BOOLEAN]

\* A bridge without a connection has just been made; the connection of any other
\* joined with the bridge's own peer_id.
OwnSocket(u, r) ==
  /\ r.sock = None => r.st = "INIT" /\ ~r.open /\ r.buf = <<>>
  /\ r.sock # None => pid[r.sock] = u /\ pc[r.sock] # "idle"
  /\ r.st = "ESTABLISHED" => r.sent /\ r.rcvd

BridgeInv ==
  /\ cl \in [Users -> ClientRec]
  /\ \A u \in Users : OwnSocket(u, cl[u])
  /\ due \subseteq met /\ met \subseteq Users

\* The handler of x has a session that has been complete.
Paired(x) == hsess[x] # None /\ state[hsess[x]] \in {"PAIRED", "HALF_BROKEN"}

\* A handler keeps its session; a socket that is not a member of it any more has
\* been closed; rejoining handlers and forwarders stay inside their session.
PlaceOK(c) ==
  /\ pc[c] \in {"idle", "accepted"} => hsess[c] = None
  /\ hsess[c] # None => c \in closed \/ peers[hsess[c]][pid[c]] = c
  /\ \A s \in Conns, p \in PeerIds : peers[s][p] = c => hsess[c] = s
  /\ pc[c] = "notify" => Paired(c) /\ hsess[other[c]] = hsess[c]
  /\ fwd[c] = "run" => Paired(c) /\ hsess[dst[c]] = hsess[c]
PlaceInv == \A c \in Conns : PlaceOK(c)

Carries(q, kind) == \E i \in DOMAIN q : q[i].kind = kind

\* The partner of u has been in a complete session.
PartnerPaired(u) == \E x \in Conns : pid[x] = Partner(u) /\ Paired(x)

\* A hello comes from a socket that has been in a complete session.
HelloInv ==
  /\ \A c \in Conns : \A i \in DOMAIN tx[c] :
       tx[c][i].kind = "hello" => tx[c][i].from # None /\ Paired(tx[c][i].from)
  /\ \A u \in Users : Carries(cl[u].buf, "hello") => PartnerPaired(u)
  /\ \A u \in met : PartnerPaired(u)

\* The announcement of the partner's return is on its way over socket d to v.
Announced(v, d) ==
  Carries(tx[d], "partner-reconnected") \/ Carries(cl[v].buf, "partner-reconnected")

\* When u is back in the session of its partner's only connection d, d has been told.
DueInv == \A u \in due, d \in Conns :
  /\ pid[d] = Partner(u) /\ ~ConnectedAgain(Partner(u)) /\ d \notin closed \cup eof
  /\ cl[u].sock # None /\ hsess[cl[u].sock] = hsess[d]
  => Announced(Partner(u), d)

PipeInv == FullInv /\ BridgeInv /\ PlaceInv /\ HelloInv /\ DueInv

\* The one-line abbreviations of Relay and PipeClient.
USE DEF Users, AwaitDone, StartTimer, StopTimer, Enter, Lookup, HasRoom, Routes

-----------------------------------------------------------------------------
(* Places: sockets, handlers and sessions *)

\* A step of the relay, or a client that connects.
Move(c) ==
  \/ HandleClient(c) \/ Watch(c) \/ Forward(c) \/ Timer(c)
  \/ \E k \in Codes \cup {None}, p \in PeerIds : Connect(c, k, p)

JoinsSession(c, s) ==
  \/ JoinReplaceWaiting(c, s) \/ JoinPair(c, s) \/ JoinSwapPaired(c, s)
  \/ JoinSurvivor(c, s) \/ JoinHalfBroken(c, s)

\* There are two bridges.
LEMMA TwoBridges ==
  \A u \in Users : /\ Partner(u) \in Users /\ Partner(u) # u /\ Partner(Partner(u)) = u
                   /\ \A w \in Users : w # u => w = Partner(u)
<1>1. \A u \in Users : \E v \in Users : v # u
  BY PipeAssumption
<1>2. \A u \in Users : Partner(u) \in Users /\ Partner(u) # u
  BY <1>1 DEF Partner
<1>3. \A u, v, w \in Users : w # u /\ v # u => w = v
  BY PipeAssumption
<1> QED  BY <1>2, <1>3

\* What a join that enters a session does to its handler.
LEMMA JoinEffect ==
  ASSUME FullInv, NEW c \in Conns, NEW s \in Conns, (s = c /\ JoinNew(c)) \/ JoinsSession(c, s)
  PROVE  /\ pc[c] = "accepted" /\ code[c] # None /\ pid[c] \in PeerIds
         /\ hsess' = [hsess EXCEPT ![c] = s]
         /\ peers' = [peers EXCEPT ![s][pid[c]] = c]
         /\ peers[s][pid[c]] = None \/ peers[s][pid[c]] \in closed'
         /\ pc'[c] \in {"waiting", "pairing", "notify"} /\ UNCHANGED pid
<1>0. TypeOK /\ HandlerOK(c) /\ FreshInv
  BY DEF FullInv, Inv, HandlerInv
<1>1. CASE s = c /\ JoinNew(c)
  <2>1. pc[c] = "accepted" /\ code[c] # None /\ pid[c] \in PeerIds
    BY <1>0, <1>1 DEF JoinNew, HandlerOK, TypeOK
  <2>2. Members(c) = {}
    BY <1>0, <2>1 DEF FreshInv
  <2>3. peers[c][pid[c]] = None
    BY <2>1, <2>2 DEF Members, Keys
  <2> QED  BY <1>0, <1>1, <2>1, <2>3 DEF JoinNew, Goto, joinVars, TypeOK
<1>2. CASE JoinsSession(c, s)
  <2>1. pc[c] = "accepted" /\ code[c] # None /\ pid[c] \in PeerIds
    BY <1>0, <1>2, SMTT(40) DEF JoinsSession, JoinReplaceWaiting, JoinPair, JoinSwapPaired, JoinSurvivor,
                      JoinHalfBroken, Finds, HandlerOK, TypeOK
  <2>2. peers[s][pid[c]] = None \/ peers[s][pid[c]] \in closed'
    BY <1>2, <2>1 DEF JoinsSession, JoinReplaceWaiting, JoinPair, JoinSwapPaired, JoinSurvivor,
                      JoinHalfBroken, Finds, Members, Keys
  <2> QED  BY <1>0, <1>2, <2>1, <2>2 DEF JoinsSession, JoinReplaceWaiting, JoinPair,
           JoinSwapPaired, JoinSurvivor, JoinHalfBroken, Finds, Goto, joinVars, TypeOK
<1> QED  BY <1>1, <1>2

\* Every other step leaves the sessions of handlers alone, and takes only the actor
\* out of sess.peers.
LEMMA NoJoin ==
  ASSUME FullInv, NEW c \in Conns, Move(c), ~JoinNew(c), \A s \in Conns : ~JoinsSession(c, s)
  PROVE  /\ hsess' = hsess
         /\ peers' = peers \/ (Leave(c) /\ Wakes(c) /\ IsCurrent(c) /\ c \in closed')
<1>1. CASE Watch(c) \/ Forward(c) \/ Timer(c)
  BY <1>1 DEF Watch, Forward, Timer, WatcherDiscards, WatcherEof, ForwardFrame,
              ForwardWriteFails, ForwardEnds, TimerFires, TimerPops, sessVars
<1>2. CASE \E k \in Codes \cup {None}, p \in PeerIds : Connect(c, k, p)
  BY <1>2 DEF Connect, sessVars
<1>3. CASE DisconnectWaiting(c) \/ DisconnectPaired(c)
  BY <1>3 DEF DisconnectWaiting, DisconnectPaired
<1>4. CASE \/ CloseSilently(c) \/ RejectJoin(c) \/ JoinRelayFull(c) \/ JoinCodeInUse(c)
           \/ FinishPair(c) \/ PairFails(c) \/ FinishRejoin(c) \/ DisconnectReplaced(c)
           \/ FinishSurvivor(c) \/ DisconnectHalfBroken(c)
  BY <1>4 DEF CloseSilently, RejectJoin, JoinRelayFull, JoinCodeInUse, FinishPair, PairFails,
              FinishRejoin, DisconnectReplaced, FinishSurvivor, DisconnectHalfBroken,
              AbortClose, sessVars
<1> QED  BY <1>1, <1>2, <1>3, <1>4 DEF Move, HandleClient, JoinsSession

\* The relay closes sockets for good.
LEMMA ClosedGrows ==
  ASSUME NEW c \in Conns, Move(c)
  PROVE  closed \subseteq closed' /\ eof' = eof
<1>1. CASE Watch(c) \/ Forward(c) \/ Timer(c)
  BY <1>1 DEF Watch, Forward, Timer, WatcherDiscards, WatcherEof, ForwardFrame,
              ForwardWriteFails, ForwardEnds, TimerFires, TimerPops, sockVars
<1>2. CASE \E k \in Codes \cup {None}, p \in PeerIds : Connect(c, k, p)
  BY <1>2 DEF Connect, sockVars
<1>3. CASE HandleClient(c)
  <2>1. CASE \/ CloseSilently(c) \/ RejectJoin(c) \/ JoinRelayFull(c) \/ JoinNew(c)
             \/ JoinCodeInUse(c) \/ FinishPair(c) \/ PairFails(c) \/ FinishRejoin(c)
    BY <2>1 DEF CloseSilently, RejectJoin, JoinRelayFull, JoinNew, JoinCodeInUse, FinishPair,
                PairFails, FinishRejoin, AbortClose, Raises, sockVars
  <2>2. CASE \E s \in Conns : JoinsSession(c, s)
    BY <2>2 DEF JoinsSession, JoinReplaceWaiting, JoinPair, JoinSwapPaired, JoinSurvivor,
                JoinHalfBroken
  <2>3. CASE \/ DisconnectReplaced(c) \/ DisconnectWaiting(c) \/ DisconnectPaired(c)
             \/ FinishSurvivor(c) \/ DisconnectHalfBroken(c)
    BY <2>3 DEF DisconnectReplaced, DisconnectWaiting, DisconnectPaired, FinishSurvivor,
                DisconnectHalfBroken, sockVars
  <2> QED  BY <1>3, <2>1, <2>2, <2>3 DEF HandleClient, JoinsSession
<1> QED  BY <1>1, <1>2, <1>3 DEF Move

\* A step of the relay in RelayProofs' terms.
LEMMA MoveIsStep ==
  ASSUME NEW c \in Conns, Move(c)
  PROVE  HandleClient(c) \/ Watch(c) \/ Forward(c) \/ Timer(c) \/ Client(c)
BY DEF Move, Client

\* A session that has been complete is never WAITING again.
LEMMA StateStays ==
  ASSUME FullInv, NEW c \in Conns, Move(c), NEW s \in Conns,
         state[s] \in {"PAIRED", "HALF_BROKEN"}
  PROVE  state'[s] \in {"PAIRED", "HALF_BROKEN"}
<1>0. TypeOK /\ FreshInv
  BY DEF FullInv, Inv
<1>1. CASE Watch(c) \/ Forward(c) \/ Timer(c)
  BY <1>1 DEF Watch, Forward, Timer, WatcherDiscards, WatcherEof, ForwardFrame,
              ForwardWriteFails, ForwardEnds, TimerFires, TimerPops, sessVars
<1>2. CASE \E k \in Codes \cup {None}, p \in PeerIds : Connect(c, k, p)
  BY <1>2 DEF Connect, sessVars
<1>3. CASE HandleClient(c)
  <2>1. CASE JoinNew(c)
    <3>1. s # c
      BY <1>0, <2>1 DEF JoinNew, FreshInv
    <3> QED  BY <1>0, <2>1, <3>1 DEF JoinNew, TypeOK
  <2>2. CASE \E t \in Conns : JoinsSession(c, t)
    BY <1>0, <2>2 DEF JoinsSession, JoinReplaceWaiting, JoinPair, JoinSwapPaired, JoinSurvivor,
                JoinHalfBroken, TypeOK
  <2>3. CASE DisconnectPaired(c)
    BY <1>0, <2>3 DEF DisconnectPaired, TypeOK
  <2>4. CASE \/ CloseSilently(c) \/ RejectJoin(c) \/ JoinRelayFull(c) \/ JoinCodeInUse(c)
             \/ FinishPair(c) \/ PairFails(c) \/ FinishRejoin(c) \/ DisconnectReplaced(c)
             \/ DisconnectWaiting(c) \/ FinishSurvivor(c) \/ DisconnectHalfBroken(c)
    BY <2>4 DEF CloseSilently, RejectJoin, JoinRelayFull, JoinCodeInUse, FinishPair, PairFails,
                FinishRejoin, DisconnectReplaced, DisconnectWaiting, FinishSurvivor,
                DisconnectHalfBroken, AbortClose, sessVars
  <2> QED  BY <1>3, <2>1, <2>2, <2>3, <2>4 DEF HandleClient, JoinsSession
<1> QED  BY <1>1, <1>2, <1>3 DEF Move

\* A handler keeps its session, and a session that was complete stays that.
LEMMA PairedStays ==
  ASSUME FullInv, PlaceInv, NEW c \in Conns, Move(c), NEW x \in Conns
  PROVE  /\ hsess[x] # None => hsess'[x] = hsess[x]
         /\ Paired(x) => Paired(x)'
<1>0. TypeOK /\ PlaceOK(x)
  BY DEF FullInv, Inv, PlaceInv
<1>1. hsess[x] # None => hsess'[x] = hsess[x]
  <2>1. CASE JoinNew(c) \/ \E s \in Conns : JoinsSession(c, s)
    <3>1. PICK s \in Conns : (s = c /\ JoinNew(c)) \/ JoinsSession(c, s)
      BY <2>1
    <3>2. pc[c] = "accepted" /\ hsess' = [hsess EXCEPT ![c] = s]
      BY <3>1, JoinEffect
    <3> QED  BY <1>0, <3>2 DEF TypeOK, PlaceOK
  <2>2. CASE ~(JoinNew(c) \/ \E s \in Conns : JoinsSession(c, s))
    BY <2>2, NoJoin
  <2> QED  BY <2>1, <2>2
<1>2. Paired(x) => Paired(x)'
  BY <1>0, <1>1, StateStays DEF Paired, TypeOK, Conn
<1> QED  BY <1>1, <1>2

\* Who is a member of a session after a step.
LEMMA MembersAfter ==
  ASSUME FullInv, PlaceInv, NEW c \in Conns, Move(c), NEW s \in Conns, NEW p \in PeerIds
  PROVE  \/ peers'[s][p] = peers[s][p]
         \/ /\ peers[s][p] = None \/ peers[s][p] \in closed'
            /\ peers'[s][p] = None \/ (peers'[s][p] = c /\ hsess'[c] = s)
<1>0. TypeOK /\ HandlerOK(c)
  BY DEF FullInv, Inv, HandlerInv
<1>1. CASE JoinNew(c) \/ \E t \in Conns : JoinsSession(c, t)
  <2>1. PICK t \in Conns : (t = c /\ JoinNew(c)) \/ JoinsSession(c, t)
    BY <1>1
  <2>2. /\ hsess' = [hsess EXCEPT ![c] = t] /\ pid[c] \in PeerIds
        /\ peers' = [peers EXCEPT ![t][pid[c]] = c]
        /\ peers[t][pid[c]] = None \/ peers[t][pid[c]] \in closed'
    BY <2>1, JoinEffect
  <2>3. peers'[s][p] = IF s = t /\ p = pid[c] THEN c ELSE peers[s][p]
    BY <1>0, <2>2, PeersUpdate DEF Conn
  <2>4. hsess'[c] = t
    BY <1>0, <2>2 DEF TypeOK
  <2> QED  BY <2>2, <2>3, <2>4
<1>2. CASE ~(JoinNew(c) \/ \E t \in Conns : JoinsSession(c, t))
  <2>1. CASE peers' = peers
    BY <2>1
  <2>2. CASE Leave(c) /\ Wakes(c) /\ IsCurrent(c) /\ c \in closed'
    <3>1. hsess[c] \in Conns
      BY <1>0, <2>2 DEF Wakes, HandlerOK, TypeOK, Conn
    <3>2. peers'[s][p] = IF s = hsess[c] /\ p = pid[c] THEN None ELSE peers[s][p]
      BY <1>0, <2>2, <3>1, PeersUpdate DEF Leave, Conn
    <3> QED  BY <2>2, <3>2 DEF IsCurrent
  <2> QED  BY <1>2, <2>1, <2>2, NoJoin
<1> QED  BY <1>1, <1>2

\* Handlers before their join have no session.
LEMMA BeforeJoin ==
  ASSUME FullInv, PlaceInv, NEW c \in Conns, Move(c), NEW x \in Conns,
         pc'[x] \in {"idle", "accepted"}
  PROVE  hsess'[x] = None
<1>0. TypeOK /\ PlaceOK(x)
  BY DEF FullInv, Inv, PlaceInv
<1>1. CASE x # c
  BY <1>0, <1>1, OwnHandler, MoveIsStep DEF PlaceOK
<1>2. CASE x = c
  <2>1. ~(JoinNew(c) \/ \E s \in Conns : JoinsSession(c, s))
    BY <1>2, JoinEffect
  <2>2. hsess' = hsess
    BY <2>1, NoJoin
  <2>3. CASE HandleClient(c)
    <3>1. \/ CloseSilently(c) \/ RejectJoin(c) \/ JoinRelayFull(c) \/ JoinCodeInUse(c)
          \/ FinishPair(c) \/ PairFails(c) \/ FinishRejoin(c) \/ DisconnectReplaced(c)
          \/ DisconnectWaiting(c) \/ DisconnectPaired(c) \/ FinishSurvivor(c)
          \/ DisconnectHalfBroken(c)
      BY <2>1, <2>3, SMTT(40) DEF HandleClient, JoinsSession
    <3>2. \E l \in {"ended", "waiting", "failed", "survivor"} : pc' = [pc EXCEPT ![c] = l]
      BY <3>1 DEF CloseSilently, RejectJoin, JoinRelayFull, JoinCodeInUse, AbortClose, FinishPair,
         PairFails, FinishRejoin, DisconnectReplaced, DisconnectWaiting, DisconnectPaired,
         FinishSurvivor, DisconnectHalfBroken, Raises, Goto
    <3> QED  BY <1>0, <1>2, <3>2 DEF TypeOK
  <2>4. CASE Watch(c) \/ Forward(c) \/ Timer(c)
    <3>1. pc' = pc
      BY <2>4 DEF Watch, Forward, Timer, WatcherDiscards, WatcherEof, ForwardFrame,
         ForwardWriteFails, ForwardEnds, TimerFires, TimerPops
    <3> QED  BY <1>0, <2>2, <3>1 DEF PlaceOK
  <2>5. CASE \E k \in Codes \cup {None}, p \in PeerIds : Connect(c, k, p)
    BY <1>0, <1>2, <2>2, <2>5 DEF Connect, PlaceOK
  <2> QED  BY <2>3, <2>4, <2>5 DEF Move
<1> QED  BY <1>1, <1>2

\* A socket that lost its place among the members has been closed.
LEMMA PlaceKept ==
  ASSUME FullInv, PlaceInv, NEW c \in Conns, Move(c), NEW x \in Conns, hsess'[x] # None
  PROVE  x \in closed' \/ peers'[hsess'[x]][pid'[x]] = x
<1>0. TypeOK /\ PlaceOK(x) /\ FreshInv /\ HandlerOK(x)
  BY DEF FullInv, Inv, PlaceInv, HandlerInv
<1>1. CASE hsess[x] = None
  <2>1. JoinNew(c) \/ \E s \in Conns : JoinsSession(c, s)
    BY <1>1, NoJoin
  <2>2. PICK s \in Conns : (s = c /\ JoinNew(c)) \/ JoinsSession(c, s)
    BY <2>1
  <2>3. /\ hsess' = [hsess EXCEPT ![c] = s] /\ pid[c] \in PeerIds /\ pid' = pid
        /\ peers' = [peers EXCEPT ![s][pid[c]] = c]
    BY <2>2, JoinEffect
  <2>4. x = c /\ hsess'[c] = s
    BY <1>0, <1>1, <2>3 DEF TypeOK
  <2>5. peers'[s][pid[c]] = c
    BY <1>0, <2>3, PeersUpdate DEF Conn
  <2> QED  BY <2>3, <2>4, <2>5
<1>2. CASE hsess[x] # None
  <2>1. pc[x] # "idle" /\ hsess'[x] = hsess[x] /\ hsess[x] \in Conns
    BY <1>0, <1>2, PairedStays DEF PlaceOK, TypeOK, Conn
  <2>2. pid'[x] = pid[x] /\ pid[x] \in PeerIds
    BY <1>0, <2>1, JoinKept, MoveIsStep DEF HandlerOK, TypeOK
  <2>3. CASE x \in closed
    BY <2>3, ClosedGrows
  <2>4. CASE peers[hsess[x]][pid[x]] = x
    <3>1. x # None
      BY RelayAssumption
    <3> QED  BY <2>1, <2>2, <2>4, <3>1, MembersAfter
  <2> QED  BY <1>0, <1>2, <2>3, <2>4 DEF PlaceOK
<1> QED  BY <1>1, <1>2

\* The members of a session are sockets whose handlers work on it.
LEMMA MembersHere ==
  ASSUME FullInv, PlaceInv, NEW c \in Conns, Move(c), NEW x \in Conns,
         NEW s \in Conns, NEW p \in PeerIds, peers'[s][p] = x
  PROVE  hsess'[x] = s
<1>0. TypeOK /\ PlaceOK(x)
  BY DEF FullInv, Inv, PlaceInv
<1>1. x # None /\ s # None
  BY RelayAssumption
<1>2. CASE peers'[s][p] = peers[s][p]
  BY <1>0, <1>1, <1>2, PairedStays DEF PlaceOK
<1>3. CASE peers'[s][p] # peers[s][p]
  BY <1>1, <1>3, MembersAfter
<1> QED  BY <1>2, <1>3

\* A rejoining handler works on a session that was complete, and tells a socket of it.
LEMMA NotifyPlace ==
  ASSUME FullInv, PlaceInv, NEW c \in Conns, Move(c), NEW x \in Conns, pc'[x] = "notify"
  PROVE  Paired(x)' /\ hsess'[other'[x]] = hsess'[x]
<1>0. TypeOK /\ PlaceOK(x) /\ HandlerOK(x)
  BY DEF FullInv, Inv, PlaceInv, HandlerInv
<1>k. ASSUME pc[x] = "notify", other'[x] = other[x] PROVE Paired(x)' /\ hsess'[other'[x]] = hsess'[x]
  <2>1. other[x] \in Conns /\ Paired(x) /\ hsess[other[x]] = hsess[x]
    BY <1>0, <1>k DEF HandlerOK, PlaceOK, TypeOK, Conn
  <2> QED  BY <1>k, <2>1, PairedStays DEF Paired
<1>1. CASE x # c
  BY <1>0, <1>1, <1>k, OwnHandler, MoveIsStep
<1>2. CASE x = c
  <2>1. CASE \E s \in Conns : JoinsSession(c, s)
    <3>1. PICK s \in Conns : JoinsSession(c, s)
      BY <2>1
    <3>2. JoinSwapPaired(c, s) \/ JoinHalfBroken(c, s)
      BY <1>0, <1>2, <3>1, ZenonT(60) DEF JoinsSession, JoinReplaceWaiting, JoinPair, JoinSurvivor, Goto, TypeOK
    <3>3. PICK q \in Members(s) : other' = [other EXCEPT ![c] = peers[s][q]]
      BY <3>2, ZenonT(60) DEF JoinSwapPaired, JoinHalfBroken, MemberConns
    <3>4. q \in PeerIds /\ peers[s][q] \in Conns
      BY <1>0, <3>3, MembersType
    <3>5. hsess[peers[s][q]] = s
      BY <3>4 DEF PlaceInv, PlaceOK
    <3>6. s # None /\ hsess'[c] = s /\ other'[c] = peers[s][q]
      BY <1>0, <3>1, <3>3, JoinEffect, RelayAssumption DEF TypeOK
    <3>7. hsess'[other'[c]] = s
      BY <3>4, <3>5, <3>6, PairedStays
    <3>8. state'[s] = "PAIRED"
      BY <1>0, <3>2, SMTT(40) DEF JoinSwapPaired, JoinHalfBroken, Finds, TypeOK
    <3> QED  BY <1>2, <3>6, <3>7, <3>8 DEF Paired
  <2>2. CASE ~\E s \in Conns : JoinsSession(c, s)
    <3>1. pc' = pc /\ other' = other
      <4>1. CASE HandleClient(c)
        <5>1. \/ CloseSilently(c) \/ RejectJoin(c) \/ JoinRelayFull(c) \/ JoinCodeInUse(c)
              \/ FinishPair(c) \/ PairFails(c) \/ FinishRejoin(c) \/ DisconnectReplaced(c)
              \/ DisconnectWaiting(c) \/ DisconnectPaired(c) \/ FinishSurvivor(c)
              \/ DisconnectHalfBroken(c) \/ JoinNew(c)
          BY <2>2, <4>1 DEF HandleClient, JoinsSession
        <5>2. \E l \in {"ended", "waiting", "failed", "survivor"} : pc' = [pc EXCEPT ![c] = l]
          BY <5>1 DEF CloseSilently, RejectJoin, JoinRelayFull, JoinCodeInUse, AbortClose,
             FinishPair, PairFails, FinishRejoin, DisconnectReplaced, DisconnectWaiting,
             DisconnectPaired, FinishSurvivor, DisconnectHalfBroken, JoinNew, Raises, Goto
        <5> QED  BY <1>0, <1>2, <5>2 DEF TypeOK
      <4>2. CASE Watch(c) \/ Forward(c) \/ Timer(c)
        BY <4>2 DEF Watch, Forward, Timer, WatcherDiscards, WatcherEof, ForwardFrame,
           ForwardWriteFails, ForwardEnds, TimerFires, TimerPops
      <4>3. CASE \E k \in Codes \cup {None}, p \in PeerIds : Connect(c, k, p)
        BY <1>0, <1>2, <4>3 DEF Connect, Goto, TypeOK
      <4> QED  BY <4>1, <4>2, <4>3 DEF Move
    <3> QED  BY <1>2, <1>k, <3>1
  <2> QED  BY <2>1, <2>2
<1> QED  BY <1>1, <1>2

\* Forwarders stay inside a session that was complete.
LEMMA ForwardPlace ==
  ASSUME FullInv, PlaceInv, NEW c \in Conns, Move(c), NEW x \in Conns, fwd'[x] = "run"
  PROVE  Paired(x)' /\ hsess'[dst'[x]] = hsess'[x]
<1>0. TypeOK /\ PlaceOK(x) /\ PlaceOK(c) /\ HandlerOK(c) /\ SessionShape
  BY DEF FullInv, Inv, PlaceInv, HandlerInv
<1>k. ASSUME NEW d \in Conns, dst'[x] = d, Paired(x), hsess[d] = hsess[x]
      PROVE  Paired(x)' /\ hsess'[dst'[x]] = hsess'[x]
  BY <1>k, PairedStays DEF Paired
<1>o. ASSUME fwd[x] = "run", dst'[x] = dst[x]
      PROVE  Paired(x)' /\ hsess'[dst'[x]] = hsess'[x]
  <2>1. dst[x] \in Conns
    BY <1>0, <1>o DEF FullInv, RouteInv, TypeOK, Conn
  <2> QED  BY <1>0, <1>k, <1>o, <2>1 DEF PlaceOK
<1>1. CASE FinishPair(c)
  <2> DEFINE s == hsess[c]
  <2>1. PICK p \in Members(s), q \in Members(s) :
          LET a == peers[s][p]
              b == peers[s][q]
          IN /\ p # q
             /\ StartForwarding({a, b}, Routes(a, b))
    BY <1>1 DEF FinishPair
  <2> DEFINE a == peers[s][p]
             b == peers[s][q]
             to == Routes(a, b)
  <2>2. s \in Conns /\ state[s] # "NEW" /\ s # None
    BY <1>0, <1>1, RelayAssumption DEF FinishPair, HandlerOK, TypeOK, Conn
  <2>3. a \in Conns /\ b \in Conns /\ p \in PeerIds /\ q \in PeerIds
    BY <1>0, <2>2, MembersType
  <2>4. hsess[a] = s /\ hsess[b] = s
    BY <2>2, <2>3 DEF PlaceInv, PlaceOK
  <2>5. state[s] \in {"PAIRED", "HALF_BROKEN"}
    <3>1. state[s] # "WAITING"
      BY <1>0, <2>1, <2>2 DEF SessionShape, Singleton
    <3> QED  BY <1>0, <2>2, <3>1 DEF TypeOK
  <2>6. StartForwarding({a, b}, to) /\ {a, b} \in SUBSET Conns
    BY <2>1, <2>3
  <2>7. \/ fwd[x] = "run" /\ dst'[x] = dst[x]
        \/ x \in {a, b} /\ dst'[x] = to[x]
    <3> HIDE DEF a, b, to, s
    <3> QED  BY <1>0, <2>6, StartRoutes
  <2>8. CASE x \in {a, b} /\ dst'[x] = to[x]
    <3>1. to[x] \in {a, b}
      BY <2>8
    <3> HIDE DEF a, b, s, to
    <3> QED  BY <1>k, <2>2, <2>3, <2>4, <2>5, <2>8, <3>1 DEF Paired
  <2> QED  BY <1>o, <2>7, <2>8
<1>2. CASE FinishRejoin(c)
  <2> DEFINE o == other[c]
             cs == IF fwd[o] = "run" THEN {c} ELSE {c, o}
             to == Routes(c, o)
  <2>1. StartForwarding(cs, to) /\ o \in Conns /\ pc[c] = "notify"
    BY <1>0, <1>2 DEF FinishRejoin, HandlerOK, Linked, TypeOK, Conn
  <2>2. cs \in SUBSET Conns /\ cs \subseteq {c, o}
    BY <2>1
  <2>3. Paired(c) /\ Paired(o) /\ hsess[o] = hsess[c]
    BY <1>0, <2>1 DEF PlaceOK, Paired
  <2>4. \/ fwd[x] = "run" /\ dst'[x] = dst[x]
        \/ x \in cs /\ dst'[x] = to[x]
    <3> HIDE DEF cs, to
    <3> QED  BY <1>0, <2>1, <2>2, StartRoutes
  <2>5. CASE x \in cs /\ dst'[x] = to[x]
    <3>1. x \in {c, o} /\ to[x] \in {c, o}
      BY <2>2, <2>5
    <3> HIDE DEF o, cs, to
    <3> QED  BY <1>k, <2>1, <2>3, <2>5, <3>1
  <2> QED  BY <1>o, <2>4, <2>5
<1>3. CASE ~FinishPair(c) /\ ~FinishRejoin(c)
  BY <1>0, <1>3, <1>o, NoNewForwarder, MoveIsStep
<1> QED  BY <1>1, <1>2, <1>3

\* The steps of the relay keep sockets, handlers and sessions in place.
LEMMA PlaceStep ==
  ASSUME FullInv, PlaceInv, NEW c \in Conns, Move(c)
  PROVE  PlaceInv'
<1> SUFFICES ASSUME NEW x \in Conns PROVE PlaceOK(x)'
  BY DEF PlaceInv
<1>1. (pc'[x] \in {"idle", "accepted"}) => hsess'[x] = None
  BY BeforeJoin
<1>2. hsess'[x] # None => x \in closed' \/ peers'[hsess'[x]][pid'[x]] = x
  BY PlaceKept
<1>3. \A s \in Conns, p \in PeerIds : (peers'[s][p] = x) => hsess'[x] = s
  BY MembersHere
<1>4. (pc'[x] = "notify") => Paired(x)' /\ hsess'[other'[x]] = hsess'[x]
  BY NotifyPlace
<1>5. (fwd'[x] = "run") => Paired(x)' /\ hsess'[dst'[x]] = hsess'[x]
  BY ForwardPlace
<1> QED  BY <1>1, <1>2, <1>3, <1>4, <1>5 DEF PlaceOK

-----------------------------------------------------------------------------
(* Frames *)

\* A frame of the relay itself, or one the forwarder of c passes on.
NewFrame(c, r) ==
  \/ r.from = None /\ r.kind \in {"joined", "partner-reconnected", "abort"}
  \/ r.from = c /\ fwd[c] = "run"

\* A step of the relay writes at most one frame to a socket.
LEMMA FrameStep ==
  ASSUME FullInv, NEW c \in Conns, Move(c), NEW x \in Conns
  PROVE  tx'[x] = tx[x] \/ \E r \in Frame : tx'[x] = Append(tx[x], r) /\ NewFrame(c, r)
<1>0. tx \in [Conns -> Seq(Frame)] /\ rx \in [Conns -> Seq(Payload)]
  BY DEF FullInv, Inv, TypeOK
<1>k. ASSUME NEW y, NEW kind \in {"joined", "partner-reconnected", "abort"},
             tx' = Put(tx, y, kind, None)
      PROVE  tx'[x] = tx[x] \/ \E r \in Frame : tx'[x] = Append(tx[x], r) /\ NewFrame(c, r)
  <2> DEFINE r == [kind |-> kind, from |-> None]
  <2>1. r \in Frame /\ NewFrame(c, r)
    BY DEF Frame, NewFrame
  <2>2. tx'[x] = tx[x] \/ tx'[x] = Append(tx[x], r)
    <3>1. \/ Put(tx, y, kind, None)[x] = tx[x]
          \/ Put(tx, y, kind, None)[x] = Append(tx[x], [kind |-> kind, from |-> None])
      BY <1>0 DEF Put
    <3> QED  BY <1>k, <3>1, Zenon
  <2> HIDE DEF r
  <2> QED  BY <2>1, <2>2
<1>1. CASE ForwardFrame(c)
  <2> DEFINE r == [kind |-> Head(rx[c]), from |-> c]
  <2>1. Head(rx[c]) \in Payload
    BY <1>0, <1>1 DEF ForwardFrame
  <2>2. r \in Frame /\ NewFrame(c, r)
    BY <1>1, <2>1 DEF Frame, NewFrame, ForwardFrame
  <2>3. tx'[x] = tx[x] \/ tx'[x] = Append(tx[x], r)
    <3>1. \/ Put(tx, dst[c], Head(rx[c]), c)[x] = tx[x]
          \/ Put(tx, dst[c], Head(rx[c]), c)[x]
               = Append(tx[x], [kind |-> Head(rx[c]), from |-> c])
      BY <1>0 DEF Put
    <3>2. tx' = Put(tx, dst[c], Head(rx[c]), c)
      BY <1>1 DEF ForwardFrame
    <3> QED  BY <3>1, <3>2, Zenon
  <2> HIDE DEF r
  <2> QED  BY <2>2, <2>3
<1>2. CASE TimerFires(c)
  <2> DEFINE r == [kind |-> "abort", from |-> None]
  <2>1. r \in Frame /\ NewFrame(c, r)
    BY DEF Frame, NewFrame
  <2>2. tx'[x] = tx[x] \/ tx'[x] = Append(tx[x], r)
    BY <1>2 DEF TimerFires
  <2> HIDE DEF r
  <2> QED  BY <2>1, <2>2
<1>3. CASE \E s \in Conns : JoinsSession(c, s)
  <2>1. \/ tx' = tx
        \/ \E y : \E kind \in {"joined", "partner-reconnected", "abort"} :
             tx' = Put(tx, y, kind, None)
    BY <1>3 DEF JoinsSession, JoinReplaceWaiting, JoinPair, JoinSwapPaired, JoinSurvivor,
                JoinHalfBroken
  <2> QED  BY <1>k, <2>1
<1>4. CASE \/ RejectJoin(c) \/ JoinRelayFull(c) \/ JoinCodeInUse(c)
           \/ FinishPair(c) \/ FinishRejoin(c)
  <2>1. \E y : \E kind \in {"joined", "partner-reconnected", "abort"} :
          tx' = Put(tx, y, kind, None)
    BY <1>4 DEF RejectJoin, JoinRelayFull, JoinCodeInUse, AbortClose, FinishPair, FinishRejoin
  <2> QED  BY <1>k, <2>1
<1>5. CASE \/ CloseSilently(c) \/ JoinNew(c) \/ DisconnectReplaced(c)
           \/ DisconnectWaiting(c) \/ DisconnectPaired(c) \/ FinishSurvivor(c)
           \/ DisconnectHalfBroken(c)
  BY <1>5 DEF CloseSilently, JoinNew, DisconnectReplaced, DisconnectWaiting,
     DisconnectPaired, FinishSurvivor, DisconnectHalfBroken, sockVars
<1>6. CASE \/ Watch(c) \/ ForwardWriteFails(c) \/ ForwardEnds(c) \/ TimerPops(c)
           \/ \E k \in Codes \cup {None}, p \in PeerIds : Connect(c, k, p)
  BY <1>6 DEF Watch, WatcherDiscards, WatcherEof, ForwardWriteFails, ForwardEnds,
     TimerPops, Connect, sockVars
<1>7. CASE PairFails(c)
  <2>1. tx' = tx \/ \E y : tx' = Put(tx, y, "joined", None)
    BY <1>7 DEF PairFails
  <2> QED  BY <1>k, <2>1
<1> QED  BY <1>1, <1>2, <1>3, <1>4, <1>5, <1>6, <1>7
         DEF Move, HandleClient, Forward, Timer, JoinsSession

-----------------------------------------------------------------------------
(* What the bridges do to the connections *)

\* A step of a bridge or of the network leaves the relay alone: sockets may go,
\* bytes to the relay come and go, and what the relay wrote is taken or lost.
Wire ==
  /\ UNCHANGED <<relayVars, joinVars, sent>>
  /\ eof' \in SUBSET Conns /\ eof \subseteq eof'
  /\ rx' \in [Conns -> Seq(Payload)] /\ tx' \in [Conns -> Seq(Frame)]
  /\ \A c \in Conns : tx'[c] = tx[c] \/ tx'[c] = <<>>

\* A frame on a connection was there before.
LEMMA WireFrames ==
  ASSUME Wire, NEW c \in Conns, NEW i \in DOMAIN tx'[c]
  PROVE  tx'[c] = tx[c]
BY DEF Wire

\* Such a step keeps the relay's invariants.
LEMMA WireInv ==
  ASSUME FullInv, PlaceInv, Wire
  PROVE  FullInv' /\ PlaceInv'
<1> USE DEF FullInv, Inv
<1>1. UNCHANGED <<sessions, state, peers, timer, pc, hsess, other, done, watcher, fwd, dst,
                  closed, code, pid, sent>>
  BY DEF Wire, relayVars, sessVars, taskVars, joinVars
<1>2. TypeOK'
  BY <1>1 DEF TypeOK, Wire
<1>3. HandlerInv'
  BY <1>1 DEF HandlerInv, HandlerOK, Linked
<1>4. FreshInv' /\ MemberInv'
  BY <1>1 DEF FreshInv, MemberInv, Members
<1>5. SessionShape' /\ TimerArmed'
  BY <1>1, TableFrame
<1>6. RouteInv'
  <2>1. \A c \in Conns : Sources(tx', c) \subseteq Sources(tx, c)
    BY WireFrames DEF Sources
  <2> QED  BY <1>1, <2>1, ZenonT(60) DEF RouteInv, Linked, Sources
<1>7. PlaceInv'
  BY <1>1 DEF PlaceInv, PlaceOK, Paired
<1> QED  BY <1>2, <1>3, <1>4, <1>5, <1>6, <1>7

\* A connection that breaks.
LEMMA HangupWire ==
  ASSUME TypeOK, NEW c \in Conns, Hangup(c), UNCHANGED <<relayVars, joinVars, sent>>
  PROVE  /\ Wire /\ c \in eof'
         /\ \A d \in Conns : tx'[d] = tx[d] \/ d \in eof'
<1>0. \A S : <<>> \in Seq(S)
  OBVIOUS
<1>1. rx' = rx \/ rx' = [rx EXCEPT ![c] = <<>>]
  BY DEF Hangup
<1>2. rx' \in [Conns -> Seq(Payload)]
  BY <1>0, <1>1, ZenonT(60) DEF TypeOK
<1>3. tx' \in [Conns -> Seq(Frame)]
  BY <1>0 DEF TypeOK, Hangup
<1> QED  BY <1>2, <1>3 DEF Wire, TypeOK, Hangup

\* _fail
LEMMA FailsWire ==
  ASSUME TypeOK, NEW u \in Users, NEW r \in ClientRec, r.sock \in Conns, OwnSocket(u, r),
         Fails(u, r), UNCHANGED <<relayVars, joinVars, sent>>
  PROVE  \E n \in ClientRec :
           /\ cl' = [cl EXCEPT ![u] = n]
           /\ n.sock = r.sock /\ n.buf = r.buf /\ OwnSocket(u, n)
           /\ n.st = r.st \/ n.st = "RECONNECTING"
           /\ Wire
           /\ \A d \in Conns : tx'[d] = tx[d] \/ d \in eof'
<1>1. CASE r.st = "RECONNECTING"
  <2>1. cl' = [cl EXCEPT ![u] = r] /\ UNCHANGED <<eof, rx, tx>>
    BY <1>1 DEF Fails, Set
  <2>2. Wire
    BY <2>1 DEF Wire, TypeOK
  <2> QED  BY <2>1, <2>2
<1>2. CASE r.st # "RECONNECTING"
  <2> DEFINE n == Failed(r)
  <2>1. cl' = [cl EXCEPT ![u] = n] /\ Hangup(r.sock)
    BY <1>2 DEF Fails, Set
  <2>2. /\ n \in ClientRec /\ n.sock = r.sock /\ n.buf = r.buf
        /\ n.st = "RECONNECTING"
    BY DEF Failed, ClientRec, PipeStates
  <2>3. OwnSocket(u, n)
    BY <2>2, RelayAssumption DEF OwnSocket
  <2>4. Wire /\ \A d \in Conns : tx'[d] = tx[d] \/ d \in eof'
    BY <2>1, HangupWire
  <2> HIDE DEF n
  <2> QED  BY <2>1, <2>2, <2>3, <2>4
<1> QED  BY <1>1, <1>2

\* _send_frame
LEMMA SendsWire ==
  ASSUME TypeOK, NEW u \in Users, NEW r \in ClientRec, r.sock \in Conns, OwnSocket(u, r),
         NEW m \in {"hello", "data"},
         Sends(u, r, m), UNCHANGED <<relayVars, joinVars, sent>>
  PROVE  \E n \in ClientRec :
           /\ cl' = [cl EXCEPT ![u] = n]
           /\ n.sock = r.sock /\ n.buf = r.buf /\ OwnSocket(u, n)
           /\ n.st = r.st \/ n.st = "RECONNECTING"
           /\ Wire
           /\ \A d \in Conns : tx'[d] = tx[d] \/ d \in eof'
<1>1. CASE Fails(u, r)
  BY <1>1, FailsWire
<1>2. CASE Set(u, r) /\ UNCHANGED <<eof, rx, tx>>
  <2>1. Wire
    BY <1>2 DEF Wire, TypeOK
  <2> QED  BY <1>2, <2>1 DEF Set
<1>3. CASE Set(u, r) /\ rx' = [rx EXCEPT ![r.sock] = Append(@, m)] /\ UNCHANGED <<eof, tx>>
  <2>1. m \in Payload
    BY PipeAssumption
  <2>2. rx' \in [Conns -> Seq(Payload)]
    BY <1>3, <2>1 DEF TypeOK
  <2>3. Wire
    BY <1>3, <2>2 DEF Wire, TypeOK
  <2> QED  BY <1>3, <2>3 DEF Set
<1> QED  BY <1>1, <1>2, <1>3 DEF Sends

-----------------------------------------------------------------------------
(* What each operation of a bridge does *)

\* What u has received is as before, or one frame of it has been handled; a handled
\* partner-reconnected has had the engine resync.
Handles(u, n) ==
  /\ \/ n.buf = cl[u].buf
     \/ /\ cl[u].buf # <<>> /\ n.buf = Tail(cl[u].buf)
        /\ Head(cl[u].buf).kind = "partner-reconnected" => Partner(u) \notin due'
  /\ \A d \in Conns : tx'[d] = tx[d] \/ d \in eof'

\* u has received what was on its connection.
Receives(u, n) ==
  /\ cl[u].buf = <<>> /\ cl[u].sock \in Conns /\ n.buf = tx[cl[u].sock]
  /\ \A d \in Conns \ {cl[u].sock} : tx'[d] = tx[d]

Becomes(u, n) ==
  /\ cl' = [cl EXCEPT ![u] = n] /\ n.sock = cl[u].sock /\ OwnSocket(u, n)
  /\ Wire
  /\ Handles(u, n) \/ Receives(u, n)
  /\ due' \subseteq due
  /\ met' = met \/ (met' = met \cup {u} /\ Carries(cl[u].buf, "hello"))

\* A frame off the buffer changes nothing else.
LEMMA FrameOff ==
  ASSUME BridgeInv, NEW u \in Users, cl[u].buf # <<>>
  PROVE  /\ cl[u] \in ClientRec /\ cl[u].sock \in Conns /\ OwnSocket(u, cl[u])
         /\ Next1(u) \in ClientRec
         /\ Next1(u) = [cl[u] EXCEPT !.buf = Tail(cl[u].buf)]
         /\ OwnSocket(u, Next1(u))
<1>1. cl[u] \in ClientRec /\ OwnSocket(u, cl[u])
  BY DEF BridgeInv
<1>2. cl[u].sock \in Conns
  BY <1>1 DEF OwnSocket, ClientRec, Conn
<1>3. Tail(cl[u].buf) \in Seq(Frame)
  BY <1>1 DEF ClientRec
<1>4. Next1(u) = [cl[u] EXCEPT !.buf = Tail(cl[u].buf)]
  BY DEF Next1
<1>5. Next1(u) \in ClientRec
  BY <1>1, <1>3, <1>4 DEF ClientRec
<1>6. OwnSocket(u, Next1(u))
  BY <1>1, <1>2, <1>4, RelayAssumption DEF OwnSocket, ClientRec
<1> QED  BY <1>1, <1>2, <1>4, <1>5, <1>6

\* recv: what has arrived, or the end of the connection.
LEMMA ReceiveStep ==
  ASSUME FullInv, BridgeInv, NEW u \in Users,
         Receive(u) \/ ReceiveEof(u) \/ ReceiveError(u) \/ HeartbeatTimeout(u) \/ SendAppHello(u)
  PROVE  \E n \in ClientRec : Becomes(u, n)
<1>0. TypeOK /\ cl[u] \in ClientRec /\ OwnSocket(u, cl[u])
  BY DEF FullInv, Inv, BridgeInv
<1>1. cl[u].sock \in Conns
  BY <1>0 DEF Receive, ReceiveEof, ReceiveError, HeartbeatTimeout, SendAppHello, OwnSocket,
              ClientRec, Conn
<1>2. CASE Receive(u)
  <2> DEFINE c == cl[u].sock
             n == [cl[u] EXCEPT !.buf = tx[c]]
  <2>0. \A S : <<>> \in Seq(S)
    OBVIOUS
  <2>1. tx[c] \in Seq(Frame)
    BY <1>0, <1>1 DEF TypeOK
  <2>2. n \in ClientRec /\ n.sock = c /\ n.buf = tx[c] /\ OwnSocket(u, n)
    BY <1>0, <1>1, <2>1, RelayAssumption DEF ClientRec, OwnSocket
  <2>3. /\ cl' = [cl EXCEPT ![u] = n] /\ cl[u].buf = <<>>
        /\ tx' = [tx EXCEPT ![c] = <<>>]
        /\ UNCHANGED <<relayVars, joinVars, eof, sent, rx, met, due>>
    BY <1>2 DEF Receive, Set, Idle
  <2>4. Wire
    <3>1. tx' \in [Conns -> Seq(Frame)] /\ \A d \in Conns : tx'[d] = tx[d] \/ tx'[d] = <<>>
      BY <1>0, <2>0, <2>3 DEF TypeOK
    <3> QED  BY <1>0, <2>3, <3>1 DEF Wire, TypeOK
  <2>5. Receives(u, n)
    BY <1>0, <1>1, <2>2, <2>3 DEF Receives, TypeOK
  <2> HIDE DEF n, c
  <2>6. n.sock = cl[u].sock
    BY <2>2 DEF c
  <2> QED  BY <2>2, <2>3, <2>4, <2>5, <2>6 DEF Becomes
<1>3. CASE ReceiveEof(u) \/ ReceiveError(u) \/ HeartbeatTimeout(u)
  <2>1. Fails(u, cl[u]) /\ UNCHANGED <<relayVars, joinVars, sent, met, due>>
    BY <1>3 DEF ReceiveEof, ReceiveError, HeartbeatTimeout
  <2>2. \E n \in ClientRec :
           /\ cl' = [cl EXCEPT ![u] = n]
           /\ n.sock = cl[u].sock /\ n.buf = cl[u].buf /\ OwnSocket(u, n)
           /\ Wire
           /\ \A d \in Conns : tx'[d] = tx[d] \/ d \in eof'
    BY <1>0, <1>1, <2>1, FailsWire
  <2> QED  BY <2>1, <2>2 DEF Becomes, Handles
<1>4. CASE SendAppHello(u)
  <2> DEFINE r == [cl[u] EXCEPT !.app = TRUE]
  <2>1. Sends(u, r, "data") /\ UNCHANGED <<relayVars, joinVars, sent, met, due>>
    BY <1>4 DEF SendAppHello
  <2>2. /\ r \in ClientRec /\ r.sock = cl[u].sock /\ r.buf = cl[u].buf /\ r.sock \in Conns
        /\ OwnSocket(u, r)
    BY <1>0, <1>1 DEF ClientRec, OwnSocket
  <2> HIDE DEF r
  <2>3. \E n \in ClientRec :
           /\ cl' = [cl EXCEPT ![u] = n]
           /\ n.sock = r.sock /\ n.buf = r.buf /\ OwnSocket(u, n)
           /\ Wire
           /\ \A d \in Conns : tx'[d] = tx[d] \/ d \in eof'
    BY <1>0, <2>1, <2>2, SendsWire
  <2> QED  BY <2>1, <2>2, <2>3 DEF Becomes, Handles
<1> QED  BY <1>2, <1>3, <1>4

\* _handle_frame.
LEMMA HandleStep ==
  ASSUME FullInv, BridgeInv, NEW u \in Users,
         \/ HandleJoined(u) \/ HandleHello(u) \/ HandleData(u) \/ HandleAbort(u)
         \/ HandlePartnerReconnected(u)
  PROVE  \E n \in ClientRec : Becomes(u, n)
<1>0. TypeOK
  BY DEF FullInv, Inv
<1> DEFINE b == Next1(u)
           hd == Head(cl[u].buf).kind
<1>1. cl[u].buf # <<>>
  BY DEF HandleJoined, HandleHello, HandleData, HandleAbort, HandlePartnerReconnected, Frame1
<1>2. /\ b \in ClientRec /\ b.sock \in Conns /\ b.sock = cl[u].sock /\ b.buf = Tail(cl[u].buf)
      /\ OwnSocket(u, b) /\ cl[u].sock # None
      /\ b.sent = cl[u].sent /\ b.rcvd = cl[u].rcvd
  BY <1>1, FrameOff, RelayAssumption, ZenonT(60) DEF ClientRec
<1>w. UNCHANGED <<eof, rx, tx, relayVars, joinVars, sent>>
        => Wire /\ \A d \in Conns : tx'[d] = tx[d] \/ d \in eof'
  BY <1>0 DEF Wire, TypeOK
<1> HIDE DEF b
<1>3. CASE HandleJoined(u)
  <2> DEFINE j == [b EXCEPT !.joined = TRUE]
             k == [b EXCEPT !.joined = TRUE, !.st = "JOINED"]
             g == Greeting(j)
  <2>1. UNCHANGED <<relayVars, joinVars, sent, met, due>> /\ hd = "joined"
    BY <1>3 DEF HandleJoined, Frame1
  <2>2. /\ k \in ClientRec /\ k.sock = b.sock /\ k.buf = b.buf /\ OwnSocket(u, k)
        /\ g \in ClientRec /\ g.sock = b.sock /\ g.buf = b.buf /\ OwnSocket(u, g)
    BY <1>2 DEF ClientRec, OwnSocket, PipeStates, Greeting
  <2>3. \/ Set(u, b) /\ UNCHANGED <<eof, rx, tx>>
        \/ Set(u, k) /\ UNCHANGED <<eof, rx, tx>>
        \/ Sends(u, g, "hello")
    BY <1>3 DEF HandleJoined, b
  <2> HIDE DEF k, g, hd
  <2>4. \E n \in ClientRec :
           /\ cl' = [cl EXCEPT ![u] = n]
           /\ n.sock = b.sock /\ n.buf = b.buf /\ OwnSocket(u, n)
           /\ Wire
           /\ \A d \in Conns : tx'[d] = tx[d] \/ d \in eof'
    <3>1. CASE Set(u, b) /\ UNCHANGED <<eof, rx, tx>>
      BY <1>2, <1>w, <2>1, <3>1 DEF Set
    <3>2. CASE Set(u, k) /\ UNCHANGED <<eof, rx, tx>>
      BY <1>w, <2>1, <2>2, <3>2 DEF Set
    <3>3. CASE Sends(u, g, "hello")
      <4>1. g.sock \in Conns
        BY <1>2, <2>2
      <4> QED  BY <1>0, <2>1, <2>2, <3>3, <4>1, SendsWire
    <3> QED  BY <2>3, <3>1, <3>2, <3>3
  <2>5. hd # "partner-reconnected"
    BY <2>1
  <2> QED  BY <1>1, <1>2, <2>1, <2>4, <2>5 DEF Becomes, Handles, hd
<1>4. CASE HandleHello(u)
  <2> DEFINE k == [b EXCEPT !.rcvd = TRUE, !.st = IF cl[u].sent THEN "ESTABLISHED" ELSE @]
  <2>1. /\ UNCHANGED <<relayVars, joinVars, sent, due>> /\ hd = "hello"
        /\ met' = met \/ met' = met \cup {u}
    BY <1>4 DEF HandleHello, Frame1
  <2>2. k \in ClientRec /\ k.sock = b.sock /\ k.buf = b.buf /\ OwnSocket(u, k)
    BY <1>2 DEF ClientRec, OwnSocket, PipeStates
  <2>3. Fails(u, b) \/ (Set(u, k) /\ UNCHANGED <<eof, rx, tx>>)
    BY <1>4 DEF HandleHello, b
  <2> HIDE DEF k, hd
  <2>4. \E n \in ClientRec :
           /\ cl' = [cl EXCEPT ![u] = n]
           /\ n.sock = b.sock /\ n.buf = b.buf /\ OwnSocket(u, n)
           /\ Wire
           /\ \A d \in Conns : tx'[d] = tx[d] \/ d \in eof'
    <3>1. CASE Set(u, k) /\ UNCHANGED <<eof, rx, tx>>
      BY <1>w, <2>1, <2>2, <3>1 DEF Set
    <3>2. CASE Fails(u, b)
      BY <1>0, <1>2, <2>1, <3>2, FailsWire
    <3> QED  BY <2>3, <3>1, <3>2
  <2>5. Carries(cl[u].buf, "hello")
    <3>1. cl[u].buf \in Seq(Frame)
      BY <1>1, FrameOff DEF ClientRec
    <3>2. 1 \in DOMAIN cl[u].buf /\ Head(cl[u].buf) = cl[u].buf[1]
      BY <1>1, <3>1
    <3> QED  BY <2>1, <3>2 DEF Carries, hd
  <2>6. hd # "partner-reconnected"
    BY <2>1
  <2> QED  BY <1>1, <1>2, <2>1, <2>4, <2>5, <2>6 DEF Becomes, Handles, hd
<1>5. CASE HandleData(u) \/ HandleAbort(u)
  <2>1. UNCHANGED <<relayVars, joinVars, sent, met, due>> /\ hd \in {"data", "abort"}
    BY <1>5 DEF HandleData, HandleAbort, Frame1
  <2>2. Fails(u, b) \/ (Set(u, b) /\ UNCHANGED <<eof, rx, tx>>)
    BY <1>5 DEF HandleData, HandleAbort, b
  <2> HIDE DEF hd
  <2>3. \E n \in ClientRec :
           /\ cl' = [cl EXCEPT ![u] = n]
           /\ n.sock = b.sock /\ n.buf = b.buf /\ OwnSocket(u, n)
           /\ Wire
           /\ \A d \in Conns : tx'[d] = tx[d] \/ d \in eof'
    <3>1. CASE Set(u, b) /\ UNCHANGED <<eof, rx, tx>>
      BY <1>2, <1>w, <2>1, <3>1 DEF Set
    <3>2. CASE Fails(u, b)
      BY <1>0, <1>2, <2>1, <3>2, FailsWire
    <3> QED  BY <2>2, <3>1, <3>2
  <2>4. hd # "partner-reconnected"
    BY <2>1
  <2> QED  BY <1>1, <1>2, <2>1, <2>3, <2>4 DEF Becomes, Handles, hd
<1>6. CASE HandlePartnerReconnected(u)
  <2> DEFINE g == Greeting([b EXCEPT !.rcvd = FALSE])
  <2>1. UNCHANGED <<relayVars, joinVars, sent, met>> /\ due' = due \ {Partner(u)}
    BY <1>6 DEF HandlePartnerReconnected, Resync
  <2>2. g \in ClientRec /\ g.sock = b.sock /\ g.buf = b.buf /\ OwnSocket(u, g)
    BY <1>2 DEF ClientRec, OwnSocket, PipeStates, Greeting
  <2>3. Sends(u, g, "hello")
    BY <1>6 DEF HandlePartnerReconnected, GreetAgain, b
  <2> HIDE DEF g
  <2>4. g.sock \in Conns
    BY <1>2, <2>2
  <2>5. \E n \in ClientRec :
           /\ cl' = [cl EXCEPT ![u] = n]
           /\ n.sock = g.sock /\ n.buf = g.buf /\ OwnSocket(u, n)
           /\ Wire
           /\ \A d \in Conns : tx'[d] = tx[d] \/ d \in eof'
    BY <1>0, <2>1, <2>2, <2>3, <2>4, SendsWire
  <2> QED  BY <1>1, <1>2, <2>1, <2>2, <2>5 DEF Becomes, Handles
<1> QED  BY <1>3, <1>4, <1>5, <1>6

-----------------------------------------------------------------------------
(* The steps of the bridges and of the network *)

\* A step that leaves the relay alone keeps everyone's session.
LEMMA WireKeeps ==
  ASSUME Wire
  PROVE  /\ UNCHANGED <<pid, pc, hsess, state, closed>>
         /\ \A x : Paired(x)' <=> Paired(x)
         /\ \A u : PartnerPaired(u)' <=> PartnerPaired(u)
         /\ \A u : ConnectedAgain(u)' <=> ConnectedAgain(u)
BY DEF Wire, relayVars, sessVars, joinVars, Paired, PartnerPaired, ConnectedAgain

\* A bridge whose partner's frames are a hello knows that the partner was paired.
LEMMA HelloFromPartner ==
  ASSUME FullInv, HelloInv, NEW u \in Users, NEW c \in Conns, pid[c] = u,
         Carries(tx[c], "hello")
  PROVE  PartnerPaired(u)
<1>0. TypeOK /\ HandlerInv
  BY DEF FullInv, Inv
<1>1. PICK i \in DOMAIN tx[c] : tx[c][i].kind = "hello"
  BY DEF Carries
<1> DEFINE f == tx[c][i].from
<1>2. f # None /\ Paired(f)
  BY <1>1 DEF HelloInv
<1>3. tx[c][i] \in Frame
  BY <1>0, <1>1 DEF TypeOK
<1>4. f \in Conns
  BY <1>2, <1>3 DEF Frame
<1>5. f \in Sources(tx, c)
  BY <1>1 DEF Sources
<1> HIDE DEF f
<1>6. Linked(c, f)
  BY <1>2, <1>5 DEF FullInv, RouteInv
<1>7. pid[f] \in Users /\ pid[f] # u
  BY <1>0, <1>4, <1>6 DEF Linked, HandlerInv, HandlerOK, TypeOK
<1> QED  BY <1>2, <1>4, <1>7, TwoBridges DEF PartnerPaired

\* What is in a buffer whose first frame was taken off was there before, and the
\* rest of it is still there.
LEMMA TailCarries ==
  ASSUME NEW q \in Seq(Frame), q # <<>>, NEW kind
  PROVE  /\ Carries(Tail(q), kind) => Carries(q, kind)
         /\ Carries(q, kind) => Head(q).kind = kind \/ Carries(Tail(q), kind)
<1>1. ASSUME NEW i \in DOMAIN Tail(q) PROVE i + 1 \in DOMAIN q /\ Tail(q)[i] = q[i + 1]
  BY <1>1
<1>2. ASSUME NEW i \in DOMAIN q, i # 1 PROVE i - 1 \in DOMAIN Tail(q) /\ Tail(q)[i - 1] = q[i]
  BY <1>2
<1>3. Head(q) = q[1]
  OBVIOUS
<1> QED  BY <1>1, <1>2, <1>3, ZenonT(60) DEF Carries

\* The operations of a bridge that keep its connection preserve the invariants.
LEMMA BecomesInv ==
  ASSUME PipeInv, NEW u \in Users, NEW n \in ClientRec, Becomes(u, n)
  PROVE  PipeInv'
<1>0. FullInv /\ BridgeInv /\ PlaceInv /\ HelloInv /\ DueInv /\ Wire
  BY DEF PipeInv, Becomes
<1>1. FullInv' /\ PlaceInv'
  BY <1>0, WireInv
<1>k. /\ UNCHANGED <<pid, pc, hsess, state, closed>>
      /\ \A x : Paired(x)' <=> Paired(x)
      /\ \A w : PartnerPaired(w)' <=> PartnerPaired(w)
      /\ \A w : ConnectedAgain(w)' <=> ConnectedAgain(w)
  BY <1>0, WireKeeps
<1>c. /\ cl \in [Users -> ClientRec] /\ cl' = [cl EXCEPT ![u] = n]
      /\ n.sock = cl[u].sock /\ cl'[u] = n /\ \A w \in Users \ {u} : cl'[w] = cl[w]
      /\ cl[u].buf \in Seq(Frame) /\ OwnSocket(u, cl[u])
  BY <1>0 DEF Becomes, BridgeInv, ClientRec
<1>2. BridgeInv'
  <2>1. cl' \in [Users -> ClientRec]
    BY <1>c
  <2>2. \A w \in Users : OwnSocket(w, cl'[w])
    BY <1>0, <1>c DEF Becomes, BridgeInv
  <2>3. \A w \in Users : OwnSocket(w, cl[w])'
    BY <1>k, <2>2 DEF OwnSocket
  <2>4. due' \subseteq met' /\ met' \subseteq Users
    BY <1>0 DEF Becomes, BridgeInv
  <2> QED  BY <2>1, <2>3, <2>4 DEF BridgeInv
<1>3. HelloInv'
  <2>1. ASSUME NEW c \in Conns, NEW i \in DOMAIN tx'[c], tx'[c][i].kind = "hello"
        PROVE  (tx[c][i].from # None /\ Paired(tx[c][i].from))'
    <3>1. tx'[c] = tx[c]
      BY <1>0, <2>1, WireFrames
    <3> QED  BY <1>0, <1>k, <2>1, <3>1 DEF HelloInv, Paired
  <2>2. ASSUME Carries(n.buf, "hello") PROVE PartnerPaired(u)
    <3>1. CASE Handles(u, n)
      BY <1>0, <1>c, <2>2, <3>1, TailCarries DEF Handles, HelloInv
    <3>2. CASE Receives(u, n)
      <4>1. pid[cl[u].sock] = u /\ cl[u].sock \in Conns /\ n.buf = tx[cl[u].sock]
        BY <1>c, <3>2, RelayAssumption DEF Receives, OwnSocket
      <4> QED  BY <1>0, <2>2, <4>1, HelloFromPartner
    <3> QED  BY <3>1, <3>2 DEF Becomes
  <2>3. \A w \in Users : Carries(cl'[w].buf, "hello") => PartnerPaired(w)'
    BY <1>0, <1>c, <1>k, <2>2 DEF HelloInv
  <2>4. \A w \in met' : PartnerPaired(w)'
    BY <1>0, <1>k DEF Becomes, HelloInv
  <2> QED  BY <2>1, <2>3, <2>4 DEF HelloInv, Carries
<1>4. DueInv'
  <2> SUFFICES ASSUME NEW w \in due', NEW d \in Conns,
                      pid'[d] = Partner(w), ~ConnectedAgain(Partner(w))', d \notin closed' \cup eof',
                      cl'[w].sock # None, hsess'[cl'[w].sock] = hsess'[d]
               PROVE  Carries(tx'[d], "partner-reconnected")
                        \/ Carries(cl'[Partner(w)].buf, "partner-reconnected")
    BY DEF DueInv, Announced, Carries
  <2>1. w \in due /\ w \in Users /\ cl'[w].sock = cl[w].sock
    BY <1>0, <1>c DEF Becomes, BridgeInv
  <2>2. d \notin closed \cup eof
    BY <1>0, <1>k DEF Wire
  <2>3. Announced(Partner(w), d)
    BY <1>0, <1>k, <2>1, <2>2 DEF DueInv
  <2> DEFINE v == Partner(w)
  <2>4. v \in Users /\ v # w /\ Partner(v) = w
    BY <2>1, TwoBridges
  <2> HIDE DEF v
  <2>5. CASE Handles(u, n)
    <3>1. tx'[d] = tx[d]
      BY <2>5 DEF Handles
    <3>2. CASE u # v
      BY <1>c, <2>3, <2>4, <3>1, <3>2 DEF Announced, v
    <3>3. CASE u = v
      <4>1. Carries(cl[v].buf, "partner-reconnected") => Carries(n.buf, "partner-reconnected")
        BY <1>c, <2>4, <2>5, <3>3, TailCarries DEF Handles
      <4> QED  BY <1>c, <2>3, <3>1, <3>3, <4>1 DEF Announced, v
    <3> QED  BY <3>2, <3>3
  <2>6. CASE Receives(u, n)
    <3>1. cl[u].sock \in Conns /\ pid[cl[u].sock] = u /\ cl[u].buf = <<>> /\ n.buf = tx[cl[u].sock]
      BY <1>c, <2>6, RelayAssumption DEF Receives, OwnSocket
    <3>2. CASE u # v
      <4>1. cl[u].sock # d
        BY <1>k, <3>1, <3>2 DEF v
      <4>2. tx'[d] = tx[d]
        BY <2>6, <4>1 DEF Receives
      <4> QED  BY <1>c, <2>3, <2>4, <3>2, <4>2 DEF Announced, v
    <3>3. CASE u = v
      <4>1. cl[u].sock = d
        BY <1>k, <3>1, <3>3 DEF ConnectedAgain, v
      <4>2. ~Carries(cl[v].buf, "partner-reconnected")
        BY <3>1, <3>3 DEF Carries
      <4> QED  BY <1>c, <2>3, <3>1, <3>3, <4>1, <4>2 DEF Announced, v
    <3> QED  BY <3>2, <3>3
  <2> QED  BY <2>5, <2>6 DEF Becomes
<1> QED  BY <1>1, <1>2, <1>3, <1>4 DEF PipeInv

\* A broken connection preserves them too.
LEMMA BreakInv ==
  ASSUME PipeInv, NEW u \in Users, Break(u)
  PROVE  PipeInv'
<1>0. FullInv /\ BridgeInv /\ TypeOK /\ cl[u] \in ClientRec /\ OwnSocket(u, cl[u])
  BY DEF PipeInv, FullInv, Inv, BridgeInv
<1>1. /\ Hangup(cl[u].sock) /\ UNCHANGED <<relayVars, joinVars, sent>> /\ UNCHANGED <<cl, met, due>>
      /\ cl[u].open
  BY DEF Break
<1>2. cl[u].sock \in Conns
  BY <1>0, <1>1 DEF OwnSocket, ClientRec, Conn
<1>3. Wire /\ \A d \in Conns : tx'[d] = tx[d] \/ d \in eof'
  BY <1>0, <1>1, <1>2, HangupWire
<1>4. cl' = [cl EXCEPT ![u] = cl[u]]
  BY <1>0, <1>1 DEF BridgeInv
<1>5. Becomes(u, cl[u])
  BY <1>0, <1>1, <1>3, <1>4 DEF Becomes, Handles
<1> QED  BY <1>0, <1>5, BecomesInv

\* A fresh connection has no place yet; the bridge's older one, if its partner was
\* established, makes it a bridge that has connected again.
LEMMA OpenInv ==
  ASSUME PipeInv, NEW u \in Users, OpenConnection(u)
  PROVE  PipeInv'
<1>0. FullInv /\ BridgeInv /\ PlaceInv /\ HelloInv /\ DueInv /\ TypeOK
  BY DEF PipeInv, FullInv, Inv
<1> DEFINE c == CHOOSE x \in Conns : pc[x] = "idle"
<1>1. /\ Set(u, Joining(c)) /\ due' = due \cup ({u} \cap met) /\ Connect(c, TheCode, u)
      /\ met' = met
  BY DEF OpenConnection
<1>2. c \in Conns /\ pc[c] = "idle"
  BY DEF OpenConnection
<1> HIDE DEF c
<1>3. TheCode \in Codes
  BY PipeAssumption DEF TheCode
<1>4. Move(c)
  BY <1>1, <1>3 DEF Move
<1>5. FullInv'
  BY <1>0, <1>2, <1>4, MoveIsStep, NextInv DEF Next
<1>6. PlaceInv'
  BY <1>0, <1>2, <1>4, PlaceStep
<1>7. /\ UNCHANGED <<hsess, state, tx, closed, eof>>
      /\ pid' = [pid EXCEPT ![c] = u] /\ pc' = [pc EXCEPT ![c] = "accepted"]
  BY <1>1 DEF Connect, Goto, sessVars, sockVars
<1>8. \A x \in Conns \ {c} : pid'[x] = pid[x] /\ pc'[x] = pc[x]
  BY <1>0, <1>7 DEF TypeOK
<1>9. pid'[c] = u /\ pc'[c] = "accepted" /\ hsess[c] = None /\ c # None
  BY <1>0, <1>2, <1>7, RelayAssumption DEF TypeOK, PlaceInv, PlaceOK
<1>c. cl' = [cl EXCEPT ![u] = Joining(c)]
  BY <1>1 DEF Set
<1>d. cl \in [Users -> ClientRec]
  BY <1>0 DEF BridgeInv
<1>e. cl'[u] = Joining(c) /\ \A w \in Users \ {u} : cl'[w] = cl[w]
  BY <1>c, <1>d
<1>f. /\ Joining(c) \in ClientRec /\ Joining(c).sock = c /\ Joining(c).st = "JOIN_SENT"
      /\ Joining(c).buf = <<>>
  <2>1. <<>> \in Seq(Frame)
    OBVIOUS
  <2>2. Fresh \in ClientRec /\ Fresh.buf = <<>>
    BY <2>1 DEF Fresh, ClientRec, PipeStates, Conn
  <2>3. c \in Conn
    BY <1>2 DEF Conn
  <2> QED  BY <2>2, <2>3 DEF Joining, ClientRec, PipeStates
<1>p. \A x \in Conns : Paired(x) => x # c /\ Paired(x)' /\ pid'[x] = pid[x]
  BY <1>7, <1>8, <1>9 DEF Paired
<1>q. \A w : PartnerPaired(w) => PartnerPaired(w)'
  BY <1>p DEF PartnerPaired
<1>10. BridgeInv'
  <2>1. cl' \in [Users -> ClientRec]
    BY <1>c, <1>d, <1>f
  <2>2. OwnSocket(u, cl[u])'
    BY <1>e, <1>f, <1>9 DEF OwnSocket
  <2>3. ASSUME NEW w \in Users \ {u} PROVE OwnSocket(w, cl[w])'
    <3>1. OwnSocket(w, cl[w]) /\ cl[w].sock \in Conn
      BY <1>0, <1>d DEF BridgeInv, ClientRec
    <3>2. cl[w].sock # None => cl[w].sock \in Conns \ {c}
      BY <1>2, <3>1 DEF OwnSocket, Conn
    <3> QED  BY <1>8, <1>e, <3>1, <3>2 DEF OwnSocket
  <2>4. due' \subseteq met' /\ met' \subseteq Users
    BY <1>0, <1>1 DEF BridgeInv
  <2> QED  BY <2>1, <2>2, <2>3, <2>4 DEF BridgeInv
<1>11. HelloInv'
  <2>1. ASSUME NEW x \in Conns, NEW i \in DOMAIN tx[x], tx[x][i].kind = "hello"
        PROVE  tx[x][i].from # None /\ Paired(tx[x][i].from)'
    <3>1. tx[x][i].from # None /\ Paired(tx[x][i].from)
      BY <1>0, <2>1 DEF HelloInv
    <3> QED  BY <1>7, <3>1 DEF Paired
  <2>2. \A w \in Users : Carries(cl'[w].buf, "hello") => PartnerPaired(w)'
    <3>1. ~Carries(<<>>, "hello")
      BY DEF Carries
    <3> QED  BY <1>0, <1>e, <1>f, <1>q, <3>1 DEF HelloInv
  <2>3. \A w \in met' : PartnerPaired(w)'
    BY <1>0, <1>1, <1>q DEF HelloInv
  <2> QED  BY <1>7, <2>1, <2>2, <2>3 DEF HelloInv, Carries
<1>12. DueInv'
  <2> SUFFICES ASSUME NEW w \in due', NEW d \in Conns,
                      pid'[d] = Partner(w), ~ConnectedAgain(Partner(w))',
                      hsess'[cl'[w].sock] = hsess'[d]
               PROVE  FALSE
    BY DEF DueInv
  <2>1. w \in met /\ w \in Users
    BY <1>0, <1>1 DEF BridgeInv
  <2>2. PICK x \in Conns : pid[x] = Partner(w) /\ Paired(x)
    BY <1>0, <2>1 DEF HelloInv, PartnerPaired
  <2>3. x # c /\ pid'[x] = Partner(w)
    BY <1>p, <2>2
  <2>4. x = d
    BY <2>3 DEF ConnectedAgain
  <2>5. CASE w = u
    BY <1>7, <1>9, <1>e, <1>f, <2>2, <2>4, <2>5 DEF Paired
  <2>6. CASE w # u
    <3>1. Partner(w) = u
      BY <2>1, <2>6, TwoBridges
    <3> QED  BY <1>2, <1>9, <2>3, <3>1 DEF ConnectedAgain
  <2> QED  BY <2>5, <2>6
<1> QED  BY <1>5, <1>6, <1>10, <1>11, <1>12 DEF PipeInv

-----------------------------------------------------------------------------
(* The steps of the relay *)

\* The relay does not touch the joins.
LEMMA JoinsFixed ==
  ASSUME NEW c \in Conns, HandleClient(c) \/ Watch(c) \/ Forward(c) \/ Timer(c)
  PROVE  pid' = pid
<1>1. CASE Watch(c) \/ Forward(c) \/ Timer(c)
  BY <1>1 DEF Watch, Forward, Timer, WatcherDiscards, WatcherEof, ForwardFrame,
              ForwardWriteFails, ForwardEnds, TimerFires, TimerPops, joinVars
<1>2. CASE \/ CloseSilently(c) \/ RejectJoin(c) \/ JoinRelayFull(c) \/ JoinNew(c)
           \/ JoinCodeInUse(c) \/ FinishPair(c) \/ PairFails(c) \/ FinishRejoin(c)
  BY <1>2 DEF CloseSilently, RejectJoin, JoinRelayFull, JoinNew, JoinCodeInUse, FinishPair,
              PairFails, FinishRejoin, AbortClose, joinVars
<1>3. CASE \E s \in Conns : JoinsSession(c, s)
  BY <1>3 DEF JoinsSession, JoinReplaceWaiting, JoinPair, JoinSwapPaired, JoinSurvivor,
              JoinHalfBroken, joinVars
<1>4. CASE \/ DisconnectReplaced(c) \/ DisconnectWaiting(c) \/ DisconnectPaired(c)
           \/ FinishSurvivor(c) \/ DisconnectHalfBroken(c)
  BY <1>4 DEF DisconnectReplaced, DisconnectWaiting, DisconnectPaired, FinishSurvivor,
              DisconnectHalfBroken, joinVars
<1> QED  BY <1>1, <1>2, <1>3, <1>4 DEF HandleClient, JoinsSession

\* A bridge that comes back to the session of its partner's live socket is announced
\* there.
LEMMA Announces ==
  ASSUME FullInv, PlaceInv, NEW c \in Conns, NEW s \in Conns, JoinsSession(c, s),
         NEW d \in Conns, Paired(d), hsess[d] = s, d \notin closed \cup eof,
         pid[c] \in Users, pid[d] = Partner(pid[c])
  PROVE  Carries(tx'[d], "partner-reconnected")
<1>0. TypeOK /\ SessionShape
  BY DEF FullInv, Inv
<1> DEFINE u == pid[c]
           v == Partner(u)
<1>1. v \in Users /\ u # v /\ \A w \in Users : w # u => w = v
  BY TwoBridges
<1>2. peers[s][v] = d /\ d # None
  BY RelayAssumption DEF PlaceInv, PlaceOK, Paired
<1>3. v \in Members(s) /\ Members(s) \subseteq Users
  BY <1>1, <1>2 DEF Members, Keys
<1>4. state[s] \in {"PAIRED", "HALF_BROKEN"}
  BY DEF Paired
<1>a. ASSUME tx' = Put(tx, d, "partner-reconnected", None)
      PROVE  Carries(tx'[d], "partner-reconnected")
  <2> DEFINE r == [kind |-> "partner-reconnected", from |-> None]
  <2>1. tx[d] \in Seq(Frame)
    BY <1>0 DEF TypeOK
  <2>2. tx'[d] = Append(tx[d], r)
    BY <1>0, <1>a DEF Put, TypeOK
  <2>3. r.kind = "partner-reconnected"
    OBVIOUS
  <2> HIDE DEF r
  <2>4. Len(tx[d]) + 1 \in DOMAIN tx'[d] /\ tx'[d][Len(tx[d]) + 1] = r
    BY <2>1, <2>2
  <2> QED  BY <2>3, <2>4 DEF Carries
<1> HIDE DEF u, v
<1>5. CASE JoinSwapPaired(c, s)
  <2>1. PICK q \in Members(s) \ {u} : tx' = Put(tx, peers[s][q], "partner-reconnected", None)
    BY <1>5 DEF JoinSwapPaired, u
  <2>2. q = v
    BY <1>1, <1>3, <2>1
  <2> QED  BY <1>2, <1>a, <2>1, <2>2
<1>6. CASE JoinHalfBroken(c, s)
  <2>1. PICK o \in MemberConns(s) : tx' = Put(tx, o, "partner-reconnected", None)
    BY <1>6 DEF JoinHalfBroken
  <2>2. PICK q \in Members(s) : o = peers[s][q]
    BY <2>1 DEF MemberConns
  <2>3. u \notin Members(s)
    BY <1>6 DEF JoinHalfBroken, Finds, u
  <2>4. q = v
    BY <1>1, <1>3, <2>2, <2>3
  <2> QED  BY <1>2, <1>a, <2>1, <2>2, <2>4
<1>7. CASE JoinSurvivor(c, s)
  <2>1. u \in Members(s) /\ state[s] = "HALF_BROKEN"
    BY <1>7 DEF JoinSurvivor, Finds, u
  <2>2. Singleton(Members(s))
    BY <1>0, <2>1 DEF SessionShape
  <2> QED  BY <1>1, <1>3, <2>1, <2>2 DEF Singleton
<1>8. CASE JoinReplaceWaiting(c, s) \/ JoinPair(c, s)
  BY <1>4, <1>8 DEF JoinReplaceWaiting, JoinPair, Finds
<1> QED  BY <1>5, <1>6, <1>7, <1>8 DEF JoinsSession

\* Every step of the relay preserves the invariants.
LEMMA RelayInv ==
  ASSUME PipeInv, NEW c \in Conns, HandleClient(c) \/ Watch(c) \/ Forward(c) \/ Timer(c),
         UNCHANGED <<cl, met, due>>
  PROVE  PipeInv'
<1>0. FullInv /\ BridgeInv /\ PlaceInv /\ HelloInv /\ DueInv /\ TypeOK /\ FreshInv
  BY DEF PipeInv, FullInv, Inv
<1>1. Move(c)
  BY DEF Move
<1>2. FullInv' /\ PlaceInv'
  BY <1>0, <1>1, MoveIsStep, NextInv, PlaceStep DEF Next
<1>3. /\ pid' = pid /\ closed \subseteq closed' /\ eof' = eof
      /\ \A x \in Conns : pc[x] # "idle" => pc'[x] # "idle"
  BY <1>0, <1>1, JoinsFixed, ClosedGrows, MoveIsStep, JoinKept
<1>4. \A x \in Conns : Paired(x) => Paired(x)' /\ hsess'[x] = hsess[x]
  BY <1>0, <1>1, PairedStays DEF Paired
<1>5. \A w : /\ PartnerPaired(w) => PartnerPaired(w)'
             /\ ConnectedAgain(w)' <=> ConnectedAgain(w)
  BY <1>3, <1>4 DEF PartnerPaired, ConnectedAgain
<1>6. BridgeInv'
  <2>1. \A w \in Users : OwnSocket(w, cl[w])'
    BY <1>0, <1>3 DEF BridgeInv, OwnSocket, ClientRec, Conn
  <2> QED  BY <1>0, <2>1 DEF BridgeInv
<1>7. HelloInv'
  <2>1. ASSUME NEW x \in Conns, NEW i \in DOMAIN tx'[x], tx'[x][i].kind = "hello"
        PROVE  (tx[x][i].from # None /\ Paired(tx[x][i].from))'
    <3>1. tx[x] \in Seq(Frame)
      BY <1>0 DEF TypeOK
    <3> DEFINE f == tx'[x][i].from
    <3>2. CASE i \in DOMAIN tx[x] /\ tx'[x][i] = tx[x][i]
      <4>1. f # None /\ Paired(f)
        BY <1>0, <2>1, <3>2 DEF HelloInv
      <4>2. tx[x][i] \in Frame
        BY <3>1, <3>2
      <4>3. f \in Conns
        BY <3>2, <4>1, <4>2 DEF Frame
      <4> HIDE DEF f
      <4> QED  BY <1>4, <4>1, <4>3 DEF Paired, f
    <3>3. CASE ~(i \in DOMAIN tx[x] /\ tx'[x][i] = tx[x][i])
      <4>1. tx'[x] # tx[x]
        BY <3>3
      <4>2. PICK r \in Frame : tx'[x] = Append(tx[x], r) /\ NewFrame(c, r)
        BY <1>0, <1>1, <4>1, FrameStep
      <4>3. tx'[x][i] = r
        BY <2>1, <3>1, <3>3, <4>2
      <4>4. f = c /\ fwd[c] = "run"
        BY <2>1, <4>2, <4>3 DEF NewFrame
      <4>5. Paired(c) /\ c # None
        BY <1>0, <4>4, RelayAssumption DEF PlaceInv, PlaceOK
      <4> HIDE DEF f
      <4> QED  BY <1>4, <4>4, <4>5 DEF Paired, f
    <3> QED  BY <3>2, <3>3
  <2>2. \A w \in Users : Carries(cl'[w].buf, "hello") => PartnerPaired(w)'
    BY <1>0, <1>5 DEF HelloInv
  <2>3. \A w \in met' : PartnerPaired(w)'
    BY <1>0, <1>5 DEF HelloInv
  <2> QED  BY <2>1, <2>2, <2>3 DEF HelloInv, Carries
<1>8. DueInv'
  <2> SUFFICES ASSUME NEW u \in due, NEW d \in Conns,
                      pid[d] = Partner(u), ~ConnectedAgain(Partner(u)), d \notin closed' \cup eof',
                      cl[u].sock # None, hsess'[cl[u].sock] = hsess'[d]
               PROVE  Carries(tx'[d], "partner-reconnected")
                        \/ Carries(cl[Partner(u)].buf, "partner-reconnected")
    BY <1>3, <1>5 DEF DueInv, Announced, Carries
  <2>1. u \in Users /\ u \in met /\ cl[u].sock \in Conns /\ pid[cl[u].sock] = u
        /\ d \notin closed \cup eof
    BY <1>0, <1>3 DEF BridgeInv, OwnSocket, ClientRec, Conn
  <2>2. Paired(d)
    <3>1. PICK x \in Conns : pid[x] = Partner(u) /\ Paired(x)
      BY <1>0, <2>1 DEF HelloInv, PartnerPaired
    <3> QED  BY <3>1 DEF ConnectedAgain
  <2> DEFINE o == cl[u].sock
             s == hsess[d]
  <2>3. hsess'[o] = s /\ s \in Conns
    BY <1>0, <1>4, <2>2 DEF Paired, TypeOK, Conn
  <2>4. CASE hsess[o] = s
    <3>1. Announced(Partner(u), d)
      BY <1>0, <2>1, <2>4 DEF DueInv
    <3>2. Carries(tx[d], "partner-reconnected") => Carries(tx'[d], "partner-reconnected")
      <4>1. tx[d] \in Seq(Frame)
        BY <1>0 DEF TypeOK
      <4>2. tx'[d] = tx[d] \/ \E r \in Frame : tx'[d] = Append(tx[d], r)
        BY <1>0, <1>1, FrameStep
      <4>3. \A i \in DOMAIN tx[d] : i \in DOMAIN tx'[d] /\ tx'[d][i] = tx[d][i]
        BY <4>1, <4>2
      <4> QED  BY <4>3 DEF Carries
    <3> QED  BY <3>1, <3>2 DEF Announced
  <2>5. CASE hsess[o] # s
    <3> HIDE DEF o, s
    <3>1. hsess' # hsess
      BY <2>3, <2>5
    <3>2. JoinNew(c) \/ \E t \in Conns : JoinsSession(c, t)
      BY <1>0, <1>1, <3>1, NoJoin
    <3>3. PICK t \in Conns : (t = c /\ JoinNew(c)) \/ JoinsSession(c, t)
      BY <3>2
    <3>4. hsess' = [hsess EXCEPT ![c] = t] /\ pc[c] = "accepted"
      BY <1>0, <3>3, JoinEffect
    <3>5. o = c /\ t = s
      BY <1>0, <2>1, <2>3, <2>5, <3>4 DEF TypeOK, o
    <3>6. ~(t = c /\ JoinNew(c))
      <4>1. state[c] = "NEW"
        BY <1>0, <3>4 DEF FreshInv
      <4> QED  BY <2>2, <3>5, <4>1 DEF Paired, s
    <3>7. JoinsSession(c, s) /\ pid[c] = u /\ hsess[d] = s
      BY <2>1, <3>3, <3>5, <3>6 DEF o, s
    <3> QED  BY <1>0, <2>1, <2>2, <2>3, <3>7, Announces
  <2> QED  BY <2>4, <2>5
<1> QED  BY <1>2, <1>6, <1>7, <1>8 DEF PipeInv

-----------------------------------------------------------------------------
(* The theorems *)

\* The invariants hold before the first connection.
LEMMA PipeInitInv == PipeInit => PipeInv
<1> SUFFICES ASSUME PipeInit PROVE PipeInv
  OBVIOUS
<1>1. FullInv
  BY InitInv DEF PipeInit
<1>2. <<>> \in Seq(Frame)
  OBVIOUS
<1>3. Fresh \in ClientRec /\ Fresh.buf = <<>> /\ Fresh.sock = None /\ Fresh.st = "INIT" /\ ~Fresh.open
  BY <1>2 DEF Fresh, ClientRec, PipeStates, Conn
<1>4. \A u \in Users : cl[u] = Fresh
  BY DEF PipeInit
<1>5. cl \in [Users -> ClientRec]
  BY <1>3 DEF PipeInit
<1>6. BridgeInv
  BY <1>3, <1>4, <1>5 DEF BridgeInv, OwnSocket, PipeInit
<1>7. PlaceInv
  BY RelayAssumption DEF PlaceInv, PlaceOK, PipeInit, Init
<1>8. ~Carries(<<>>, "hello")
  BY DEF Carries
<1>9. HelloInv
  BY <1>3, <1>4, <1>8 DEF HelloInv, PipeInit, Init
<1>10. DueInv
  BY DEF DueInv, PipeInit
<1> QED  BY <1>1, <1>6, <1>7, <1>9, <1>10 DEF PipeInv

\* Every step of the bridges, the network and the relay preserves them.
LEMMA PipeNextInv == PipeInv /\ [PipeNext]_pipeVars => PipeInv'
<1> SUFFICES ASSUME PipeInv, [PipeNext]_pipeVars PROVE PipeInv'
  OBVIOUS
<1>0. FullInv /\ BridgeInv
  BY DEF PipeInv
<1>1. ASSUME NEW u \in Users, Bridge(u) PROVE PipeInv'
  <2>1. CASE OpenConnection(u)
    BY <2>1, OpenInv
  <2>2. CASE ~OpenConnection(u)
    <3>1. \E n \in ClientRec : Becomes(u, n)
      BY <1>0, <1>1, <2>2, ReceiveStep, HandleStep DEF Bridge
    <3> QED  BY <3>1, BecomesInv
  <2> QED  BY <2>1, <2>2
<1>2. ASSUME NEW u \in Users, Break(u) PROVE PipeInv'
  BY <1>2, BreakInv
<1>3. ASSUME NEW c \in Conns, RelayStep(c) \/ TimerExpires(c) PROVE PipeInv'
  <2>1. /\ HandleClient(c) \/ Watch(c) \/ Forward(c) \/ Timer(c)
        /\ UNCHANGED <<cl, met, due>>
    BY <1>3 DEF RelayStep, TimerExpires, RelayForwards, Forward, Timer
  <2> QED  BY <2>1, RelayInv
<1>4. CASE UNCHANGED pipeVars
  <2>1. UNCHANGED <<relayVars, joinVars, sent, eof, rx, tx, cl, met, due, pid, pc, hsess, closed>>
    BY <1>4 DEF pipeVars, vars, sockVars, relayVars, joinVars
  <2>2. Wire
    BY <1>0, <2>1 DEF Wire, FullInv, Inv, TypeOK
  <2>3. FullInv' /\ PlaceInv'
    BY <2>2, WireInv DEF PipeInv
  <2>4. /\ \A x : Paired(x)' <=> Paired(x)
        /\ \A u : PartnerPaired(u)' <=> PartnerPaired(u)
        /\ \A u : ConnectedAgain(u)' <=> ConnectedAgain(u)
    BY <2>2, WireKeeps
  <2>5. BridgeInv'
    BY <1>0, <2>1 DEF BridgeInv, OwnSocket
  <2>6. HelloInv'
    BY <2>1, <2>4 DEF PipeInv, HelloInv, Carries, Paired
  <2>7. DueInv'
    BY <2>1, <2>4 DEF PipeInv, DueInv, Announced, Carries
  <2> QED  BY <2>3, <2>5, <2>6, <2>7 DEF PipeInv
<1> QED  BY <1>1, <1>2, <1>3, <1>4 DEF PipeNext

\* The inductive invariant of two bridges and the relay: the relay keeps what it
\* guarantees free clients; bridges own their connections; handlers, members and
\* forwarders stay in their session; and a bridge that is back in its partner's session
\* has been announced there.
THEOREM PipeInvariant == PipeSpec => []PipeInv
BY PipeInitInv, PipeNextInv, PTL DEF PipeSpec

\* The clients stay well typed: an established bridge has sent and received a hello,
\* and its connection is one the relay knows under its peer_id.
THEOREM PipeTypes == PipeSpec => []PipeTypeOK
<1>1. PipeInv => PipeTypeOK
  <2> SUFFICES ASSUME PipeInv PROVE PipeTypeOK
    OBVIOUS
  <2>1. BridgeInv
    BY DEF PipeInv
  <2>2. \A u \in Users : cl[u] \in ClientRec /\ OwnSocket(u, cl[u])
    BY <2>1 DEF BridgeInv
  <2> QED  BY <2>1, <2>2 DEF PipeTypeOK, BridgeInv, OwnSocket, ClientRec, PipeStates
<1> QED  BY <1>1, PipeInvariant, PTL

\* Bytes never cross sessions with the bridges as clients either.
THEOREM BridgesDoNotCross == PipeSpec => []NoCrossTalk
<1>1. PipeInv => NoCrossTalk
  BY DEF PipeInv, FullInv, RouteInv, NoCrossTalk, Linked, Sources
<1> QED  BY <1>1, PipeInvariant, PTL

\* Whatever broke, once two bridges are routed to each other again the partner of one
\* that lost its connection has sent its whole state since, unless it reconnected itself.
THEOREM ResyncsAreSent == PipeSpec => []PartnerResyncs
<1>1. PipeInv => PartnerResyncs
  <2> SUFFICES ASSUME PipeInv, Settled, NEW u \in due, ~ConnectedAgain(Partner(u))
               PROVE  FALSE
    BY DEF PartnerResyncs
  <2>0. BridgeInv /\ PlaceInv /\ DueInv /\ FullInv
    BY DEF PipeInv
  <2> DEFINE v == Partner(u)
             c == cl[u].sock
             d == cl[v].sock
  <2>1. u \in Users /\ v \in Users /\ Partner(v) = u
    BY <2>0, TwoBridges DEF BridgeInv
  <2>2. Up(u) /\ Up(v) /\ Hears(v)
    BY <2>1 DEF Settled
  <2>3. c \in Conns /\ d \in Conns /\ pid[d] = v
    BY <2>0, <2>1, <2>2 DEF Up, BridgeInv, OwnSocket, ClientRec, Conn
  <2>4. fwd[c] = "run" /\ dst[c] = d
    BY <2>1, <2>2 DEF Hears
  <2>5. hsess[c] = hsess[d]
    BY <2>0, <2>3, <2>4 DEF PlaceInv, PlaceOK
  <2>6. d \notin closed \cup eof /\ tx[d] = <<>> /\ cl[v].buf = <<>>
    BY <2>2 DEF Up
  <2>7. Announced(v, d)
    BY <2>0, <2>3, <2>5, <2>6, RelayAssumption DEF DueInv
  <2> QED  BY <2>6, <2>7 DEF Announced, Carries
<1> QED  BY <1>1, PipeInvariant, PTL
=============================================================================
