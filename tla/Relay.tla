------------------------------- MODULE Relay -------------------------------
(***************************************************************************)
(* The rendezvous relay, relay/relay/server.py.                            *)
(*                                                                         *)
(* The relay is one asyncio event loop: code between two awaits is atomic, *)
(* every await is a point where another task may run.  Each accepted       *)
(* socket has one Peer object and one handle_client coroutine, all named c *)
(* below; a Session is named after the socket whose handler created it.    *)
(* Bytes are sequences of frames.  Logging, FrameTracer and                *)
(* Session.broken_peer_id (assigned, never read) are left out.             *)
(***************************************************************************)
EXTENDS Naturals, Sequences, FiniteSets

CONSTANTS
  Conns,     \* sockets the relay may accept
  PeerIds,   \* peer_id strings of the clients
  Codes,     \* session codes of legal length
  MaxPairs,  \* MAX_PAIRS
  Payload,   \* frames a client sends after its join
  MaxSends,  \* bound: frames a client sends on one socket
  None       \* Python's None

ASSUME RelayAssumption ==
  /\ MaxPairs \in Nat \ {0} /\ MaxSends \in Nat
  /\ None \notin Conns \cup PeerIds \cup Codes
  /\ IsFiniteSet(Codes)

VARIABLES
  sessions,  \* _sessions: code -> Session or None
  state, peers,         \* Session.state, Session.peers: peer_id -> Peer or None
  timer,     \* Session.ttl_task in WAITING, Session.grace_task in HALF_BROKEN
  code, pid, \* the join frame of a socket (code None: not a valid join)
  pc, hsess, other,     \* handle_client: where it is suspended, sess and other
  done,      \* the Peers whose done event is set
  watcher, fwd, dst,    \* Peer.watcher_task, Peer.forward_task and its dst
  closed,    \* the Peers whose writer the relay has closed
  eof,       \* the sockets whose client is gone
  sent,      \* how many frames a client has sent
  rx,        \* frames from the client not yet read by the relay
  tx         \* frames the relay has written to the client

sessVars == <<sessions, state, peers, timer>>
joinVars == <<code, pid>>
taskVars == <<watcher, fwd, dst>>
sockVars == <<closed, eof, sent, rx, tx>>
vars == <<sessVars, joinVars, pc, hsess, other, done, taskVars, sockVars>>

Frame == [kind : {"joined", "partner-reconnected", "abort"} \cup Payload,
          from : Conns \cup {None}]
Conn == Conns \cup {None}

\* A timer sleeps, then is suspended in wait_closed, then is over.  A task is
\* None, runs, or is done(); a forwarder whose write failed is "wfail".
TypeOK ==
  /\ sessions \in [Codes -> Conn]
  /\ state \in [Conns -> {"NEW", "WAITING", "PAIRED", "HALF_BROKEN"}]
  /\ peers \in [Conns -> [PeerIds -> Conn]]
  /\ timer \in [Conns -> {"none", "sleep", "closing", "over"}]
  /\ code \in [Conns -> Codes \cup {None}] /\ pid \in [Conns -> PeerIds \cup {None}]
  /\ pc \in [Conns -> {"idle", "accepted", "pairing", "notify", "waiting",
                       "survivor", "ended", "failed"}]
  /\ hsess \in [Conns -> Conn] /\ other \in [Conns -> Conn]
  /\ watcher \in [Conns -> {"none", "run", "ended"}]
  /\ fwd \in [Conns -> {"none", "run", "ended", "wfail"}]
  /\ dst \in [Conns -> Conn]
  /\ done \subseteq Conns /\ closed \subseteq Conns /\ eof \subseteq Conns
  /\ sent \in [Conns -> 0 .. MaxSends]
  /\ rx \in [Conns -> Seq(Payload)]
  /\ tx \in [Conns -> Seq(Frame)]

Init ==
  /\ sessions = [k \in Codes |-> None]
  /\ state = [s \in Conns |-> "NEW"]
  /\ peers = [s \in Conns |-> [p \in PeerIds |-> None]]
  /\ timer = [s \in Conns |-> "none"]
  /\ code = [c \in Conns |-> None] /\ pid = [c \in Conns |-> None]
  /\ pc = [c \in Conns |-> "idle"]
  /\ hsess = [c \in Conns |-> None] /\ other = [c \in Conns |-> None]
  /\ watcher = [c \in Conns |-> "none"] /\ fwd = [c \in Conns |-> "none"]
  /\ dst = [c \in Conns |-> None]
  /\ done = {} /\ closed = {} /\ eof = {}
  /\ sent = [c \in Conns |-> 0]
  /\ rx = [c \in Conns |-> <<>>] /\ tx = [c \in Conns |-> <<>>]

-----------------------------------------------------------------------------
(* Helpers *)

Keys(dict) == {p \in PeerIds : dict[p] # None}
Members(s) == Keys(peers[s])
MemberConns(s) == {peers[s][p] : p \in Members(s)}
Registered == {k \in Codes : sessions[k] # None}

\* What is written to a closed writer, or for a client that is gone, is lost.
Put(t, c, kind, from) ==
  IF c \in closed \cup eof THEN t
  ELSE [t EXCEPT ![c] = Append(@, [kind |-> kind, from |-> from])]

\* task.cancel() on the tasks of cs: a cancelled reader does not set done.
Cancelled(tasks, cs) ==
  [c \in Conns |-> IF c \in cs /\ tasks[c] = "run" THEN "ended" ELSE tasks[c]]

Reading(c) == watcher[c] = "run" \/ fwd[c] = "run"

\* create_task(_forward) for each c in cs, towards to[c].  A second read() on a
\* socket raises RuntimeError, which either reader task turns into done.set();
\* the task that was reading goes on.
StartForwarding(cs, to) ==
  /\ fwd' = [c \in Conns |->
       IF c \in cs THEN IF watcher[c] = "run" THEN "ended" ELSE "run" ELSE fwd[c]]
  /\ dst' = [c \in Conns |-> IF c \in cs /\ ~Reading(c) THEN to[c] ELSE dst[c]]
  /\ done' = done \cup {c \in cs : Reading(c)}

\* read() returns b"" or raises: the client is gone and its bytes are consumed,
\* or the relay closed the transport itself.
AtEof(c) == c \in closed \/ (c \in eof /\ rx[c] = <<>>)

Goto(c, label) == pc' = [pc EXCEPT ![c] = label]

\* The coroutine raises: its task is gone, and Python 3.12 closes the transport
\* where 3.10 and 3.11 leave it open.
Raises(c) == Goto(c, "failed") /\ closed' \in {closed, closed \cup {c}}

\* `await peer.done.wait()`, with which every successful join ends.
AwaitUnlessGone(c) == Goto(c, IF c \in eof THEN "ended" ELSE "waiting")
AwaitDone(c) == Goto(c, "waiting")

\* create_task(_ttl_expire) or create_task(_grace_expire), and its cancel().
StartTtlOnly(s) == timer' = [timer EXCEPT ![s] = IF state[s] = "NEW" THEN "sleep" ELSE @]
StartTimer(s) == timer' = [timer EXCEPT ![s] = "sleep"]
NoCancel(s) == UNCHANGED timer
StopTimer(s) == timer' = [timer EXCEPT ![s] = "over"]

\* sess.peers[peer_id] = peer
EnterId(c, s) == peers' = [peers EXCEPT ![s][pid[c]] = pid[c]]
Enter(c, s) == peers' = [peers EXCEPT ![s][pid[c]] = c]

\* sess.peers.pop(peer_id)
LeaveNothing(c) == UNCHANGED peers
Leave(c) == peers' = [peers EXCEPT ![hsess[c]][pid[c]] = None]

\* _sessions.get(code)
LookupAlive(c) ==
  LET s == sessions[code[c]]
  IN IF s # None /\ timer[s] = "closing" THEN None ELSE s
Lookup(c) == sessions[code[c]]

RoomOffByOne == Cardinality(Registered) <= MaxPairs
HasRoom == Cardinality(Registered) < MaxPairs

\* The destinations of the forwarders of two partners.
EchoRoutes(a, b) == [x \in {a, b} |-> b]
Routes(a, b) == [x \in {a, b} |-> IF x = a THEN b ELSE a]

-----------------------------------------------------------------------------
(* handle_client *)

\* send_abort_close: write the abort frame and close.
AbortClose(c) ==
  /\ tx' = Put(tx, c, "abort", None)
  /\ closed' = closed \cup {c}
  /\ Goto(c, "ended")
  /\ UNCHANGED <<sessVars, joinVars, hsess, other, done, taskVars, eof, sent, rx>>

\* A first frame that cannot be read closes the socket silently; JSON that is not
\* an object has no get().
CloseSilently(c) ==
  /\ pc[c] = "accepted" /\ code[c] = None
  /\ \/ Goto(c, "ended") /\ closed' = closed \cup {c}
     \/ Raises(c)
  /\ UNCHANGED <<sessVars, joinVars, hsess, other, done, taskVars, eof, sent, rx, tx>>

\* One that is no acceptable join is answered with an abort.
RejectJoin(c) == pc[c] = "accepted" /\ code[c] = None /\ AbortClose(c)

JoinRelayFull(c) ==
  /\ pc[c] = "accepted" /\ code[c] # None
  /\ Lookup(c) = None /\ ~HasRoom
  /\ AbortClose(c)

JoinNew(c) ==
  /\ pc[c] = "accepted" /\ code[c] # None
  /\ Lookup(c) = None /\ HasRoom
  /\ sessions' = [sessions EXCEPT ![code[c]] = c]
  /\ state' = [state EXCEPT ![c] = "WAITING"]
  /\ Enter(c, c)
  /\ StartTimer(c)
  /\ watcher' = [watcher EXCEPT ![c] = "run"]
  /\ hsess' = [hsess EXCEPT ![c] = c]
  /\ AwaitDone(c)
  /\ UNCHANGED <<joinVars, other, done, fwd, dst, sockVars>>

\* The join of c finds session s in state st; `same` tells whether its peer_id
\* is a member already.  The handler works on s from now on.
Finds(c, s, st, same) ==
  /\ pc[c] = "accepted" /\ code[c] # None
  /\ Lookup(c) = s /\ state[s] = st
  /\ (pid[c] \in Members(s)) = same
  /\ hsess' = [hsess EXCEPT ![c] = s]

\* WAITING, same peer_id: swap the socket.  old.done is not set.
JoinReplaceWaiting(c, s) ==
  /\ Finds(c, s, "WAITING", TRUE)
  /\ watcher' = [Cancelled(watcher, {peers[s][pid[c]]}) EXCEPT ![c] = "run"]
  /\ closed' = closed \cup {peers[s][pid[c]]}
  /\ Enter(c, s)
  /\ AwaitDone(c)
  /\ UNCHANGED <<sessions, state, timer, joinVars, other, done, fwd, dst, eof, sent, rx, tx>>

\* WAITING, another peer_id: pair, and _send_joined up to its first drain.  From
\* here other is the entry on which the iteration over sess.peers stands.
JoinPair(c, s) ==
  /\ Finds(c, s, "WAITING", FALSE)
  /\ StopTimer(s)
  /\ \E first \in MemberConns(s) :
       /\ watcher' = [watcher EXCEPT ![first] = "none"]
       /\ tx' = Put(tx, first, "joined", None)
       /\ other' = [other EXCEPT ![c] = first]
  /\ Enter(c, s)
  /\ state' = [state EXCEPT ![s] = "PAIRED"]
  /\ Goto(c, "pairing")
  /\ UNCHANGED <<sessions, joinVars, done, fwd, dst, closed, eof, sent, rx>>

\* The rest of _send_joined, then _start_forwarding: the entry the iteration
\* stands on is still there, and there is one more.
FinishPair(c) ==
  /\ pc[c] = "pairing" /\ other[c] # None
  /\ \E p, q \in Members(hsess[c]) :
       LET a == peers[hsess[c]][p]
           b == peers[hsess[c]][q]
       IN /\ Members(hsess[c]) = {p, q} /\ p # q
          /\ p = pid[other[c]]
          /\ tx' = Put(tx, b, "joined", None)
          /\ StartForwarding({a, b}, Routes(a, b))
  /\ AwaitDone(c)
  /\ UNCHANGED <<sessVars, joinVars, hsess, other, watcher, closed, eof, sent, rx>>

\* A peer left sess.peers during the drain, and the iteration raises: at once when
\* the dict is smaller; when another peer came in the place of the first, after one
\* more entry, which gets its frame.
PairFails(c) ==
  /\ pc[c] = "pairing"
  /\ \/ (\A p, q \in Members(hsess[c]) : p = q) /\ UNCHANGED tx
     \/ other[c] = None /\ \E p, q \in Members(hsess[c]) :
          p # q /\ tx' = Put(tx, peers[hsess[c]][p], "joined", None)
  /\ Raises(c)
  /\ UNCHANGED <<sessVars, joinVars, hsess, other, done, taskVars, eof, sent, rx>>

\* PAIRED, same peer_id: swap the socket and tell the other peer, up to the
\* drain.  old.done is not set.
JoinSwapPaired(c, s) ==
  /\ Finds(c, s, "PAIRED", TRUE)
  /\ fwd' = Cancelled(fwd, {peers[s][pid[c]]})
  /\ closed' = closed \cup {peers[s][pid[c]]}
  /\ \E q \in Members(s) \ {pid[c]} :
       /\ other' = [other EXCEPT ![c] = peers[s][q]]
       /\ tx' = Put(tx, peers[s][q], "partner-reconnected", None)
  /\ Enter(c, s)
  /\ Goto(c, "notify")
  /\ UNCHANGED <<sessions, state, timer, joinVars, done, watcher, dst, eof, sent, rx>>

\* PAIRED, a third peer_id.
JoinCodeInUse(c) ==
  /\ pc[c] = "accepted" /\ code[c] # None
  /\ Lookup(c) # None /\ state[Lookup(c)] = "PAIRED"
  /\ pid[c] \notin Members(Lookup(c))
  /\ AbortClose(c)

\* HALF_BROKEN, the survivor's own peer_id: swap the socket and keep waiting.
JoinSurvivor(c, s) ==
  /\ Finds(c, s, "HALF_BROKEN", TRUE)
  /\ watcher' = [Cancelled(watcher, {peers[s][pid[c]]}) EXCEPT ![c] = "run"]
  /\ fwd' = Cancelled(fwd, {peers[s][pid[c]]})
  /\ closed' = closed \cup {peers[s][pid[c]]}
  /\ done' = done \cup {peers[s][pid[c]]}
  /\ Enter(c, s)
  /\ tx' = Put(tx, c, "joined", None)
  /\ AwaitDone(c)
  /\ UNCHANGED <<sessions, state, timer, joinVars, other, dst, eof, sent, rx>>

\* HALF_BROKEN, any other peer_id: back to PAIRED, up to the drain.
JoinHalfBroken(c, s) ==
  /\ Finds(c, s, "HALF_BROKEN", FALSE)
  /\ StopTimer(s)
  /\ \E o \in MemberConns(s) :
       /\ other' = [other EXCEPT ![c] = o]
       /\ watcher' = [watcher EXCEPT ![o] = "none"]
       /\ tx' = Put(tx, o, "partner-reconnected", None)
  /\ Enter(c, s)
  /\ state' = [state EXCEPT ![s] = "PAIRED"]
  /\ Goto(c, "notify")
  /\ UNCHANGED <<sessions, joinVars, done, fwd, dst, closed, eof, sent, rx>>

\* The common tail of the two rejoin branches: answer the rejoining peer (its
\* fresh socket drains at once), start its forwarder, and restart the other
\* peer's unless that still runs, towards whatever dst it has.
FinishRejoin(c) ==
  /\ pc[c] = "notify"
  /\ tx' = Put(tx, c, "joined", None)
  /\ LET o == other[c]
     IN StartForwarding(IF fwd[o] = "run" THEN {c} ELSE {c, o}, Routes(c, o))
  /\ AwaitDone(c)
  /\ UNCHANGED <<sessVars, joinVars, hsess, other, watcher, closed, eof, sent, rx>>

-----------------------------------------------------------------------------
(* _on_peer_disconnect, which the handler runs once peer.done is set *)

Wakes(c) == pc[c] = "waiting" /\ c \in done
IsCurrent(c) == peers[hsess[c]][pid[c]] = c

DisconnectReplaced(c) ==
  /\ Wakes(c) /\ ~IsCurrent(c)
  /\ Goto(c, "ended")
  /\ UNCHANGED <<sessVars, joinVars, hsess, other, done, taskVars, sockVars>>

\* _sessions.pop(sess.code) removes whatever is registered under the code.
DisconnectWaiting(c) ==
  /\ Wakes(c) /\ IsCurrent(c) /\ state[hsess[c]] = "WAITING"
  /\ watcher' = Cancelled(watcher, {c}) /\ fwd' = Cancelled(fwd, {c})
  /\ closed' = closed \cup {c}
  /\ Leave(c)
  /\ StopTimer(hsess[c])
  /\ sessions' = [sessions EXCEPT ![code[c]] = None]
  /\ Goto(c, "ended")
  /\ UNCHANGED <<state, joinVars, hsess, other, done, dst, eof, sent, rx, tx>>

\* The handlers in _send_joined whose iteration stands on the entry of c.
Iterating(c) == {h \in Conns : /\ pc[h] = "pairing" /\ hsess[h] = hsess[c]
                               /\ other[h] # None /\ pid[other[h]] = pid[c]}

\* PAIRED: HALF_BROKEN and a grace timer.  A survivor without a watcher gets
\* one, at once or after its running forwarder has been cancelled and awaited.
DisconnectPaired(c) ==
  /\ Wakes(c) /\ IsCurrent(c) /\ state[hsess[c]] = "PAIRED"
  /\ closed' = closed \cup {c}
  /\ Leave(c)
  /\ state' = [state EXCEPT ![hsess[c]] = "HALF_BROKEN"]
  /\ StartTimer(hsess[c])
  /\ \E q \in Members(hsess[c]) \ {pid[c]} :
       LET v == peers[hsess[c]][q]
           unwatched == watcher[v] = "none"
           awaits == unwatched /\ fwd[v] = "run"
       IN /\ other' = [h \in Conns |-> IF h = c THEN v
                                        ELSE IF h \in Iterating(c) THEN None ELSE other[h]]
          /\ fwd' = [Cancelled(fwd, {c}) EXCEPT ![v] = IF unwatched THEN "none" ELSE @]
          /\ watcher' = [Cancelled(watcher, {c}) EXCEPT
                           ![v] = IF unwatched /\ ~awaits THEN "run" ELSE @]
          /\ Goto(c, IF awaits THEN "survivor" ELSE "ended")
  /\ UNCHANGED <<sessions, joinVars, hsess, done, dst, eof, sent, rx, tx>>

\* After `await task` in _cancel_forward_task: create_task(_watch_for_eof).
FinishSurvivor(c) ==
  /\ pc[c] = "survivor"
  /\ watcher' = [watcher EXCEPT ![other[c]] = IF Reading(other[c]) THEN "ended" ELSE "run"]
  /\ done' = done \cup {v \in {other[c]} : Reading(v)}
  /\ Goto(c, "ended")
  /\ UNCHANGED <<sessVars, joinVars, hsess, other, fwd, dst, sockVars>>

\* HALF_BROKEN: the survivor is gone too, and stays in sess.peers.
DisconnectHalfBroken(c) ==
  /\ Wakes(c) /\ IsCurrent(c) /\ state[hsess[c]] = "HALF_BROKEN"
  /\ watcher' = Cancelled(watcher, {c}) /\ fwd' = Cancelled(fwd, {c})
  /\ closed' = closed \cup {c}
  /\ Goto(c, "ended")
  /\ UNCHANGED <<sessVars, joinVars, hsess, other, done, dst, eof, sent, rx, tx>>

-----------------------------------------------------------------------------
(* The reader tasks and the timers *)

\* _watch_for_eof
WatcherDiscards(c) ==
  /\ watcher[c] = "run" /\ rx[c] # <<>>
  /\ rx' = [rx EXCEPT ![c] = Tail(@)]
  /\ UNCHANGED <<sessVars, joinVars, pc, hsess, other, done, taskVars, closed, eof, sent, tx>>

WatcherEof(c) ==
  /\ watcher[c] = "run" /\ AtEof(c)
  /\ watcher' = [watcher EXCEPT ![c] = "ended"]
  /\ done' = done \cup {c}
  /\ UNCHANGED <<sessVars, joinVars, pc, hsess, other, fwd, dst, sockVars>>

\* _forward
ForwardFrame(c) ==
  /\ fwd[c] = "run" /\ rx[c] # <<>> /\ dst[c] \notin closed
  /\ rx' = [rx EXCEPT ![c] = Tail(@)]
  /\ tx' = Put(tx, dst[c], Head(rx[c]), c)
  /\ UNCHANGED <<sessVars, joinVars, pc, hsess, other, done, taskVars, closed, eof, sent>>

\* A write to a closed dst fails, one to a dst whose client is gone may: the
\* task ends without setting done.
ForwardWriteFails(c) ==
  /\ fwd[c] = "run" /\ rx[c] # <<>> /\ dst[c] \in closed \cup eof
  /\ rx' = [rx EXCEPT ![c] = Tail(@)]
  /\ fwd' = [fwd EXCEPT ![c] = "wfail"]
  /\ UNCHANGED <<sessVars, joinVars, pc, hsess, other, done, watcher, dst, closed, eof,
                 sent, tx>>

\* EOF, a read error, or IDLE_SECONDS without a byte.
ForwardEnds(c) ==
  /\ fwd[c] = "run" /\ (AtEof(c) \/ rx[c] = <<>>)
  /\ fwd' = [fwd EXCEPT ![c] = "ended"]
  /\ done' = done \cup {c}
  /\ UNCHANGED <<sessVars, joinVars, pc, hsess, other, watcher, dst, sockVars>>

\* _ttl_expire and _grace_expire.  A session with a running timer has a single
\* peer, so the loop over sess.peers is one send_abort_close, suspended in
\* wait_closed; then the code is popped.
TimerFires(s) ==
  /\ timer[s] = "sleep"
  /\ timer' = [timer EXCEPT ![s] = "closing"]
  /\ tx' = [c \in Conns |-> IF c \in MemberConns(s) \ (closed \cup eof)
                            THEN Append(tx[c], [kind |-> "abort", from |-> None])
                            ELSE tx[c]]
  /\ closed' = closed \cup MemberConns(s)
  /\ UNCHANGED <<sessions, state, peers, joinVars, pc, hsess, other, done, taskVars, eof,
                 sent, rx>>

TimerPops(s) ==
  /\ timer[s] = "closing"
  /\ timer' = [timer EXCEPT ![s] = "over"]
  /\ sessions' = [sessions EXCEPT ![code[s]] = None]
  /\ UNCHANGED <<state, peers, joinVars, pc, hsess, other, done, taskVars, sockVars>>

-----------------------------------------------------------------------------
(* The clients, as the relay sees them *)

\* A client connects and sends its first frame.
Connect(c, k, p) ==
  /\ pc[c] = "idle"
  /\ code' = [code EXCEPT ![c] = k]
  /\ pid' = [pid EXCEPT ![c] = p]
  /\ Goto(c, "accepted")
  /\ UNCHANGED <<sessVars, hsess, other, done, taskVars, sockVars>>

ClientSends(c, m) ==
  /\ pc[c] # "idle" /\ c \notin eof \cup closed
  /\ sent[c] < MaxSends
  /\ sent' = [sent EXCEPT ![c] = @ + 1]
  /\ rx' = [rx EXCEPT ![c] = Append(@, m)]
  /\ UNCHANGED <<sessVars, joinVars, pc, hsess, other, done, taskVars, closed, eof, tx>>

\* FIN keeps the bytes in flight, RST loses them.
ClientGone(c) ==
  /\ pc[c] # "idle" /\ c \notin eof
  /\ eof' = eof \cup {c}
  /\ rx' \in {rx, [rx EXCEPT ![c] = <<>>]}
  /\ tx' = [tx EXCEPT ![c] = <<>>]
  /\ UNCHANGED <<sessVars, joinVars, pc, hsess, other, done, taskVars, closed, sent>>

-----------------------------------------------------------------------------
HandleClient(c) ==
  \/ CloseSilently(c) \/ RejectJoin(c) \/ JoinRelayFull(c) \/ JoinNew(c)
  \/ \E s \in Conns :
       \/ JoinReplaceWaiting(c, s) \/ JoinPair(c, s) \/ JoinSwapPaired(c, s)
       \/ JoinSurvivor(c, s) \/ JoinHalfBroken(c, s)
  \/ JoinCodeInUse(c) \/ FinishPair(c) \/ PairFails(c) \/ FinishRejoin(c)
  \/ DisconnectReplaced(c) \/ DisconnectWaiting(c) \/ DisconnectPaired(c)
  \/ FinishSurvivor(c) \/ DisconnectHalfBroken(c)

Watch(c) == WatcherDiscards(c) \/ WatcherEof(c)
Forward(c) == ForwardFrame(c) \/ ForwardWriteFails(c) \/ ForwardEnds(c)
Timer(s) == TimerFires(s) \/ TimerPops(s)

Client(c) ==
  \/ \E k \in Codes \cup {None}, p \in PeerIds : Connect(c, k, p)
  \/ \E m \in Payload : ClientSends(c, m)
  \/ ClientGone(c)

Next == \E c \in Conns :
  HandleClient(c) \/ Watch(c) \/ Forward(c) \/ Timer(c) \/ Client(c)

Spec == Init /\ [][Next]_vars

\* The event loop runs every ready task, and sleeps and read timeouts end; the
\* clients are free to do nothing.
FairSpec == Spec /\ \A c \in Conns :
  /\ WF_vars(HandleClient(c)) /\ WF_vars(Timer(c))
  /\ WF_vars(Watch(c)) /\ WF_vars(Forward(c))
=============================================================================
