---------------------------- MODULE PipeClient ----------------------------
(***************************************************************************)
(* Two bridges and the relay between them: pipe_client.py driven by the    *)
(* loop of session_worker._run or cmd_run (the pipe's reconnect enabled),  *)
(* in the place of Relay's free clients.  A bridge is named by its         *)
(* peer_id; both typed the same code.  Pings are left out: they are what   *)
(* keeps a routed pair from timing out (Hears).  The backoff delays a      *)
(* reconnect, which here may come at any time.                             *)
(***************************************************************************)
EXTENDS Relay

CONSTANTS
  MaxBreaks,  \* bound: connections the network breaks
  MaxTimers   \* bound: TTL and grace timers that fire

\* A bridge sends its hello and its app's messages; two bridges share a code.
ASSUME PipeAssumption ==
  /\ {"hello", "data"} \subseteq Payload
  /\ Codes # {}
  /\ \E u, v \in PeerIds : u # v /\ PeerIds = {u, v}
  /\ MaxBreaks \in Nat /\ MaxTimers \in Nat

VARIABLES
  cl,      \* each bridge's PipeClient, and _run's app_hello_sent
  met,     \* bridges that have been ESTABLISHED
  due,     \* of those, the ones that reconnected and whose partner has not resynced since
  left     \* what is left of each bound

pipeVars == <<vars, cl, met, due, left>>

Users == PeerIds
TheCode == CHOOSE k \in Codes : TRUE
Partner(u) == CHOOSE v \in Users : v # u

PipeTypeOK ==
  /\ \A u \in Users :
       /\ cl[u].st \in {"INIT", "JOIN_SENT", "JOINED", "HELLO_SENT", "ESTABLISHED", "RECONNECTING"}
       /\ cl[u].sock \in Conn /\ cl[u].buf \in Seq(Frame)
       /\ {cl[u].open, cl[u].joined, cl[u].sent, cl[u].rcvd, cl[u].app} \subseteq BOOLEAN
       /\ cl[u].st = "ESTABLISHED" => cl[u].sent /\ cl[u].rcvd
       /\ cl[u].sock # None => pid[cl[u].sock] = u
  /\ due \subseteq met /\ met \subseteq Users

Fresh == [st |-> "INIT", sock |-> None, open |-> FALSE, joined |-> FALSE, sent |-> FALSE,
          rcvd |-> FALSE, buf |-> <<>>, app |-> FALSE]

PipeInit ==
  /\ Init
  /\ cl = [u \in Users |-> Fresh]
  /\ met = {} /\ due = {}
  /\ left = [breaks |-> MaxBreaks, timers |-> MaxTimers]

-----------------------------------------------------------------------------
Idle(u) == cl[u].buf = <<>>   \* tick has handled what it received
relayVars == <<sessVars, pc, hsess, other, done, taskVars, closed>>
Set(u, c) == cl' = [cl EXCEPT ![u] = c]

\* The connection of socket c is gone for the relay: FIN or RST.
Hangup(c) ==
  /\ eof' = eof \cup {c}
  /\ rx' \in {rx, [rx EXCEPT ![c] = <<>>]}
  /\ tx' = [tx EXCEPT ![c] = <<>>]

Failed(c) == [c EXCEPT !.st = "RECONNECTING", !.open = FALSE, !.app = FALSE]

\* _fail, which does nothing a second time.
Fails(u, c) ==
  IF c.st = "RECONNECTING" THEN Set(u, c) /\ UNCHANGED <<eof, rx, tx>>
  ELSE Set(u, Failed(c)) /\ Hangup(c.sock)

\* _send_frame: into a socket the other side has closed, a send is lost or fails.
Sends(u, c, m) ==
  LET dead == ~c.open \/ c.sock \in closed \cup eof
  IN  \/ ~dead /\ Set(u, c) /\ rx' = [rx EXCEPT ![c.sock] = Append(@, m)] /\ UNCHANGED <<eof, tx>>
      \/ dead /\ c.open /\ Set(u, c) /\ UNCHANGED <<eof, rx, tx>>
      \/ dead /\ Fails(u, c)

\* A fresh socket, reset_for_reconnect and send_join.
Joining(c) == [Fresh EXCEPT !.st = "JOIN_SENT", !.sock = c, !.open = TRUE]

OpenConnection(u) ==
  LET c == CHOOSE x \in Conns : pc[x] = "idle"
  IN  /\ Idle(u)
      /\ cl[u].st \in {"INIT", "RECONNECTING"}
      /\ \E x \in Conns : pc[x] = "idle"
      /\ Set(u, Joining(c))
      /\ due' = due \cup ({u} \cap met)
      /\ Connect(c, TheCode, u)
      /\ UNCHANGED <<met, left>>

\* A handler suspended in drain() goes on as soon as the socket's buffer runs low,
\* before its last frame is out.
Drained(c) == \A h \in Conns : ~(pc[h] = "notify" /\ other[h] = c)

\* tick: recv returns what has arrived.
Receive(u) ==
  LET c == cl[u].sock
  IN  /\ Idle(u) /\ Drained(c) /\ cl[u].open /\ c \notin eof /\ tx[c] # <<>>
      /\ Set(u, [cl[u] EXCEPT !.buf = tx[c]])
      /\ tx' = [tx EXCEPT ![c] = <<>>]
      /\ UNCHANGED <<relayVars, joinVars, eof, sent, rx, met, due, left>>

\* recv returns b"": ignored unless the relay has answered the join.
ReceiveEof(u) ==
  /\ Idle(u) /\ cl[u].open /\ cl[u].sock \in closed \ eof /\ tx[cl[u].sock] = <<>>
  /\ cl[u].st \in {"ESTABLISHED", "HELLO_SENT", "JOINED"}
  /\ Fails(u, cl[u])
  /\ UNCHANGED <<relayVars, joinVars, sent, met, due, left>>

\* recv raises: the network broke, or the socket was closed by an earlier _fail
\* and a frame after it changed the state again.
ReceiveError(u) ==
  /\ Idle(u) /\ cl[u].st \notin {"INIT", "RECONNECTING"}
  /\ ~cl[u].open \/ cl[u].sock \in eof
  /\ Fails(u, cl[u])
  /\ UNCHANGED <<relayVars, joinVars, sent, met, due, left>>

\* heartbeat_tick: nothing has come for 15 seconds, the partner's pings included.
\* By then every frame in flight has arrived and the relay has done what it could;
\* a partner in its backoff need not be back.
Hears(u) ==
  LET v == cl[Partner(u)]
  IN  /\ v.st \in {"HELLO_SENT", "ESTABLISHED"} /\ v.open /\ v.sock \notin eof \cup closed
      /\ fwd[v.sock] = "run" /\ dst[v.sock] = cl[u].sock

Delivered == \A u \in Users : cl[u].buf = <<>> /\ (cl[u].open => tx[cl[u].sock] = <<>>)

Quiet ==
  /\ Delivered
  /\ \A c \in Conns :
       /\ pc[c] \notin {"accepted", "pairing", "notify", "survivor"} /\ ~Wakes(c)
       /\ Reading(c) => rx[c] = <<>> /\ ~AtEof(c)

HeartbeatTimeout(u) ==
  /\ Quiet /\ cl[u].st \in {"HELLO_SENT", "ESTABLISHED"} /\ ~Hears(u)
  /\ Fails(u, cl[u])
  /\ UNCHANGED <<relayVars, joinVars, sent, met, due, left>>

-----------------------------------------------------------------------------
(* _handle_frame; the frame is off the buffer in each case *)

Next1(u) == [cl[u] EXCEPT !.buf = Tail(@)]
Frame1(u, kind) == cl[u].buf # <<>> /\ Head(cl[u].buf).kind = kind

\* Mutant: send_hello leaves the state to its caller.
GreetingInPlace(c) == [c EXCEPT !.sent = TRUE]

\* send_hello
Greeting(c) == [c EXCEPT !.sent = TRUE, !.st = "HELLO_SENT"]

HandleJoined(u) ==
  /\ Frame1(u, "joined")
  /\ IF cl[u].joined THEN Set(u, Next1(u)) /\ UNCHANGED <<eof, rx, tx>>
     ELSE IF cl[u].sent
     THEN Set(u, [Next1(u) EXCEPT !.joined = TRUE, !.st = "JOINED"]) /\ UNCHANGED <<eof, rx, tx>>
     ELSE Sends(u, Greeting([Next1(u) EXCEPT !.joined = TRUE]), "hello")
  /\ UNCHANGED <<relayVars, joinVars, sent, met, due, left>>

\* A second hello fails the pipe.
HandleHello(u) ==
  /\ Frame1(u, "hello")
  /\ IF cl[u].rcvd THEN Fails(u, Next1(u))
     ELSE /\ Set(u, [Next1(u) EXCEPT !.rcvd = TRUE,
                                     !.st = IF cl[u].sent THEN "ESTABLISHED" ELSE @])
          /\ UNCHANGED <<eof, rx, tx>>
  /\ met' = IF cl'[u].st = "ESTABLISHED" THEN met \cup {u} ELSE met
  /\ UNCHANGED <<relayVars, joinVars, sent, due, left>>

HandleData(u) ==
  /\ Frame1(u, "data")
  /\ Set(u, Next1(u))
  /\ UNCHANGED <<relayVars, joinVars, eof, sent, rx, tx, met, due, left>>

HandleAbort(u) ==
  /\ Frame1(u, "abort")
  /\ Fails(u, Next1(u))
  /\ UNCHANGED <<relayVars, joinVars, sent, met, due, left>>

\* Mutant: _hello_sent is not reset, so send_hello returns at once.
GreetedBefore(u) ==
  Set(u, [Next1(u) EXCEPT !.rcvd = FALSE, !.st = "JOINED"]) /\ UNCHANGED <<eof, rx, tx>>

\* The handshake starts over.
GreetAgain(u) == Sends(u, Greeting([Next1(u) EXCEPT !.rcvd = FALSE]), "hello")

\* Mutant: the callback waits for the handshake to have been completed.
ResyncEstablished(u) == IF cl[u].st = "ESTABLISHED" THEN due \ {Partner(u)} ELSE due

\* on_partner_reconnected: the engine sends its whole state again.
Resync(u) == due \ {Partner(u)}

HandlePartnerReconnected(u) ==
  /\ Frame1(u, "partner-reconnected")
  /\ GreetAgain(u)
  /\ due' = Resync(u)
  /\ UNCHANGED <<relayVars, joinVars, sent, met, left>>

\* _run: the app's hello once per connection.
SendAppHello(u) ==
  /\ Idle(u) /\ cl[u].st = "ESTABLISHED" /\ ~cl[u].app
  /\ Sends(u, [cl[u] EXCEPT !.app = TRUE], "data")
  /\ UNCHANGED <<relayVars, joinVars, sent, met, due, left>>

-----------------------------------------------------------------------------
Bridge(u) ==
  \/ OpenConnection(u) \/ Receive(u) \/ ReceiveEof(u) \/ ReceiveError(u) \/ HeartbeatTimeout(u)
  \/ HandleJoined(u) \/ HandleHello(u) \/ HandleData(u) \/ HandleAbort(u)
  \/ HandlePartnerReconnected(u) \/ SendAppHello(u)

Break(u) ==
  /\ left.breaks > 0 /\ left' = [left EXCEPT !.breaks = @ - 1]
  /\ cl[u].open /\ cl[u].sock \notin eof \cup closed
  /\ Hangup(cl[u].sock)
  /\ UNCHANGED <<relayVars, joinVars, sent, cl, met, due>>

\* Bridges ping every 5 seconds: IDLE_SECONDS do not pass before an EOF.
RelayForwards(c) == ForwardFrame(c) \/ ForwardWriteFails(c) \/ (AtEof(c) /\ ForwardEnds(c))

\* The TTL and the grace last minutes, a frame to a bridge does not; a join, a
\* disconnect or an EOF may just be arriving.
TimerExpires(s) ==
  /\ left.timers > 0 /\ left' = [left EXCEPT !.timers = @ - 1]
  /\ Delivered /\ TimerFires(s) /\ UNCHANGED <<cl, met, due>>

RelayStep(c) ==
  (HandleClient(c) \/ Watch(c) \/ RelayForwards(c) \/ TimerPops(c)) /\ UNCHANGED <<cl, met, due, left>>

PipeNext ==
  \/ \E u \in Users : Bridge(u) \/ Break(u)
  \/ \E c \in Conns : RelayStep(c) \/ TimerExpires(c)

PipeSpec == PipeInit /\ [][PipeNext]_pipeVars

\* Bridges, relay and timers go on as long as one of them can.  This is WF_pipeVars of
\* Goes, told from Break, the only other step, by what that leaves: cheaper for TLC.
Goes ==
  \/ \E u \in Users : Bridge(u)
  \/ \E c \in Conns : RelayStep(c) \/ TimerExpires(c)

PipeFairSpec ==
  /\ PipeSpec
  /\ []<>~ENABLED <<Goes>>_pipeVars \/ []<><<left'.breaks = left.breaks>>_pipeVars
=============================================================================
