----------------------------- MODULE PipeProps -----------------------------
(* What two bridges and the relay owe each other when connections break. *)
EXTENDS PipeClient

\* A bridge that has handled everything sent to it, and whose partner has its frames.
Up(u) ==
  /\ cl[u].st = "ESTABLISHED" /\ cl[u].open /\ cl[u].buf = <<>>
  /\ cl[u].sock \notin eof \cup closed /\ tx[cl[u].sock] = <<>> /\ rx[cl[u].sock] = <<>>

\* Both are up, and the relay routes each to the other.
Settled == \A u \in Users : Up(u) /\ Hears(u)

ConnectedAgain(u) == \E c, d \in Conns : c # d /\ pid[c] = u /\ pid[d] = u

\* Once two bridges are routed to each other again, the partner of one that lost its
\* connection has sent its whole state since (on_partner_reconnected, engine.resync):
\* what was lost with the connection is made up for.  A partner that has reconnected
\* itself may have taken a place in a new session, for which the relay announces nobody.
PartnerResyncs == Settled => \A u \in due : ConnectedAgain(Partner(u))

\* The instance has no connection left for a bridge that retries.
OutOfSockets ==
  /\ \A c \in Conns : pc[c] # "idle"
  /\ \E u \in Users : cl[u].st \in {"INIT", "RECONNECTING"}

\* The bridges wait in two sessions of their code, whose TTL would send both away
\* to try again, and the instance has no timer left.
OutOfTimers ==
  /\ left.timers = 0
  /\ \A u \in Users : /\ cl[u].st = "JOIN_SENT" /\ cl[u].open /\ hsess[cl[u].sock] # None
                      /\ timer[hsess[cl[u].sock]] = "sleep"

\* The relay has closed the connection before it answered the join: recv returns b"",
\* which tick ignores in JOIN_SENT, and no heartbeat runs (pipe_client.py:111).
StuckJoin ==
  \E u \in Users : cl[u].st = "JOIN_SENT" /\ cl[u].sock \in closed /\ tx[cl[u].sock] = <<>>

\* A join that took the place of a waiting socket while _ttl_expire was suspended in
\* wait_closed: the timer pops the session it joined, so no partner will find it and
\* no timer will send it away (server.py:295-305).
Orphaned ==
  \E u \in Users : /\ cl[u].st = "JOIN_SENT" /\ cl[u].open /\ pc[cl[u].sock] = "waiting"
                  /\ state[hsess[cl[u].sock]] = "WAITING" /\ timer[hsess[cl[u].sock]] = "over"

\* Whatever breaks, in the end both bridges are established over connections the relay
\* routes to each other, and stay so: tick's EOF, heartbeat_tick and the reconnect leave
\* no state in which a bridge waits for a frame nobody will send, StuckJoin and Orphaned
\* apart.
PairComesUp == <>[](Settled \/ OutOfSockets \/ OutOfTimers \/ StuckJoin \/ Orphaned)
=============================================================================
