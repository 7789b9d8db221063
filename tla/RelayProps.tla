----------------------------- MODULE RelayProps -----------------------------
(* What the relay guarantees, and what its documents say it guarantees. *)
EXTENDS Relay

Singleton(S) == \E p \in PeerIds : S = {p}
Pair(S) == \E p, q \in PeerIds : p # q /\ S = {p, q}

\* The state of a session agrees with the number of its peers, for registered
\* sessions and for the ones handlers still hold after their code was popped.
\* handle_client relies on it: next(p for pid, p in ... if pid != peer_id) raises
\* StopIteration when a PAIRED or HALF_BROKEN session has no other peer, and the
\* timers abort every peer they find.
SessionShape ==
  /\ \A s \in Conns :
       /\ state[s] = "PAIRED" => Pair(Members(s))
       /\ state[s] = "HALF_BROKEN" => Singleton(Members(s))
       /\ state[s] = "WAITING" => Singleton(Members(s)) \/ Members(s) = {}
  /\ \A k \in Codes :
       sessions[k] # None => /\ code[sessions[k]] = k
                             /\ state[sessions[k]] # "NEW"
                             /\ Members(sessions[k]) # {}

\* A registered session either holds two paired peers or has a running timer that
\* will free its slot; a timer never runs, and so never aborts anyone, in a
\* PAIRED session.
TimerArmed ==
  /\ \A k \in Codes : sessions[k] # None =>
       \/ state[sessions[k]] = "PAIRED"
       \/ timer[sessions[k]] \in {"sleep", "closing"}
  /\ \A s \in Conns : state[s] = "PAIRED" => timer[s] = "over"

\* A forwarder only ever writes to a socket that joined with the same code under
\* another peer_id: no bytes cross sessions or come back to their sender,
\* whatever sockets were swapped while _forward held on to its dst.
NoCrossTalk == \A c \in Conns :
  /\ fwd[c] = "run" => /\ code[dst[c]] = code[c]
                            /\ pid[dst[c]] # pid[c]
  /\ \A i \in DOMAIN tx[c] :
       LET f == tx[c][i].from
       IN f # None => code[f] = code[c] /\ pid[f] # pid[c]

\* _sessions stays within MAX_PAIRS.
WithinCapacity == Cardinality(Registered) <= MaxPairs

\* A PAIRED session always has a peer whose handler is alive, and is not about to
\* raise in _send_joined: only a handler can take the session out of PAIRED, which
\* has no timer.
PairHasHandler == \A s \in Conns : state[s] = "PAIRED" =>
  \E c \in MemberConns(s) :
    /\ hsess[c] = s
    /\ pc[c] \in {"notify", "waiting"} \/ (pc[c] = "pairing" /\ other[c] # None)

-----------------------------------------------------------------------------
Slot == [k \in Codes |->
           IF sessions[k] = None THEN [state |-> "FREE", peers |-> {}]
           ELSE [state |-> state[sessions[k]], peers |-> Members(sessions[k])]]

Abs == INSTANCE RelaySession WITH slot <- Slot

\* The session table implements one slot per code: peers come and go one at a
\* time, a code is completed only by a second peer_id, and a socket swap, a
\* late handler or a timer never changes who is paired.
ImplementsSlots == Abs!SlotSpec

\* As long as no forwarder dies on a failed write, every slot of the table is
\* freed once its clients are silent.
SlotFreed ==
  [](\A c \in Conns : fwd[c] # "wfail")
    => \A k \in Codes : []<>(sessions[k] = None)

-----------------------------------------------------------------------------
(* Claims of the documents that the code does not keep. *)

Healthy(c) == pc[c] = "waiting" /\ c \notin done \cup closed \cup eof

\* Transport design, section 7: when both peers rejoin, "both peers paired with
\* each other on fresh sockets": two healthy members of a PAIRED session forward
\* to each other.
RoutedToPartner == \A s \in Conns : state[s] = "PAIRED" =>
  \A c, d \in MemberConns(s) :
    c # d /\ Healthy(c) /\ Healthy(d) => fwd[c] = "run" /\ dst[c] = d

\* _forward's docstring: if the write side fails, "the OTHER _forward task will
\* detect dst's read EOF and set dst.done".
WriteFailureNoticed == \A c \in Conns :
  fwd[c] = "wfail" ~> dst[c] \in done

\* handle_client: a different peer_id in HALF_BROKEN is "the broken peer
\* returning", so the peer it is paired with is the survivor, not a dead one.
NoGhostPartner == \A s \in Conns : state[s] = "PAIRED" =>
  \A c \in MemberConns(s) : pc[c] # "ended"

\* Transport design, section 2: "Only one active pair per code": a code whose two
\* peers are healthy is not free for others.
PairKeepsCode == \A s \in Conns :
  state[s] = "PAIRED" /\ (\A c \in MemberConns(s) : Healthy(c))
    => sessions[code[s]] = s
=============================================================================
