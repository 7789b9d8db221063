-------------------------------- MODULE Sync --------------------------------
(***************************************************************************)
(* Two bridges keep the RAM of two games in step: SyncEngine               *)
(* (bridge_core/sync_engine.py), driven by SyncSession.tick_once and the   *)
(* callbacks of the pipe (sync_session.py; session_worker.py runs the same *)
(* loop), with the EDN8's MapWriteGate.                                    *)
(*                                                                         *)
(* A bridge is one thread, but its game runs on: every endpoint read or    *)
(* write is a point where RAM may change.  The connection delivers frames  *)
(* in order until it is cut.                                               *)
(***************************************************************************)
EXTENDS RecordChanged, FiniteSets

CONSTANTS
  Players,      \* the two bridges
  Writers,      \* the ones whose game changes by itself
  Forced,       \* the ones started with the force_send option
  Glitchy,      \* the ones whose game may show an implausible value
  Edn8,         \* the ones with the map write gate and the overload options
  MapAddrs,     \* the OrAddrs the gate defers
  ResyncLimit,  \* resync_send_limit of the overload options
  PauseTicks,   \* running_pause_threshold
  Faults,       \* whether endpoint reads and writes may fail
  MaxMoves,     \* bound: changes made by a game
  MaxCuts,      \* bound: lost connections
  MaxFrames,    \* bound: frames under way to a bridge when a game stops running
  None

ASSUME SyncAssumption ==
  /\ IsFiniteSet(Players) /\ Cardinality(Players) = 2
  /\ Writers \cup Forced \cup Glitchy \cup Edn8 \subseteq Players
  /\ MapAddrs \subseteq OrAddrs
  /\ {ResyncLimit, PauseTicks} \subseteq Nat \ {0}
  /\ {MaxMoves, MaxCuts, MaxFrames} \subseteq Nat
  /\ Faults \in BOOLEAN
  /\ None \notin Addrs /\ \A a \in Addrs : \A v \in Value(a) : v # None

VARIABLES
  ram, running, moves,        \* the games
  cache, didCache, forceSend, \* SyncEngine
  pauses,       \* _not_running_ticks
  sleepQueue, resyncQueue, gate,
  pc, job, snap,              \* where tick_once is, its pending write, its snapshot
  chan,         \* frames on their way to a bridge
  down, cuts    \* the bridges without an ESTABLISHED connection

games == <<ram, running, moves>>
engine == <<cache, didCache, forceSend, pauses, sleepQueue, resyncQueue, gate>>
thread == <<pc, job, snap>>
network == <<chan, down, cuts>>
vars == <<games, engine, thread, network>>

Partner(i) == CHOOSE j \in Players : j # i
Data(a, v) == [addr |-> a, value |-> v]
PartnerReconnected == Data(None, None)

\* What a frame may carry: a value, or the difference of two.
Payload(a) == IF a \in DeltaAddrs THEN -MaxCount .. MaxCount ELSE Value(a)
Frames == UNION {{Data(a, v) : v \in Payload(a)} : a \in Addrs}

TypeOK ==
  /\ \A i \in Players, a \in Addrs :
       /\ ram[i][a] \in Value(a) /\ snap[i][a] \in Value(a)
       /\ cache[i][a] \in Value(a) \cup {None}
  /\ running \in [Players -> BOOLEAN] /\ didCache \in [Players -> BOOLEAN]
  /\ forceSend \in [Players -> BOOLEAN]
  /\ moves \in [Players -> 0 .. MaxMoves] /\ pauses \in [Players -> 0 .. PauseTicks]
  /\ sleepQueue \in [Players -> Seq(Frames)] /\ resyncQueue \in [Players -> Seq(Frames)]
  /\ gate \in [Players -> Seq(Frames)]
  /\ pc \in [Players -> {"idle", "gated", "drain", "write", "writeGated", "writeDrain"}]
  /\ job \in [Players -> Frames \cup {None}]
  /\ chan \in [Players -> Seq(Frames \cup {PartnerReconnected})]
  /\ down \subseteq Players /\ cuts \in 0 .. MaxCuts

\* The games of the Forced bridges may be in any state; the others start a new
\* game.  Counters are never sent as a whole: they start equal.
Init ==
  /\ ram \in [Players -> {f \in [Addrs -> UNION {Value(a) : a \in Addrs}] :
       \A a \in Addrs : f[a] \in Value(a) /\ (a \in HighAddrs => f[a] <= MaxHigh)}]
  /\ \A a \in DeltaAddrs \cap Addrs, i, j \in Players : ram[i][a] = ram[j][a]
  /\ \A a \in HeartAddrs \cap Addrs, i \in Players : ram[i][a].filled <= ram[i][a].containers
  /\ \A i \in Players \ Forced, a \in Addrs : ram[i][a] = Zero(a)
  /\ running = [i \in Players |-> TRUE] /\ moves = [i \in Players |-> 0]
  /\ cache = [i \in Players |-> [a \in Addrs |-> None]]
  /\ didCache = [i \in Players |-> FALSE] /\ forceSend = [i \in Players |-> i \in Forced]
  /\ pauses = [i \in Players |-> 0]
  /\ sleepQueue = [i \in Players |-> <<>>] /\ resyncQueue = [i \in Players |-> <<>>]
  /\ gate = [i \in Players |-> <<>>]
  /\ pc = [i \in Players |-> "idle"] /\ job = [i \in Players |-> None]
  /\ snap = [i \in Players |-> [a \in Addrs |-> Zero(a)]]
  /\ chan = [i \in Players |-> <<>>] /\ down = {} /\ cuts = 0

Goto(i, label) == pc' = [pc EXCEPT ![i] = label]

\* send_data: frames for a partner that is cut off are lost.
Sent(i, frames) ==
  IF Partner(i) \in down THEN chan ELSE [chan EXCEPT ![Partner(i)] = @ \o frames]

-----------------------------------------------------------------------------
(* handle_table_result *)

\* Mutant: a pending write keeps its old value.
EnqueueFirst(q, t) == IF \E n \in DOMAIN q : q[n].addr = t.addr THEN q ELSE Append(q, t)
\* MapWriteGate.enqueue: one pending value per address, in order of arrival.
Enqueue(q, t) ==
  IF \E n \in DOMAIN q : q[n].addr = t.addr
  THEN [n \in DOMAIN q |-> IF q[n].addr = t.addr THEN t ELSE q[n]]
  ELSE Append(q, t)

Gates(i, a) == i \in Edn8 /\ a \in MapAddrs

\* Up to read_byte: t is ignored, or its write is the job of the bridge.
Examine(i, t, write, skip) ==
  LET r == Changed(t.addr, t.value, ram[i][t.addr], TRUE)
      applies == r.allow /\ ~Implausible(t.addr, t.value)
  IN /\ Goto(i, IF applies THEN write ELSE skip)
     /\ job' = [job EXCEPT ![i] = IF applies THEN Data(t.addr, r.value) ELSE None]

\* on_data, with the game running; an implausible value is ignored anyway.
ReceiveApply(i) ==
  /\ pc[i] = "idle" /\ i \notin down /\ chan[i] # <<>>
  /\ Head(chan[i]) # PartnerReconnected
  /\ ~Gates(i, Head(chan[i]).addr)
  /\ running[i] \/ Implausible(Head(chan[i]).addr, Head(chan[i]).value)
  /\ Examine(i, Head(chan[i]), "write", "idle")
  /\ chan' = [chan EXCEPT ![i] = Tail(@)]
  /\ UNCHANGED <<games, engine, snap, down, cuts>>

\* on_data, with the game not running or its running byte unreadable.
ReceiveQueued(i) ==
  /\ pc[i] = "idle" /\ i \notin down /\ chan[i] # <<>>
  /\ Head(chan[i]) # PartnerReconnected
  /\ ~Gates(i, Head(chan[i]).addr) /\ (Faults \/ ~running[i])
  /\ ~Implausible(Head(chan[i]).addr, Head(chan[i]).value)
  /\ sleepQueue' = [sleepQueue EXCEPT ![i] = Append(@, Head(chan[i]))]
  /\ chan' = [chan EXCEPT ![i] = Tail(@)]
  /\ UNCHANGED <<games, cache, didCache, forceSend, pauses, resyncQueue, gate, thread,
                 down, cuts>>

\* on_data of a map address on an EDN8.
ReceiveGated(i) ==
  /\ pc[i] = "idle" /\ i \notin down /\ chan[i] # <<>>
  /\ Head(chan[i]) # PartnerReconnected
  /\ Gates(i, Head(chan[i]).addr)
  /\ gate' = [gate EXCEPT ![i] = Enqueue(@, Head(chan[i]))]
  /\ chan' = [chan EXCEPT ![i] = Tail(@)]
  /\ UNCHANGED <<games, cache, didCache, forceSend, pauses, sleepQueue, resyncQueue, thread,
                 down, cuts>>

\* on_partner_reconnected: SyncEngine.resync.  With the partner's hello the
\* connection is ESTABLISHED again.
ReceiveReconnected(i) ==
  /\ pc[i] = "idle" /\ i \notin down /\ chan[i] # <<>>
  /\ Head(chan[i]) = PartnerReconnected
  /\ cache' = [cache EXCEPT ![i] = [a \in Addrs |-> None]]
  /\ resyncQueue' = [resyncQueue EXCEPT ![i] = <<>>]
  /\ didCache' = [didCache EXCEPT ![i] = FALSE]
  /\ forceSend' = [forceSend EXCEPT ![i] = TRUE]
  /\ pauses' = [pauses EXCEPT ![i] = 0]
  /\ chan' = [chan EXCEPT ![i] = Tail(@)]
  /\ down' = down \ {Partner(i)}
  /\ UNCHANGED <<games, sleepQueue, gate, thread, cuts>>

After == [write |-> "idle", writeGated |-> "gated", writeDrain |-> "drain"]

\* write_pairs, and the cache that keeps diff from sending the value back.
Write(i) ==
  /\ pc[i] \in DOMAIN After
  /\ ram' = [ram EXCEPT ![i][job[i].addr] = job[i].value]
  /\ cache' = [cache EXCEPT ![i][job[i].addr] = job[i].value]
  /\ job' = [job EXCEPT ![i] = None]
  /\ Goto(i, After[pc[i]])
  /\ UNCHANGED <<running, moves, didCache, forceSend, pauses, sleepQueue, resyncQueue, gate,
                 snap, network>>

\* A write that is reported as failed may have been made all the same: the helper's
\* acknowledgement timed out or its answer got lost.
MaybeWritten(i) == ram' \in {ram, [ram EXCEPT ![i][job[i].addr] = job[i].value]}

\* Mutant: the cache is set although the write failed.
WriteFailsCached(i) ==
  /\ Faults /\ pc[i] \in DOMAIN After
  /\ MaybeWritten(i)
  /\ cache' = [cache EXCEPT ![i][job[i].addr] = job[i].value]
  /\ job' = [job EXCEPT ![i] = None]
  /\ Goto(i, After[pc[i]])
  /\ UNCHANGED <<running, moves, didCache, forceSend, pauses, sleepQueue, resyncQueue, gate,
                 snap, network>>
\* write_error, or read_error before it: the update is dropped, and the cache left alone.
WriteFails(i) ==
  /\ Faults /\ pc[i] \in DOMAIN After
  /\ MaybeWritten(i)
  /\ job' = [job EXCEPT ![i] = None]
  /\ Goto(i, After[pc[i]])
  /\ UNCHANGED <<running, moves, engine, snap, network>>

-----------------------------------------------------------------------------
(* tick_once *)

NotRunning(i) ==
  /\ pauses' = [pauses EXCEPT ![i] = IF @ < PauseTicks THEN @ + 1 ELSE @]
  /\ didCache' = [didCache EXCEPT ![i] = @ /\ pauses[i] + 1 < PauseTicks]

\* Nothing pending throttles the full poll; implausible_snapshot_reason is None.
FullPoll(i) == gate[i] = <<>> /\ resyncQueue[i] = <<>>
Plausible(i) == \A a \in Addrs : ~Implausible(a, ram[i][a])

\* The running probe, or the snapshot, finds the game not running.
PollPaused(i) ==
  /\ i \notin down /\ ~running[i]
  /\ pc[i] = "idle" \/ (pc[i] = "gated" /\ FullPoll(i) /\ Plausible(i))
  /\ NotRunning(i)
  /\ Goto(i, "idle")
  /\ UNCHANGED <<games, cache, forceSend, sleepQueue, resyncQueue, gate, job, snap, network>>

\* drain_map_write_gate, when its interval is over.
DrainGate(i) ==
  /\ pc[i] = "idle" /\ i \notin down /\ running[i] /\ gate[i] # <<>>
  /\ gate' = [gate EXCEPT ![i] = Tail(@)]
  /\ Examine(i, Head(gate[i]), "writeGated", "gated")
  /\ UNCHANGED <<games, cache, didCache, forceSend, pauses, sleepQueue, resyncQueue, snap,
                 network>>

\* The probe found the game running; the gate was drained, or its interval is not over,
\* or the gate's own probe no longer found the game running.
Probed(i) == i \notin down /\ (pc[i] = "gated" \/ (pc[i] = "idle" /\ running[i]))

\* Mutant: a limit of zero is taken literally.
ChunkNone(q) == <<>>
\* drain_resync_send_queue: what is sent of q, and what is left.
Chunk(q) == SubSeq(q, 1, IF Len(q) < ResyncLimit THEN Len(q) ELSE ResyncLimit)
Rest(q) == SubSeq(q, Len(Chunk(q)) + 1, Len(q))

\* _send_resync_chunk instead of a full poll.
SendChunk(i) ==
  /\ Probed(i) /\ ~FullPoll(i)
  /\ chan' = Sent(i, Chunk(resyncQueue[i]))
  /\ resyncQueue' = [resyncQueue EXCEPT ![i] = Rest(@)]
  /\ forceSend' = [forceSend EXCEPT ![i] = @ /\ Rest(resyncQueue[i]) # <<>>]
  /\ Goto(i, "idle")
  /\ UNCHANGED <<games, cache, didCache, pauses, sleepQueue, gate, job, snap, down, cuts>>

\* The addresses of P in the order of SYNC, in which both loops visit them.
InOrder(P) ==
  LET N == {n \in DOMAIN Order : Order[n] \in P}
      at == CHOOSE f \in [1 .. Cardinality(N) -> N] :
              \A m, n \in DOMAIN f : m < n => f[m] < f[n]
  IN [n \in DOMAIN at |-> Order[at[n]]]

\* What check_first_running broadcasts.
Startup(i) ==
  LET addrs == InOrder({a \in Addrs : forceSend[i] /\ ram[i][a] # Zero(a) /\ a \notin DeltaAddrs})
  IN [n \in DOMAIN addrs |-> Data(addrs[n], ram[i][addrs[n]])]

\* Mutant: the first running tick replaces the whole cache.
FirstCacheAll(c, r) == r
\* check_first_running fills in what the cache c lacks.
FirstCache(c, r) == [a \in Addrs |-> IF c[a] = None THEN r[a] ELSE c[a]]

\* The full poll; on the first one, check_first_running.
Snapshot(i) ==
  /\ Probed(i) /\ FullPoll(i) /\ running[i] /\ Plausible(i)
  /\ snap' = [snap EXCEPT ![i] = ram[i]]
  /\ pauses' = [pauses EXCEPT ![i] = 0]
  /\ \/ didCache[i] /\ UNCHANGED <<cache, didCache, forceSend, resyncQueue, chan>>
     \/ /\ ~didCache[i]
        /\ cache' = [cache EXCEPT ![i] = FirstCache(@, ram[i])]
        /\ didCache' = [didCache EXCEPT ![i] = TRUE]
        /\ LET q == Startup(i)
               now == IF i \in Edn8 THEN Chunk(q) ELSE q
               later == IF i \in Edn8 THEN Rest(q) ELSE <<>>
           IN /\ chan' = Sent(i, now)
              /\ resyncQueue' = [resyncQueue EXCEPT ![i] = later]
              /\ forceSend' = [forceSend EXCEPT ![i] = later # <<>>]
  /\ Goto(i, "drain")
  /\ UNCHANGED <<games, sleepQueue, gate, job, down, cuts>>

\* The snapshot cannot be read, or shows an implausible value.
SnapshotIgnored(i) ==
  /\ pc[i] = "gated" /\ FullPoll(i) /\ (Faults \/ ~Plausible(i))
  /\ Goto(i, "idle")
  /\ UNCHANGED <<games, engine, job, snap, network>>

\* drain_sleep_queue, one item after the other.
DrainSleep(i) ==
  /\ pc[i] = "drain" /\ sleepQueue[i] # <<>>
  /\ sleepQueue' = [sleepQueue EXCEPT ![i] = Tail(@)]
  /\ Examine(i, Head(sleepQueue[i]), "writeDrain", "drain")
  /\ UNCHANGED <<games, cache, didCache, forceSend, pauses, resyncQueue, gate, snap, network>>

\* diff, against the snapshot taken before the sleep queue was drained.
Diff(i) ==
  LET change(a) == Changed(a, snap[i][a], cache[i][a], FALSE)
      allowed(a) == snap[i][a] # cache[i][a] /\ change(a).allow
      addrs == InOrder({a \in Addrs : allowed(a)})
  IN /\ pc[i] = "drain" /\ sleepQueue[i] = <<>>
     /\ chan' = Sent(i, [n \in DOMAIN addrs |-> Data(addrs[n], change(addrs[n]).value)])
     /\ cache' = [cache EXCEPT ![i] = [a \in Addrs |->
          IF allowed(a) \/ SuppressedDelta(a, snap[i][a], @[a]) THEN snap[i][a] ELSE @[a]]]
     /\ Goto(i, "idle")
     /\ UNCHANGED <<games, didCache, forceSend, pauses, sleepQueue, resyncQueue, gate, job,
                    snap, down, cuts>>

-----------------------------------------------------------------------------
(* The games and the connection *)

\* What a running game may make of a value: bits are set, items upgraded,
\* counters counted, containers gained, hearts lost and filled.
GameValues(a, v) ==
  CASE a \in OrAddrs -> {v \cup {b} : b \in Bits}
    [] a \in HighAddrs -> {n \in 0 .. MaxHigh : n > v}
    [] a \in HeartAddrs -> {w \in Value(a) : w.filled <= w.containers
                              /\ w.containers \in {v.containers, v.containers + 1}}
    [] OTHER -> {v - 1, v + 1} \cap Value(a)

GamePlays(i, a) ==
  /\ i \in Writers /\ running[i] /\ moves[i] < MaxMoves
  /\ \E v \in GameValues(a, ram[i][a]) \ {ram[i][a]} : ram' = [ram EXCEPT ![i][a] = v]
  /\ moves' = [moves EXCEPT ![i] = @ + 1]
  /\ UNCHANGED <<running, engine, thread, network>>

\* An uninitialised or garbled byte that looks like an item.
GameGlitches(i, a) ==
  /\ i \in Glitchy /\ a \in HighAddrs /\ moves[i] < MaxMoves
  /\ ram' = [ram EXCEPT ![i][a] = MaxHigh + 1]
  /\ moves' = [moves EXCEPT ![i] = @ + 1]
  /\ UNCHANGED <<running, engine, thread, network>>

\* The game leaves its running modes, or is back.
GamePauses(i) ==
  /\ running[i] => \A j \in Players : Len(chan[j]) + Len(sleepQueue[j]) < MaxFrames
  /\ running' = [running EXCEPT ![i] = ~@]
  /\ UNCHANGED <<ram, moves, engine, thread, network>>

\* The connection of i breaks: what was on its way to i is lost, and so may be
\* the last frames i sent.
Cut(i) ==
  /\ pc[i] = "idle" /\ down = {} /\ cuts < MaxCuts
  /\ down' = {i} /\ cuts' = cuts + 1
  /\ \E n \in 0 .. Len(chan[Partner(i)]) :
       chan' = [j \in Players |-> IF j = i THEN <<>> ELSE SubSeq(chan[j], 1, n)]
  /\ UNCHANGED <<games, engine, thread>>

\* i joins again: reset_for_reconnect leaves its engine alone.  The relay tells the
\* partner.
Rejoin(i) ==
  /\ i \in down
  /\ \A n \in DOMAIN chan[Partner(i)] : chan[Partner(i)][n] # PartnerReconnected
  /\ chan' = [chan EXCEPT ![Partner(i)] = Append(@, PartnerReconnected)]
  /\ UNCHANGED <<games, engine, thread, down, cuts>>

-----------------------------------------------------------------------------
Receive(i) ==
  ReceiveApply(i) \/ ReceiveQueued(i) \/ ReceiveGated(i) \/ ReceiveReconnected(i)

Poll(i) ==
  \/ PollPaused(i) \/ DrainGate(i) \/ SendChunk(i) \/ Snapshot(i)
  \/ SnapshotIgnored(i) \/ DrainSleep(i) \/ Diff(i)

Game(i) == GamePauses(i) \/ \E a \in Addrs : GamePlays(i, a) \/ GameGlitches(i, a)

Next == \E i \in Players :
  Receive(i) \/ Write(i) \/ WriteFails(i) \/ Poll(i) \/ Game(i) \/ Cut(i) \/ Rejoin(i)

Spec == Init /\ [][Next]_vars

\* tick_once pumps the pipe and polls in every round, and an interval of the gate
\* ends whatever else the bridge does.
FairSpec == Spec /\ \A i \in Players :
  /\ SF_vars(Receive(i)) /\ SF_vars(Poll(i)) /\ SF_vars(DrainGate(i))
  /\ WF_vars(Write(i)) /\ WF_vars(DrainSleep(i) \/ Diff(i))
=============================================================================
