----------------------------- MODULE SyncProps -----------------------------
(* What two bridges guarantee, and what the documents say they guarantee. *)
EXTENDS Sync

\* Bridge i has nothing left to receive, to apply or to send.
Settled(i) ==
  /\ pc[i] = "idle" /\ i \notin down /\ didCache[i] /\ ~forceSend[i]
  /\ chan[i] = <<>> /\ sleepQueue[i] = <<>> /\ gate[i] = <<>> /\ resyncQueue[i] = <<>>
  /\ \A a \in Addrs : ~Implausible(a, ram[i][a])
  /\ \A a \in Addrs : ~Changed(a, ram[i][a], cache[i][a], FALSE).allow

\* What two values of an address share when they are in step.  Counters are sent as
\* differences and never compared.
Essence(a, v) == CASE a \in OrAddrs -> v \cap MaskOf(a)
                   [] a \in HeartAddrs -> v.containers
                   [] a \in DeltaAddrs -> 0
                   [] OTHER -> v

SameRam == \A a \in Addrs, i, j \in Players : Essence(a, ram[i][a]) = Essence(a, ram[j][a])
Agreed == (\A i \in Players : Settled(i)) => SameRam

\* When both bridges have nothing left to do the games agree: no change that one
\* engine cached as known was kept from the other, whatever was queued, gated,
\* throttled, paused or written in between.
Converged == Agreed

\* An implausible byte of one game never gets into the other's RAM, be it by
\* the startup broadcast, a snapshot or a queue.
GarbageStaysLocal == \A i \in Players \ Glitchy, a \in HighAddrs \cap Addrs :
  ram[i][a] <= MaxHigh

\* The cache of diff never holds a bit the game does not have, whatever reads and
\* writes fail, however the game races a write, across pauses, cuts and resyncs:
\* such a bit would never be sent when the game sets it.
CacheHonest == \A i \in Players, a \in OrAddrs \cap Addrs :
  cache[i][a] # None => cache[i][a] \subseteq ram[i][a]

\* A heart byte never shows more hearts than containers, so that the sum in the
\* low nibble of _heart_kind never carries, whatever container counts cross.
HeartsFit == \A i \in Players, a \in HeartAddrs \cap Addrs :
  ram[i][a].filled <= ram[i][a].containers

\* Once the games run on and their players rest, the games are brought in step.
EventuallySame == <>[](\A i \in Players : running[i]) => <>[]SameRam

-----------------------------------------------------------------------------
(* Claims of the documents that the code does not keep. *)

\* MODDING.md on bitOr: "you should always take the binary OR of values".
OrTaken == Agreed

\* The same, of a single write: it never takes a bit away.
NoBitErased == [][\A i \in Players, a \in OrAddrs \cap Addrs :
  ram[i][a] \subseteq ram'[i][a]]_vars

\* EDN8 bridge design, receive side: `cache[t.addr] = value # prevents self-echo on
\* next poll`.  What the bridge of an idle game finds to send is an echo.
NoSelfEcho == [][\A i \in Players \ Writers :
  pc[i] = "drain" /\ pc'[i] = "idle" => chan'[Partner(i)] = chan[Partner(i)]]_vars

\* EDN8 bridge design, reconnect: "both peers re-do hello -> SyncEngine.resync()
\* (clear cache, force re-poll & re-send full state on next running tick)".
CutRepaired == Agreed

\* Transport design, driver resync: both peers re-dump all addresses and "both
\* states merge idempotently".
StatesMerge == Agreed

\* SyncEngine.resync: "arm force_send so the next running tick re-broadcasts
\* state": it is disarmed only by that tick.
ResyncKept == [][\A i \in Players : forceSend[i] /\ ~forceSend'[i] => didCache'[i]]_vars
=============================================================================
