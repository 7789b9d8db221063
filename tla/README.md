# TLA+ models of z1rr-coop

z1rr-coop lets two players of the Zelda 1 randomizer share items and map state.
Each player has a game (an emulator with Lua scripts, an EverDrive N8 cartridge,
or a MiSTer FPGA core). A client reads the game's RAM, sends the changes to the
partner and writes the partner's changes into RAM. The two clients meet at a
relay, under a session code they agreed on.

## 1. Inventory

| component | state | operations | talks to |
|---|---|---|---|
| relay (`relay/relay/server.py`) | `_sessions`, per `Session` its peers, state and timers, per `Peer` its reader tasks and `done` event, per socket one suspended `handle_client` | join (eight branches), disconnect, forward, watch for EOF, TTL and grace expiry | clients, by length-prefixed JSON frames |
| bridge client (`bridge_core/pipe_client.py`) | protocol state, `_joined`, `_hello_sent`, `_hello_received`, heartbeat and backoff clocks | `send_join`, `tick`, `_handle_frame`, `heartbeat_tick`, `_fail`, `reset_for_reconnect` | relay; `on_data`, `on_partner_reconnected` callbacks into the session |
| Lua pipes (`pipe.lua`, `pipe_relay.lua`, `pipe_direct.lua`) | the same, plus `_postReconnect`, listener and `_connectFn` | `wake`, `tick`, `_handleFrame`, `_reconnectTick` | relay or partner; driver `wake`, `resync`, `handleTable` |
| sync session (`sync_session.py`, `session_worker.py`, `bridge_cli`) | `app_hello_sent`, last state | `tick_once`, `on_data`, `_on_partner_reconnected` | client, engine, endpoint |
| sync engine (`sync_engine.py`) | cache, `did_cache`, `force_send`, sleep queue, resync queue, pause counter | `check_first_running`, `diff`, `handle_table`, `resync`, the drains | endpoint (RAM), session |
| `record_changed` and mode tables (`sync_engine.py`, `driver.lua`, `modes/`) | none | pure decision: send/apply what value | engine, Lua driver |
| Lua game driver (`driver.lua`) | cache, sleep queue, `didCache`, `forceSend` | write callbacks, `childTick`, `handleTable`, `resync` | emulator memory, pipe |
| map write gate (`map_write_gate.py`, `edn8_overload.py`) | pending map writes, last drain time | `enqueue`, `is_due`, `pop_due` | engine |
| MiSTer helper, mailbox and SmartCache (`mister-helper.py`, `mister_helper.py`, `mister_mailbox.py`, `mister_smartcache.py`, `ra_ram_mirror_nes.sv`) | shared DDR words: address list, value cache, pairs, sequence, acknowledgement; the helper's counters | read ranges, write pairs; the core's mirror, answer and mailbox states | session, FPGA core |
| Crowd Control client (`cc_client.py`, `cc_endpoint.py`) | message id, expected answer, receive buffer | read/write requests, `poll_response` | session, cartridge over serial |
| patch build and IPS (`relocate_patch.py`, `ips_build.py`, `ips.py`) | the `.ips` file and its `.expected.json` sidecar | relocate, build, parse, apply, validate | the ROM screen, `bridge patch` |
| GUI (`bridge_gui/`), settings | chosen device, ROM and host, buttons, `mister_config`, deploy and diagnose threads, `SessionWorker` | pick, deploy, diagnose, continue, connect, disconnect | user's files, MiSTer over SSH, session |
| deployment, health, diagnostics (`mister_deploy.py`, `mister_health.py`, `mister_diagnostics.py`) | the MiSTer's files and its helper process | connect, check, upload, restart, probe | GUI threads, `bridge mister-deploy` |
| framing (`pipe.lua`, `pipe_client.py`, `server.py`) | receive buffer | encode/decode | |
| `pl/`, `socket/`, `vendor/json.lua`, the NES core apart from the RAM mirror | | | not modelled: third-party code |

What is hard here, and what makes each component correct:

* **Relay.** One event loop, but a handler is suspended at every `await` and
  uses afterwards what it read before; sockets are swapped under running
  forwarders; timers race joins; handlers of old sockets wake up late. It is
  correct when the session table always agrees with the peers it holds, no
  bytes cross codes, at most `MAX_PAIRS` sessions exist, and every session that
  its clients abandon is freed.
* **Clients.** Handshake frames of an old and a new connection overlap; either
  side may reconnect at any time. Correct when two live clients reach
  ESTABLISHED together, the driver is woken exactly once, and both sides resend
  their state after a drop.
* **Sync.** Two engines change two RAMs concurrently. Correct when monotone
  fields (bit sets, maxima) converge to the join of both, counters receive each
  delta once, and no update echoes.
* **Devices.** Two processors share memory words, or a serial line with late
  answers. Correct when an answer or acknowledgement is only taken for the request
  it answers.
* **Patches.** Code moves and everything that points at it must follow; files are
  read, shown and read again later. Correct when the moved code leads where it
  led, and no ROM is written that loses a randomizer's bytes.
* **GUI.** Threads report to screens the user has left or changed. Correct when a
  session only starts with what was really deployed, and nothing stays disabled.

`PROJECT.json` lists the hazards line by line.

## 2. Modules

| module | role |
|---|---|
| `RelaySession` | abstract specification: one slot per session code, opened, completed, broken and vacated by one `peer_id` at a time |
| `Relay` | the relay, action by action |
| `RelayProps` | its properties, the refinement mapping to `RelaySession`, and the documents' claims that the code does not keep |
| `MCRelay` | symmetry sets for TLC |
| `RelayProofs` | the inductive invariant and the theorems that follow from it |
| `RelayRefinement` | `Relay` implements `RelaySession`; the capacity theorem |
| `RecordChanged` | `record_changed`: what is sent and what is applied, per kind of record |
| `Sync` | two bridges (sync engine, session loop, map write gate) and their games; extends `RecordChanged` |
| `SyncProps` | what two bridges guarantee, and the documents' claims that the code does not keep |
| `MCSync` | the addresses of the TLC instances |
| `SyncProofs` | the engines' inductive invariant: types, honest caches, local garbage, hearts that fit |
| `SyncConvergence` | both games end up with the same items; extends `SyncProofs` |
| `PipeClient` | two bridges' relay clients, in the place of `Relay`'s free clients; extends `Relay` |
| `PipeProps`, `MCPipe` | what two bridges and the relay owe each other; the instance |
| `PipeProofs` | the relay's invariant with bridges as its clients; a reconnection is always announced; extends `RelayProofs` |
| `Mister` | the helper's handlers, the shared DDRAM window and the core's mirror |
| `CrowdControl` | the EverDrive's client, byte by byte, and the cartridge |
| `Endpoint` | a session's endpoint: one of the two |
| `EndpointProps`, `MCEndpoint` | what an endpoint guarantees; the instance |
| `EndpointProofs` | fresh snapshots, true acknowledgements and asked-for writes of a MiSTer; found and own answers of an EverDrive; types of both |
| `Ips` | parsing, applying, validating and building IPS patches, as operators |
| `Relocate` | `relocate_patch.py`, as operators over ROMs; extends `Ips` |
| `Rom` | the build's two files, the EverDrive's ROM screen and `bridge patch`; extends `Relocate` |
| `RomProps`, `MCRom` | what the build and the patching guarantee; a ROM of 31 bytes |
| `RomProofs` | proofs of those for all ROMs, patches and layouts |
| `Setup` | the screens around a MiSTer, the deployment and the worker threads |
| `SetupProps`, `MCSetup` | what they guarantee; the instance |
| `SetupProofs` | sessions only run with what was deployed, and the screen shows it truly |

### How `Relay` corresponds to server.py

A socket, its `Peer` and its `handle_client` coroutine are one element `c` of
`Conns`; a `Session` is named after the socket whose join created it, so
`sessions[k] = s` says `_sessions[k]` is the session `s` created. `pc[c]` is
where the coroutine is suspended:

| `pc` | suspended at |
|---|---|
| `accepted` | about to act on the first frame (`read_frame`, line 249) |
| `pairing` | the first drain of `_send_joined` (433) |
| `notify` | the drain after `partner-reconnected` (343, 413) |
| `waiting` | `peer.done.wait()` |
| `survivor` | `await task` in `_cancel_forward_task` (517) |
| `ended`, `failed` | returned, or died on an exception |

Code between two awaits is one action. The joins are `JoinNew`,
`JoinRelayFull`, `JoinReplaceWaiting`, `JoinPair`/`FinishPair`/`PairFails`,
`JoinSwapPaired`, `JoinCodeInUse`, `JoinSurvivor`, `JoinHalfBroken`, the last
and `JoinSwapPaired` continued by `FinishRejoin`; `_on_peer_disconnect` is
`Disconnect...` by session state; `_forward`, `_watch_for_eof` and the two
timers are `Forward...`, `Watcher...` and `Timer...`. Decisions worth knowing:

* Every drain of a socket that is in use is taken as a scheduling point. asyncio
  suspends there only when the socket's buffer is over its limit, so the model
  has more interleavings than most executions, but none that the code excludes.
  The `joined` answer to a socket that was just accepted drains at once.
* `ttl_task` runs only in WAITING and `grace_task` only in HALF_BROKEN, so one
  variable `timer` stands for both. `send_abort_close` waits for the close, and
  the code is popped after that: `TimerFires`, then `TimerPops`.
* A second `read()` on a stream that is being read raises `RuntimeError`, which
  `_forward` and `_watch_for_eof` turn into `done.set()`. `StartForwarding` and
  `FinishSurvivor` model that.
* `ForwardEnds` on an empty buffer is the idle timeout. A write to a socket the
  relay closed fails; one to a socket whose client is gone may still succeed.
* `_send_joined` iterates over `sess.peers` and awaits a drain inside the loop.
  `other[c]` is the entry the iteration stands on while the handler of `c` is
  `pairing`. `FinishPair` goes on when the entries are still the same (`Iterating`);
  otherwise the loop raises `RuntimeError` (`PairFails`): at once when an entry is gone
  or was added, and after one more `joined` when an entry was replaced. The exception
  ends the handler without its clean-up (`Raises`); asyncio closes the socket from
  Python 3.12 on and leaves it open before, so the model allows both. A first frame
  that is JSON but no object ends the same way (`CloseSilently`). That a dictionary is
  rebuilt after five or more insertions during one drain is left out.
* Frames carry only their kind and, when forwarded, the socket they came from.
* Left out: logging and `FrameTracer`, `broken_peer_id` (never read), `_reset_state`
  (tests only), the wording of aborts.

The clients (`Connect`, `ClientSends`, `ClientGone`) are as free as the network
allows: they may send a wrong first frame, reuse peer ids, send early, vanish
with or without losing bytes in flight.

### How `Sync` corresponds to sync_engine.py and sync_session.py

A bridge is one thread, but the game runs on while it reads and writes RAM over
USB or the network. So an action is a stretch between two endpoint accesses;
`pc[i]` says where `tick_once` is:

| `pc` | next |
|---|---|
| `idle` | a received frame (`Receive...`), or the running probe of the next poll |
| `gated` | the poll, after `drain_map_write_gate` |
| `drain` | the sleep queue (`DrainSleep`), then `diff` against the snapshot (`Diff`) |
| `write`, `writeGated`, `writeDrain` | `write_pairs` of the value computed from the byte read before |

`Examine` is `handle_table_result` up to its read, `Write` and `WriteFails` its
end. A write that is reported as failed may have been made all the same, as a helper
that answers too late has passed it on (`MaybeWritten`). `Snapshot` is the full poll with `check_first_running`; `SendChunk` what
replaces it while map writes or the throttled broadcast are pending;
`PollPaused` and `SnapshotIgnored` are its early returns. `ReceiveReconnected`
is `SyncEngine.resync`. Decisions worth knowing:

* A bit field is the set of its bits, a heart byte the pair of its nibbles, the
  running byte a Boolean. `MaxCount` stands for 255, or for 15 in a nibble.
* `on_data` reads the running byte and then the address; the model takes both
  reads in one step, as a game that stops in between is no different from one
  that stops right after. A snapshot is one read where the code reads ranges one after
  the other. The engine treats every address by itself, and for a single address the
  two are the same.
* Whether the gate's interval is over is a free choice: `DrainGate` or not.
* The connection is a pair of queues. `Cut` loses what was on its way to the
  bridge and any tail of what it sent; `Rejoin` puts `partner-reconnected`
  behind what the partner already has. This stands for the client and the relay;
  of the handshake only its end is visible, as the engine acts in ESTABLISHED only.
* `_not_running_ticks` stops counting at the threshold, where it no longer
  matters.
* Games change by the rules of their fields (`GameValues`): bits are only set,
  items only upgraded, containers only gained. New games start at zero; only the
  bridges with `force_send` may start with a game under way. A game may also show
  garbage in an item byte (`GameGlitches`).
* A write reported as failed is made at the latest when the engine goes on; one that
  the device makes still later is left out.
* Left out: the app hello, status messages, sizes above one byte, `cond`, `bitAnd`
  and `trigger` (no mode table uses them), a mode without RUNNING_ADDR.

### How `PipeClient` corresponds to pipe_client.py

The relay is the module `Relay`, unchanged, its TTL and grace timers fired at most
`MaxTimers` times. A bridge `u` is a record `cl[u]`: `state`, the socket, whether it
is open, `_joined`, `_hello_sent`, `_hello_received`, the frames received and not yet
handled, and the loop's `app_hello_sent`. `Receive`, `ReceiveEof` and `ReceiveError`
are the three outcomes of `tick`'s `recv`, `Handle...` the branches of
`_handle_frame`, one frame per step: the relay runs on between them. `Fails` is
`_fail`; frames that follow in the same `tick` are still handled, and may move the
state out of RECONNECTING with the socket closed, as in the code. Decisions:

* Pings are left out. They keep a routed pair alive, so `HeartbeatTimeout` needs a
  partner whose frames do not arrive (`Hears`), after everything in flight has come
  in (`Quiet`): 15 seconds are long compared with the rest. For the same reason the
  relay's idle timeout does not pass.
* The relay's TTL and grace timers, which run for minutes, fire when no frame is on its
  way to a bridge (`Delivered`). Joins, disconnects and EOFs may be arriving at that
  moment, and handlers may be suspended: the timer races all of them.
* `Drained`: a handler suspended in `drain` resumes before its last frame is
  received. Were it suspended longer, the survivor's hello could go to the old
  socket and the rejoiner would stay in HELLO_SENT, kept alive by pings.
* The version check never fails (both run this program), frames are never
  malformed, and `connect` to the relay succeeds in the end.

### How `Mister`, `CrowdControl` and `Endpoint` correspond to the endpoints

A helper connection `c` is served by its own thread; `op[c].pc` is the DDRAM word it
touches next: `list` and `rctrl` post the addresses, `rpoll` and `values` wait for
and read the answer; `pairs`, `wctrl`, `wpoll` post a write and wait. The core is
one state machine (`fp`): at a VBlank it answers the current address list again
(`fetch`, `flush`, `resp`), between them it polls the mailbox (`apply`, `ack`). The
control words are single 64-bit accesses, so they are read and written whole:
posting a write clears the old acknowledgement, and the core's acknowledgement
rewrites sequence and count. `mister_mailbox.py` and `mister_smartcache.py` are the
same steps in one process. `offered`, `applied`, `asked` and `hp.disturbed` are
history for the properties. The address list is stored one address per word (two in
the code), and `WordVals` values share a word of the cache; 1 is finer than the
core's 8. The RTQuery channel and the debug words of the core are left out, and a
write channel switched off (`--enable-writes` absent), which the deployment never
does.

`CrowdControl` keeps the bytes, because `poll_response` searches them: the header of
an answer, its values, and status pairs mixed in between. The cartridge is external.
Any byte may be in RAM, and ids are used again. `own` is a history variable: where
the awaited answer lies in the buffer and on the wire, and what the cartridge read for
it. `poll_response` also searches what earlier polls left in the buffer when no byte
has arrived (`in_waiting` 0).

When an access to DDRAM times out, the core gives up its job and its request toggle
stays flipped (`ra_ram_mirror_nes.sv:312`). The model assumes that the arbiter serves
the late request before the next one: the word the core was flushing is still written
(`DdramTimeout`, `Flushed`). An arbiter that loses the request would acknowledge the
next one at once; this is listed as a hazard and not modelled.

### How `Ips`, `Relocate` and `Rom` correspond to the patching

A ROM is a sequence of cells. The first cell of an instruction carries mode and
target, its operand cells nothing; that is all the relocation tells apart, and keeps
every rule of `relocate_region`, the two errors and the `KeyError` of a target in a
gap included (`Bad`). The code decodes bytes from the start of a region on, one
instruction after the other (`relocate_patch.py:265-307`). The cells are what that
decoding yields: the regions of the script hold code only, so data that is read as
instructions is outside the model. `FinalRom` follows `main` in order: packed block, old sites
restored, hooks, pokes; `Layout` lists the offsets these writes cover. `Overlaid` is the
loop of `apply`, and of `main`'s writes. A patch is the sequence of its records, the trailer a record
at `EofOffset`; header checks and truncated files are left out, as the build writes
what the other programs read. In `Rom` the build's two writes are two steps, and the
GUI and `bridge patch` read and write the same files between each other's clicks. A
copy to the EverDrive that fails half way leaves none that counts (`cart.copy` is
`None`: there is none, or one that was cut off).

### How `Setup` corresponds to the GUI

Tk runs one handler at a time: a handler is an action. A thread is an element of
`th`, its `pc` the next SSH step, each of which may raise; its result is put into
`calls`, Tk's `after` queue, and `HandleCall` takes it from there. `remote` says of
each file whether it is missing, old, partly uploaded, current, or written by the
base64 fallback, whose exit status nobody checks (`maybe`). `disturbed` records
that the user acted on the busy screen, or ran `bridge mister-deploy`: the code
prevents neither. A worker is `opening`, in its `loop` or `ended`; `Disconnect`
sets its flag and goes on whether or not it has ended, as `join(timeout=3)` does.
What a session does in its loop is the subject of `Sync` and `PipeClient`; here
`LeaveLoop` is the iteration that sees the flag. Its calls may block, so it owes
nothing: no fairness is assumed of the workers.

## 3. Runs

### Relay

`Conns` bounds how many sockets are ever accepted, `MaxSends` how many frames a
client sends after its join. Three sockets are the least that show a pair and a
swap or a third party; every join branch and every pair of racing handlers
happens within them. TLC may stop (`CHECK_DEADLOCK FALSE`): a relay without
clients has nothing to do.

| run | bounds | shows |
|---|---|---|
| `relay_core` | 3 sockets, 3 peer ids, 1 code, `MAX_PAIRS` 2 | `TypeOK`, `SessionShape`, `TimerArmed`, `PairHasHandler`; `ImplementsSlots`: the relay implements `RelaySession`. The spare slot lets a mistaken second session for the code appear. |
| `relay_data` | 3 sockets, 2 peer ids, 2 codes, `MAX_PAIRS` 1, one data frame each | `NoCrossTalk` while forwarders outlive swaps, `WithinCapacity` with a full relay |
| `relay_live` | 3 sockets, 2 peer ids, 1 code, `FairSpec` | `SlotFreed` |
| `relay_routing` | as `relay_live` | violation of `RoutedToPartner` (finding) |

Fairness (`FairSpec`): weak fairness of each socket's handler, reader tasks and
session timer. asyncio runs every ready task, sleeps end, and `_forward`'s read
has a timeout; nothing is assumed of the clients. `SlotFreed` is conditional on
no forwarder having died on a failed write: without the condition it fails, by
the leak `WriteFailureNoticed` describes (see below).

### Sync

`MaxMoves` bounds the changes a game makes by itself, `MaxCuts` the lost
connections, and `MaxFrames` lets a game stop only while fewer frames are under
way to a bridge. The last matters for hearts only: every frame applied from the
sleep queue is answered with two (see `NoSelfEcho`), so the queues would grow
without end. `PauseTicks` 2 keeps a short pause apart from a long one, and
`ResyncLimit` 1 makes every broadcast of two addresses throttled. TLC may stop
for the same reason as above.

| run | bounds | shows |
|---|---|---|
| `sync_high` | one item of three values and one counter with a maximum of 2, both players playing (1 move each) and broadcasting, garbage at one | `TypeOK` (the counter stays in range), `Converged` for the item, `GarbageStaysLocal` |
| `sync_bits` | two map bytes of two bits, one masked, two EDN8s, one player playing (1 move), `FairSpec` | `Converged`, `EventuallySame` with the gate and the throttle |
| `sync_faults` | one map byte, both playing, EDN8 on one side, failing reads and writes, one cut | `CacheHonest` |
| `sync_nibbles` | one heart byte up to 2 containers, both broadcasting | `HeartsFit` |

`Converged` is claimed only where the code keeps it: for items with both players
playing, and for gated map bytes with one of them playing. With both playing, bit
fields fail it by `OrTaken`; an ungated bit field fails it even with one player,
because an echo comes back as the foreign value.

Fairness (`FairSpec`): strong fairness of receiving, polling and draining the
gate, weak fairness of finishing what a tick began. `tick_once` is called in a
loop, pumps the pipe and polls each time, so a frame that is there whenever the
bridge is idle is received, and the gate's interval ends. The strength is needed
since a tick disables both while it runs. Nothing is assumed of the games:
`EventuallySame` is conditional on both running from some time on.

### Clients, devices, patches, screens

| run | bounds | shows |
|---|---|---|
| `pipe` | 2 bridges, 3 sockets, one broken connection, one timer, `PipeFairSpec` | `PipeTypeOK`, `PartnerResyncs`, `PairComesUp` |
| `endpoints` | MiSTer: 2 connections, 2 addresses, 3 requests, sequence numbers up to 2, one timeout and one event (DRAM timeout, reset, restart or a byte the game changes); EverDrive: 2 addresses, the values 0, 2, 0x20 and 0xA5, 3 calls with 8-bit ids that begin before 0x20 or before the wrap, one late poll, one status pair or change | `TypeOK`, `SnapshotFresh`, `AckedApplied`, `OnlyAsked`; `AnswersMatch`, `ArrivedIsFound` |
| `rom` | a ROM of 31 bytes with two code regions and a jump table, every code of the instruction set that fits; vanilla, two kinds of seed, longer, shorter, foreign and missing files | `TypeOK`, `SameControlFlow`, `ReadyRomPatched`, `WritesAreOverlays`, `BuiltOnce` |
| `setup` | 2 ROMs, 1 MiSTer, 2 runs, 1 session, `FairSpec` | `TypeOK`, `NoSessionWithoutDeploy`, `DeployedAsShown`, `ButtonsComeBack` |

*Bounds.* Three sockets let one bridge reconnect once. When a bridge has none left,
or both wait for a timer the instance no longer has, `PairComesUp` excuses it
(`OutOfSockets`, `OutOfTimers`); it also excuses `StuckJoin` and `Orphaned`, the two states in which
the code really waits for ever. `FirstBridge` says which bridge connects first; they
are alike. Two sequence numbers make the mailbox wrap within three writes; a wrap
meets a stale number only after as many timeouts as there are numbers, here two and
in the code 255, and `MaxTimeouts` is one. The small ROM has a backward and
a forward branch, calls within, between and out of the regions, into a gap and to the
prelude, instructions cut off by the end of a region, records above `MaxLen`, runs
long enough for RLE, and an `EofOffset` inside the ROM. Two runs of threads are a
deployment and whatever races it. `CliRoms` is `None` only: `mister-deploy` without
`--rom` already shares the MiSTer with the GUI. All four may stop, when their bounds
are used up or the user does nothing.

*Fairness.* `PipeFairSpec`: the two loops, the relay's event loop and its timers
together never stop while one of them can go on. That is one weak fairness condition
of their disjunction, less than the code guarantees; the network breaks connections as
it likes. `FairSpec` of `Setup`: Tk serves its queue, and every thread's step ends,
since SSH commands, sockets and the helper have timeouts. An upload has none but
TCP's: `sftp.put` to a MiSTer that is switched off in the middle keeps its thread, and
the buttons, until TCP gives up. Neither the user nor a worker owes anything.

What these models showed besides, none of it contradicted by a document:

* *Clients.* An older join that the relay handles after a newer one closes the newer
  socket; the client is in JOIN_SENT, ignores the EOF and has no heartbeat
  (`StuckJoin`, `pipe_client.py:111`). A join that takes the place of a waiting socket
  while `_ttl_expire` is suspended in `wait_closed` is left in a session the timer then
  pops: no partner finds it and no timer sends it away (`Orphaned`,
  `server.py:295-305`). After a socket swap in PAIRED the survivor's
  forwarder points at the old socket; the heartbeat and another reconnect repair it.
  A partner that rejoins quickly causes a "duplicate hello" failure, repaired the
  same way. When a grace timer expires both bridges are paired afresh and neither
  resyncs. The handler of a socket that was swapped out stays suspended for ever
  (`server.py:330`); it holds no slot. A late watcher of an expired session can pop the code of a newer one, and
  the two bridges then wait in two sessions until a TTL sends them away. The app
  hello is not repeated to a partner that reconnected, and one with another mode's
  guid only prints a message (`sync_session.py:120`).
* *Devices.* Each deployment restarts the helper, whose ids begin at 1 again: a value
  cache that still carries id 1 answers the first read, and a first write with the
  sequence number last seen is ignored, or acknowledged by an old word. Two
  connections overwrite each other's lists. Only `OnlyAsked` holds then. A snapshot
  may be torn between two frames, an SDRAM timeout reads 0, and a write reported as
  failed may still be made. On the EverDrive a value 0xA5 after 0 or 4 cannot be
  read (`ArrivedIsFound` excludes it), and the buffer is only cleared by a success.
* *Patches.* A branch out of the patch keeps its displacement. If `--prg1` cannot be
  read after the patch is written, the sidecar stays missing and every ROM is
  refused, which is safe. `bridge patch` writes over its input when the name does not
  contain `.nes`. `_encode_record` raises at `EOF_OFFSET` where its module's
  docstring says it shifts the record.
* *Screens.* Browse stays enabled during a deployment, so the screen may show
  another ROM than the configuration holds; hence `~disturbed` in `DeployedAsShown`.
  A file that is no NES ROM stays selected and can be deployed. After `stop()` gave
  up, a second worker can open the device beside the first.

### Findings

* `relay_routing`: when a PAIRED peer swaps its socket, the partner's running
  forwarder keeps the old destination. The design document expects both peers
  paired on fresh sockets.

More claims of documents and comments fail in the models. Their properties are
stated next to the others and have no run of their own; each is violated within
seconds when it replaces the properties of the cfg named here:

| property | cfg | what happens |
|---|---|---|
| `NoGhostPartner` | `relay_core` | a survivor that also drops stays in `sess.peers`, and a newcomer is paired with it instead of with a live partner (`server.py:566`) |
| `PairKeepsCode` | `relay_core` | a late handler of an expired session pops the code of a newer pair (`server.py:537`) |
| `WriteFailureNoticed` (PROPERTY) | `relay_live`, with 2 sockets, `Payload = {"data"}`, `MaxSends = 1` | when both forwarders end on failed writes no `done` event is ever set, contrary to `_forward`'s docstring (`server.py:449`): the slot is leaked (`server.py:472`) |
| `OrTaken` | `sync_faults` | applying a partner's bits caches local bits that were never sent (`sync_engine.py:311`); MODDING.md:117 promises the OR of both |
| `NoBitErased` (PROPERTY) | `sync_faults` | the read-modify-write of live RAM erases bits the game set in between (`sync_engine.py:285`) |
| `NoSelfEcho` (PROPERTY) | `sync_nibbles` | `diff` compares a snapshot taken before the sleep queue was applied with the cache updated by it, and sends the old value back (`sync_session.py:111`) |
| `CutRepaired` | `sync_faults` | only the partner of the bridge that reconnected resyncs (`pipe_client.py:226`); the EDN8 design says both do |
| `StatesMerge` | `sync_nibbles` | two broadcasts exchange the heart containers instead of merging them (`tloz_all.py:61`) |
| `ResyncKept` | `sync_bits` | pending map writes make an empty chunk disarm a resync before its broadcast (`sync_engine.py:362`) |
| `AnswersAlwaysMatch` (PROPERTY) | `endpoints` | `poll_response` promises "a response matching the last send_read_*" (`cc_client.py:170`), but the payload of a late answer that reads 0x20, the next id, 0 is returned in its place (`cc_client.py:177`); `AnswersMatch` says that nothing else can be |

## 4. Proofs

Every theorem holds for arbitrary constants under the named assumptions of the
modules: `RelayAssumption`, `PipeAssumption`, `RecordAssumption`, `SyncAssumption`,
`MisterAssumption`, `CcAssumption`, `SetupAssumption`, `NoneIsNoConfig`, `IpsAssumption`,
`LayoutAssumption`, `VanillaAssumption`, `StartsAssumption`, `RomAssumption`. They say what
a constant is (a bound is a natural number, a list of a request fits its window, the
kinds of records share no address, `None` is no value; those of the ROM are explained
there); TLC evaluates them in every run.
The invariants proved here were first checked by TLC on the instances of section 3.

### Relay (`RelayProofs`, `RelayRefinement`)

`SessionShape` is not inductive: a handler that resumes after an await changes a
session it looked up earlier, so the proof must know what stays true of that
session. The inductive invariant `FullInv` adds

* `HandlerInv`: a suspended handler's session exists and has the code of its
  join, and the partner it remembered has the same code and another peer id;
* `FreshInv`: a session exists only once its socket has joined, so no step
  meets a half-made one;
* `MemberInv`: `sess.peers` files every socket under its own peer id and code;
* `RouteInv`: running forwarders, and all frames already written, link sockets
  of one code and two peer ids;

to `TypeOK`, `SessionShape` and `TimerArmed`. Each conjunct has a step lemma
(`TypeStep`, `TableJoin`/`TableOther`, `HandlerStep`, `FreshStep`, `MemberStep`,
`RouteStep`), with one case per action. Lemma `JoinKept` (join frames never
change, sessions never disappear from the heap) carries the facts about other
handlers across a step. The theorems:

* `InvHolds`, `TypeCorrect`, `ShapeCorrect`, `TimersCorrect`, `RoutingCorrect`;
* `HandlersCorrect`: `PairHasHandler`. A step that ends the last live handler of a
  PAIRED session takes the session out of PAIRED;
* `SlotsImplemented`: initial states map to initial states, and `SlotStep` maps every
  action to a slot action or a stutter;
* `CapacityKept`: from `CapacityStep`, by counting `_sessions` before and after each
  step.

### Clients (`PipeProofs`)

Two bridges replace the free clients. `PipeInv` is `FullInv` with `BridgeInv` (a bridge
only uses a socket the relay knows under its peer id; ESTABLISHED means a hello was sent
and one received), `PlaceInv` (a handler keeps its session, a socket that is no longer a
member of it has been closed, forwarders stay inside it), `HelloInv` (a hello, and a
bridge that has been ESTABLISHED, prove that the partner's socket has been in a complete
session) and `DueInv`: when a bridge that reconnected is in the session of its partner's
live socket, `partner-reconnected` is on its way to that partner or already in its
buffer. `HelloInv` is needed because a rejoin announces itself only to a session that
has been complete. From it: `PipeTypes`, `BridgesDoNotCross` and `ResyncsAreSent`
(`PartnerResyncs`), for any number of sockets, broken connections and timers. Nothing
of `Drained` or `Delivered` is used: what they exclude harms liveness only.

### Sync (`SyncProofs`)

`SyncInv` strengthens the three safety invariants by what a step in the middle of a tick
knows: `JobsOK` (the value `write_pairs` is about to write is plausible, fits its heart
byte, and takes away no bit of the snapshot), `CacheFull` (`diff` only runs on a cache
without gaps) and `SnapHonest` (until `diff` runs, the game has kept the bits of the
snapshot). The theorems are `SyncTypes`, `CacheStaysHonest`, `GarbageIsLocal` and
`HeartsAlwaysFit`, under any failures, cuts, pauses, overload policy and mixture of
kinds. The loops over SYNC are written with `InOrder` (a set of addresses in the order
of the table) so that no recursion is involved.

### Convergence of items (`SyncConvergence`)

`ItemsConverge` says that both games have the same items whenever both bridges are
settled, for any number of items and moves of both players, beside fields of any other
kind. Where SYNC has items and counters only, that is all of `Converged`
(`BridgesConverge`). The argument, `ItemInv`:

* `Floor(i, a)` is what the game of `i` is sure to keep of item `a`: RAM, or the value
  a write in progress will put there, whichever is less. It never decreases, although a
  write may overwrite an upgrade the game made since the read;
* what a bridge has told its partner, cached or seen in its snapshot is at most `Floor`
  (`ToldBacked`, `CacheBacked`, `SnapBacked`), so nothing is told that is lost again;
* what a bridge has cached the partner's game has, or a message on its way says at
  least as much (`Promised`); a message disappears only when its value is below the
  receiver's `Floor`. What is not cached will still be broadcast (`Armed`).

When both are settled the caches equal RAM and nothing is on its way, so each game has
at least what the other has. The hypothesis `Steady` (endpoints work, no cut, every
player whose game changes starts with `force_send`, no gated address) cannot be
weakened; TLC finds a counterexample without each part:

* without `force_send`, what changes before the first poll is cached and never sent;
* a failed write is dropped with its message;
* after a cut only one side resyncs (`CutRepaired`);
* beside gated addresses, pending map writes disarm the broadcast (`ResyncKept`).

### Endpoints (`EndpointProofs`)

`DeviceInvariant` (`Base`, `Asked`): how far every handler and the core are with their
lists, and that every mailbox slot a control word covers, or will cover, holds a pair
somebody asked for. From it `WritesAreAsked` (`OnlyAsked`), across restarts, resets and
handlers that overwrite each other. `MisterInvariant` adds, while nobody disturbed the
helper, that it serves one connection, that request ids are never used again
(`Numbered`), and that every value of an answer that carries the id of the current read
was offered to it (`Reading`); hence `SnapshotsAreFresh`. `WriteInvariant` does the same
for writes. There the sequence number wraps, so it counts: every write the core may
still carry out is as many numbers behind as requests have timed out since (`Recent`).
`AcksMeanApplied` therefore has the hypothesis `MaxTimeouts < MaxSeq`. TLC shows that it
is needed: with two numbers and two timeouts the core acknowledges an old write just
when its number comes round again. In the code that takes 255 requests that time out
during one job of the core.

`EndpointTypes` is `TypeOK` of both endpoints; for the EverDrive the invariant `CcInv`
adds the frames under way and that a call which sends or waits is at one of its parts.

`AnswersAreFound` (`ArrivedIsFound`) and `AnswersAreOwn` (`AnswersMatch`) are about
`poll_response`, for any calls, ids, RAM, chunks, late answers and status pairs, without
further hypotheses: 0x20 may be a value or an id, and an id may be used while an older
frame still carries it. What the code does not guarantee is in the properties
themselves. The filter may bite into an answer that holds a 0 or 4 before an 0xA5
(`hidden`), and bytes before the answer may spell its header (`Mistakable`).

The invariant is `PollInv`. While the client waits, either its frame is the last of
`fifo` and nothing has been answered to it (`Pending`), or the answer lies at `own.at`
of the buffer followed by the wire, behind whatever late bytes, and after it come only
status pairs (`Served`). So whichever bytes have arrived, the filter cannot reach into
the answer from behind, and what it leaves of the bytes before does not depend on the
answer (`LateAlone`).

The filter itself is `Placed`: a function from the positions of the buffer to those of
what is left, which grows by one where a byte is kept and not at all where one is
`Dropped`. `PlacedRun` says that a run without dropped bytes is found unchanged, and an
answer that hides no status pair is such a run; `MatchIsOwn`, that a match which does
not begin among the late bytes is the answer's image.

### Screens (`SetupProofs`)

`SessionsDeployed` is `NoSessionWithoutDeploy` for arbitrary ROMs, MiSTers, threads and
sessions. The property says nothing of the results that wait in Tk's
queue, and these set the configuration later, after the user may have done anything;
so its inductive form `SessionInv` adds `CallsTrue` (every "deployed" in the queue is
of a deployment that went through), `Started` (a started thread has a kind, so the
result it posts is one of its kind) and the shapes of the variables. `ThreadMoves`
reduces the seven thread steps to one move; a finished thread never moves again, so
what was deployed stays deployed (`DeployedStays`); each of the remaining handlers
either keeps the configuration or drops it (`QuietKeeps`), takes it from the queue
(`HandleCallKeeps`) or hands it to a session (`ConnectKeeps`).

`ShownIsDeployed` is `DeployedAsShown`. Its invariant `ShownInv` describes the screens
as long as the user did not interfere: one thread or one result at a time (`Single`), a
deployment holds the buttons and its ROM and has uploaded what its step says
(`Underway`), so has the result it posts (`Reported`), and an enabled Continue button
means that everything is on the MiSTer (`Shown`). `SetupTypes` is `TypeOK`.

### Patches (`RomProofs`)

The first half is about `ips_build.py` and `ips.py`, for all ROMs. A record is
`Faithful` when it writes bytes of the new ROM at offsets that differ, and nothing else.
`DiffRunsFacts`, `EncodeRecordFacts` and `RecordsFacts` follow it through the maximal
runs, the chunks of `MaxLen`, the run-length encoding and their concatenation: what
`Parse` reads back (`MakeIpsFacts`) is faithful and complete. `LastWins` says what the
loop of `apply` leaves: at each offset the last record over it, elsewhere the ROM. From
these, `RoundTrip` and `IsPatchedExact`, and for `apply_validated` that a ROM it accepts
with the patch's own sidecar, or with an empty one, is vanilla at every site
(`ValidatedFacts`: a record that starts inside a ROM but ends behind it is refused too).

The second half is `relocate_patch.py`. `MovedFacts` takes each kind of instruction
through `relocate_region`, `NewBlockFacts` the regions into the packed block and
`FinalRomFacts` the block, the hooks and the pokes into the ROM. They need of the
constants what the script's literals satisfy (`LayoutAssumption`: the regions ascend, no
byte is written twice or into an old region, the two entry points are code), of the
vanilla ROM that it is long enough and has no pointer of the patch where the jump table
goes (`VanillaAssumption`; the script expects 0xFF there), and of the original patch that
it keeps the length of the ROM (`StartsAssumption`, with the types of the files).

`IInv` is the inductive invariant. `PatchInv`: before the build the patch is the original
one, from then on it is the difference of `Vanilla` and `Final`, the ROM `main` made of
`oldRom`, and the sidecar is the patch's own or empty. That it stays so needs
`SecondBuildFails`: `Final` has no pointers where the jump table was, so `main` raises.
`GuiInv`, `CartInv`: the files the screens remember as patched carry the whole patch.
They are written again by either program while they are remembered; what is written
carries the patch too (`FileFacts`). The theorems are `Invariance`, `TypeCorrect`,
`ControlFlow` (`SameControlFlow`), `RomReady`, `Overlays` and `BuildOnce`.

Recursive functions and folds (`Overlaid`, `Total`, `FlattenSeq`) are unfolded by lemma
`History`: a loop of n steps, given as a function of n functions, has a history. It is
proved by `UpTo`, induction as a fact about a set of numbers, since the prover cannot
use an induction theorem with an operator parameter. `StripScan` and `Climb` do the
same for the loop of `_strip_status_pairs` in `EndpointProofs`.

### Only model-checked

* Liveness (`SlotFreed`, `EventuallySame`, `PairComesUp`, `ButtonsComeBack`),
  which is out of the prover's reach.
* `Converged` for gated map bytes with one player playing (`sync_bits`).

## 5. Not modelled

* The Lua side (`pipe.lua`, `pipe_relay.lua`, `pipe_direct.lua`, `driver.lua`): the
  emulator's client and driver, of which the Python ones are ports. Its own hazards
  are listed in `PROJECT.json`.
* The byte framing (a length and a JSON body), the RetroAchievements mirror parser
  of the read-only commands and the read-only session, which never writes.
* Layout, texts, logs and reports; the audit and analysis scripts; third-party code
  and the rest of the NES core.

## 6. Plan

Proofs: `Converged` for gated bits with one writer (the reader never sends; each bit
the writer has cached is in the reader's RAM, in its gate or in flight). Then, if the Lua side is taken up:
`RelayPipe` beside `PipeClient` with the differences as constants, `DirectPipe` on a
listener and a dialer, and the Lua `recordChanged` against `RecordChanged`.
