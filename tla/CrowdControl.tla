--------------------------- MODULE CrowdControl ---------------------------
(***************************************************************************)
(* An EverDrive N8 endpoint: cc_client.py and cc_endpoint.py over a serial *)
(* port, and the cartridge that answers (external: from the frame formats  *)
(* the client writes and expects).  The cartridge takes requests in order, *)
(* one per frame of the game, and mixes status pairs into its answers.     *)
(* Bytes are numbers; the answer's prelude is left out but for its last    *)
(* three bytes 0, 0x20 and the message id.                                 *)
(***************************************************************************)
EXTENDS Naturals, Sequences, FiniteSets, SequencesExt

CONSTANTS
  Mem,          \* RAM addresses
  Bytes,        \* values of RAM
  ReadCalls,    \* reads: [action, parts], a part being the addresses of one frame
  WriteCalls,   \* writes: sequences of <<address, value>>
  MaxMid,       \* largest message id (255)
  FirstMids,    \* ids that calls long since answered may have used up
  MaxCalls,     \* bound: calls
  MaxLate,      \* bound: polls that time out
  MaxNoise      \* bound: status pairs, and bytes the game changes

START == 32    \* 0x20
STATUS == 165  \* 0xA5
READ_ADDRS == 0
READ_ARRAY == 1
WRITE_PAIRS == 2

\* read_ranges and read_addrs of nothing send nothing.
ASSUME CcAssumption ==
  /\ 0 \in Bytes /\ MaxMid \in Nat \ {0} /\ FirstMids \subseteq 0 .. MaxMid
  /\ {MaxCalls, MaxLate, MaxNoise} \subseteq Nat
  /\ \A r \in ReadCalls : /\ r.action \in {READ_ADDRS, READ_ARRAY}
                          /\ r.parts \in Seq(Seq(Mem)) /\ r.parts # <<>>
  /\ \A pairs \in WriteCalls : pairs \in Seq(Mem \X Bytes)

VARIABLES
  mid, expect,  \* _msg_id; what poll_response looks for
  rxBuf,        \* _rx_buf
  call,         \* the call in progress, and its result
  fifo,         \* frames on their way to the cartridge
  wire,         \* bytes on their way back
  mem,          \* CPU RAM
  own,          \* the answer awaited, once it is made: its place in rxBuf \o wire, its values
  room          \* what is left of each bound

ccVars == <<mid, expect, rxBuf, call, fifo, wire, mem, own, room>>

NoCall == [pc |-> "done", parts |-> <<>>, at |-> 1, out |-> <<>>, res |-> "none", action |-> READ_ARRAY]

NoAnswer == [at |-> 0, vals |-> <<>>]

CcTypeOK ==
  /\ mid \in 0 .. MaxMid
  /\ expect.mid \in 0 .. MaxMid /\ expect.action \in {READ_ADDRS, READ_ARRAY} /\ expect.n \in Nat
  /\ ToSet(rxBuf) \cup ToSet(wire) \subseteq Bytes \cup (0 .. MaxMid) \cup {4, START, STATUS}
  /\ call.pc \in {"done", "send", "poll"} /\ call.res \in {"none", "ok", "late"}
  /\ call.at \in 1 .. Len(call.parts) + 1
  /\ mem \in [Mem -> Bytes]

CcInit ==
  /\ mid \in FirstMids /\ expect = [mid |-> 0, action |-> READ_ADDRS, n |-> 0]
  /\ rxBuf = <<>> /\ call = NoCall /\ fifo = <<>> /\ wire = <<>>
  /\ mem = [a \in Mem |-> 0]
  /\ own = NoAnswer
  /\ room = [calls |-> MaxCalls, late |-> MaxLate, noise |-> MaxNoise]

-----------------------------------------------------------------------------
(* The client *)

NextMid == IF mid + 1 > MaxMid THEN 1 ELSE mid + 1

Send(action, body) ==
  /\ mid' = NextMid
  /\ fifo' = Append(fifo, [mid |-> NextMid, action |-> action, body |-> body])

\* read_ranges (a frame per range), read_addrs (a frame per chunk) and read_byte.
Read(r) ==
  /\ call.pc = "done" /\ room.calls > 0 /\ room' = [room EXCEPT !.calls = @ - 1]
  /\ call' = [NoCall EXCEPT !.pc = "send", !.parts = r.parts, !.action = r.action]
  /\ UNCHANGED <<mid, expect, rxBuf, fifo, wire, mem, own>>

\* send_read_array or send_read_addrs for the next part.
SendRead ==
  /\ call.pc = "send"
  /\ Send(call.action, call.parts[call.at])
  /\ expect' = [mid |-> NextMid, action |-> call.action, n |-> Len(call.parts[call.at])]
  /\ own' = NoAnswer
  /\ call' = [call EXCEPT !.pc = "poll"]
  /\ UNCHANGED <<rxBuf, wire, mem, room>>

\* write_pairs: sent and reported as written, there is no answer.
Write(pairs) ==
  /\ call.pc = "done" /\ room.calls > 0 /\ room' = [room EXCEPT !.calls = @ - 1]
  /\ Send(WRITE_PAIRS, pairs)
  /\ call' = [NoCall EXCEPT !.res = "ok"]
  /\ UNCHANGED <<expect, rxBuf, wire, mem, own>>

\* _strip_status_pairs, left to right; a pair is dropped whatever it is part of.
\* No two pairs overlap, 0xA5 being neither 0 nor 4: the first i bytes leave out[i].
StripStatusPairs(b) ==
  LET pair(i) == i \in 1 .. Len(b) - 1 /\ b[i] \in {0, 4} /\ b[i + 1] = STATUS
      out[i \in 0 .. Len(b)] ==
        IF i = 0 THEN <<>>
        ELSE IF pair(i) \/ pair(i - 1) THEN out[i - 1] ELSE Append(out[i - 1], b[i])
  IN  out[Len(b)]

\* Mutant: the message id of the answer is not compared.
MatchAnyMid(filt, i) ==
  /\ filt[i] = START /\ filt[i + 2] \in {expect.action, 0}
  /\ i + 2 + expect.n <= Len(filt)

Match(filt, i) ==
  /\ filt[i] = START /\ filt[i + 1] = expect.mid /\ filt[i + 2] \in {expect.action, 0}
  /\ i + 2 + expect.n <= Len(filt)

\* Mutant: the search stops one byte too early.
StartsShort(filt) == {i \in 1 .. Len(filt) : i + 3 < Len(filt)}

\* range(len(filt) - 3)
Starts(filt) == {i \in 1 .. Len(filt) : i + 3 <= Len(filt)}

\* One turn of poll_response: what has arrived is added to the buffer, which is
\* searched from its start and cleared only when the answer is found.
PollResponse(n) ==
  LET buf == rxBuf \o SubSeq(wire, 1, n)
      filt == StripStatusPairs(buf)
      found == {i \in Starts(filt) : Match(filt, i)}
      first == CHOOSE i \in found : \A j \in found : i <= j
      last == call.at = Len(call.parts)
  IN  /\ call.pc = "poll"
      /\ wire' = SubSeq(wire, n + 1, Len(wire))
      /\ IF found = {}
         THEN rxBuf' = buf /\ UNCHANGED call
         ELSE /\ rxBuf' = <<>>
              /\ call' = [call EXCEPT !.at = @ + 1,
                            !.out = @ \o SubSeq(filt, first + 3, first + 2 + expect.n),
                            !.pc = IF last THEN "done" ELSE "send",
                            !.res = IF last THEN "ok" ELSE "none"]
      /\ UNCHANGED <<mid, expect, fifo, mem, own, room>>

\* The deadline passes: the whole read is given up, what arrived stays.
PollTimesOut ==
  /\ call.pc = "poll" /\ room.late > 0 /\ room' = [room EXCEPT !.late = @ - 1]
  /\ call' = [call EXCEPT !.pc = "done", !.res = "late"]
  /\ UNCHANGED <<mid, expect, rxBuf, fifo, wire, mem, own>>

-----------------------------------------------------------------------------
(* The cartridge *)

\* The pairs are written in order: the last one for an address stays.
Poked(pairs) ==
  [a \in Mem |->
     LET at == {n \in DOMAIN pairs : pairs[n][1] = a}
     IN IF at = {} THEN mem[a] ELSE pairs[CHOOSE n \in at : \A m \in at : m <= n][2]]

\* The NMI hook takes one frame and answers a read in one go.  The frame that
\* poll_response waits for is the last one sent.
Serve ==
  LET f == Head(fifo)
      vals == [i \in 1 .. Len(f.body) |-> mem[f.body[i]]]
  IN  /\ fifo # <<>> /\ fifo' = Tail(fifo)
      /\ IF f.action = WRITE_PAIRS
         THEN mem' = Poked(f.body) /\ UNCHANGED <<wire, own>>
         ELSE /\ wire' = wire \o <<0, START, f.mid, f.action>> \o vals
              /\ own' = IF Len(fifo) = 1 THEN [at |-> Len(rxBuf \o wire) + 1, vals |-> vals] ELSE own
              /\ UNCHANGED mem
      /\ UNCHANGED <<mid, expect, rxBuf, call, room>>

SendStatus(b) ==
  /\ room.noise > 0 /\ room' = [room EXCEPT !.noise = @ - 1]
  /\ wire' = wire \o <<b, STATUS>>
  /\ UNCHANGED <<mid, expect, rxBuf, call, fifo, mem, own>>

GamePokes(a, v) ==
  /\ room.noise > 0 /\ room' = [room EXCEPT !.noise = @ - 1]
  /\ mem' = [mem EXCEPT ![a] = v]
  /\ UNCHANGED <<mid, expect, rxBuf, call, fifo, wire, own>>

CcNext ==
  \/ \E r \in ReadCalls : Read(r)
  \/ \E pairs \in WriteCalls : Write(pairs)
  \/ SendRead \/ PollTimesOut \/ Serve
  \/ \E n \in 0 .. Len(wire) : PollResponse(n)
  \/ \E b \in {0, 4} : SendStatus(b)
  \/ \E a \in Mem, v \in Bytes : GamePokes(a, v)
=============================================================================
