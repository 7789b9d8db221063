------------------------------ MODULE Mister ------------------------------
(***************************************************************************)
(* A MiSTer endpoint: the helper on the ARM side (mister-helper.py, whose  *)
(* logic mister_smartcache.py and mister_mailbox.py repeat for in-process  *)
(* use), asked over TCP by mister_helper.py, the DDRAM window it shares    *)
(* with the NES core, and the core's mirror (ra_ram_mirror_nes.sv).  The   *)
(* helper serves every connection from a thread of its own, without a      *)
(* lock.                                                                   *)
(*                                                                         *)
(* One DDRAM word is one step.  The address list is modelled with one      *)
(* address per word, finer than the code's two; WordVals values share a    *)
(* word of the value cache (8 in the core).                                *)
(***************************************************************************)
EXTENDS Naturals, Sequences, FiniteSets, SequencesExt

CONSTANTS
  Clients,      \* connections to the helper that may be open at once
  Addrs,        \* CPU RAM addresses
  Rom,          \* an address outside the RAM the core can reach
  Vals,         \* byte values, 0 among them
  Reads,        \* the address lists that are read
  Writes,       \* the pair lists that are written
  Slots,        \* bound: entries of the address list and of the mailbox
  WordVals,     \* values per word of the value cache
  MaxSeq,       \* largest write sequence number (255)
  MaxOps,       \* bound: requests
  MaxTimeouts,  \* bound: requests that time out
  MaxEvents     \* bound: DRAM timeouts, resets of the core, restarts of the helper
                \* and bytes the game changes

ASSUME MisterAssumption ==
  /\ Addrs # {} /\ Rom \notin Addrs /\ 0 \in Vals
  /\ \A list \in Reads : list \in Seq(Addrs \cup {Rom}) /\ Len(list) <= Slots
  /\ \A pairs \in Writes : pairs \in Seq((Addrs \cup {Rom}) \X Vals) /\ Len(pairs) <= Slots
  /\ {Slots, WordVals, MaxSeq} \subseteq Nat \ {0}
  /\ {MaxOps, MaxTimeouts, MaxEvents} \subseteq Nat

VARIABLES
  op,        \* each connection: where its handler is, what it asked, what it has
  hp,        \* the helper: _request_id, _write_seq (and has it been
             \* restarted, or asked twice at a time)
  dd,        \* DDRAM: address list, value cache, write mailbox
  fp,        \* the core's mirror
  ram,       \* CPU RAM
  offered,   \* what the core could have fetched for a connection since it asked
  applied,   \* pairs the core has written since a connection asked
  asked,     \* pairs anyone has asked to write
  left       \* what is left of each bound

misterVars == <<op, hp, dd, fp, ram, offered, applied, asked, left>>

Lens == 0 .. Slots
Pair == Addrs \X Vals
Idle == [pc |-> "idle", seq |-> 0, count |-> 0, i |-> 1, buf |-> <<>>, word |-> 1, status |-> "ok"]
NoOp == [pc |-> "done", list |-> <<>>, tag |-> 0, i |-> 1, got |-> <<>>, res |-> "none"]
Busy(c) == op[c].pc # "done"

MisterTypeOK ==
  /\ \A c \in Clients :
       /\ op[c].pc \in {"done", "list", "rctrl", "rpoll", "values", "pairs", "wctrl", "wpoll"}
       /\ op[c].list \in Reads \cup Writes \cup {<<>>} /\ op[c].tag \in 0 .. MaxOps
       /\ op[c].i \in 1 .. Slots + 1 /\ op[c].res \in {"none", "ok", "timeout", "failed"}
       /\ Len(op[c].got) <= Len(op[c].list)
  /\ hp.id \in 0 .. MaxOps /\ hp.seq \in 0 .. MaxSeq
  /\ dd.addrs \in [1 .. Slots -> Addrs \cup {Rom}] /\ dd.vals \in [1 .. Slots -> Vals]
  /\ dd.actrl \in Lens \X (0 .. MaxOps) /\ dd.vctrl \in 0 .. MaxOps
  /\ dd.pairs \in [1 .. Slots -> Pair]
  /\ dd.mctrl \in [seq : 0 .. MaxSeq, count : Lens, ack : 0 .. MaxSeq, status : {"ok", "bad"}]
  /\ fp.cur.pc \in {"idle", "fetch", "flush", "resp", "apply", "ack"}
  /\ fp.lastSeen \in 0 .. MaxSeq
  /\ ram \in [Addrs -> Vals]

MisterInit ==
  /\ op = [c \in Clients |-> NoOp]
  /\ hp = [id |-> 0, seq |-> 0, disturbed |-> FALSE]
  /\ dd = [addrs |-> [i \in 1 .. Slots |-> Rom], actrl |-> <<0, 0>>,
           vals |-> [i \in 1 .. Slots |-> 0], vctrl |-> 0,
           pairs |-> [i \in 1 .. Slots |-> <<CHOOSE a \in Addrs : TRUE, 0>>],
           mctrl |-> [seq |-> 0, count |-> 0, ack |-> 0, status |-> "ok"]]
  /\ fp = [cur |-> Idle, lastSeen |-> 0]
  /\ ram = [a \in Addrs |-> 0]
  /\ offered = [c \in Clients |-> [a \in Addrs \cup {Rom} |-> {}]]
  /\ applied = [c \in Clients |-> {}] /\ asked = {}
  /\ left = [ops |-> MaxOps, timeouts |-> MaxTimeouts, events |-> MaxEvents]

-----------------------------------------------------------------------------
(* The helper's request handlers *)

\* A handler starts, perhaps while another one is busy.
Begin(c, o, id, seq) ==
  /\ left.ops > 0 /\ left' = [left EXCEPT !.ops = @ - 1]
  /\ op' = [op EXCEPT ![c] = o]
  /\ hp' = [id |-> id, seq |-> seq,
            disturbed |-> hp.disturbed \/ \E d \in Clients : Busy(d)]

\* A handler is over: the ghosts of the connection start afresh.
Return(c, o) ==
  /\ op' = [op EXCEPT ![c] = o]
  /\ offered' = [offered EXCEPT ![c] = [a \in DOMAIN @ |-> {}]]
  /\ applied' = [applied EXCEPT ![c] = {}]

\* read_ranges and read_byte: an empty list is answered at once.
ReadRanges(c, list) ==
  /\ ~Busy(c)
  /\ IF list = <<>>
     THEN Begin(c, [NoOp EXCEPT !.res = "ok"], hp.id, hp.seq)
     ELSE Begin(c, [NoOp EXCEPT !.pc = "list", !.list = list, !.tag = hp.id + 1], hp.id + 1, hp.seq)
  /\ UNCHANGED <<dd, fp, ram, offered, applied, asked>>

\* What the core reads at an address: 0 where it has no RAM.
Fetched(a) == IF a \in Addrs THEN ram[a] ELSE 0

\* One word of the address list, and the control word after the last.
PutAddr(c) ==
  /\ op[c].pc = "list"
  /\ dd' = [dd EXCEPT !.addrs[op[c].i] = op[c].list[op[c].i]]
  /\ op' = [op EXCEPT ![c].i = @ + 1,
                      ![c].pc = IF op[c].i = Len(op[c].list) THEN "rctrl" ELSE "list"]
  /\ UNCHANGED <<hp, fp, ram, offered, applied, asked, left>>

PutAddrCtrl(c) ==
  /\ op[c].pc = "rctrl"
  /\ dd' = [dd EXCEPT !.actrl = <<Len(op[c].list), op[c].tag>>]
  /\ op' = [op EXCEPT ![c].pc = "rpoll", ![c].i = 1]
  /\ offered' = [offered EXCEPT ![c] = [a \in DOMAIN @ |-> {Fetched(a)}]]
  /\ UNCHANGED <<hp, fp, ram, applied, asked, left>>

\* Mutant: any new answer of the core is taken for this request's.
ResponseAny(o) == dd.vctrl # 0

ResponseHere(o) == dd.vctrl = o.tag

SeeResponse(c) ==
  /\ op[c].pc = "rpoll" /\ ResponseHere(op[c])
  /\ op' = [op EXCEPT ![c].pc = "values"]
  /\ UNCHANGED <<hp, dd, fp, ram, offered, applied, asked, left>>

\* _read_values, one word at a time.
ReadValue(c) ==
  LET o == [op[c] EXCEPT !.i = @ + 1, !.got = Append(@, dd.vals[op[c].i])]
  IN  /\ op[c].pc = "values"
      /\ IF op[c].i < Len(op[c].list)
         THEN op' = [op EXCEPT ![c] = o] /\ UNCHANGED <<offered, applied>>
         ELSE Return(c, [o EXCEPT !.pc = "done", !.res = "ok"])
      /\ UNCHANGED <<hp, dd, fp, ram, asked, left>>

\* The 300 ms of a read or the 100 ms of a write are over.
Timeout(c) ==
  /\ op[c].pc \in {"rpoll", "wpoll"} /\ left.timeouts > 0
  /\ left' = [left EXCEPT !.timeouts = @ - 1]
  /\ Return(c, [op[c] EXCEPT !.pc = "done", !.res = "timeout"])
  /\ UNCHANGED <<hp, dd, fp, ram, asked>>

\* Mutant: the sequence number outgrows its byte.
NextSeqUnwrapped(s) == s + 1

NextSeq(s) == IF s + 1 > MaxSeq THEN 1 ELSE s + 1

\* _validate_write_pairs: one address outside CPU RAM fails the request.
Valid(pairs) == \A i \in 1 .. Len(pairs) : pairs[i][1] \in Addrs

WritePairs(c, pairs) ==
  /\ ~Busy(c)
  /\ IF pairs = <<>> \/ ~Valid(pairs)
     THEN /\ Begin(c, [NoOp EXCEPT !.res = IF Valid(pairs) THEN "ok" ELSE "failed"],
                   hp.id, hp.seq)
          /\ UNCHANGED asked
     ELSE /\ asked' = asked \cup ToSet(pairs)
          /\ Begin(c, [NoOp EXCEPT !.pc = "pairs", !.list = pairs, !.tag = NextSeq(hp.seq)],
                   hp.id, NextSeq(hp.seq))
  /\ UNCHANGED <<dd, fp, ram, offered, applied>>

\* Mutant: the control word is written before the pairs.
AfterPairEarly(o) == IF o.i = 1 THEN "wctrl" ELSE "wpoll"

AfterPair(o) == IF o.i = Len(o.list) THEN "wctrl" ELSE "pairs"

PutPair(c) ==
  /\ op[c].pc = "pairs"
  /\ dd' = [dd EXCEPT !.pairs[op[c].i] = op[c].list[op[c].i]]
  /\ op' = [op EXCEPT ![c].i = @ + 1, ![c].pc = AfterPair(op[c])]
  /\ UNCHANGED <<hp, fp, ram, offered, applied, asked, left>>

\* Mutant: the old acknowledgement survives the new request.
MailCtrlKeepsAck(o) == [dd.mctrl EXCEPT !.seq = o.tag, !.count = Len(o.list)]

\* sequence | count << 8: the acknowledgement and the status become 0.
MailCtrl(o) == [seq |-> o.tag, count |-> Len(o.list), ack |-> 0, status |-> "ok"]

PutMailCtrl(c) ==
  /\ op[c].pc = "wctrl"
  /\ dd' = [dd EXCEPT !.mctrl = MailCtrl(op[c])]
  /\ op' = [op EXCEPT ![c].pc = "wpoll"]
  /\ UNCHANGED <<hp, fp, ram, offered, applied, asked, left>>

AckResult(status) == IF status = "ok" THEN "ok" ELSE "failed"

SeeAck(c) ==
  /\ op[c].pc = "wpoll" /\ dd.mctrl.ack = op[c].tag
  /\ Return(c, [op[c] EXCEPT !.pc = "done", !.res = AckResult(dd.mctrl.status)])
  /\ UNCHANGED <<hp, dd, fp, ram, asked, left>>

\* Deployment restarts the helper; every connection breaks, the counters start
\* at 0 and DDRAM stays as it is.
HelperRestart ==
  /\ left.events > 0 /\ left' = [left EXCEPT !.events = @ - 1]
  /\ hp' = [id |-> 0, seq |-> 0, disturbed |-> TRUE]
  /\ op' = [c \in Clients |-> NoOp]
  /\ offered' = [c \in Clients |-> [a \in Addrs \cup {Rom} |-> {}]]
  /\ applied' = [c \in Clients |-> {}]
  /\ UNCHANGED <<dd, fp, ram, asked>>

-----------------------------------------------------------------------------
(* The core *)

SetFp(cur) == fp' = [fp EXCEPT !.cur = cur]

\* While a read waits, the values RAM takes are values it may be answered with.
Offer(a, v) ==
  offered' = [c \in Clients |->
                IF op[c].pc \in {"rpoll", "values"} THEN [offered[c] EXCEPT ![a] = @ \cup {v}]
                ELSE offered[c]]

\* VBlank: the current request is answered again, new or not.
VBlank ==
  /\ fp.cur.pc = "idle"
  /\ SetFp([Idle EXCEPT !.pc = IF dd.actrl[1] = 0 THEN "resp" ELSE "fetch",
                        !.count = dd.actrl[1], !.seq = dd.actrl[2]])
  /\ UNCHANGED <<op, hp, dd, ram, offered, applied, asked, left>>

\* One byte is fetched into the collect buffer; SDRAM may time out, which reads 0.
Fetch ==
  LET a == dd.addrs[fp.cur.i]
      Store(v) == LET b == Append(fp.cur.buf, v)
                  IN  SetFp([fp.cur EXCEPT
                        !.i = @ + 1, !.buf = b,
                        !.pc = IF Len(b) = WordVals \/ fp.cur.i >= fp.cur.count
                               THEN "flush" ELSE "fetch"])
  IN  /\ fp.cur.pc = "fetch"
      /\ \/ Store(Fetched(a)) /\ UNCHANGED <<offered, left>>
         \/ /\ a \in Addrs /\ left.events > 0
            /\ left' = [left EXCEPT !.events = @ - 1]
            /\ Store(0) /\ Offer(a, 0)
      /\ UNCHANGED <<op, hp, dd, ram, applied, asked>>

\* DDRAM with the collect buffer written to the value cache.
Flushed ==
  LET w == fp.cur.word
  IN  [dd EXCEPT !.vals = [i \in 1 .. Slots |-> IF i \in w .. w + Len(fp.cur.buf) - 1
                                               THEN fp.cur.buf[i - w + 1] ELSE @[i]]]

Flush ==
  /\ fp.cur.pc = "flush"
  /\ dd' = Flushed
  /\ SetFp([fp.cur EXCEPT !.buf = <<>>, !.word = @ + Len(fp.cur.buf),
              !.pc = IF fp.cur.i > fp.cur.count THEN "resp" ELSE "fetch"])
  /\ UNCHANGED <<op, hp, ram, offered, applied, asked, left>>

\* The id of the request goes into the control word after its values.
WriteResp ==
  /\ fp.cur.pc = "resp"
  /\ dd' = [dd EXCEPT !.vctrl = fp.cur.seq]
  /\ SetFp(Idle)
  /\ UNCHANGED <<op, hp, ram, offered, applied, asked, left>>

\* S_WR_PARSE: a new sequence number, pairs, and not yet acknowledged.
Accepted(m) == m.seq # fp.lastSeen /\ m.count # 0 /\ m.ack = 0

PollMailbox ==
  /\ fp.cur.pc = "idle" /\ Accepted(dd.mctrl)
  /\ SetFp([Idle EXCEPT !.pc = "apply", !.seq = dd.mctrl.seq, !.count = dd.mctrl.count])
  /\ UNCHANGED <<op, hp, dd, ram, offered, applied, asked, left>>

\* One pair; SDRAM may time out, the byte written or not, and the status says so.
ApplyPair ==
  LET p == dd.pairs[fp.cur.i]
      Step(status) == SetFp([fp.cur EXCEPT !.i = @ + 1, !.status = status,
                               !.pc = IF fp.cur.i >= fp.cur.count THEN "ack" ELSE "apply"])
      Write == /\ ram' = [ram EXCEPT ![p[1]] = p[2]] /\ Offer(p[1], p[2])
               /\ applied' = [c \in Clients |-> IF op[c].pc = "wpoll" THEN applied[c] \cup {p}
                                                ELSE applied[c]]
  IN  /\ fp.cur.pc = "apply"
      /\ \/ Step(fp.cur.status) /\ Write /\ UNCHANGED left
         \/ /\ left.events > 0 /\ left' = [left EXCEPT !.events = @ - 1]
            /\ Step("bad") /\ (Write \/ UNCHANGED <<ram, offered, applied>>)
      /\ UNCHANGED <<op, hp, dd, asked>>

\* The whole control word is written: sequence, count, acknowledgement, status.
WriteAck ==
  /\ fp.cur.pc = "ack"
  /\ fp' = [cur |-> Idle, lastSeen |-> fp.cur.seq]
  /\ dd' = [dd EXCEPT !.mctrl = [seq |-> fp.cur.seq, count |-> fp.cur.count,
                                 ack |-> fp.cur.seq, status |-> fp.cur.status]]
  /\ UNCHANGED <<op, hp, ram, offered, applied, asked, left>>

\* A DDRAM access times out and the core drops what it was doing.  The request stays
\* with the arbiter, which serves it late: a write is still made, so that a timeout of
\* the response or of the acknowledgement is WriteResp or WriteAck.
DdramTimeout ==
  /\ fp.cur.pc \in {"fetch", "flush", "apply"} /\ left.events > 0
  /\ left' = [left EXCEPT !.events = @ - 1]
  /\ dd' = IF fp.cur.pc = "flush" THEN Flushed ELSE dd
  /\ SetFp(Idle)
  /\ UNCHANGED <<op, hp, ram, offered, applied, asked>>

CoreReset ==
  /\ left.events > 0 /\ left' = [left EXCEPT !.events = @ - 1]
  /\ fp' = [cur |-> Idle, lastSeen |-> 0]
  /\ UNCHANGED <<op, hp, dd, ram, offered, applied, asked>>

\* The game itself changes a byte.
GameWrites(a, v) ==
  /\ left.events > 0 /\ left' = [left EXCEPT !.events = @ - 1]
  /\ ram' = [ram EXCEPT ![a] = v] /\ Offer(a, v)
  /\ UNCHANGED <<op, hp, dd, fp, applied, asked>>

Handler(c) ==
  \/ PutAddr(c) \/ PutAddrCtrl(c) \/ SeeResponse(c) \/ ReadValue(c) \/ Timeout(c)
  \/ PutPair(c) \/ PutMailCtrl(c) \/ SeeAck(c)

Core == VBlank \/ Fetch \/ Flush \/ WriteResp \/ PollMailbox \/ ApplyPair \/ WriteAck

MisterNext ==
  \/ \E c \in Clients : \/ Handler(c)
                        \/ \E list \in Reads : ReadRanges(c, list)
                        \/ \E pairs \in Writes : WritePairs(c, pairs)
  \/ HelperRestart \/ Core \/ DdramTimeout \/ CoreReset
  \/ \E a \in Addrs, v \in Vals : GameWrites(a, v)
=============================================================================
