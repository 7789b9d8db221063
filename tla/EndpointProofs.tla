-------------------------- MODULE EndpointProofs --------------------------
(* What the helper and the core of a MiSTer owe a session, for any requests, *)
(* connections, word size and bounds, and the types of both endpoints.       *)
EXTENDS EndpointProps, WellFoundedInduction, SequenceTheorems, TLAPS

-----------------------------------------------------------------------------
(* The inductive invariant *)

ReadPcs == {"list", "rctrl", "rpoll", "values"}
WritePcs == {"pairs", "wctrl", "wpoll"}
AnyAddr == Addrs \cup {Rom}

\* What each variable ranges over.
Op == [pc : {"done"} \cup ReadPcs \cup WritePcs, list : Reads \cup Writes \cup {<<>>},
       tag : 0 .. MaxOps, i : 1 .. Slots + 1, got : Seq(Vals),
       res : {"none", "ok", "timeout", "failed"}]
Hp == [id : 0 .. MaxOps, seq : 0 .. MaxSeq, disturbed : BOOLEAN]
Mctrl == [seq : 0 .. MaxSeq, count : Lens, ack : 0 .. MaxSeq, status : {"ok", "bad"}]
Dd == [addrs : [1 .. Slots -> AnyAddr], actrl : Lens \X (0 .. MaxOps), vals : [1 .. Slots -> Vals],
       vctrl : 0 .. MaxOps, pairs : [1 .. Slots -> Pair], mctrl : Mctrl]
Cur == [pc : {"idle", "fetch", "flush", "resp", "apply", "ack"}, seq : Nat, count : Lens,
        i : 1 .. Slots + 1, buf : Seq(Vals), word : 1 .. Slots + 1, status : {"ok", "bad"}]
Left == [ops : 0 .. MaxOps, timeouts : 0 .. MaxTimeouts, events : 0 .. MaxEvents]
Shapes ==
  /\ op \in [Clients -> Op] /\ hp \in Hp /\ dd \in Dd
  /\ fp \in [cur : Cur, lastSeen : 0 .. MaxSeq]
  /\ ram \in [Addrs -> Vals] /\ left \in Left
  /\ offered \in [Clients -> [AnyAddr -> SUBSET Vals]]
  /\ applied \in [Clients -> SUBSET Pair] /\ asked \in SUBSET Pair

\* A request is counted before it has a number.
Counted == hp.id + left.ops <= MaxOps /\ hp.seq + left.ops <= MaxOps

\* How far a handler is with its list.
OpOK(o) ==
  /\ o.pc \in ReadPcs => o.list \in Reads \ {<<>>}
  /\ o.pc \in WritePcs => o.list \in Writes \ {<<>>} /\ Valid(o.list) /\ o.tag \in 1 .. MaxSeq
  /\ o.pc \in {"list", "values", "pairs"} => o.i <= Len(o.list)
  /\ o.pc \in {"wctrl"} => o.i = Len(o.list) + 1
  /\ o.pc \in {"list", "rctrl", "rpoll"} \cup WritePcs => o.got = <<>>
  /\ o.pc = "rpoll" => o.i = 1
  /\ o.pc = "values" => Len(o.got) = o.i - 1
  /\ Len(o.got) <= Len(o.list)

Answering == fp.cur.pc \in {"fetch", "flush", "resp"}
Applying == fp.cur.pc \in {"apply", "ack"}

\* How far the core is with its job.
CurOK ==
  LET j == fp.cur
  IN /\ Answering => j.seq <= MaxOps /\ j.word + Len(j.buf) = j.i /\ j.i <= j.count + 1
     /\ Applying => j.seq \in 1 .. MaxSeq /\ j.i <= j.count + 1 /\ dd.mctrl.ack = 0
     /\ j.pc \in {"fetch", "apply"} => j.i <= j.count
     /\ j.pc \in {"resp", "ack"} => j.i = j.count + 1
     /\ j.pc = "resp" => j.buf = <<>>

MailOK == dd.mctrl.count # 0 => dd.mctrl.seq \in 1 .. MaxSeq

Base == Shapes /\ Counted /\ (\A c \in Clients : OpOK(op[c])) /\ CurOK /\ MailOK

\* Every slot of the mailbox a control word covers, or will cover, holds a pair
\* somebody asked for.
AskedUpTo(n) == \A k \in 1 .. n : dd.pairs[k] \in asked
AskedBy(c) ==
  /\ op[c].pc \in WritePcs => ToSet(op[c].list) \subseteq asked
  /\ op[c].pc \in {"pairs", "wctrl"} => AskedUpTo(op[c].i - 1)
Asked ==
  /\ \A c \in Clients : AskedBy(c)
  /\ AskedUpTo(dd.mctrl.count)
  /\ Applying => AskedUpTo(fp.cur.count)

\* The helper serves one connection at a time.
Alone == \A c, d \in Clients : Busy(c) /\ Busy(d) => c = d

\* Ids are never used again: what the core and DDRAM know is not ahead of the helper.
Numbered ==
  /\ dd.actrl[2] <= hp.id /\ dd.vctrl <= hp.id /\ (Answering => fp.cur.seq <= hp.id)
  /\ \A c \in Clients :
       /\ op[c].pc \in ReadPcs => op[c].tag = hp.id
       /\ op[c].pc \in {"list", "rctrl"} =>
            dd.actrl[2] < hp.id /\ dd.vctrl < hp.id /\ (Answering => fp.cur.seq < hp.id)

\* A read in progress: the list is posted, and a value of an answer that has its id
\* is one that was offered.
Listed(c) == \A k \in 1 .. Len(op[c].list) : k < op[c].i => dd.addrs[k] = op[c].list[k]
Posted(c) ==
  LET list == op[c].list
      offer(k) == offered[c][list[k]]
      j == fp.cur
  IN /\ \A k \in 1 .. Len(list) : dd.addrs[k] = list[k]
     /\ dd.actrl = <<Len(list), op[c].tag>>
     /\ \A a \in AnyAddr : Fetched(a) \in offered[c][a]
     /\ Answering /\ j.seq = op[c].tag =>
          /\ j.count = Len(list)
          /\ \A k \in 1 .. Len(list) : k < j.word => dd.vals[k] \in offer(k)
          /\ \A k \in 1 .. Len(j.buf) : j.buf[k] \in offer(j.word + k - 1)
     /\ dd.vctrl = op[c].tag =>
          /\ \A k \in 1 .. Len(list) : dd.vals[k] \in offer(k)
          /\ Answering => j.seq = op[c].tag
     /\ op[c].pc = "values" =>
          dd.vctrl = op[c].tag /\ \A k \in 1 .. Len(op[c].got) : op[c].got[k] \in offer(k)
Reading == \A c \in Clients :
  /\ op[c].pc \in {"list", "rctrl"} => Listed(c)
  /\ op[c].pc = "rctrl" => op[c].i = Len(op[c].list) + 1
  /\ op[c].pc \in {"rpoll", "values"} => Posted(c)

\* The numbers of the writes the core may still carry out: each write since then
\* has timed out.
After(s, n) == IF s + n > MaxSeq THEN s + n - MaxSeq ELSE s + n
Used == MaxTimeouts - left.timeouts
Idling == \A c \in Clients : op[c].pc \notin WritePcs
Behind(s) == \E n \in 0 .. Used : hp.seq = After(s, n) /\ (Idling => n < Used)
Waiting == dd.mctrl.count # 0 /\ dd.mctrl.ack = 0
Recent == (Applying => Behind(fp.cur.seq)) /\ (Waiting => Behind(dd.mctrl.seq))

\* A write in progress: the pairs are in the mailbox, and an acknowledgement that
\* has its number, with status ok, comes from a job that wrote them.
Mailed(c) == \A k \in 1 .. Len(op[c].list) : k < op[c].i => dd.pairs[k] = op[c].list[k]
Sent(c) ==
  LET list == op[c].list
      j == fp.cur
  IN /\ \A k \in 1 .. Len(list) : dd.pairs[k] = list[k]
     /\ Waiting /\ dd.mctrl.seq = op[c].tag => dd.mctrl.count = Len(list)
     /\ Applying /\ j.seq = op[c].tag /\ j.status = "ok" =>
          j.count = Len(list) /\ \A k \in 1 .. Len(list) : k < j.i => list[k] \in applied[c]
     /\ dd.mctrl.ack = op[c].tag /\ dd.mctrl.status = "ok" => ToSet(list) \subseteq applied[c]
Writing == \A c \in Clients :
  /\ op[c].pc \in WritePcs => op[c].tag = hp.seq
  /\ op[c].pc \in {"pairs", "wctrl"} =>
       /\ Mailed(c) /\ (Applying => fp.cur.seq # op[c].tag)
       /\ Waiting => dd.mctrl.seq # op[c].tag
  /\ op[c].pc = "wpoll" => Sent(c)

MisterInv == Base /\ Asked /\ (~hp.disturbed => Alone /\ Numbered /\ Reading)
WriteInv == MisterInv /\ (~hp.disturbed => Recent /\ Writing)

-----------------------------------------------------------------------------
(* Types and progress *)

\* The constants as the steps below use them.
LEMMA Params ==
  /\ Slots \in Nat /\ Slots >= 1 /\ WordVals \in Nat /\ WordVals >= 1 /\ MaxSeq \in Nat /\ MaxSeq >= 1
  /\ MaxOps \in Nat /\ MaxTimeouts \in Nat /\ MaxEvents \in Nat
BY MisterAssumption

\* The lists of requests fit into DDRAM.
LEMMA ListTypes ==
  /\ \A list \in Reads \cup Writes \cup {<<>>} : Len(list) \in 0 .. Slots /\ DOMAIN list = 1 .. Len(list)
  /\ \A list \in (Reads \cup Writes) \ {<<>>} : Len(list) >= 1
  /\ \A list \in Reads : \A k \in 1 .. Len(list) : list[k] \in AnyAddr
  /\ \A list \in Writes : Valid(list) => \A k \in 1 .. Len(list) : list[k] \in Pair
<1>1. \A list \in Reads \cup Writes \cup {<<>>} : Len(list) \in 0 .. Slots /\ DOMAIN list = 1 .. Len(list)
  BY MisterAssumption
<1>2. \A list \in (Reads \cup Writes) \ {<<>>} : Len(list) >= 1
  BY MisterAssumption
<1>3. \A list \in Reads : \A k \in 1 .. Len(list) : list[k] \in AnyAddr
  BY MisterAssumption DEF AnyAddr
<1>4. ASSUME NEW list \in Writes, Valid(list), NEW k \in 1 .. Len(list) PROVE list[k] \in Pair
  <2>1. list[k] \in AnyAddr \X Vals
    BY MisterAssumption DEF AnyAddr
  <2>2. list[k][1] \in Addrs
    BY <1>4 DEF Valid
  <2> QED  BY <2>1, <2>2 DEF Pair
<1> QED  BY <1>1, <1>2, <1>3, <1>4

\* One handler's record is replaced.
LEMMA OpSet ==
  ASSUME op \in [Clients -> Op], NEW c \in Clients, NEW o \in Op, op' = [op EXCEPT ![c] = o]
  PROVE  op' \in [Clients -> Op] /\ op'[c] = o /\ \A d \in Clients \ {c} : op'[d] = op[d]
OBVIOUS

\* A step of a handler that leaves a sound record behind, and the core alone.
LEMMA HandlerKeeps ==
  ASSUME Base, NEW c \in Clients, NEW o \in Op, OpOK(o), op' = [op EXCEPT ![c] = o],
         hp' \in Hp, left' \in Left, Counted', dd' \in Dd, MailOK',
         dd'.mctrl.ack \in {0, dd.mctrl.ack},
         offered' \in [Clients -> [AnyAddr -> SUBSET Vals]], applied' \in [Clients -> SUBSET Pair],
         asked' \in SUBSET Pair, UNCHANGED <<fp, ram>>
  PROVE  Base' /\ op'[c] = o /\ \A d \in Clients \ {c} : op'[d] = op[d]
<1>1. op' \in [Clients -> Op] /\ op'[c] = o /\ \A d \in Clients \ {c} : op'[d] = op[d]
  BY OpSet DEF Base, Shapes
<1>2. Shapes'
  BY <1>1 DEF Base, Shapes
<1>3. \A d \in Clients : OpOK(op'[d])
  BY <1>1 DEF Base
<1>4. CurOK'
  BY DEF Base, CurOK, Answering, Applying
<1> QED  BY <1>1, <1>2, <1>3, <1>4 DEF Base, OpOK

\* What Return does to the ghosts.
LEMMA ReturnTypes ==
  ASSUME Shapes, NEW c \in Clients, NEW o, Return(c, o)
  PROVE  /\ op' = [op EXCEPT ![c] = o]
         /\ offered' \in [Clients -> [AnyAddr -> SUBSET Vals]] /\ applied' \in [Clients -> SUBSET Pair]
         /\ \A d \in Clients \ {c} : offered'[d] = offered[d] /\ applied'[d] = applied[d]
BY DEF Return, Shapes

\* The steps of a handler, as one record for another.
NewOp(c) ==
  LET o == op[c]
  IN CASE o.pc = "list" -> [o EXCEPT !.i = o.i + 1, !.pc = IF o.i = Len(o.list) THEN "rctrl" ELSE "list"]
       [] o.pc = "rctrl" -> [o EXCEPT !.pc = "rpoll", !.i = 1]
       [] o.pc = "pairs" -> [o EXCEPT !.i = o.i + 1, !.pc = AfterPair(o)]
       [] o.pc = "wctrl" -> [o EXCEPT !.pc = "wpoll"]
       [] OTHER -> o

\* The four steps that fill DDRAM keep the types.
LEMMA FillBase ==
  ASSUME Base, NEW c \in Clients,
         PutAddr(c) \/ PutAddrCtrl(c) \/ PutPair(c) \/ PutMailCtrl(c)
  PROVE  Base' /\ op'[c] = NewOp(c) /\ \A d \in Clients \ {c} : op'[d] = op[d]
<1> DEFINE o == op[c]
<1>1. Shapes /\ OpOK(o) /\ o \in Op /\ Counted /\ MailOK
  BY DEF Base, Shapes
<1>2. o.list \in Reads \cup Writes \cup {<<>>} /\ Len(o.list) \in 0 .. Slots /\ o.i \in 1 .. Slots + 1
  BY <1>1, ListTypes DEF Op
<1>3. CASE PutAddr(c)
  <2>1. o.pc = "list" /\ o.i \in 1 .. Len(o.list) /\ o.list \in Reads
    BY <1>1, <1>2, <1>3 DEF PutAddr, OpOK, ReadPcs
  <2>2. o.list[o.i] \in AnyAddr /\ o.i \in 1 .. Slots /\ o.i + 1 \in 1 .. Slots + 1
    BY <1>2, <2>1, ListTypes, Params
  <2>3. dd' \in Dd /\ dd'.mctrl = dd.mctrl
    BY <1>1, <1>3, <2>2 DEF PutAddr, Shapes, Dd
  <2> DEFINE n == [o EXCEPT !.i = o.i + 1, !.pc = IF o.i = Len(o.list) THEN "rctrl" ELSE "list"]
  <2>4. n \in Op /\ OpOK(n)
    <3>1. n \in Op
      BY <1>1, <2>2 DEF Op, ReadPcs
    <3>2. n.list = o.list /\ n.got = o.got /\ n.i = o.i + 1 /\ n.pc = IF o.i = Len(o.list) THEN "rctrl" ELSE "list"
      BY <1>1 DEF Op
    <3> QED  BY <1>1, <1>2, <2>1, <3>1, <3>2 DEF OpOK, ReadPcs, WritePcs
  <2>5. op' = [op EXCEPT ![c] = n] /\ UNCHANGED <<hp, fp, ram, offered, applied, asked, left>>
    BY <1>1, <1>3 DEF PutAddr, Shapes
  <2>6. n = NewOp(c)
    BY <2>1 DEF NewOp
  <2> HIDE DEF n, o
  <2> QED  BY <1>1, <2>3, <2>4, <2>5, <2>6, HandlerKeeps DEF Shapes, Counted, MailOK
<1>4. CASE PutAddrCtrl(c)
  <2>1. o.pc = "rctrl" /\ o.list \in Reads
    BY <1>1, <1>4 DEF PutAddrCtrl, OpOK, ReadPcs
  <2>2. o.tag \in 0 .. MaxOps /\ 1 \in 1 .. Slots + 1
    BY <1>1, Params DEF Op
  <2>3. dd' \in Dd /\ dd'.mctrl = dd.mctrl
    BY <1>1, <1>2, <1>4, <2>2 DEF PutAddrCtrl, Shapes, Dd, Lens
  <2> DEFINE n == [o EXCEPT !.pc = "rpoll", !.i = 1]
  <2>4. n \in Op /\ OpOK(n)
    <3>1. n \in Op
      BY <1>1, <2>2 DEF Op, ReadPcs
    <3>2. n.list = o.list /\ n.got = o.got /\ n.i = 1 /\ n.pc = "rpoll"
      BY <1>1 DEF Op
    <3> QED  BY <1>1, <1>2, <2>1, <3>1, <3>2 DEF OpOK, ReadPcs, WritePcs
  <2>5. op' = [op EXCEPT ![c] = n] /\ UNCHANGED <<hp, fp, ram, applied, asked, left>>
    BY <1>1, <1>4 DEF PutAddrCtrl, Shapes
  <2>6. n = NewOp(c)
    BY <2>1 DEF NewOp
  <2>7. offered' \in [Clients -> [AnyAddr -> SUBSET Vals]]
    <3>1. \A a \in AnyAddr : Fetched(a) \in Vals
      BY <1>1, MisterAssumption DEF Fetched, Shapes
    <3> QED  BY <1>1, <1>4, <3>1 DEF PutAddrCtrl, Shapes
  <2> HIDE DEF n, o
  <2> QED  BY <1>1, <2>3, <2>4, <2>5, <2>6, <2>7, HandlerKeeps DEF Shapes, Counted, MailOK
<1>5. CASE PutPair(c)
  <2>1. o.pc = "pairs" /\ o.i \in 1 .. Len(o.list) /\ o.list \in Writes \ {<<>>} /\ Valid(o.list)
    BY <1>1, <1>2, <1>5 DEF PutPair, OpOK, WritePcs
  <2>2. o.list[o.i] \in Pair /\ o.i \in 1 .. Slots /\ o.i + 1 \in 1 .. Slots + 1
    BY <1>2, <2>1, ListTypes, Params
  <2>3. dd' \in Dd /\ dd'.mctrl = dd.mctrl
    BY <1>1, <1>5, <2>2 DEF PutPair, Shapes, Dd
  <2> DEFINE n == [o EXCEPT !.i = o.i + 1, !.pc = AfterPair(o)]
  <2>4. n \in Op /\ OpOK(n)
    <3>1. n \in Op
      BY <1>1, <2>2 DEF Op, WritePcs, AfterPair
    <3>2. n.list = o.list /\ n.got = o.got /\ n.i = o.i + 1 /\ n.tag = o.tag /\ n.pc = IF o.i = Len(o.list) THEN "wctrl" ELSE "pairs"
      BY <1>1 DEF Op, AfterPair
    <3> QED  BY <1>1, <1>2, <2>1, <3>1, <3>2 DEF OpOK, ReadPcs, WritePcs
  <2>5. op' = [op EXCEPT ![c] = n] /\ UNCHANGED <<hp, fp, ram, offered, applied, asked, left>>
    BY <1>1, <1>5 DEF PutPair, Shapes
  <2>6. n = NewOp(c)
    BY <2>1 DEF NewOp
  <2> HIDE DEF n, o
  <2> QED  BY <1>1, <2>3, <2>4, <2>5, <2>6, HandlerKeeps DEF Shapes, Counted, MailOK
<1>6. CASE PutMailCtrl(c)
  <2>1. o.pc = "wctrl" /\ o.list \in Writes \ {<<>>} /\ Valid(o.list) /\ o.tag \in 1 .. MaxSeq
    BY <1>1, <1>6 DEF PutMailCtrl, OpOK, WritePcs
  <2>2. /\ dd' = [dd EXCEPT !.mctrl = MailCtrl(o)] /\ MailCtrl(o) \in Mctrl
        /\ MailCtrl(o).ack = 0 /\ MailCtrl(o).seq \in 1 .. MaxSeq
    BY <1>2, <1>6, <2>1, Params DEF PutMailCtrl, MailCtrl, Mctrl, Lens
  <2>3. dd' \in Dd /\ dd'.mctrl = MailCtrl(o)
    BY <1>1, <2>2 DEF Shapes, Dd
  <2> DEFINE n == [o EXCEPT !.pc = "wpoll"]
  <2>4. n \in Op /\ OpOK(n)
    <3>1. n \in Op
      BY <1>1 DEF Op, WritePcs
    <3>2. n.list = o.list /\ n.got = o.got /\ n.i = o.i /\ n.tag = o.tag /\ n.pc = "wpoll"
      BY <1>1 DEF Op
    <3> QED  BY <1>1, <1>2, <2>1, <3>1, <3>2 DEF OpOK, ReadPcs, WritePcs
  <2>5. op' = [op EXCEPT ![c] = n] /\ UNCHANGED <<hp, fp, ram, offered, applied, asked, left>>
    BY <1>1, <1>6 DEF PutMailCtrl, Shapes
  <2>6. n = NewOp(c)
    BY <2>1 DEF NewOp
  <2>7. MailOK'
    BY <2>2, <2>3 DEF MailOK
  <2> HIDE DEF n, o
  <2> QED  BY <1>1, <2>2, <2>3, <2>4, <2>5, <2>6, <2>7, HandlerKeeps DEF Shapes, Counted
<1> QED  BY <1>3, <1>4, <1>5, <1>6

\* The steps that wait, read the answer, or give up keep the types.
LEMMA WaitBase ==
  ASSUME Base, NEW c \in Clients, SeeResponse(c) \/ ReadValue(c) \/ Timeout(c) \/ SeeAck(c)
  PROVE  /\ Base' /\ \A d \in Clients \ {c} : op'[d] = op[d]
         /\ op'[c].list = op[c].list /\ op'[c].tag = op[c].tag
         /\ SeeResponse(c) => op'[c] = [op[c] EXCEPT !.pc = "values"]
         /\ ReadValue(c) => /\ op'[c].i = op[c].i + 1
                            /\ op'[c].got = Append(op[c].got, dd.vals[op[c].i])
                            /\ op'[c].pc = IF op[c].i < Len(op[c].list) THEN "values" ELSE "done"
         /\ Timeout(c) \/ SeeAck(c) => op'[c].pc = "done"
<1> DEFINE o == op[c]
<1>1. Shapes /\ OpOK(o) /\ o \in Op /\ Counted /\ MailOK
  BY DEF Base, Shapes
<1>2. o.list \in Reads \cup Writes \cup {<<>>} /\ Len(o.list) \in 0 .. Slots /\ o.i \in 1 .. Slots + 1
  BY <1>1, ListTypes DEF Op
<1>3. CASE SeeResponse(c)
  <2> DEFINE n == [o EXCEPT !.pc = "values"]
  <2>1. o.pc = "rpoll" /\ o.list \in Reads \ {<<>>} /\ o.i = 1 /\ o.got = <<>>
    BY <1>1, <1>3 DEF SeeResponse, OpOK, ReadPcs
  <2>2. n \in Op /\ n.list = o.list /\ n.got = o.got /\ n.i = o.i /\ n.pc = "values" /\ n.tag = o.tag
    BY <1>1 DEF Op, ReadPcs
  <2>3. OpOK(n)
    BY <1>2, <2>1, <2>2, ListTypes DEF OpOK, ReadPcs, WritePcs
  <2>4. op' = [op EXCEPT ![c] = n] /\ UNCHANGED <<hp, dd, fp, ram, offered, applied, asked, left>>
    BY <1>1, <1>3 DEF SeeResponse, Shapes
  <2>5. ~ReadValue(c) /\ ~Timeout(c) /\ ~SeeAck(c)
    <3>1. op'[c].pc = "values"
      BY <1>1, <2>2, <2>4 DEF Shapes
    <3> QED  BY <1>1, <2>1, <2>4, <3>1 DEF ReadValue, Timeout, SeeAck, Return, Shapes, Left
  <2> HIDE DEF n, o
  <2>6. Base' /\ op'[c] = n /\ \A d \in Clients \ {c} : op'[d] = op[d]
    BY <1>1, <2>2, <2>3, <2>4, HandlerKeeps DEF Shapes, Counted, MailOK
  <2> QED  BY <2>2, <2>5, <2>6 DEF n, o
<1>4. CASE ReadValue(c)
  <2> DEFINE v == dd.vals[o.i]
             m == [o EXCEPT !.i = o.i + 1, !.got = Append(o.got, v)]
             n == IF o.i < Len(o.list) THEN m ELSE [m EXCEPT !.pc = "done", !.res = "ok"]
  <2>1. o.pc = "values" /\ o.list \in Reads /\ o.i \in 1 .. Len(o.list) /\ Len(o.got) = o.i - 1
    BY <1>1, <1>2, <1>4 DEF ReadValue, OpOK, ReadPcs
  <2>2. v \in Vals /\ o.i + 1 \in 1 .. Slots + 1
    BY <1>1, <1>2, <2>1, Params, SMTT(40) DEF Shapes, Dd
  <2>3. o.got \in Seq(Vals) /\ Append(o.got, v) \in Seq(Vals) /\ Len(Append(o.got, v)) = o.i
    <3>1. o.got \in Seq(Vals)
      BY <1>1 DEF Op
    <3> QED  BY <1>2, <2>1, <2>2, <3>1
  <2>4. /\ n \in Op /\ n.list = o.list /\ n.got = Append(o.got, v) /\ n.i = o.i + 1 /\ n.tag = o.tag
        /\ n.pc = IF o.i < Len(o.list) THEN "values" ELSE "done"
    BY <1>1, <2>1, <2>2, <2>3 DEF Op, ReadPcs
  <2>5. OpOK(n)
    BY <1>1, <1>2, <2>1, <2>3, <2>4 DEF OpOK, ReadPcs, WritePcs
  <2>6. /\ op' = [op EXCEPT ![c] = n] /\ UNCHANGED <<hp, dd, fp, ram, asked, left>>
        /\ offered' \in [Clients -> [AnyAddr -> SUBSET Vals]] /\ applied' \in [Clients -> SUBSET Pair]
    BY <1>1, <1>4, ReturnTypes DEF ReadValue, Shapes
  <2>7. ~SeeResponse(c) /\ ~Timeout(c) /\ ~SeeAck(c)
    BY <2>1 DEF SeeResponse, Timeout, SeeAck
  <2> HIDE DEF n, o, v
  <2>8. Base' /\ op'[c] = n /\ \A d \in Clients \ {c} : op'[d] = op[d]
    BY <1>1, <2>4, <2>5, <2>6, HandlerKeeps DEF Shapes, Counted, MailOK
  <2> QED  BY <2>4, <2>7, <2>8 DEF o, v
<1>5. CASE Timeout(c) \/ SeeAck(c)
  <2> DEFINE r == IF Timeout(c) THEN "timeout" ELSE AckResult(dd.mctrl.status)
             n == [o EXCEPT !.pc = "done", !.res = r]
  <2>1. o.pc \in {"rpoll", "wpoll"}
    BY <1>5 DEF Timeout, SeeAck
  <2>2. r \in {"ok", "timeout", "failed"}
    BY DEF AckResult
  <2>3. n \in Op /\ n.list = o.list /\ n.got = o.got /\ n.tag = o.tag /\ n.pc = "done"
    BY <1>1, <2>2 DEF Op
  <2>4. OpOK(n)
    BY <1>1, <2>3 DEF OpOK, ReadPcs, WritePcs
  <2>5. /\ Return(c, n) /\ UNCHANGED <<hp, dd, fp, ram, asked>>
        /\ left' = left \/ (left.timeouts > 0 /\ left' = [left EXCEPT !.timeouts = @ - 1])
    BY <1>5 DEF Timeout, SeeAck
  <2>6. left' \in Left /\ Counted'
    <3>1. left \in Left /\ left.timeouts \in 0 .. MaxTimeouts /\ MaxTimeouts \in Nat
      BY <1>1, Params DEF Shapes, Left
    <3>2. left.timeouts > 0 => left.timeouts - 1 \in 0 .. MaxTimeouts
      BY <3>1
    <3>3. left' \in Left /\ left'.ops = left.ops
      BY <2>5, <3>1, <3>2 DEF Left
    <3> QED  BY <1>1, <2>5, <3>3 DEF Counted
  <2>7. /\ op' = [op EXCEPT ![c] = n]
        /\ offered' \in [Clients -> [AnyAddr -> SUBSET Vals]] /\ applied' \in [Clients -> SUBSET Pair]
    BY <1>1, <2>5, ReturnTypes
  <2>8. ~SeeResponse(c) /\ ~ReadValue(c)
    <3>1. ~ReadValue(c)
      BY <2>1 DEF ReadValue
    <3>2. op'[c].pc = "done"
      BY <1>1, <2>3, <2>7 DEF Shapes
    <3>3. SeeResponse(c) => op'[c].pc = "values"
      BY <1>1 DEF SeeResponse, Shapes, Op
    <3> QED  BY <3>1, <3>2, <3>3
  <2> HIDE DEF n, o
  <2>9. Base' /\ op'[c] = n /\ \A d \in Clients \ {c} : op'[d] = op[d]
    BY <1>1, <2>3, <2>4, <2>5, <2>6, <2>7, HandlerKeeps DEF Shapes, MailOK
  <2> QED  BY <2>3, <2>8, <2>9 DEF o
<1> QED  BY <1>3, <1>4, <1>5

\* A connection without a request.
LEMMA NoOpType == NoOp \in Op /\ OpOK(NoOp)
BY Params DEF NoOp, Op, OpOK, ReadPcs, WritePcs

\* The sequence number wraps past 0.
LEMMA NextSeqType ==
  ASSUME NEW s \in 0 .. MaxSeq
  PROVE  NextSeq(s) \in 1 .. MaxSeq /\ NextSeq(s) <= s + 1
BY Params DEF NextSeq

\* What Begin does, whatever the request.
LEMMA BeginTypes ==
  ASSUME Base, NEW c \in Clients, NEW o, NEW id \in Nat, NEW seq \in 0 .. MaxSeq,
         id <= hp.id + 1, seq <= hp.seq + 1, Begin(c, o, id, seq)
  PROVE  /\ hp' \in Hp /\ left' \in Left /\ Counted' /\ op' = [op EXCEPT ![c] = o]
         /\ hp'.id = id /\ hp'.seq = seq /\ (hp.disturbed => hp'.disturbed)
         /\ (~hp'.disturbed => \A d \in Clients : ~Busy(d)) /\ left'.timeouts = left.timeouts
<1>1. hp \in Hp /\ left \in Left /\ Counted
  BY DEF Base, Shapes
<1>2. /\ left.ops \in Nat /\ left.ops > 0 /\ left.ops <= MaxOps /\ hp.id \in Nat /\ hp.seq \in Nat
      /\ hp.id + left.ops <= MaxOps /\ hp.seq + left.ops <= MaxOps /\ MaxOps \in Nat
  BY <1>1, Params DEF Hp, Left, Counted, Begin
<1>3. left.ops - 1 \in 0 .. MaxOps /\ id + (left.ops - 1) <= MaxOps /\ seq + (left.ops - 1) <= MaxOps
      /\ id \in 0 .. MaxOps
  BY <1>2, Params
<1>4. left' \in Left /\ left'.ops = left.ops - 1 /\ left'.timeouts = left.timeouts
  BY <1>1, <1>3 DEF Begin, Left
<1>5. hp' = [id |-> id, seq |-> seq, disturbed |-> hp.disturbed \/ \E d \in Clients : Busy(d)]
  BY DEF Begin
<1>6. hp' \in Hp /\ hp'.id = id /\ hp'.seq = seq
  BY <1>1, <1>3, <1>5 DEF Hp
<1>7. Counted'
  BY <1>3, <1>4, <1>6 DEF Counted
<1>8. (hp.disturbed => hp'.disturbed) /\ (~hp'.disturbed => \A d \in Clients : ~Busy(d))
  BY <1>5
<1> QED  BY <1>4, <1>6, <1>7, <1>8 DEF Begin

\* A request begins: what its record is, and which numbers it takes.
LEMMA BeginBase ==
  ASSUME Base, NEW c \in Clients,
         (\E list \in Reads : ReadRanges(c, list)) \/ (\E pairs \in Writes : WritePairs(c, pairs))
  PROVE  /\ Base' /\ \A d \in Clients \ {c} : op'[d] = op[d]
         /\ UNCHANGED <<dd, fp, ram, offered, applied>> /\ left'.timeouts = left.timeouts
         /\ ~Busy(c) /\ asked \subseteq asked'
         /\ (hp.disturbed => hp'.disturbed) /\ (~hp'.disturbed => \A d \in Clients : ~Busy(d))
         /\ \/ op'[c].pc = "done" /\ hp'.id = hp.id /\ hp'.seq = hp.seq
            \/ op'[c].pc = "list" /\ op'[c].i = 1 /\ op'[c].tag = hp'.id /\ hp'.id = hp.id + 1
               /\ hp'.seq = hp.seq
            \/ op'[c].pc = "pairs" /\ op'[c].i = 1 /\ op'[c].tag = hp'.seq /\ hp'.id = hp.id
               /\ hp'.seq = NextSeq(hp.seq) /\ ToSet(op'[c].list) \subseteq asked'
<1>1. Shapes /\ hp.id \in Nat /\ hp.seq \in 0 .. MaxSeq /\ NextSeq(hp.seq) \in 1 .. MaxSeq
      /\ NextSeq(hp.seq) <= hp.seq + 1 /\ NextSeq(hp.seq) \in 0 .. MaxSeq /\ Counted /\ MailOK
  <2>1. Shapes /\ hp.id \in Nat /\ hp.seq \in 0 .. MaxSeq /\ Counted /\ MailOK
    BY DEF Base, Shapes, Hp
  <2>2. 1 .. MaxSeq \subseteq 0 .. MaxSeq
    BY Params
  <2> QED  BY <2>1, <2>2, NextSeqType
<1>2. ASSUME NEW o \in Op, OpOK(o), NEW id \in Nat, NEW seq \in 0 .. MaxSeq,
             id <= hp.id + 1, seq <= hp.seq + 1, Begin(c, o, id, seq),
             UNCHANGED <<dd, fp, ram, offered, applied>>, asked' \in SUBSET Pair
      PROVE  /\ Base' /\ op'[c] = o /\ \A d \in Clients \ {c} : op'[d] = op[d]
             /\ hp'.id = id /\ hp'.seq = seq /\ (hp.disturbed => hp'.disturbed)
             /\ (~hp'.disturbed => \A d \in Clients : ~Busy(d)) /\ left'.timeouts = left.timeouts
  <2>1. /\ hp' \in Hp /\ left' \in Left /\ Counted' /\ op' = [op EXCEPT ![c] = o]
        /\ hp'.id = id /\ hp'.seq = seq /\ (hp.disturbed => hp'.disturbed)
        /\ (~hp'.disturbed => \A d \in Clients : ~Busy(d)) /\ left'.timeouts = left.timeouts
    BY <1>2, BeginTypes
  <2> QED  BY <1>1, <1>2, <2>1, HandlerKeeps DEF Shapes, MailOK
<1>3. ASSUME NEW r \in {"ok", "failed"} PROVE [NoOp EXCEPT !.res = r] \in Op /\ OpOK([NoOp EXCEPT !.res = r])
  BY NoOpType DEF NoOp, Op, OpOK, ReadPcs, WritePcs
<1>4. hp.id \in Nat /\ hp.id + 1 \in Nat /\ hp.id <= hp.id + 1 /\ hp.seq <= hp.seq + 1
  BY <1>1
<1>5. ASSUME NEW r \in {"ok", "failed"}, ~Busy(c), UNCHANGED <<dd, fp, ram, offered, applied, asked>>,
             Begin(c, [NoOp EXCEPT !.res = r], hp.id, hp.seq)
      PROVE  /\ Base' /\ \A d \in Clients \ {c} : op'[d] = op[d]
             /\ left'.timeouts = left.timeouts
             /\ (hp.disturbed => hp'.disturbed) /\ (~hp'.disturbed => \A d \in Clients : ~Busy(d))
             /\ op'[c].pc = "done" /\ hp'.id = hp.id /\ hp'.seq = hp.seq
  <2> DEFINE o == [NoOp EXCEPT !.res = r]
  <2>1. o.pc = "done"
    BY DEF NoOp
  <2>2. o \in Op /\ OpOK(o)
    BY <1>3
  <2> HIDE DEF o
  <2> QED  BY <1>1, <1>2, <1>4, <1>5, <2>1, <2>2 DEF Shapes, o
<1>6. ASSUME NEW list \in Reads, ReadRanges(c, list), list # <<>>
      PROVE  /\ Base' /\ \A d \in Clients \ {c} : op'[d] = op[d]
             /\ left'.timeouts = left.timeouts
             /\ (hp.disturbed => hp'.disturbed) /\ (~hp'.disturbed => \A d \in Clients : ~Busy(d))
             /\ op'[c].pc = "list" /\ op'[c].i = 1 /\ op'[c].tag = hp'.id /\ hp'.id = hp.id + 1
             /\ hp'.seq = hp.seq
  <2> DEFINE o == [NoOp EXCEPT !.pc = "list", !.list = list, !.tag = hp.id + 1]
  <2>1. /\ Begin(c, o, hp.id + 1, hp.seq) /\ UNCHANGED <<dd, fp, ram, offered, applied, asked>>
    BY <1>6 DEF ReadRanges
  <2>2. hp.id + 1 \in 0 .. MaxOps
    <3>1. left.ops \in Nat /\ left.ops > 0 /\ hp.id + left.ops <= MaxOps
      BY <1>1, <2>1 DEF Begin, Counted, Shapes, Left
    <3> QED  BY <1>1, <3>1, Params
  <2>3. o \in Op /\ o.pc = "list" /\ o.i = 1 /\ o.tag = hp.id + 1 /\ o.list = list /\ o.got = <<>>
    BY <2>2, NoOpType DEF NoOp, Op, ReadPcs
  <2>4. OpOK(o)
    BY <1>6, <2>3, ListTypes DEF OpOK, ReadPcs, WritePcs
  <2> HIDE DEF o
  <2> QED  BY <1>1, <1>2, <1>4, <2>1, <2>3, <2>4 DEF Shapes
<1>7. ASSUME NEW pairs \in Writes, WritePairs(c, pairs), pairs # <<>>, Valid(pairs)
      PROVE  /\ Base' /\ \A d \in Clients \ {c} : op'[d] = op[d]
             /\ left'.timeouts = left.timeouts /\ asked \subseteq asked'
             /\ (hp.disturbed => hp'.disturbed) /\ (~hp'.disturbed => \A d \in Clients : ~Busy(d))
             /\ op'[c].pc = "pairs" /\ op'[c].i = 1 /\ op'[c].tag = hp'.seq /\ hp'.id = hp.id
             /\ hp'.seq = NextSeq(hp.seq) /\ ToSet(op'[c].list) \subseteq asked'
  <2> DEFINE o == [NoOp EXCEPT !.pc = "pairs", !.list = pairs, !.tag = NextSeq(hp.seq)]
  <2>1. /\ Begin(c, o, hp.id, NextSeq(hp.seq)) /\ UNCHANGED <<dd, fp, ram, offered, applied>>
        /\ asked' = asked \cup ToSet(pairs)
    BY <1>7 DEF WritePairs
  <2>2. NextSeq(hp.seq) \in 0 .. MaxOps
    <3>1. left.ops \in Nat /\ left.ops > 0 /\ hp.seq + left.ops <= MaxOps
      BY <1>1, <2>1 DEF Begin, Counted, Shapes, Left
    <3> QED  BY <1>1, <3>1, Params
  <2>3. /\ o \in Op /\ o.pc = "pairs" /\ o.i = 1 /\ o.tag = NextSeq(hp.seq) /\ o.list = pairs
        /\ o.got = <<>>
    BY <2>2, NoOpType DEF NoOp, Op, WritePcs
  <2>4. OpOK(o)
    BY <1>1, <1>7, <2>3, ListTypes DEF OpOK, ReadPcs, WritePcs
  <2>5. asked' \in SUBSET Pair
    BY <1>1, <1>7, <2>1, ListTypes, SMTT(40) DEF ToSet, Shapes
  <2> HIDE DEF o
  <2> QED  BY <1>1, <1>2, <1>4, <2>1, <2>3, <2>4, <2>5, SMTT(40) DEF Shapes
<1>8. CASE \E list \in Reads : ReadRanges(c, list)
  <2>1. PICK list \in Reads : ReadRanges(c, list)
    BY <1>8
  <2>2. ~Busy(c) /\ UNCHANGED <<dd, fp, ram, offered, applied, asked>>
    BY <2>1 DEF ReadRanges
  <2>3. list = <<>> => Begin(c, [NoOp EXCEPT !.res = "ok"], hp.id, hp.seq)
    BY <2>1 DEF ReadRanges
  <2> QED  BY <1>5, <1>6, <2>1, <2>2, <2>3
<1>9. CASE \E pairs \in Writes : WritePairs(c, pairs)
  <2>1. PICK pairs \in Writes : WritePairs(c, pairs)
    BY <1>9
  <2>2. ~Busy(c) /\ UNCHANGED <<dd, fp, ram, offered, applied>>
    BY <2>1 DEF WritePairs
  <2>3. ASSUME pairs = <<>> \/ ~Valid(pairs)
        PROVE  \E r \in {"ok", "failed"} : UNCHANGED asked /\ Begin(c, [NoOp EXCEPT !.res = r], hp.id, hp.seq)
    BY <2>1, <2>3 DEF WritePairs
  <2> QED  BY <1>5, <1>7, <2>1, <2>2, <2>3
<1> QED  BY <1>8, <1>9

\* What Offer does to the ghosts: nothing is taken back.
LEMMA OfferTypes ==
  ASSUME Shapes, NEW a \in AnyAddr, NEW v \in Vals, Offer(a, v)
  PROVE  /\ offered' \in [Clients -> [AnyAddr -> SUBSET Vals]]
         /\ \A c \in Clients : \A b \in AnyAddr : offered[c][b] \subseteq offered'[c][b]
         /\ \A c \in Clients : op[c].pc \in {"rpoll", "values"} => v \in offered'[c][a]
BY DEF Offer, Shapes

\* One of the bounded events has happened.
LEMMA EventTypes ==
  ASSUME Shapes, left.events > 0, left' = [left EXCEPT !.events = @ - 1]
  PROVE  left' \in Left /\ left'.ops = left.ops /\ left'.timeouts = left.timeouts
<1>1. left \in Left /\ left.events \in 0 .. MaxEvents /\ MaxEvents \in Nat
  BY Params DEF Shapes, Left
<1>2. left.events - 1 \in 0 .. MaxEvents
  BY <1>1
<1> QED  BY <1>1, <1>2 DEF Left

\* A step of the core or of the game leaves the handlers alone.
LEMMA CoreKeeps ==
  ASSUME Base, left' \in Left, left'.ops = left.ops, dd' \in Dd, MailOK', CurOK',
         fp' \in [cur : Cur, lastSeen : 0 .. MaxSeq], ram' \in [Addrs -> Vals],
         offered' \in [Clients -> [AnyAddr -> SUBSET Vals]], applied' \in [Clients -> SUBSET Pair],
         UNCHANGED <<op, hp, asked>>
  PROVE  Base'
<1>1. Shapes' /\ Counted'
  BY DEF Base, Shapes, Counted
<1>2. \A c \in Clients : OpOK(op'[c])
  BY DEF Base
<1> QED  BY <1>1, <1>2 DEF Base, OpOK

\* The core between two jobs.
LEMMA IdleType == Idle \in Cur /\ Idle.pc = "idle"
BY Params DEF Idle, Cur, Lens

\* The core starts and ends its jobs.
LEMMA EndsBase ==
  ASSUME Base, VBlank \/ WriteResp \/ PollMailbox \/ WriteAck \/ CoreReset
  PROVE  Base'
<1>1. Shapes /\ fp \in [cur : Cur, lastSeen : 0 .. MaxSeq] /\ dd \in Dd /\ left \in Left /\ CurOK /\ MailOK
      /\ fp.cur \in Cur /\ dd.mctrl \in Mctrl
  BY DEF Base, Shapes, Dd
<1>2. dd.actrl[1] \in Lens /\ dd.actrl[2] \in 0 .. MaxOps /\ dd.actrl[2] \in Nat
  BY <1>1, Params DEF Dd
<1>3. CASE VBlank
  <2> DEFINE j == [Idle EXCEPT !.pc = IF dd.actrl[1] = 0 THEN "resp" ELSE "fetch",
                               !.count = dd.actrl[1], !.seq = dd.actrl[2]]
  <2>1. /\ j \in Cur /\ j.pc = (IF dd.actrl[1] = 0 THEN "resp" ELSE "fetch")
        /\ j.count = dd.actrl[1] /\ j.seq = dd.actrl[2] /\ j.i = 1 /\ j.word = 1 /\ j.buf = <<>>
    BY <1>2, IdleType DEF Idle, Cur
  <2> HIDE DEF j
  <2>2. fp' = [fp EXCEPT !.cur = j] /\ UNCHANGED <<op, hp, dd, ram, offered, applied, asked, left>>
    BY <1>3 DEF VBlank, SetFp, j
  <2>3. fp' \in [cur : Cur, lastSeen : 0 .. MaxSeq] /\ fp'.cur = j
    BY <1>1, <2>1, <2>2
  <2>4. CurOK'
    BY <1>2, <2>1, <2>3 DEF CurOK, Answering, Applying, Lens
  <2> QED  BY <1>1, <2>2, <2>3, <2>4, CoreKeeps DEF Shapes, MailOK
<1>4. CASE WriteResp
  <2>1. fp.cur.seq \in 0 .. MaxOps
    BY <1>1, <1>4, Params DEF WriteResp, CurOK, Answering, Cur
  <2>2. fp' = [fp EXCEPT !.cur = Idle] /\ UNCHANGED <<op, hp, ram, offered, applied, asked, left>>
        /\ dd' = [dd EXCEPT !.vctrl = fp.cur.seq]
    BY <1>4 DEF WriteResp, SetFp
  <2>3. fp' \in [cur : Cur, lastSeen : 0 .. MaxSeq] /\ fp'.cur = Idle
    BY <1>1, <2>2, IdleType
  <2>4. dd' \in Dd /\ dd'.mctrl = dd.mctrl
    BY <1>1, <2>1, <2>2 DEF Dd
  <2>5. CurOK'
    BY <2>3, IdleType DEF CurOK, Answering, Applying
  <2> QED  BY <1>1, <2>2, <2>3, <2>4, <2>5, CoreKeeps DEF Shapes, MailOK
<1>5. CASE PollMailbox
  <2> DEFINE j == [Idle EXCEPT !.pc = "apply", !.seq = dd.mctrl.seq, !.count = dd.mctrl.count]
  <2>1. dd.mctrl.count \in 1 .. Slots /\ dd.mctrl.ack = 0 /\ dd.mctrl.seq \in 1 .. MaxSeq
    BY <1>1, <1>5, Params DEF PollMailbox, Accepted, MailOK, Mctrl, Lens
  <2>2. /\ j \in Cur /\ j.pc = "apply" /\ j.count = dd.mctrl.count /\ j.seq = dd.mctrl.seq /\ j.i = 1
    <3>1. dd.mctrl.count \in Lens /\ dd.mctrl.seq \in Nat
      BY <1>1, Params DEF Mctrl
    <3> QED  BY <3>1, IdleType DEF Idle, Cur
  <2> HIDE DEF j
  <2>3. fp' = [fp EXCEPT !.cur = j] /\ UNCHANGED <<op, hp, dd, ram, offered, applied, asked, left>>
    BY <1>5 DEF PollMailbox, SetFp, j
  <2>4. fp' \in [cur : Cur, lastSeen : 0 .. MaxSeq] /\ fp'.cur = j
    BY <1>1, <2>2, <2>3
  <2>5. CurOK'
    BY <2>1, <2>2, <2>3, <2>4 DEF CurOK, Answering, Applying
  <2> QED  BY <1>1, <2>3, <2>4, <2>5, CoreKeeps DEF Shapes, MailOK
<1>6. CASE WriteAck
  <2> DEFINE m == [seq |-> fp.cur.seq, count |-> fp.cur.count, ack |-> fp.cur.seq, status |-> fp.cur.status]
  <2>1. fp.cur.seq \in 1 .. MaxSeq /\ fp.cur.seq \in 0 .. MaxSeq
    BY <1>1, <1>6, Params DEF WriteAck, CurOK, Applying
  <2>2. m \in Mctrl /\ m.seq \in 1 .. MaxSeq
    BY <1>1, <2>1 DEF Cur, Mctrl
  <2> HIDE DEF m
  <2>3. /\ fp' = [cur |-> Idle, lastSeen |-> fp.cur.seq] /\ dd' = [dd EXCEPT !.mctrl = m]
        /\ UNCHANGED <<op, hp, ram, offered, applied, asked, left>>
    BY <1>6 DEF WriteAck, m
  <2>4. fp' \in [cur : Cur, lastSeen : 0 .. MaxSeq] /\ fp'.cur = Idle
    BY <2>1, <2>3, IdleType
  <2>5. dd' \in Dd /\ dd'.mctrl = m
    BY <1>1, <2>2, <2>3 DEF Dd
  <2>6. CurOK' /\ MailOK'
    BY <2>2, <2>4, <2>5, IdleType DEF CurOK, Answering, Applying, MailOK
  <2> QED  BY <1>1, <2>3, <2>4, <2>5, <2>6, CoreKeeps DEF Shapes
<1>7. CASE CoreReset
  <2>1. fp'.cur = Idle /\ fp' \in [cur : Cur, lastSeen : 0 .. MaxSeq]
    BY <1>1, <1>7, IdleType, Params DEF CoreReset, CurOK, Applying
  <2>2. left.events > 0 /\ left' = [left EXCEPT !.events = @ - 1]
        /\ UNCHANGED <<op, hp, dd, ram, offered, applied, asked>>
    BY <1>7 DEF CoreReset
  <2>3. CurOK'
    BY <2>1, IdleType, SMTT(40) DEF CurOK, Answering, Applying
  <2> QED  BY <1>1, <2>1, <2>2, <2>3, CoreKeeps, EventTypes DEF Shapes, MailOK
<1> QED  BY <1>3, <1>4, <1>5, <1>6, <1>7

\* The job of the core after it has fetched v.
FetchedJob(v) ==
  LET j == fp.cur
      b == Append(j.buf, v)
  IN [j EXCEPT !.i = j.i + 1, !.buf = b,
               !.pc = IF Len(b) = WordVals \/ j.i >= j.count THEN "flush" ELSE "fetch"]

\* One byte is fetched, or given up.
LEMMA FetchBase ==
  ASSUME Base, Fetch
  PROVE  /\ Base' /\ UNCHANGED <<op, hp, dd, ram, applied, asked>> /\ left'.timeouts = left.timeouts
         /\ fp.cur.pc = "fetch" /\ fp'.lastSeen = fp.lastSeen
         /\ \A c \in Clients : \A b \in AnyAddr : offered[c][b] \subseteq offered'[c][b]
         /\ \E v \in Vals :
              /\ fp'.cur = FetchedJob(v)
              /\ \/ v = Fetched(dd.addrs[fp.cur.i])
                 \/ \A c \in Clients : op[c].pc \in {"rpoll", "values"} => v \in offered'[c][dd.addrs[fp.cur.i]]
<1> DEFINE j == fp.cur
           a == dd.addrs[j.i]
<1>1. Shapes /\ fp \in [cur : Cur, lastSeen : 0 .. MaxSeq] /\ dd \in Dd /\ left \in Left /\ CurOK /\ MailOK
      /\ j \in Cur /\ j.pc = "fetch" /\ UNCHANGED <<op, hp, dd, ram, applied, asked>>
  BY DEF Base, Shapes, Fetch
<1>2. /\ j.i \in 1 .. Slots + 1 /\ j.count \in 0 .. Slots /\ j.i <= j.count /\ j.i \in 1 .. Slots /\ j.seq <= MaxOps
      /\ j.word + Len(j.buf) = j.i /\ j.buf \in Seq(Vals) /\ j.word \in 1 .. Slots + 1 /\ Len(j.buf) \in Nat
  BY <1>1, Params DEF CurOK, Answering, Cur, Lens
<1>3. a \in AnyAddr /\ Fetched(a) \in Vals /\ 0 \in Vals
  BY <1>1, <1>2, MisterAssumption DEF Dd, Shapes, Fetched
<1>4. ASSUME NEW v \in Vals, fp' = [fp EXCEPT !.cur = FetchedJob(v)], left' \in Left, left'.ops = left.ops,
             offered' \in [Clients -> [AnyAddr -> SUBSET Vals]]
      PROVE  Base' /\ fp'.cur = FetchedJob(v) /\ fp'.lastSeen = fp.lastSeen
  <2> DEFINE n == FetchedJob(v)
             b == Append(j.buf, v)
  <2>1. b \in Seq(Vals) /\ Len(b) = Len(j.buf) + 1
    BY <1>2
  <2>2. j.i + 1 \in 1 .. Slots + 1
    <3>1. j.i \in 1 .. Slots /\ Slots \in Nat
      BY <1>2, Params
    <3> HIDE DEF j
    <3> QED  BY <3>1
  <2>3. n \in Cur
    BY <1>1, <2>1, <2>2 DEF Cur, FetchedJob
  <2>4. /\ n.i = j.i + 1 /\ n.buf = b /\ n.word = j.word /\ n.seq = j.seq /\ n.count = j.count
        /\ n.pc = IF Len(b) = WordVals \/ j.i >= j.count THEN "flush" ELSE "fetch"
    BY <1>1 DEF Cur, FetchedJob
  <2> HIDE DEF n, b
  <2>5. fp' \in [cur : Cur, lastSeen : 0 .. MaxSeq] /\ fp'.cur = n /\ fp'.lastSeen = fp.lastSeen
    BY <1>1, <1>4, <2>3 DEF n
  <2>6. /\ n.seq <= MaxOps /\ n.word + Len(n.buf) = n.i /\ n.i <= n.count + 1
        /\ n.pc = "fetch" => n.i <= n.count
    <3>1. j.word \in Nat /\ j.i \in Nat /\ j.count \in Nat /\ Len(b) \in Nat
      BY <1>2, <2>1
    <3>2. n.seq <= MaxOps
      BY <1>2, <2>4
    <3>3. n.word + Len(n.buf) = n.i
      <4>1. n.word = j.word /\ Len(n.buf) = Len(j.buf) + 1 /\ n.i = j.i + 1
        BY <2>1, <2>4
      <4> HIDE DEF j
      <4> QED  BY <1>2, <4>1, <3>1
    <3>4. n.i <= n.count + 1
      BY <1>2, <2>4, <3>1
    <3>5. n.pc = "fetch" => ~(j.i >= j.count)
      BY <2>4
    <3>6. n.pc = "fetch" => n.i <= n.count
      BY <2>4, <3>1, <3>5
    <3> QED  BY <3>2, <3>3, <3>4, <3>6
  <2>7. n.pc \in {"flush", "fetch"}
    BY <2>4
  <2>8. CurOK'
    BY <2>5, <2>6, <2>7 DEF CurOK, Answering, Applying
  <2> QED  BY <1>1, <1>4, <2>5, <2>8, CoreKeeps DEF Shapes, MailOK, n
<1>5. CASE SetFp(FetchedJob(Fetched(a))) /\ UNCHANGED <<offered, left>>
  <2>1. fp' = [fp EXCEPT !.cur = FetchedJob(Fetched(a))] /\ offered' = offered /\ left' = left
    BY <1>5 DEF SetFp
  <2> QED  BY <1>1, <1>3, <1>4, <2>1 DEF Shapes
<1>6. CASE SetFp(FetchedJob(0)) /\ Offer(a, 0) /\ left.events > 0 /\ left' = [left EXCEPT !.events = @ - 1]
  <2>1. fp' = [fp EXCEPT !.cur = FetchedJob(0)]
    BY <1>6 DEF SetFp
  <2>2. left' \in Left /\ left'.ops = left.ops /\ left'.timeouts = left.timeouts
    BY <1>1, <1>6, EventTypes
  <2>3. /\ offered' \in [Clients -> [AnyAddr -> SUBSET Vals]]
        /\ \A c \in Clients : \A b \in AnyAddr : offered[c][b] \subseteq offered'[c][b]
        /\ \A c \in Clients : op[c].pc \in {"rpoll", "values"} => 0 \in offered'[c][a]
    BY <1>1, <1>3, <1>6, OfferTypes
  <2> QED  BY <1>1, <1>3, <1>4, <2>1, <2>2, <2>3
<1> QED  BY <1>5, <1>6 DEF Fetch, FetchedJob, SetFp

\* A full or last word of values in DDRAM: only the value cache changes.
LEMMA FlushedWords ==
  ASSUME Base, fp.cur.pc = "flush"
  PROVE  /\ Flushed \in Dd
         /\ Flushed.addrs = dd.addrs /\ Flushed.actrl = dd.actrl /\ Flushed.vctrl = dd.vctrl
         /\ Flushed.pairs = dd.pairs /\ Flushed.mctrl = dd.mctrl
         /\ \A k \in 1 .. Slots : Flushed.vals[k] = IF k \in fp.cur.word .. fp.cur.i - 1
                                                   THEN fp.cur.buf[k - fp.cur.word + 1] ELSE dd.vals[k]
<1> DEFINE j == fp.cur
           w == j.word
           n == Len(j.buf)
<1>1. dd \in Dd /\ CurOK /\ j \in Cur
  BY DEF Base, Shapes
<1>2. w + n = j.i /\ j.buf \in Seq(Vals) /\ w \in 1 .. Slots + 1 /\ n \in Nat
  BY <1>1, Params DEF CurOK, Answering, Cur, Lens
<1> DEFINE vals == [i \in 1 .. Slots |-> IF i \in w .. w + n - 1 THEN j.buf[i - w + 1] ELSE dd.vals[i]]
<1>3. Flushed = [dd EXCEPT !.vals = vals]
  BY DEF Flushed
<1>4. vals \in [1 .. Slots -> Vals]
  <2>1. ASSUME NEW i \in 1 .. Slots, i \in w .. w + n - 1 PROVE j.buf[i - w + 1] \in Vals
    <3>1. i - w + 1 \in 1 .. Len(j.buf)
      BY <1>2, <2>1, SMTT(40)
    <3> QED  BY <1>2, <3>1
  <2>2. \A i \in 1 .. Slots : dd.vals[i] \in Vals
    BY <1>1 DEF Dd
  <2> QED  BY <2>1, <2>2
<1>5. \A k \in 1 .. Slots : vals[k] = IF k \in j.word .. j.i - 1 THEN j.buf[k - j.word + 1] ELSE dd.vals[k]
  BY <1>2, SMTT(40)
<1> HIDE DEF vals
<1> QED  BY <1>1, <1>3, <1>4, <1>5 DEF Dd

LEMMA FlushBase ==
  ASSUME Base, Flush
  PROVE  /\ Base' /\ UNCHANGED <<op, hp, ram, offered, applied, asked, left>>
         /\ fp.cur.pc = "flush" /\ fp'.lastSeen = fp.lastSeen
         /\ UNCHANGED <<dd.addrs, dd.actrl, dd.vctrl, dd.pairs, dd.mctrl>>
         /\ \A k \in 1 .. Slots : dd'.vals[k] = IF k \in fp.cur.word .. fp.cur.i - 1
                                                THEN fp.cur.buf[k - fp.cur.word + 1] ELSE dd.vals[k]
         /\ fp'.cur.word = fp.cur.i /\ fp'.cur.buf = <<>> /\ fp'.cur.i = fp.cur.i
         /\ fp'.cur.seq = fp.cur.seq /\ fp'.cur.count = fp.cur.count
         /\ fp'.cur.pc = IF fp.cur.i > fp.cur.count THEN "resp" ELSE "fetch"
<1> DEFINE j == fp.cur
           w == j.word
           n == Len(j.buf)
<1>1. Shapes /\ fp \in [cur : Cur, lastSeen : 0 .. MaxSeq] /\ dd \in Dd /\ left \in Left /\ CurOK /\ MailOK
      /\ j \in Cur /\ j.pc = "flush" /\ UNCHANGED <<op, hp, ram, offered, applied, asked, left>>
  BY DEF Base, Shapes, Flush
<1>2. /\ j.i \in 1 .. Slots + 1 /\ j.count \in 0 .. Slots /\ j.i <= j.count + 1 /\ j.seq <= MaxOps
      /\ w + n = j.i /\ w \in 1 .. Slots + 1 /\ n \in Nat
  BY <1>1, Params DEF CurOK, Answering, Cur, Lens
<1> DEFINE m == [j EXCEPT !.buf = <<>>, !.word = w + n, !.pc = IF j.i > j.count THEN "resp" ELSE "fetch"]
<1>3. dd' = Flushed /\ fp' = [fp EXCEPT !.cur = m]
  <2>1. j.word = w
    OBVIOUS
  <2> QED  BY <1>1, <2>1 DEF Flush, SetFp, Cur
<1>5. /\ m \in Cur /\ m.buf = <<>> /\ m.word = j.i /\ m.i = j.i /\ m.seq = j.seq /\ m.count = j.count
      /\ m.pc = IF j.i > j.count THEN "resp" ELSE "fetch"
  <2>1. w + n \in 1 .. Slots + 1 /\ <<>> \in Seq(Vals)
    BY <1>2
  <2> QED  BY <1>1, <1>2, <2>1 DEF Cur
<1> HIDE DEF m
<1>7. /\ dd' \in Dd /\ UNCHANGED <<dd.addrs, dd.actrl, dd.vctrl, dd.pairs, dd.mctrl>>
      /\ \A k \in 1 .. Slots : dd'.vals[k] = IF k \in j.word .. j.i - 1 THEN j.buf[k - j.word + 1] ELSE dd.vals[k]
  BY <1>1, <1>3, FlushedWords
<1>8. fp' \in [cur : Cur, lastSeen : 0 .. MaxSeq] /\ fp'.cur = m /\ fp'.lastSeen = fp.lastSeen
  BY <1>1, <1>3, <1>5
<1>9. CurOK'
  BY <1>2, <1>5, <1>8, SMTT(40) DEF CurOK, Answering, Applying
<1>10. Base'
  BY <1>1, <1>7, <1>8, <1>9, CoreKeeps DEF Shapes, MailOK
<1>12. /\ fp'.cur.word = j.i /\ fp'.cur.buf = <<>> /\ fp'.cur.i = j.i
       /\ fp'.cur.seq = j.seq /\ fp'.cur.count = j.count
       /\ fp'.cur.pc = IF j.i > j.count THEN "resp" ELSE "fetch"
  BY <1>5, <1>8
<1> QED  BY <1>1, <1>7, <1>8, <1>10, <1>12

\* A DDRAM access times out: the job is dropped, and a word of values may come late.
LEMMA TimeoutBase ==
  ASSUME Base, DdramTimeout
  PROVE  /\ Base' /\ UNCHANGED <<op, hp, ram, offered, applied, asked>> /\ left'.timeouts = left.timeouts
         /\ fp'.cur = Idle /\ fp'.lastSeen = fp.lastSeen
         /\ UNCHANGED <<dd.addrs, dd.actrl, dd.vctrl, dd.pairs, dd.mctrl>>
         /\ \/ dd' = dd
            \/ /\ fp.cur.pc = "flush"
               /\ \A k \in 1 .. Slots : dd'.vals[k] = IF k \in fp.cur.word .. fp.cur.i - 1
                                                      THEN fp.cur.buf[k - fp.cur.word + 1] ELSE dd.vals[k]
<1>1. Shapes /\ fp \in [cur : Cur, lastSeen : 0 .. MaxSeq] /\ dd \in Dd /\ left \in Left /\ MailOK
  BY DEF Base, Shapes
<1>2. /\ UNCHANGED <<op, hp, ram, offered, applied, asked>> /\ fp' = [fp EXCEPT !.cur = Idle]
      /\ dd' = dd \/ (fp.cur.pc = "flush" /\ dd' = Flushed)
      /\ left.events > 0 /\ left' = [left EXCEPT !.events = @ - 1]
  BY DEF DdramTimeout, SetFp
<1>3. fp' \in [cur : Cur, lastSeen : 0 .. MaxSeq] /\ fp'.cur = Idle /\ fp'.lastSeen = fp.lastSeen
  BY <1>1, <1>2, IdleType
<1>4. left' \in Left /\ left'.ops = left.ops /\ left'.timeouts = left.timeouts
  BY <1>1, <1>2, EventTypes
<1>5. dd' \in Dd /\ UNCHANGED <<dd.addrs, dd.actrl, dd.vctrl, dd.pairs, dd.mctrl>>
  BY <1>1, <1>2, FlushedWords
<1>6. CurOK' /\ MailOK'
  BY <1>1, <1>3, <1>5, IdleType, SMTT(40) DEF CurOK, Answering, Applying, MailOK
<1>7. Base'
  BY <1>1, <1>2, <1>3, <1>4, <1>5, <1>6, CoreKeeps DEF Shapes
<1> QED  BY <1>2, <1>3, <1>4, <1>5, <1>7, FlushedWords

\* One pair of the mailbox is written, or given up.
LEMMA ApplyBase ==
  ASSUME Base, ApplyPair
  PROVE  /\ Base' /\ UNCHANGED <<op, hp, dd, asked>> /\ left'.timeouts = left.timeouts
         /\ fp.cur.pc = "apply" /\ fp.cur.i \in 1 .. Slots /\ dd.pairs[fp.cur.i] \in Pair
         /\ fp'.cur.seq = fp.cur.seq /\ fp'.cur.count = fp.cur.count /\ fp'.cur.i = fp.cur.i + 1
         /\ fp'.cur.pc = IF fp.cur.i >= fp.cur.count THEN "ack" ELSE "apply"
         /\ \A c \in Clients : \A b \in AnyAddr : offered[c][b] \subseteq offered'[c][b]
         /\ \A c \in Clients : applied[c] \subseteq applied'[c]
         /\ \/ ram' = ram
            \/ /\ ram' = [ram EXCEPT ![dd.pairs[fp.cur.i][1]] = dd.pairs[fp.cur.i][2]]
               /\ Offer(dd.pairs[fp.cur.i][1], dd.pairs[fp.cur.i][2])
         /\ fp'.cur.status = "ok" =>
              /\ fp.cur.status = "ok"
              /\ \A c \in Clients : op[c].pc = "wpoll" => dd.pairs[fp.cur.i] \in applied'[c]
<1> DEFINE j == fp.cur
           p == dd.pairs[j.i]
           NextCur(s) == [j EXCEPT !.i = j.i + 1, !.status = s, !.pc = IF j.i >= j.count THEN "ack" ELSE "apply"]
           Poke == /\ ram' = [ram EXCEPT ![p[1]] = p[2]] /\ Offer(p[1], p[2])
                   /\ applied' = [c \in Clients |-> IF op[c].pc = "wpoll" THEN applied[c] \cup {p}
                                                    ELSE applied[c]]
<1>1. Shapes /\ fp \in [cur : Cur, lastSeen : 0 .. MaxSeq] /\ dd \in Dd /\ left \in Left /\ CurOK /\ MailOK
      /\ j \in Cur /\ j.pc = "apply" /\ UNCHANGED <<op, hp, dd, asked>>
  BY DEF Base, Shapes, ApplyPair
<1>2. /\ j.i \in 1 .. Slots + 1 /\ j.count \in 0 .. Slots /\ j.i <= j.count /\ j.i \in 1 .. Slots
      /\ j.seq \in 1 .. MaxSeq /\ dd.mctrl.ack = 0 /\ j.i + 1 \in 1 .. Slots + 1 /\ j.status \in {"ok", "bad"}
  BY <1>1, Params DEF CurOK, Applying, Cur, Lens
<1>3. p \in Pair /\ p[1] \in Addrs /\ p[1] \in AnyAddr /\ p[2] \in Vals
  BY <1>1, <1>2 DEF Dd, Pair, AnyAddr
<1>4. /\ \E s \in {j.status, "bad"} :
           /\ fp' = [fp EXCEPT !.cur = NextCur(s)]
           /\ s = "ok" => j.status = "ok" /\ Poke
      /\ Poke \/ UNCHANGED <<ram, offered, applied>>
      /\ left' = left \/ (left.events > 0 /\ left' = [left EXCEPT !.events = @ - 1])
  BY <1>2, ZenonT(60) DEF ApplyPair, SetFp
<1>5. PICK s \in {j.status, "bad"} : fp' = [fp EXCEPT !.cur = NextCur(s)] /\ (s = "ok" => j.status = "ok" /\ Poke)
  BY <1>4
<1> DEFINE n == NextCur(s)
<1>6. /\ n \in Cur /\ n.i = j.i + 1 /\ n.status = s /\ n.seq = j.seq /\ n.count = j.count
      /\ n.pc = IF j.i >= j.count THEN "ack" ELSE "apply"
  BY <1>1, <1>2, ZenonT(60) DEF Cur
<1> HIDE DEF n
<1>7. fp' \in [cur : Cur, lastSeen : 0 .. MaxSeq] /\ fp'.cur = n
  BY <1>1, <1>5, <1>6 DEF n
<1>8. n.i <= n.count + 1 /\ (n.pc = "apply" => n.i <= n.count) /\ (n.pc = "ack" => n.i = n.count + 1)
      /\ n.pc \in {"apply", "ack"}
  BY <1>2, <1>6
<1>9. CurOK'
  BY <1>1, <1>2, <1>6, <1>7, <1>8 DEF CurOK, Answering, Applying
<1>10. left' \in Left /\ left'.ops = left.ops /\ left'.timeouts = left.timeouts
  BY <1>1, <1>4, EventTypes
<1>11. ASSUME Poke
       PROVE  /\ ram' \in [Addrs -> Vals] /\ offered' \in [Clients -> [AnyAddr -> SUBSET Vals]]
              /\ applied' \in [Clients -> SUBSET Pair]
              /\ \A c \in Clients : \A b \in AnyAddr : offered[c][b] \subseteq offered'[c][b]
              /\ \A c \in Clients : applied[c] \subseteq applied'[c]
              /\ \A c \in Clients : op[c].pc = "wpoll" => p \in applied'[c]
  <2>1. ram' \in [Addrs -> Vals]
    BY <1>1, <1>3, <1>11 DEF Shapes
  <2>2. /\ applied' \in [Clients -> SUBSET Pair]
        /\ \A c \in Clients : applied[c] \subseteq applied'[c]
        /\ \A c \in Clients : op[c].pc = "wpoll" => p \in applied'[c]
    BY <1>1, <1>3, <1>11, SMTT(40) DEF Shapes
  <2> QED  BY <1>1, <1>3, <1>11, <2>1, <2>2, OfferTypes
<1>12. /\ ram' \in [Addrs -> Vals] /\ offered' \in [Clients -> [AnyAddr -> SUBSET Vals]]
       /\ applied' \in [Clients -> SUBSET Pair]
       /\ \A c \in Clients : \A b \in AnyAddr : offered[c][b] \subseteq offered'[c][b]
       /\ \A c \in Clients : applied[c] \subseteq applied'[c]
  BY <1>1, <1>4, <1>11 DEF Shapes
<1>13. Base'
  BY <1>1, <1>7, <1>9, <1>10, <1>12, CoreKeeps DEF Shapes, MailOK
<1>14. ram' = ram \/ (ram' = [ram EXCEPT ![p[1]] = p[2]] /\ Offer(p[1], p[2]))
  BY <1>4
<1>15. fp'.cur.status = "ok" =>
         j.status = "ok" /\ \A c \in Clients : op[c].pc = "wpoll" => p \in applied'[c]
  BY <1>5, <1>6, <1>7, <1>11
<1> QED  BY <1>1, <1>2, <1>3, <1>6, <1>7, <1>10, <1>12, <1>13, <1>14, <1>15

\* The game changes a byte.
LEMMA GameBase ==
  ASSUME Base, NEW a \in Addrs, NEW v \in Vals, GameWrites(a, v)
  PROVE  /\ Base' /\ UNCHANGED <<op, hp, dd, fp, applied, asked>> /\ left'.timeouts = left.timeouts
         /\ \A c \in Clients : \A b \in AnyAddr : offered[c][b] \subseteq offered'[c][b]
<1>1. Shapes /\ CurOK /\ MailOK /\ a \in AnyAddr /\ UNCHANGED <<op, hp, dd, fp, applied, asked>>
  BY DEF Base, GameWrites, AnyAddr
<1>2. left' \in Left /\ left'.ops = left.ops /\ left'.timeouts = left.timeouts
  BY <1>1, EventTypes DEF GameWrites
<1>3. /\ offered' \in [Clients -> [AnyAddr -> SUBSET Vals]]
      /\ \A c \in Clients : \A b \in AnyAddr : offered[c][b] \subseteq offered'[c][b]
  BY <1>1, OfferTypes DEF GameWrites
<1>4. ram' \in [Addrs -> Vals]
  BY <1>1 DEF GameWrites, Shapes
<1>5. CurOK' /\ MailOK'
  BY <1>1 DEF CurOK, MailOK, Answering, Applying
<1> QED  BY <1>1, <1>2, <1>3, <1>4, <1>5, CoreKeeps DEF Shapes

\* The helper is restarted.
LEMMA RestartBase ==
  ASSUME Base, HelperRestart
  PROVE  /\ Base' /\ hp'.disturbed /\ \A c \in Clients : op'[c].pc = "done"
         /\ UNCHANGED <<dd, fp, ram, asked>>
<1>1. Shapes /\ Counted /\ CurOK /\ MailOK
  BY DEF Base
<1>2. left' \in Left /\ left'.ops = left.ops
  BY <1>1, EventTypes DEF HelperRestart
<1>3. hp' \in Hp /\ hp'.id = 0 /\ hp'.seq = 0 /\ hp'.disturbed
  BY Params DEF HelperRestart, Hp
<1>4. op' \in [Clients -> Op] /\ \A c \in Clients : op'[c] = NoOp
  BY NoOpType DEF HelperRestart
<1>5. Shapes'
  BY <1>1, <1>2, <1>3, <1>4 DEF Shapes, HelperRestart, AnyAddr
<1>6. Counted'
  BY <1>1, <1>2, <1>3, Params DEF Counted, Shapes, Left
<1>7. (\A c \in Clients : OpOK(op'[c])) /\ \A c \in Clients : op'[c].pc = "done"
  BY <1>4, NoOpType DEF NoOp
<1>8. CurOK' /\ MailOK' /\ UNCHANGED <<dd, fp, ram, asked>>
  BY <1>1 DEF HelperRestart, CurOK, MailOK, Answering, Applying
<1> QED  BY <1>3, <1>5, <1>6, <1>7, <1>8 DEF Base, OpOK

\* Every step of the device keeps the types.
LEMMA BaseStep ==
  ASSUME Base, MisterNext
  PROVE  Base'
<1>1. ASSUME NEW c \in Clients, Handler(c) PROVE Base'
  BY <1>1, FillBase, WaitBase DEF Handler
<1>2. Core => Base'
  BY EndsBase, FetchBase, FlushBase, ApplyBase DEF Core
<1> QED  BY <1>1, <1>2, BeginBase, RestartBase, EndsBase, TimeoutBase, GameBase DEF MisterNext

-----------------------------------------------------------------------------
(* The core writes only what somebody asked for *)

\* What is in the mailbox stays asked for, or is replaced by what is.
LEMMA AskedKept ==
  ASSUME Base, Base', Asked, asked \subseteq asked',
         \A k \in 1 .. Slots : dd.pairs[k] \in asked => dd'.pairs[k] \in asked'
  PROVE  /\ \A c \in Clients : op'[c] = op[c] => AskedBy(c)'
         /\ dd'.mctrl.count = dd.mctrl.count => AskedUpTo(dd.mctrl.count)'
         /\ fp'.cur.count = fp.cur.count /\ (Applying' => Applying) => (Applying => AskedUpTo(fp.cur.count))'
<1>1. \A n \in 0 .. Slots : \A k \in 1 .. n : k \in 1 .. Slots
  BY Params
<1>2. ASSUME NEW c \in Clients, op'[c] = op[c] PROVE AskedBy(c)'
  <2>1. op[c].i - 1 \in 0 .. Slots
    <3>1. op[c] \in Op
      BY DEF Base, Shapes
    <3> QED  BY <3>1, Params DEF Op
  <2> QED  BY <1>1, <1>2, <2>1 DEF Asked, AskedBy, AskedUpTo
<1>3. dd.mctrl.count \in 0 .. Slots /\ fp.cur.count \in 0 .. Slots
  BY DEF Base, Shapes, Dd, Mctrl, Cur, Lens
<1> QED  BY <1>1, <1>2, <1>3 DEF Asked, AskedUpTo

\* A handler's step, or the start of a request, keeps the mailbox asked for.
LEMMA AskedHandler ==
  ASSUME Base, Asked, NEW c \in Clients,
         \/ Handler(c) \/ (\E list \in Reads : ReadRanges(c, list))
         \/ (\E pairs \in Writes : WritePairs(c, pairs))
  PROVE  Asked'
<1> DEFINE o == op[c]
<1>1. op \in [Clients -> Op] /\ o \in Op /\ OpOK(o) /\ dd \in Dd /\ dd.pairs \in [1 .. Slots -> Pair]
      /\ fp \in [cur : Cur, lastSeen : 0 .. MaxSeq] /\ Shapes
  BY DEF Base, Shapes, Dd
<1>2. CASE PutAddr(c) \/ PutAddrCtrl(c)
  <2>1. Base' /\ op'[c] = NewOp(c) /\ \A d \in Clients \ {c} : op'[d] = op[d]
    BY <1>2, FillBase
  <2>2. op'[c].pc \in ReadPcs
    BY <1>1, <1>2, <2>1 DEF NewOp, PutAddr, PutAddrCtrl, Op, ReadPcs
  <2>3. dd'.pairs = dd.pairs /\ dd'.mctrl = dd.mctrl /\ UNCHANGED <<asked, fp>>
    BY <1>1, <1>2 DEF PutAddr, PutAddrCtrl, Dd
  <2> QED  BY <2>1, <2>2, <2>3, AskedKept DEF Asked, AskedBy, ReadPcs, WritePcs, Applying
<1>3. CASE PutPair(c)
  <2>1. Base' /\ op'[c] = NewOp(c) /\ \A d \in Clients \ {c} : op'[d] = op[d]
    BY <1>3, FillBase
  <2>2. o.pc = "pairs" /\ o.i \in 1 .. Len(o.list) /\ o.i \in 1 .. Slots /\ o.list \in Writes
    <3>1. o.i \in 1 .. Slots + 1 /\ Len(o.list) \in 0 .. Slots
      BY <1>1, ListTypes DEF Op
    <3> QED  BY <1>1, <1>3, <3>1, Params DEF PutPair, OpOK, WritePcs
  <2>3. op'[c].pc \in {"pairs", "wctrl"} /\ op'[c].list = o.list /\ op'[c].i = o.i + 1
    BY <1>1, <2>1, <2>2 DEF NewOp, AfterPair, Op
  <2>4. dd'.mctrl = dd.mctrl /\ UNCHANGED <<asked, fp>> /\ dd'.pairs = [dd.pairs EXCEPT ![o.i] = o.list[o.i]]
    BY <1>1, <1>3 DEF PutPair, Dd
  <2>5. ToSet(o.list) \subseteq asked /\ o.list[o.i] \in asked /\ AskedUpTo(o.i - 1)
    BY <2>2 DEF Asked, AskedBy, ToSet, WritePcs
  <2>6. \A k \in 1 .. Slots : dd'.pairs[k] = IF k = o.i THEN o.list[o.i] ELSE dd.pairs[k]
    BY <1>1, <2>4
  <2>7. \A k \in 1 .. Slots : dd.pairs[k] \in asked => dd'.pairs[k] \in asked'
    BY <2>4, <2>5, <2>6
  <2>8. AskedBy(c)'
    <3>1. \A k \in 1 .. o.i : dd'.pairs[k] \in asked
      BY <2>2, <2>5, <2>6, Params, SMTT(40) DEF AskedUpTo
    <3>2. op'[c].i - 1 = o.i
      BY <2>2, <2>3
    <3> QED  BY <2>3, <2>4, <2>5, <3>1, <3>2 DEF AskedBy, AskedUpTo
  <2> QED  BY <2>1, <2>4, <2>7, <2>8, AskedKept DEF Asked, Applying
<1>4. CASE PutMailCtrl(c)
  <2>1. Base' /\ op'[c] = NewOp(c) /\ \A d \in Clients \ {c} : op'[d] = op[d]
    BY <1>4, FillBase
  <2>2. o.pc = "wctrl" /\ o.i = Len(o.list) + 1 /\ Len(o.list) \in Nat
    BY <1>1, <1>4, ListTypes DEF PutMailCtrl, OpOK, Op
  <2>3. op'[c].pc = "wpoll" /\ op'[c].list = o.list
    BY <1>1, <2>1, <2>2 DEF NewOp, Op
  <2>4. dd'.mctrl.count = Len(o.list) /\ UNCHANGED <<asked, fp>> /\ dd'.pairs = dd.pairs
    BY <1>1, <1>4 DEF PutMailCtrl, Dd, MailCtrl
  <2>5. ToSet(o.list) \subseteq asked /\ AskedUpTo(o.i - 1) /\ o.i - 1 = Len(o.list)
    BY <2>2 DEF Asked, AskedBy, WritePcs
  <2>6. AskedBy(c)' /\ AskedUpTo(dd.mctrl.count)'
    BY <2>3, <2>4, <2>5 DEF AskedBy, AskedUpTo, WritePcs
  <2> QED  BY <2>1, <2>4, <2>6, AskedKept DEF Asked, Applying
<1>5. CASE SeeResponse(c) \/ ReadValue(c) \/ Timeout(c) \/ SeeAck(c)
  <2>1. Base' /\ \A d \in Clients \ {c} : op'[d] = op[d]
    BY <1>5, WaitBase
  <2>2. op'[c].pc \in {"values", "done"}
    BY <1>1, <1>5, WaitBase DEF Op
  <2>3. UNCHANGED <<dd, asked, fp>>
    BY <1>5 DEF SeeResponse, ReadValue, Timeout, SeeAck
  <2> QED  BY <2>1, <2>2, <2>3, AskedKept DEF Asked, AskedBy, WritePcs, Applying
<1>6. CASE (\E list \in Reads : ReadRanges(c, list)) \/ (\E pairs \in Writes : WritePairs(c, pairs))
  <2>1. /\ Base' /\ UNCHANGED <<dd, fp>> /\ asked \subseteq asked' /\ \A d \in Clients \ {c} : op'[d] = op[d]
        /\ op'[c].pc \in {"done", "list"} \/ (op'[c].pc = "pairs" /\ op'[c].i = 1 /\ ToSet(op'[c].list) \subseteq asked')
    BY <1>6, BeginBase
  <2>2. AskedBy(c)'
    BY <2>1 DEF AskedBy, AskedUpTo, WritePcs
  <2> QED  BY <2>1, <2>2, AskedKept DEF Asked, Applying
<1> QED  BY <1>2, <1>3, <1>4, <1>5, <1>6 DEF Handler

\* And so does every step.
LEMMA AskedStep ==
  ASSUME Base, Asked, MisterNext
  PROVE  Asked'
<1>1. Base' /\ dd \in Dd /\ fp \in [cur : Cur, lastSeen : 0 .. MaxSeq]
  BY BaseStep DEF Base, Shapes
<1>2. CASE HelperRestart
  <2>1. UNCHANGED <<dd, fp, asked>> /\ \A c \in Clients : op'[c].pc = "done"
    BY <1>2, RestartBase
  <2> QED  BY <1>1, <2>1, AskedKept DEF Asked, AskedBy, WritePcs, Applying
<1>3. CASE \E a \in Addrs, v \in Vals : GameWrites(a, v)
  <2>1. UNCHANGED <<op, dd, fp, asked>>
    BY <1>3, GameBase
  <2> QED  BY <1>1, <2>1, AskedKept DEF Asked, Applying
<1>4. CASE VBlank \/ WriteResp \/ DdramTimeout \/ CoreReset
  <2>1. ~Applying'
    <3>1. VBlank => fp'.cur.pc \in {"resp", "fetch"}
      BY <1>1, ZenonT(60) DEF VBlank, SetFp, Idle
    <3>2. WriteResp \/ DdramTimeout \/ CoreReset => fp'.cur = Idle
      BY <1>1, TimeoutBase DEF WriteResp, CoreReset, SetFp
    <3> QED  BY <1>4, <3>1, <3>2 DEF Idle, Applying
  <2>2. dd'.pairs = dd.pairs /\ dd'.mctrl = dd.mctrl /\ UNCHANGED <<op, asked>>
    BY <1>1, <1>4, TimeoutBase DEF VBlank, WriteResp, CoreReset, Dd
  <2> QED  BY <1>1, <2>1, <2>2, AskedKept DEF Asked
<1>5. CASE PollMailbox
  <2>1. fp'.cur.count = dd.mctrl.count /\ UNCHANGED <<op, dd, asked>>
    BY <1>1, <1>5 DEF PollMailbox, SetFp, Idle
  <2> QED  BY <1>1, <2>1, AskedKept DEF Asked, AskedUpTo
<1>6. CASE WriteAck
  <2>1. /\ ~Applying' /\ dd'.pairs = dd.pairs /\ dd'.mctrl.count = fp.cur.count /\ UNCHANGED <<op, asked>>
        /\ Applying
    BY <1>1, <1>6 DEF WriteAck, Idle, Applying, Dd
  <2> QED  BY <1>1, <2>1, AskedKept DEF Asked, AskedUpTo
<1>7. CASE Fetch
  <2>1. UNCHANGED <<op, dd, asked>> /\ fp.cur.pc = "fetch"
    BY <1>7, FetchBase
  <2>2. ~Applying'
    <3>1. \E v \in Vals : fp'.cur = FetchedJob(v)
      BY <1>7, FetchBase
    <3>2. fp.cur \in Cur
      BY <1>1
    <3> QED  BY <3>1, <3>2 DEF FetchedJob, Applying, Cur
  <2> QED  BY <1>1, <2>1, <2>2, AskedKept DEF Asked
<1>8. CASE Flush
  <2>1. UNCHANGED <<op, asked, dd.pairs, dd.mctrl>> /\ ~Applying'
    BY <1>8, FlushBase DEF Applying
  <2> QED  BY <1>1, <2>1, AskedKept DEF Asked
<1>9. CASE ApplyPair
  <2>1. UNCHANGED <<op, asked, dd>> /\ Applying /\ fp'.cur.count = fp.cur.count
    BY <1>9, ApplyBase DEF Applying
  <2> QED  BY <1>1, <2>1, AskedKept DEF Asked
<1> QED  BY <1>2, <1>3, <1>4, <1>5, <1>6, <1>7, <1>8, <1>9, AskedHandler DEF MisterNext, Core

\* The device starts with nothing asked and an empty mailbox.
LEMMA InitBase == MisterInit => Base /\ Asked /\ ~Applying /\ ~Answering /\ \A c \in Clients : op[c].pc = "done"
<1> SUFFICES ASSUME MisterInit PROVE Base /\ Asked /\ ~Applying /\ ~Answering /\ \A c \in Clients : op[c].pc = "done"
  OBVIOUS
<1>1. (CHOOSE a \in Addrs : TRUE) \in Addrs /\ 0 \in Vals
  BY MisterAssumption
<1>2. op \in [Clients -> Op] /\ \A c \in Clients : op[c] = NoOp
  BY NoOpType DEF MisterInit
<1>3. dd \in Dd
  <2>1. 0 \in Lens /\ 0 \in 0 .. MaxOps /\ 0 \in 0 .. MaxSeq
    BY Params DEF Lens
  <2>2. dd.mctrl \in Mctrl
    BY <2>1 DEF MisterInit, Mctrl
  <2>3. dd.addrs \in [1 .. Slots -> AnyAddr] /\ dd.vals \in [1 .. Slots -> Vals] /\ dd.pairs \in [1 .. Slots -> Pair]
    BY <1>1 DEF MisterInit, AnyAddr, Pair
  <2> QED  BY <2>1, <2>2, <2>3 DEF MisterInit, Dd
<1>4. fp \in [cur : Cur, lastSeen : 0 .. MaxSeq] /\ fp.cur = Idle
  BY IdleType, Params DEF MisterInit
<1>5. hp \in Hp /\ left \in Left /\ hp.id = 0 /\ hp.seq = 0 /\ left.ops = MaxOps
  BY Params DEF MisterInit, Hp, Left
<1>6. Shapes
  BY <1>1, <1>2, <1>3, <1>4, <1>5 DEF MisterInit, Shapes, AnyAddr
<1>7. Counted
  BY <1>5, Params DEF Counted
<1>8. CurOK /\ ~Applying /\ ~Answering
  BY <1>4, IdleType DEF CurOK, Applying, Answering
<1>9. dd.mctrl.count = 0
  BY DEF MisterInit
<1>10. \A c \in Clients : OpOK(op[c]) /\ op[c].pc = "done"
  BY <1>2, NoOpType DEF NoOp
<1>11. Asked
  BY <1>8, <1>9, <1>10 DEF Asked, AskedBy, AskedUpTo, WritePcs
<1> QED  BY <1>6, <1>7, <1>8, <1>9, <1>10, <1>11 DEF Base, MailOK

\* A step of the endpoint is a step of the device or leaves it alone.
LEMMA DeviceStep == [Next]_vars => MisterNext \/ UNCHANGED misterVars
BY DEF Next, vars

\* Types, progress and the mailbox, whatever the sessions, the helper and the core do.
THEOREM DeviceInvariant == Spec => [](Base /\ Asked)
<1>1. Init => Base /\ Asked
  BY InitBase DEF Init
<1>2. Base /\ Asked /\ [Next]_vars => (Base /\ Asked)'
  <2> SUFFICES ASSUME Base, Asked, [Next]_vars PROVE (Base /\ Asked)'
    OBVIOUS
  <2>1. CASE MisterNext
    BY <2>1, BaseStep, AskedStep
  <2>2. CASE UNCHANGED misterVars
    <3>1. Base'
      BY <2>2 DEF Base, Shapes, Counted, CurOK, MailOK, Answering, Applying, OpOK, misterVars
    <3> QED  BY <2>2, <3>1 DEF Asked, AskedBy, AskedUpTo, Applying, misterVars
  <2> QED  BY <2>1, <2>2, DeviceStep
<1> QED  BY <1>1, <1>2, PTL DEF Spec

\* ApplyPair of the core writes only pairs that some write_pairs carried, although
\* handlers overwrite the mailbox while it reads, and helper and core are restarted
\* at any moment.
THEOREM WritesAreAsked == Spec => OnlyAsked
<1>1. Base /\ Asked => (fp.cur.pc = "apply" => dd.pairs[fp.cur.i] \in asked)
  <2> SUFFICES ASSUME Base, Asked, fp.cur.pc = "apply" PROVE dd.pairs[fp.cur.i] \in asked
    OBVIOUS
  <2>1. fp.cur.i \in 1 .. fp.cur.count
    BY Params DEF Base, CurOK, Shapes, Cur, Lens
  <2> QED  BY <2>1 DEF Asked, AskedUpTo, Applying
<1>2. Base /\ Asked /\ [Next]_vars =>
        [fp.cur.pc = "apply" /\ fp'.cur.pc \in {"apply", "ack"} => dd.pairs[fp.cur.i] \in asked]_vars
  BY <1>1
<1> QED  BY <1>2, DeviceInvariant, PTL DEF Spec, OnlyAsked

-----------------------------------------------------------------------------
(* Snapshots are fresh *)

Calm == Alone /\ Numbered /\ Reading

\* The typed parts of a read that waits or is being answered.
LEMMA ReadTypes ==
  ASSUME Base, NEW c \in Clients, op[c].pc \in ReadPcs
  PROVE  /\ op[c] \in Op /\ op[c].list \in Reads \ {<<>>} /\ Len(op[c].list) \in 1 .. Slots
         /\ \A k \in 1 .. Len(op[c].list) : op[c].list[k] \in AnyAddr /\ k \in 1 .. Slots
         /\ op[c].i \in 1 .. Slots + 1 /\ op[c].tag \in Nat /\ hp.id \in Nat
         /\ (op[c].pc = "list" => op[c].i \in 1 .. Len(op[c].list))
<1>1. op[c] \in Op /\ OpOK(op[c]) /\ hp \in Hp
  BY DEF Base, Shapes
<1>2. op[c].list \in Reads \ {<<>>} /\ op[c].i \in 1 .. Slots + 1 /\ op[c].tag \in Nat /\ hp.id \in Nat
  BY <1>1, Params DEF OpOK, Op, Hp
<1>3. Len(op[c].list) \in 1 .. Slots /\ \A k \in 1 .. Len(op[c].list) : op[c].list[k] \in AnyAddr
  BY <1>2, ListTypes, Params
<1>4. \A k \in 1 .. Len(op[c].list) : k \in 1 .. Slots
  BY <1>3, Params
<1>5. op[c].pc = "list" => op[c].i <= Len(op[c].list)
  BY <1>1 DEF OpOK
<1>6. op[c].pc = "list" => op[c].i \in 1 .. Len(op[c].list)
  BY <1>2, <1>3, <1>5, Params
<1> QED  BY <1>1, <1>2, <1>3, <1>4, <1>6

\* The handler that is busy takes a step: everyone else is idle and stays so.
LEMMA OthersIdle ==
  ASSUME Alone, NEW c \in Clients, Busy(c), \A d \in Clients \ {c} : op'[d] = op[d]
  PROVE  Alone' /\ \A d \in Clients \ {c} : op'[d].pc = "done"
BY DEF Alone, Busy

\* A step of a handler keeps reads sound.
LEMMA CalmHandler ==
  ASSUME Base, Calm, NEW c \in Clients, Handler(c)
  PROVE  Calm'
<1> DEFINE o == op[c]
           n == op'[c]
<1>1. /\ Shapes /\ op \in [Clients -> Op] /\ o \in Op /\ OpOK(o) /\ dd \in Dd /\ hp \in Hp
      /\ dd.addrs \in [1 .. Slots -> AnyAddr] /\ hp.id \in Nat
  BY DEF Base, Shapes, Dd, Hp
<1>2. Busy(c) /\ UNCHANGED <<hp, fp>> /\ Base' /\ \A d \in Clients \ {c} : op'[d] = op[d]
  <2>1. Busy(c) /\ UNCHANGED <<hp, fp>>
    BY DEF Busy, Handler, PutAddr, PutAddrCtrl, SeeResponse, ReadValue, Timeout, PutPair, PutMailCtrl, SeeAck
  <2> QED  BY <2>1, FillBase, WaitBase DEF Handler
<1>3. Alone' /\ \A d \in Clients \ {c} : op'[d].pc = "done"
  BY <1>2, OthersIdle DEF Calm
<1>4. SUFFICES /\ dd'.actrl[2] <= hp.id /\ dd'.vctrl <= hp.id
               /\ n.pc \in ReadPcs => n.tag = hp.id
               /\ n.pc \in {"list", "rctrl"} =>
                    dd'.actrl[2] < hp.id /\ dd'.vctrl < hp.id /\ (Answering => fp.cur.seq < hp.id)
               /\ n.pc \in {"list", "rctrl"} => Listed(c)'
               /\ n.pc = "rctrl" => n.i = Len(n.list) + 1
               /\ n.pc \in {"rpoll", "values"} => Posted(c)'
  BY <1>2, <1>3 DEF Calm, Numbered, Reading, Answering, ReadPcs
<1>5. CASE PutPair(c) \/ PutMailCtrl(c) \/ Timeout(c) \/ SeeAck(c)
  <2>1. n.pc \notin ReadPcs
    <3>1. PutPair(c) \/ PutMailCtrl(c) => n = NewOp(c) /\ o.pc \in {"pairs", "wctrl"}
      BY FillBase DEF PutPair, PutMailCtrl
    <3>2. Timeout(c) \/ SeeAck(c) => n.pc = "done"
      BY WaitBase
    <3>3. NewOp(c).pc \in WritePcs \/ o.pc \notin {"pairs", "wctrl"}
      BY <1>1 DEF NewOp, AfterPair, Op, WritePcs
    <3> QED  BY <1>5, <3>1, <3>2, <3>3 DEF ReadPcs, WritePcs
  <2>2. dd'.actrl = dd.actrl /\ dd'.vctrl = dd.vctrl
    BY <1>1, <1>5 DEF PutPair, PutMailCtrl, Timeout, SeeAck, Dd
  <2> QED  BY <2>1, <2>2 DEF Calm, Numbered, ReadPcs
<1>6. CASE PutAddr(c)
  <2>1. n = NewOp(c) /\ o.pc = "list"
    BY <1>6, FillBase DEF PutAddr
  <2>2. /\ n.list = o.list /\ n.tag = o.tag /\ n.i = o.i + 1
        /\ n.pc = IF o.i = Len(o.list) THEN "rctrl" ELSE "list"
    BY <1>1, <2>1 DEF NewOp, Op
  <2>3. dd'.actrl = dd.actrl /\ dd'.vctrl = dd.vctrl /\ dd'.addrs = [dd.addrs EXCEPT ![o.i] = o.list[o.i]]
    BY <1>1, <1>6 DEF PutAddr, Dd
  <2>4. /\ o.i \in 1 .. Len(o.list) /\ Len(o.list) \in 1 .. Slots
        /\ \A k \in 1 .. Len(o.list) : k \in 1 .. Slots
    BY <2>1, ReadTypes DEF ReadPcs
  <2>5. Listed(c) /\ o.tag = hp.id
    BY <2>1 DEF Calm, Reading, Numbered, ReadPcs
  <2>6. Listed(c)'
    <3>1. \A k \in 1 .. Len(o.list) : dd'.addrs[k] = IF k = o.i THEN o.list[k] ELSE dd.addrs[k]
      BY <1>1, <2>3, <2>4
    <3>2. \A k \in 1 .. Len(o.list) : k < o.i + 1 /\ k # o.i => k < o.i
      BY <2>4
    <3> QED  BY <2>2, <2>5, <3>1, <3>2 DEF Listed
  <2> QED  BY <2>1, <2>2, <2>3, <2>5, <2>6 DEF Calm, Numbered, ReadPcs
<1>7. CASE PutAddrCtrl(c)
  <2>1. n = NewOp(c) /\ o.pc = "rctrl"
    BY <1>7, FillBase DEF PutAddrCtrl
  <2>2. n.list = o.list /\ n.tag = o.tag /\ n.pc = "rpoll"
    BY <1>1, <2>1 DEF NewOp, Op
  <2>3. /\ dd'.actrl = <<Len(o.list), o.tag>> /\ dd'.vctrl = dd.vctrl /\ dd'.addrs = dd.addrs
        /\ ram' = ram /\ offered' = [offered EXCEPT ![c] = [a \in DOMAIN @ |-> {Fetched(a)}]]
    BY <1>1, <1>7 DEF PutAddrCtrl, Dd
  <2>4. Listed(c) /\ o.tag = hp.id /\ o.i = Len(o.list) + 1 /\ dd.vctrl < hp.id /\ (Answering => fp.cur.seq < hp.id)
    BY <2>1 DEF Calm, Reading, Numbered, ReadPcs
  <2>5. Len(o.list) \in 1 .. Slots
    BY <2>1, ReadTypes DEF ReadPcs
  <2>6. \A k \in 1 .. Len(o.list) : dd'.addrs[k] = o.list[k]
    BY <2>3, <2>4, <2>5 DEF Listed
  <2>7. \A a \in AnyAddr : offered'[c][a] = {Fetched(a)} /\ Fetched(a)' = Fetched(a)
    BY <1>1, <2>3 DEF Shapes, Fetched
  <2>8. dd.vctrl # hp.id /\ (Answering => fp.cur.seq # hp.id)
    <3>1. dd.vctrl \in Nat /\ fp.cur.seq \in Nat
      BY <1>1, Params DEF Dd, Shapes, Cur
    <3> QED  BY <1>1, <2>4, <3>1
  <2>9. Posted(c)'
    BY <1>2, <2>2, <2>3, <2>4, <2>6, <2>7, <2>8 DEF Posted, Answering
  <2>10. dd'.actrl[2] <= hp.id /\ dd'.vctrl <= hp.id
    BY <1>1, <2>3, <2>4 DEF Calm, Numbered
  <2> QED  BY <2>2, <2>4, <2>9, <2>10
<1>8. CASE SeeResponse(c)
  <2>1. n = [o EXCEPT !.pc = "values"] /\ o.pc = "rpoll" /\ dd.vctrl = o.tag /\ UNCHANGED <<dd, fp, ram, offered>>
    BY <1>8, WaitBase DEF SeeResponse, ResponseHere
  <2>2. n.list = o.list /\ n.tag = o.tag /\ n.pc = "values" /\ n.got = <<>>
    BY <1>1, <2>1 DEF Op, OpOK
  <2>3. Posted(c) /\ o.tag = hp.id
    BY <2>1 DEF Calm, Reading, Numbered, ReadPcs
  <2>4. Posted(c)'
    BY <2>1, <2>2, <2>3 DEF Posted, Answering, Fetched
  <2> QED  BY <2>1, <2>2, <2>3, <2>4 DEF Calm, Numbered
<1>9. CASE ReadValue(c)
  <2>1. o.pc = "values" /\ UNCHANGED <<dd, fp, ram>>
    BY <1>9 DEF ReadValue
  <2>2. /\ n.list = o.list /\ n.tag = o.tag /\ n.got = Append(o.got, dd.vals[o.i])
        /\ n.pc = IF o.i < Len(o.list) THEN "values" ELSE "done"
    BY <1>9, WaitBase
  <2>3. Posted(c) /\ o.tag = hp.id
    BY <2>1 DEF Calm, Reading, Numbered, ReadPcs
  <2>4. CASE n.pc = "values"
    <3>1. o.i < Len(o.list) /\ offered' = offered
      BY <1>9, <2>2, <2>4 DEF ReadValue
    <3>2. o.i \in Nat /\ o.i >= 1 /\ Len(o.list) \in Nat /\ Len(o.got) = o.i - 1 /\ o.got \in Seq(Vals) /\ dd.vals[o.i] \in Vals
      <4>1. o.i \in 1 .. Slots + 1 /\ Len(o.list) \in 1 .. Slots
        BY <2>1, ReadTypes DEF ReadPcs
      <4>2. o.i \in 1 .. Slots
        BY <3>1, <4>1, Params
      <4> QED  BY <1>1, <2>1, <4>1, <4>2, Params DEF OpOK, Dd, Op
    <3>3. \A k \in 1 .. Len(n.got) : n.got[k] \in offered[c][o.list[k]]
      <4>1. \A k \in 1 .. Len(o.got) : o.got[k] \in offered[c][o.list[k]]
        BY <2>1, <2>3 DEF Posted
      <4>2. dd.vals[o.i] \in offered[c][o.list[o.i]]
        <5>1. dd.vctrl = o.tag
          BY <2>1, <2>3 DEF Posted
        <5>2. o.i \in 1 .. Len(o.list)
          BY <3>1, <3>2
        <5> QED  BY <2>3, <5>1, <5>2 DEF Posted
      <4>3. Len(n.got) = o.i /\ \A k \in 1 .. o.i : n.got[k] = IF k < o.i THEN o.got[k] ELSE dd.vals[o.i]
        BY <2>2, <3>2, SMTT(40)
      <4>4. \A k \in 1 .. o.i : k < o.i => k \in 1 .. Len(o.got)
        BY <3>2
      <4>5. \A k \in 1 .. o.i : ~(k < o.i) => k = o.i
        BY <3>2
      <4> QED  BY <4>1, <4>2, <4>3, <4>4, <4>5
    <3>4. Posted(c)'
      BY <2>1, <2>2, <2>3, <3>1, <3>3 DEF Posted, Answering, Fetched
    <3> QED  BY <2>1, <2>2, <2>3, <2>4, <3>4 DEF Calm, Numbered
  <2> QED  BY <2>1, <2>2, <2>4 DEF Calm, Numbered, ReadPcs
<1> QED  BY <1>5, <1>6, <1>7, <1>8, <1>9 DEF Handler

\* A request begins while none is busy: its number is new.
LEMMA CalmBegin ==
  ASSUME Base, Numbered, NEW c \in Clients, ~hp'.disturbed,
         (\E list \in Reads : ReadRanges(c, list)) \/ (\E pairs \in Writes : WritePairs(c, pairs))
  PROVE  Calm'
<1>1. /\ \A d \in Clients \ {c} : op'[d] = op[d]
      /\ UNCHANGED <<dd, fp>> /\ \A d \in Clients : ~Busy(d)
      /\ \/ op'[c].pc = "done" /\ hp'.id = hp.id
         \/ op'[c].pc = "list" /\ op'[c].i = 1 /\ op'[c].tag = hp'.id /\ hp'.id = hp.id + 1
         \/ op'[c].pc = "pairs" /\ hp'.id = hp.id
  BY BeginBase
<1>2. \A d \in Clients \ {c} : op'[d].pc = "done"
  BY <1>1 DEF Busy
<1>3. hp.id \in Nat /\ dd.actrl[2] \in Nat /\ dd.vctrl \in Nat /\ fp.cur.seq \in Nat
  BY Params DEF Base, Shapes, Hp, Dd, Cur
<1>4. Alone'
  BY <1>2 DEF Alone, Busy
<1>5. Numbered'
  <2>1. dd.actrl[2] <= hp.id /\ dd.vctrl <= hp.id /\ (Answering => fp.cur.seq <= hp.id)
    BY DEF Numbered
  <2>2. CASE hp'.id = hp.id /\ op'[c].pc \in {"done", "pairs"}
    BY <1>1, <1>2, <2>1, <2>2 DEF Numbered, Answering, ReadPcs
  <2>3. CASE op'[c].pc = "list" /\ op'[c].tag = hp'.id /\ hp'.id = hp.id + 1
    <3>1. dd.actrl[2] < hp'.id /\ dd.vctrl < hp'.id /\ (Answering => fp.cur.seq < hp'.id)
      BY <1>3, <2>1, <2>3
    <3>2. dd.actrl[2] <= hp'.id /\ dd.vctrl <= hp'.id /\ (Answering => fp.cur.seq <= hp'.id)
      BY <1>3, <2>1, <2>3
    <3> QED  BY <1>1, <1>2, <2>3, <3>1, <3>2 DEF Numbered, Answering, ReadPcs
  <2> QED  BY <1>1, <2>2, <2>3
<1>6. Reading'
  <2>1. op'[c].pc = "list" => Listed(c)'
    BY <1>1 DEF Listed
  <2> QED  BY <1>1, <1>2, <2>1 DEF Reading
<1> QED  BY <1>4, <1>5, <1>6 DEF Calm

\* The ghosts follow RAM: what the core could fetch was offered.
LEMMA RamOffered ==
  ASSUME Shapes, NEW c \in Clients, op[c].pc \in {"rpoll", "values"},
         \A a \in AnyAddr : Fetched(a) \in offered[c][a],
         \A b \in AnyAddr : offered[c][b] \subseteq offered'[c][b],
         \/ ram' = ram
         \/ \E a \in Addrs, v \in Vals : ram' = [ram EXCEPT ![a] = v] /\ Offer(a, v)
  PROVE  \A a \in AnyAddr : Fetched(a)' \in offered'[c][a]
<1>1. CASE ram' = ram
  BY <1>1 DEF Fetched
<1>2. CASE \E a \in Addrs, v \in Vals : ram' = [ram EXCEPT ![a] = v] /\ Offer(a, v)
  <2>1. PICK a \in Addrs, v \in Vals : ram' = [ram EXCEPT ![a] = v] /\ Offer(a, v)
    BY <1>2
  <2>2. a \in AnyAddr /\ v \in offered'[c][a]
    BY <2>1, OfferTypes DEF AnyAddr
  <2>3. \A b \in AnyAddr : Fetched(b)' = IF b = a THEN v ELSE Fetched(b)
    BY <2>1 DEF Fetched, Shapes
  <2> QED  BY <2>2, <2>3
<1> QED  BY <1>1, <1>2

\* A step of the core or the game leaves the handlers, the address list and its
\* control word alone; then reads stay sound when the job and the answer do.
LEMMA CalmCoreKeeps ==
  ASSUME Base, Calm, UNCHANGED <<op, hp, dd.addrs, dd.actrl>>,
         \A c \in Clients : \A b \in AnyAddr : offered[c][b] \subseteq offered'[c][b],
         \/ ram' = ram
         \/ \E a \in Addrs, v \in Vals : ram' = [ram EXCEPT ![a] = v] /\ Offer(a, v),
         dd'.vctrl = dd.vctrl \/ (Answering /\ dd'.vctrl = fp.cur.seq),
         Answering' => fp'.cur.seq = dd.actrl[2] \/ (Answering /\ fp'.cur.seq = fp.cur.seq),
         \A c \in Clients : op[c].pc \in {"rpoll", "values"} /\ Posted(c) =>
           LET list == op[c].list
               j == fp'.cur
           IN /\ Answering' /\ j.seq = op[c].tag =>
                   /\ j.count = Len(list)
                   /\ \A k \in 1 .. Len(list) : k < j.word => dd'.vals[k] \in offered'[c][list[k]]
                   /\ \A k \in 1 .. Len(j.buf) : j.buf[k] \in offered'[c][list[j.word + k - 1]]
              /\ dd'.vctrl = op[c].tag =>
                   /\ \A k \in 1 .. Len(list) : dd'.vals[k] \in offered'[c][list[k]]
                   /\ Answering' => j.seq = op[c].tag
              /\ op[c].pc = "values" => dd'.vctrl = op[c].tag
  PROVE  Calm'
<1>1. Alone'
  BY DEF Calm, Alone, Busy
<1>2. Numbered'
  BY DEF Calm, Numbered
<1>3. ASSUME NEW c \in Clients, op[c].pc \in {"rpoll", "values"} PROVE Posted(c)'
  <2>1. Posted(c)
    BY <1>3 DEF Calm, Reading
  <2>2. op[c].pc \in ReadPcs /\ OpOK(op[c])
    BY <1>3 DEF ReadPcs, Base
  <2>3. \A a \in AnyAddr : Fetched(a)' \in offered'[c][a]
    BY <1>3, <2>1, RamOffered DEF Posted, Base
  <2>4. op[c].pc = "values" => \A k \in 1 .. Len(op[c].got) : op[c].got[k] \in offered'[c][op[c].list[k]]
    <3>1. \A k \in 1 .. Len(op[c].got) : op[c].list[k] \in AnyAddr
      <4>1. Len(op[c].got) <= Len(op[c].list) /\ Len(op[c].got) \in Nat /\ Len(op[c].list) \in Nat
        BY <2>2, ReadTypes DEF OpOK, Op
      <4>2. \A k \in 1 .. Len(op[c].got) : k \in 1 .. Len(op[c].list)
        BY <4>1
      <4> QED  BY <2>2, <4>2, ReadTypes
    <3> QED  BY <2>1, <3>1 DEF Posted
  <2> QED  BY <1>3, <2>1, <2>3, <2>4 DEF Posted
<1>4. Reading'
  BY <1>3 DEF Calm, Reading, Listed
<1> QED  BY <1>1, <1>2, <1>4 DEF Calm

\* The steps of the core and the game keep reads sound: an answer is written over
\* the one before it with values that were offered too, and gets its id last.
LEMMA CalmCore ==
  ASSUME Base, Calm, Core \/ DdramTimeout \/ CoreReset \/ \E a \in Addrs, v \in Vals : GameWrites(a, v)
  PROVE  Calm'
<1>1. /\ dd \in Dd /\ fp \in [cur : Cur, lastSeen : 0 .. MaxSeq] /\ fp.cur \in Cur /\ CurOK
      /\ fp.cur.seq \in Nat /\ dd.actrl[2] \in Nat /\ fp.cur.i \in 1 .. Slots + 1 /\ fp.cur.word \in 1 .. Slots + 1
      /\ fp.cur.count \in 0 .. Slots /\ fp.cur.buf \in Seq(Vals) /\ Shapes
  BY Params DEF Base, Shapes, Dd, Cur, Lens
<1>2. ASSUME NEW c \in Clients, op[c].pc \in {"rpoll", "values"}, Posted(c)
      PROVE  /\ op[c] \in Op /\ Len(op[c].list) \in 1 .. Slots /\ op[c].tag \in Nat
             /\ \A k \in 1 .. Len(op[c].list) : k \in 1 .. Slots /\ op[c].list[k] \in AnyAddr
             /\ op[c].tag = dd.actrl[2] /\ Len(op[c].list) = dd.actrl[1]
  BY <1>2, ReadTypes DEF ReadPcs, Posted
<1>3. CASE VBlank
  <2>1. /\ UNCHANGED <<op, hp, dd, ram, offered>> /\ fp'.cur.seq = dd.actrl[2] /\ fp'.cur.count = dd.actrl[1]
        /\ fp'.cur.buf = <<>> /\ fp'.cur.word = 1 /\ ~Answering
    BY <1>1, <1>3 DEF VBlank, SetFp, Idle, Answering
  <2>2. \A k \in 1 .. Len(<<>>) : FALSE
    OBVIOUS
  <2> QED  BY <1>2, <2>1, <2>2, CalmCoreKeeps DEF Posted
<1>4. CASE PollMailbox \/ WriteAck \/ CoreReset \/ (DdramTimeout /\ dd' = dd)
  <2>1. /\ UNCHANGED <<op, hp, ram, offered, dd.addrs, dd.actrl, dd.vctrl, dd.vals>>
    BY <1>1, <1>4, TimeoutBase DEF PollMailbox, WriteAck, CoreReset, Dd
  <2>2. ~Answering'
    <3>1. PollMailbox => fp'.cur.pc = "apply"
      BY <1>1 DEF PollMailbox, SetFp, Idle
    <3>2. WriteAck \/ DdramTimeout \/ CoreReset => fp'.cur.pc = "idle"
      BY TimeoutBase DEF WriteAck, CoreReset, Idle
    <3> QED  BY <1>4, <3>1, <3>2 DEF Answering
  <2> QED  BY <2>1, <2>2, CalmCoreKeeps DEF Posted
<1>5. CASE WriteResp
  <2>1. /\ UNCHANGED <<op, hp, ram, offered, dd.addrs, dd.actrl, dd.vals>> /\ fp'.cur = Idle
        /\ dd'.vctrl = fp.cur.seq /\ fp.cur.pc = "resp" /\ Answering
    BY <1>1, <1>5 DEF WriteResp, SetFp, Dd, Answering
  <2>2. ~Answering'
    BY <2>1 DEF Idle, Answering
  <2>3. fp.cur.word = fp.cur.count + 1
    <3>1. fp.cur.buf = <<>> /\ fp.cur.i = fp.cur.count + 1 /\ fp.cur.word + Len(fp.cur.buf) = fp.cur.i
      BY <1>1, <2>1 DEF CurOK
    <3> QED  BY <1>1, <3>1
  <2>4. ASSUME NEW c \in Clients, op[c].pc \in {"rpoll", "values"}, Posted(c), fp.cur.seq = op[c].tag
        PROVE  \A k \in 1 .. Len(op[c].list) : dd.vals[k] \in offered[c][op[c].list[k]]
    <3>1. fp.cur.count = Len(op[c].list)
      BY <2>1, <2>4 DEF Posted
    <3>2. \A k \in 1 .. Len(op[c].list) : k < fp.cur.word
      BY <1>2, <2>3, <2>4, <3>1
    <3> QED  BY <2>1, <2>4, <3>2 DEF Posted
  <2>5. ASSUME NEW c \in Clients, op[c].pc = "values", Posted(c) PROVE dd'.vctrl = op[c].tag
    BY <2>1, <2>5 DEF Posted
  <2> QED  BY <2>1, <2>2, <2>4, <2>5, CalmCoreKeeps
<1>6. CASE ApplyPair
  <2>1. /\ UNCHANGED <<op, hp, dd>> /\ ~Answering /\ ~Answering'
        /\ \A c \in Clients : \A b \in AnyAddr : offered[c][b] \subseteq offered'[c][b]
    BY <1>6, ApplyBase DEF Answering
  <2>2. ram' = ram \/ \E a \in Addrs, v \in Vals : ram' = [ram EXCEPT ![a] = v] /\ Offer(a, v)
    <3>1. dd.pairs[fp.cur.i][1] \in Addrs /\ dd.pairs[fp.cur.i][2] \in Vals
      BY <1>6, ApplyBase DEF Pair
    <3> QED  BY <1>6, <3>1, ApplyBase
  <2>3. ASSUME NEW c \in Clients, op[c].pc \in {"rpoll", "values"}, Posted(c), dd.vctrl = op[c].tag
        PROVE  \A k \in 1 .. Len(op[c].list) : dd.vals[k] \in offered'[c][op[c].list[k]]
    BY <1>2, <2>1, <2>3 DEF Posted
  <2>4. ASSUME NEW c \in Clients, op[c].pc = "values", Posted(c) PROVE dd'.vctrl = op[c].tag
    BY <2>1, <2>4 DEF Posted
  <2> QED  BY <2>1, <2>2, <2>3, <2>4, CalmCoreKeeps
<1>7. CASE \E a \in Addrs, v \in Vals : GameWrites(a, v)
  <2>1. PICK a \in Addrs, v \in Vals : GameWrites(a, v)
    BY <1>7
  <2>2. /\ UNCHANGED <<op, hp, dd, fp>>
        /\ \A c \in Clients : \A b \in AnyAddr : offered[c][b] \subseteq offered'[c][b]
    BY <2>1, GameBase
  <2>3. ram' = [ram EXCEPT ![a] = v] /\ Offer(a, v)
    BY <2>1 DEF GameWrites
  <2>4. ASSUME NEW c \in Clients, op[c].pc \in {"rpoll", "values"}, Posted(c)
        PROVE  /\ Answering /\ fp.cur.seq = op[c].tag =>
                    /\ fp.cur.count = Len(op[c].list)
                    /\ \A k \in 1 .. Len(op[c].list) : k < fp.cur.word => dd.vals[k] \in offered'[c][op[c].list[k]]
                    /\ \A k \in 1 .. Len(fp.cur.buf) : fp.cur.buf[k] \in offered'[c][op[c].list[fp.cur.word + k - 1]]
               /\ dd.vctrl = op[c].tag =>
                    /\ \A k \in 1 .. Len(op[c].list) : dd.vals[k] \in offered'[c][op[c].list[k]]
                    /\ Answering => fp.cur.seq = op[c].tag
               /\ op[c].pc = "values" => dd.vctrl = op[c].tag
    <3>1. Answering /\ fp.cur.count = Len(op[c].list) =>
            \A k \in 1 .. Len(fp.cur.buf) : fp.cur.word + k - 1 \in 1 .. Len(op[c].list)
      <4>1. Answering => fp.cur.word + Len(fp.cur.buf) = fp.cur.i /\ fp.cur.i <= fp.cur.count + 1
        BY <1>1 DEF CurOK
      <4> QED  BY <1>1, <4>1, SMTT(40)
    <3>2. \A k \in 1 .. Len(op[c].list) : offered[c][op[c].list[k]] \subseteq offered'[c][op[c].list[k]]
      BY <1>2, <2>2, <2>4
    <3>3. Answering /\ fp.cur.seq = op[c].tag =>
            \A k \in 1 .. Len(fp.cur.buf) : fp.cur.buf[k] \in offered[c][op[c].list[fp.cur.word + k - 1]]
      BY <2>4 DEF Posted
    <3>4. Answering /\ fp.cur.seq = op[c].tag => fp.cur.count = Len(op[c].list)
      BY <2>4 DEF Posted
    <3>5. Answering /\ fp.cur.seq = op[c].tag =>
            \A k \in 1 .. Len(fp.cur.buf) : fp.cur.buf[k] \in offered'[c][op[c].list[fp.cur.word + k - 1]]
      BY <3>1, <3>2, <3>3, <3>4
    <3> QED  BY <2>4, <3>2, <3>4, <3>5 DEF Posted
  <2>5. Answering' = Answering
    BY <2>2 DEF Answering
  <2> QED  BY <2>2, <2>3, <2>4, <2>5, CalmCoreKeeps
<1>8. CASE Fetch
  <2>1. /\ UNCHANGED <<op, hp, dd, ram>> /\ Answering /\ fp.cur.pc = "fetch"
        /\ \A c \in Clients : \A b \in AnyAddr : offered[c][b] \subseteq offered'[c][b]
    BY <1>8, FetchBase DEF Answering
  <2>2. PICK v \in Vals :
          /\ fp'.cur = FetchedJob(v)
          /\ \/ v = Fetched(dd.addrs[fp.cur.i])
             \/ \A c \in Clients : op[c].pc \in {"rpoll", "values"} => v \in offered'[c][dd.addrs[fp.cur.i]]
    BY <1>8, FetchBase
  <2>3. /\ fp'.cur.seq = fp.cur.seq /\ fp'.cur.count = fp.cur.count /\ fp'.cur.word = fp.cur.word
        /\ fp'.cur.buf = Append(fp.cur.buf, v)
    BY <1>1, <2>2 DEF FetchedJob, Cur
  <2>4. fp.cur.word + Len(fp.cur.buf) = fp.cur.i /\ fp.cur.i <= fp.cur.count /\ fp.cur.i \in Nat
        /\ Len(fp.cur.buf) \in Nat /\ fp.cur.word \in Nat /\ fp.cur.word >= 1
    BY <1>1, <2>1 DEF CurOK
  <2>5. ASSUME NEW c \in Clients, op[c].pc \in {"rpoll", "values"}, Posted(c), fp.cur.seq = op[c].tag
        PROVE  /\ fp.cur.count = Len(op[c].list)
               /\ \A k \in 1 .. Len(op[c].list) : k < fp.cur.word => dd.vals[k] \in offered'[c][op[c].list[k]]
               /\ \A k \in 1 .. Len(fp'.cur.buf) : fp'.cur.buf[k] \in offered'[c][op[c].list[fp.cur.word + k - 1]]
    <3>1. /\ fp.cur.count = Len(op[c].list)
          /\ \A k \in 1 .. Len(op[c].list) : k < fp.cur.word => dd.vals[k] \in offered[c][op[c].list[k]]
          /\ \A k \in 1 .. Len(fp.cur.buf) : fp.cur.buf[k] \in offered[c][op[c].list[fp.cur.word + k - 1]]
      BY <2>1, <2>5 DEF Posted
    <3>2. fp.cur.i \in 1 .. Len(op[c].list) /\ \A k \in 1 .. Len(fp.cur.buf) : fp.cur.word + k - 1 \in 1 .. Len(op[c].list)
      BY <1>1, <2>4, <3>1, SMTT(40)
    <3>3. \A k \in 1 .. Len(op[c].list) : offered[c][op[c].list[k]] \subseteq offered'[c][op[c].list[k]]
      BY <1>2, <2>1, <2>5
    <3>4. dd.addrs[fp.cur.i] = op[c].list[fp.cur.i] /\ op[c].list[fp.cur.i] \in AnyAddr
      BY <1>2, <2>5, <3>2 DEF Posted
    <3>5. v \in offered'[c][op[c].list[fp.cur.i]]
      BY <2>1, <2>2, <2>5, <3>4 DEF Posted
    <3>6. \A k \in 1 .. Len(fp'.cur.buf) :
            \/ k \in 1 .. Len(fp.cur.buf) /\ fp'.cur.buf[k] = fp.cur.buf[k]
            \/ fp'.cur.buf[k] = v /\ fp.cur.word + k - 1 = fp.cur.i
      <4>1. fp'.cur.buf = Append(fp.cur.buf, v) /\ fp.cur.buf \in Seq(Vals)
        BY <1>1, <2>3
      <4>2. Len(fp'.cur.buf) = Len(fp.cur.buf) + 1
        BY <4>1
      <4>3. \A k \in 1 .. Len(fp.cur.buf) + 1 :
              fp'.cur.buf[k] = IF k = Len(fp.cur.buf) + 1 THEN v ELSE fp.cur.buf[k]
        BY <4>1
      <4> QED  BY <2>4, <4>2, <4>3
    <3> QED  BY <3>1, <3>2, <3>3, <3>5, <3>6
  <2>6. ASSUME NEW c \in Clients, op[c].pc \in {"rpoll", "values"}, Posted(c), dd.vctrl = op[c].tag
        PROVE  (\A k \in 1 .. Len(op[c].list) : dd.vals[k] \in offered'[c][op[c].list[k]]) /\ fp.cur.seq = op[c].tag
    BY <1>2, <2>1, <2>6 DEF Posted
  <2>7. ASSUME NEW c \in Clients, op[c].pc = "values", Posted(c) PROVE dd'.vctrl = op[c].tag
    BY <2>1, <2>7 DEF Posted
  <2> QED  BY <2>1, <2>3, <2>5, <2>6, <2>7, CalmCoreKeeps
<1>9. CASE Flush \/ (DdramTimeout /\ dd' # dd)
  <2>1. /\ UNCHANGED <<op, hp, ram, offered, dd.addrs, dd.actrl, dd.vctrl>> /\ Answering
        /\ \/ /\ fp'.cur.word = fp.cur.i /\ fp'.cur.buf = <<>>
              /\ fp'.cur.seq = fp.cur.seq /\ fp'.cur.count = fp.cur.count
           \/ ~Answering'
        /\ \A k \in 1 .. Slots : dd'.vals[k] = IF k \in fp.cur.word .. fp.cur.i - 1
                                               THEN fp.cur.buf[k - fp.cur.word + 1] ELSE dd.vals[k]
    <3>1. fp'.cur = Idle => ~Answering'
      BY DEF Answering, Idle
    <3> QED  BY <1>9, <3>1, FlushBase, TimeoutBase DEF Answering
  <2>2. fp.cur.word + Len(fp.cur.buf) = fp.cur.i /\ fp.cur.i \in Nat
        /\ Len(fp.cur.buf) \in Nat /\ fp.cur.word \in Nat /\ fp.cur.word >= 1
    BY <1>1, <2>1 DEF CurOK
  <2>3. ASSUME NEW c \in Clients, op[c].pc \in {"rpoll", "values"}, Posted(c), fp.cur.seq = op[c].tag,
               NEW k \in 1 .. Len(op[c].list), dd.vals[k] \in offered[c][op[c].list[k]] \/ k < fp.cur.i
        PROVE  dd'.vals[k] \in offered[c][op[c].list[k]]
    <3>1. k \in 1 .. Slots
      BY <1>2, <2>3
    <3>2. CASE k \in fp.cur.word .. fp.cur.i - 1
      <4>1. dd'.vals[k] = fp.cur.buf[k - fp.cur.word + 1]
        BY <2>1, <3>1, <3>2
      <4>2. k - fp.cur.word + 1 \in 1 .. Len(fp.cur.buf) /\ fp.cur.word + (k - fp.cur.word + 1) - 1 = k
        <5> DEFINE w == fp.cur.word
                   n == Len(fp.cur.buf)
                   i == fp.cur.i
        <5>1. w \in Nat /\ n \in Nat /\ i \in Nat /\ w + n = i /\ k \in w .. i - 1
          BY <2>2, <3>2
        <5> HIDE DEF w, n, i
        <5>2. k - w + 1 \in 1 .. n /\ w + (k - w + 1) - 1 = k
          BY <5>1
        <5> QED  BY <5>2 DEF w, n
      <4>3. fp.cur.buf[k - fp.cur.word + 1] \in offered[c][op[c].list[fp.cur.word + (k - fp.cur.word + 1) - 1]]
        BY <2>1, <2>3, <4>2 DEF Posted
      <4> QED  BY <4>1, <4>2, <4>3
    <3>3. CASE k \notin fp.cur.word .. fp.cur.i - 1
      <4>1. dd'.vals[k] = dd.vals[k]
        BY <2>1, <3>1, <3>3
      <4>2. k < fp.cur.i => k < fp.cur.word
        BY <2>2, <3>1, <3>3
      <4> QED  BY <2>1, <2>3, <4>1, <4>2 DEF Posted
    <3> QED  BY <3>2, <3>3
  <2>4. ASSUME NEW c \in Clients, op[c].pc \in {"rpoll", "values"}, Posted(c)
        PROVE  /\ fp.cur.seq = op[c].tag =>
                    /\ fp.cur.count = Len(op[c].list)
                    /\ \A k \in 1 .. Len(op[c].list) : k < fp.cur.i => dd'.vals[k] \in offered[c][op[c].list[k]]
               /\ dd.vctrl = op[c].tag =>
                    /\ \A k \in 1 .. Len(op[c].list) : dd'.vals[k] \in offered[c][op[c].list[k]]
                    /\ fp.cur.seq = op[c].tag
               /\ op[c].pc = "values" => dd.vctrl = op[c].tag
    BY <2>1, <2>3, <2>4 DEF Posted
  <2>5. \A k \in 1 .. Len(<<>>) : FALSE
    OBVIOUS
  <2> QED  BY <2>1, <2>4, <2>5, CalmCoreKeeps
<1> QED  BY <1>3, <1>4, <1>5, <1>6, <1>7, <1>8, <1>9 DEF Core

\* Unless the helper was disturbed, reads are sound after every step.
LEMMA CalmStep ==
  ASSUME Base, ~hp.disturbed => Calm, MisterNext
  PROVE  ~hp'.disturbed => Calm'
<1> SUFFICES ASSUME ~hp'.disturbed PROVE Calm'
  OBVIOUS
<1>1. CASE \E c \in Clients : Handler(c)
  <2>1. hp' = hp
    BY <1>1 DEF Handler, PutAddr, PutAddrCtrl, SeeResponse, ReadValue, Timeout, PutPair, PutMailCtrl, SeeAck
  <2> QED  BY <1>1, <2>1, CalmHandler
<1>2. CASE \E c \in Clients : \/ \E list \in Reads : ReadRanges(c, list)
                              \/ \E pairs \in Writes : WritePairs(c, pairs)
  BY <1>2, BeginBase, CalmBegin DEF Calm
<1>3. CASE HelperRestart
  BY <1>3, RestartBase
<1>4. CASE Core \/ DdramTimeout \/ CoreReset \/ \E a \in Addrs, v \in Vals : GameWrites(a, v)
  <2>1. hp' = hp
    BY <1>4 DEF Core, VBlank, Fetch, Flush, WriteResp, PollMailbox, ApplyPair, WriteAck, DdramTimeout,
                CoreReset, GameWrites
  <2> QED  BY <1>4, <2>1, CalmCore, SMTT(40)
<1> QED  BY <1>1, <1>2, <1>3, <1>4 DEF MisterNext

\* Types, the mailbox and, unless the helper was disturbed, the reads.
THEOREM MisterInvariant == Spec => []MisterInv
<1>1. Init => MisterInv
  <2> SUFFICES ASSUME MisterInit PROVE MisterInv
    BY DEF Init
  <2>1. Base /\ Asked /\ ~Applying /\ ~Answering /\ \A c \in Clients : op[c].pc = "done"
    BY InitBase
  <2>2. dd.actrl[2] = 0 /\ dd.vctrl = 0 /\ hp.id = 0
    BY DEF MisterInit
  <2> QED  BY <2>1, <2>2 DEF MisterInv, Alone, Busy, Numbered, Reading, ReadPcs
<1>2. MisterInv /\ [Next]_vars => MisterInv'
  <2> SUFFICES ASSUME MisterInv, [Next]_vars PROVE MisterInv'
    OBVIOUS
  <2>1. CASE MisterNext
    BY <2>1, BaseStep, AskedStep, CalmStep DEF MisterInv, Calm
  <2>2. CASE UNCHANGED misterVars
    <3>1. Base'
      BY <2>2 DEF MisterInv, Base, Shapes, Counted, CurOK, MailOK, Answering, Applying, OpOK, misterVars
    <3>2. Asked'
      BY <2>2 DEF MisterInv, Asked, AskedBy, AskedUpTo, Applying, misterVars
    <3>3. ~hp'.disturbed => (Alone /\ Numbered)'
      BY <2>2 DEF MisterInv, Alone, Busy, Numbered, Answering, misterVars
    <3>4. ~hp'.disturbed => Reading'
      BY <2>2 DEF MisterInv, Reading, Listed, Posted, Answering, Fetched, misterVars
    <3> QED  BY <3>1, <3>2, <3>3, <3>4 DEF MisterInv
  <2> QED  BY <2>1, <2>2, DeviceStep
<1> QED  BY <1>1, <1>2, PTL DEF Spec

\* read_ranges of a MiSTer returns, for every address, a value that address really
\* had after the request was posted: for any number of connections, timeouts,
\* answers the core repeats, and any number of values per word.
THEOREM SnapshotsAreFresh == Spec => SnapshotFresh
<1>1. ASSUME MisterInv, [Next]_vars, NEW c \in Clients, op[c].pc = "values", op'[c].pc = "done",
             op'[c].res = "ok", ~hp.disturbed, NEW k \in 1 .. Len(op[c].list)
      PROVE  op'[c].got[k] \in offered[c][op[c].list[k]]
  <2>1. /\ Base /\ Calm /\ op[c] \in Op /\ OpOK(op[c]) /\ Posted(c) /\ op \in [Clients -> Op] /\ dd \in Dd
    BY <1>1 DEF MisterInv, Calm, Base, Shapes, Reading
  <2>2. ReadValue(c)
    <3>1. MisterNext
      BY <1>1, DeviceStep DEF misterVars
    <3>2. ~HelperRestart \/ op'[c] = NoOp
      BY DEF HelperRestart
    <3>3. CASE \E d \in Clients : Handler(d)
      <4>1. PICK d \in Clients : Handler(d)
        BY <3>3
      <4>2. d = c
        BY <1>1, <2>1, <4>1, FillBase, WaitBase DEF Handler
      <4> QED  BY <1>1, <4>1, <4>2 DEF Handler, PutAddr, PutAddrCtrl, SeeResponse, Timeout, PutPair, PutMailCtrl, SeeAck
    <3>4. ~\E d \in Clients : \/ \E list \in Reads : ReadRanges(d, list)
                              \/ \E pairs \in Writes : WritePairs(d, pairs)
      BY <1>1, <2>1, BeginBase DEF Busy
    <3>5. ~HelperRestart
      BY <1>1, <3>2 DEF NoOp
    <3>6. Core \/ DdramTimeout \/ CoreReset \/ (\E a \in Addrs, v \in Vals : GameWrites(a, v)) => op' = op
      BY DEF Core, VBlank, Fetch, Flush, WriteResp, PollMailbox, ApplyPair, WriteAck, DdramTimeout,
             CoreReset, GameWrites
    <3> QED  BY <1>1, <3>1, <3>3, <3>4, <3>5, <3>6 DEF MisterNext
  <2>3. op'[c].got = Append(op[c].got, dd.vals[op[c].i]) /\ ~(op[c].i < Len(op[c].list))
    BY <1>1, <2>1, <2>2, WaitBase
  <2>4. /\ op[c].i = Len(op[c].list) /\ Len(op[c].got) = op[c].i - 1 /\ Len(op[c].list) \in 1 .. Slots
        /\ op[c].got \in Seq(Vals)
    <3>1. op[c].i <= Len(op[c].list) /\ Len(op[c].got) = op[c].i - 1
      BY <1>1, <2>1 DEF OpOK
    <3>2. op[c].i \in Nat /\ Len(op[c].list) \in 1 .. Slots /\ op[c].got \in Seq(Vals)
      BY <1>1, <2>1, ReadTypes DEF ReadPcs, Op
    <3> QED  BY <2>3, <3>1, <3>2
  <2>5. dd.vals[op[c].i] \in Vals
    BY <2>1, <2>4 DEF Dd
  <2>6. op'[c].got[k] = IF k < op[c].i THEN op[c].got[k] ELSE dd.vals[op[c].i]
    BY <2>3, <2>4, <2>5
  <2>7. k = op[c].i \/ k \in 1 .. Len(op[c].got)
    BY <2>4
  <2> QED  BY <1>1, <2>1, <2>4, <2>6, <2>7 DEF Posted
<1>2. MisterInv /\ [Next]_vars =>
        [\A c \in Clients :
           op[c].pc = "values" /\ op'[c].pc = "done" /\ op'[c].res = "ok" /\ ~hp.disturbed =>
             \A i \in 1 .. Len(op[c].list) : op'[c].got[i] \in offered[c][op[c].list[i]]]_vars
  BY <1>1
<1> QED  BY <1>2, MisterInvariant, PTL DEF Spec, SnapshotFresh

-----------------------------------------------------------------------------
(* A successful write was applied *)

\* Sequence numbers come round only after MaxSeq writes.
LEMMA SeqStep ==
  ASSUME NEW s \in 1 .. MaxSeq, NEW n \in Nat, n + 1 < MaxSeq
  PROVE  /\ NextSeq(After(s, n)) = After(s, n + 1) /\ After(s, n + 1) # s /\ After(s, 0) = s
         /\ After(s, n) \in 1 .. MaxSeq
BY Params DEF NextSeq, After

\* The core does not fall further behind unless a request times out or a write begins.
LEMMA BehindKept ==
  ASSUME Base, Base', hp'.seq = hp.seq, left'.timeouts <= left.timeouts,
         Idling' => Idling \/ left'.timeouts < left.timeouts
  PROVE  \A s \in 1 .. MaxSeq : Behind(s) => \E n \in 0 .. Used' : hp'.seq = After(s, n) /\ (Idling' => n < Used')
<1>1. /\ left.timeouts \in Nat /\ left'.timeouts \in Nat /\ left.timeouts <= MaxTimeouts
      /\ left'.timeouts <= MaxTimeouts /\ MaxTimeouts \in Nat
  <2>1. left \in Left /\ left' \in Left
    BY DEF Base, Shapes
  <2> QED  BY <2>1, Params DEF Left
<1>2. Used \in Nat /\ Used' \in Nat /\ Used <= Used' /\ (left'.timeouts < left.timeouts => Used < Used')
  BY <1>1 DEF Used
<1>3. ASSUME NEW s \in 1 .. MaxSeq, NEW n \in 0 .. Used, hp.seq = After(s, n), Idling => n < Used
      PROVE  n \in 0 .. Used' /\ hp'.seq = After(s, n) /\ (Idling' => n < Used')
  BY <1>2, <1>3
<1> QED  BY <1>3 DEF Behind

\* The types of a write in progress.
LEMMA WriteTypes ==
  ASSUME Base, NEW c \in Clients, op[c].pc \in WritePcs
  PROVE  /\ op[c] \in Op /\ op[c].list \in Writes \ {<<>>} /\ Len(op[c].list) \in 1 .. Slots
         /\ op[c].tag \in 1 .. MaxSeq /\ DOMAIN op[c].list = 1 .. Len(op[c].list)
         /\ \A k \in 1 .. Len(op[c].list) : k \in 1 .. Slots
         /\ (op[c].pc = "pairs" => op[c].i \in 1 .. Len(op[c].list))
         /\ (op[c].pc = "wctrl" => op[c].i = Len(op[c].list) + 1)
<1>1. op[c] \in Op /\ OpOK(op[c])
  BY DEF Base, Shapes
<1>2. op[c].list \in Writes \ {<<>>} /\ op[c].i \in 1 .. Slots + 1 /\ op[c].tag \in 1 .. MaxSeq
  BY <1>1 DEF OpOK, Op
<1>3. Len(op[c].list) \in 1 .. Slots /\ DOMAIN op[c].list = 1 .. Len(op[c].list)
  BY <1>2, ListTypes, Params
<1>4. \A k \in 1 .. Len(op[c].list) : k \in 1 .. Slots
  BY <1>3, Params
<1>5. (op[c].pc = "pairs" => op[c].i <= Len(op[c].list)) /\ (op[c].pc = "wctrl" => op[c].i = Len(op[c].list) + 1)
  BY <1>1 DEF OpOK
<1>6. op[c].pc = "pairs" => op[c].i \in 1 .. Len(op[c].list)
  BY <1>2, <1>3, <1>5, Params
<1> QED  BY <1>1, <1>2, <1>3, <1>4, <1>5, <1>6

Tidy == Recent /\ Writing

\* What the core may still carry out has a sequence number.
LEMMA PendingTypes ==
  ASSUME Base
  PROVE  (Applying => fp.cur.seq \in 1 .. MaxSeq /\ dd.mctrl.ack = 0) /\ (Waiting => dd.mctrl.seq \in 1 .. MaxSeq)
BY DEF Base, CurOK, MailOK, Waiting

\* A step of a handler keeps writes sound.
LEMMA TidyHandler ==
  ASSUME Base, Alone, Tidy, NEW c \in Clients, Handler(c)
  PROVE  Tidy'
<1> DEFINE o == op[c]
           n == op'[c]
<1>1. /\ Shapes /\ op \in [Clients -> Op] /\ o \in Op /\ OpOK(o) /\ dd \in Dd /\ hp \in Hp /\ left \in Left
      /\ dd.pairs \in [1 .. Slots -> Pair] /\ left.timeouts \in Nat
  BY Params DEF Base, Shapes, Dd, Left
<1>2. Busy(c) /\ UNCHANGED <<hp, fp>> /\ Base' /\ \A d \in Clients \ {c} : op'[d] = op[d]
  <2>1. Busy(c) /\ UNCHANGED <<hp, fp>>
    BY DEF Busy, Handler, PutAddr, PutAddrCtrl, SeeResponse, ReadValue, Timeout, PutPair, PutMailCtrl, SeeAck
  <2> QED  BY <2>1, FillBase, WaitBase DEF Handler
<1>3. \A d \in Clients \ {c} : op[d].pc = "done" /\ op'[d].pc = "done"
  BY <1>2, OthersIdle DEF Alone, Busy
<1>4. (Idling <=> o.pc \notin WritePcs) /\ (Idling' <=> n.pc \notin WritePcs)
  BY <1>3 DEF Idling, WritePcs
<1>5. Applying' = Applying
  BY <1>2 DEF Applying
<1>6. ASSUME left'.timeouts <= left.timeouts, dd'.mctrl = dd.mctrl,
             n.pc \notin WritePcs => o.pc \notin WritePcs \/ left'.timeouts < left.timeouts
      PROVE  Recent'
  <2>1. \A s \in 1 .. MaxSeq : Behind(s) => \E m \in 0 .. Used' : hp'.seq = After(s, m) /\ (Idling' => m < Used')
    BY <1>2, <1>4, <1>6, BehindKept
  <2>2. Waiting' = Waiting
    BY <1>6 DEF Waiting
  <2> QED  BY <1>2, <1>5, <1>6, <2>1, <2>2, PendingTypes DEF Tidy, Recent, Behind
<1>7. ASSUME n.pc \notin WritePcs PROVE Writing'
  BY <1>3, <1>7 DEF Writing, WritePcs
<1>8. CASE PutAddr(c) \/ PutAddrCtrl(c) \/ SeeResponse(c) \/ ReadValue(c)
  <2>1. dd'.mctrl = dd.mctrl /\ left' = left /\ o.pc \notin WritePcs
    BY <1>1, <1>8 DEF PutAddr, PutAddrCtrl, SeeResponse, ReadValue, Dd, WritePcs
  <2>2. n.pc \notin WritePcs
    <3>1. PutAddr(c) \/ PutAddrCtrl(c) => n = NewOp(c) /\ o.pc \in {"list", "rctrl"}
      BY FillBase DEF PutAddr, PutAddrCtrl
    <3>2. o.pc \in {"list", "rctrl"} => NewOp(c).pc \in ReadPcs
      BY <1>1 DEF NewOp, Op, ReadPcs
    <3>3. SeeResponse(c) \/ ReadValue(c) => n.pc \in {"values", "done"}
      BY <1>1, WaitBase DEF Op
    <3> QED  BY <1>8, <3>1, <3>2, <3>3 DEF ReadPcs, WritePcs
  <2> QED  BY <1>1, <1>6, <1>7, <2>1, <2>2 DEF Tidy
<1>9. CASE Timeout(c)
  <2>1. n.pc = "done"
    BY <1>9, WaitBase
  <2>2. left'.timeouts < left.timeouts /\ left'.timeouts <= left.timeouts /\ dd' = dd
    BY <1>1, <1>9 DEF Timeout, Left
  <2> QED  BY <1>6, <1>7, <2>1, <2>2 DEF Tidy, WritePcs
<1>10. CASE SeeAck(c)
  <2>1. n.pc = "done"
    BY <1>10, WaitBase
  <2>2. dd' = dd /\ dd.mctrl.ack = o.tag /\ o.tag \in 1 .. MaxSeq
    BY <1>10, WriteTypes DEF SeeAck, WritePcs
  <2>3. dd.mctrl.ack # 0
    BY <2>2
  <2>4. ~Applying /\ ~Waiting'
    BY <2>2, <2>3, PendingTypes DEF Waiting
  <2> QED  BY <1>5, <1>7, <2>1, <2>4 DEF Tidy, Recent, WritePcs
<1>11. CASE PutPair(c)
  <2>1. n = NewOp(c) /\ o.pc = "pairs"
    BY <1>11, FillBase DEF PutPair
  <2>2. n.list = o.list /\ n.tag = o.tag /\ n.i = o.i + 1 /\ n.pc \in {"pairs", "wctrl"}
    BY <1>1, <2>1 DEF NewOp, Op, AfterPair
  <2>3. dd'.mctrl = dd.mctrl /\ left' = left /\ dd'.pairs = [dd.pairs EXCEPT ![o.i] = o.list[o.i]]
    BY <1>1, <1>11 DEF PutPair, Dd
  <2>4. Recent'
    BY <1>1, <1>6, <2>2, <2>3 DEF WritePcs
  <2>5. /\ o.i \in 1 .. Len(o.list) /\ Len(o.list) \in 1 .. Slots
        /\ \A k \in 1 .. Len(o.list) : k \in 1 .. Slots
    BY <2>1, WriteTypes DEF WritePcs
  <2>6. /\ Mailed(c) /\ o.tag = hp.seq /\ (Applying => fp.cur.seq # o.tag) /\ (Waiting => dd.mctrl.seq # o.tag)
    BY <2>1 DEF Tidy, Writing, WritePcs
  <2>7. Mailed(c)'
    <3>1. \A k \in 1 .. Len(o.list) : dd'.pairs[k] = IF k = o.i THEN o.list[k] ELSE dd.pairs[k]
      BY <1>1, <2>3, <2>5
    <3>2. \A k \in 1 .. Len(o.list) : k < o.i + 1 /\ k # o.i => k < o.i
      BY <2>5
    <3> QED  BY <2>2, <2>6, <3>1, <3>2 DEF Mailed
  <2>8. Waiting' = Waiting
    BY <2>3 DEF Waiting
  <2>9. Writing'
    BY <1>2, <1>3, <1>5, <2>2, <2>3, <2>6, <2>7, <2>8 DEF Writing, WritePcs
  <2> QED  BY <2>4, <2>9 DEF Tidy
<1>12. CASE PutMailCtrl(c)
  <2>1. n = NewOp(c) /\ o.pc = "wctrl"
    BY <1>12, FillBase DEF PutMailCtrl
  <2>2. n.list = o.list /\ n.tag = o.tag /\ n.pc = "wpoll"
    BY <1>1, <2>1 DEF NewOp, Op
  <2>3. /\ dd'.mctrl = [seq |-> o.tag, count |-> Len(o.list), ack |-> 0, status |-> "ok"]
        /\ left' = left /\ dd'.pairs = dd.pairs
    BY <1>1, <1>12 DEF PutMailCtrl, Dd, MailCtrl
  <2>4. o.tag \in 1 .. MaxSeq /\ Len(o.list) \in 1 .. Slots /\ o.i = Len(o.list) + 1
    BY <2>1, WriteTypes DEF WritePcs
  <2>5. Mailed(c) /\ o.tag = hp.seq /\ (Applying => fp.cur.seq # o.tag)
    BY <2>1 DEF Tidy, Writing, WritePcs
  <2>6. \A s \in 1 .. MaxSeq : Behind(s) => \E m \in 0 .. Used' : hp'.seq = After(s, m) /\ (Idling' => m < Used')
    BY <1>1, <1>2, <1>4, <2>2, <2>3, BehindKept DEF WritePcs
  <2>7. \E m \in 0 .. Used' : hp'.seq = After(dd'.mctrl.seq, m) /\ (Idling' => m < Used')
    <3>1. Used' \in Nat
      BY <1>1, <2>3, Params DEF Used, Left
    <3>2. After(o.tag, 0) = o.tag
      BY <2>4, Params DEF After
    <3>3. ~Idling' /\ dd'.mctrl.seq = o.tag /\ hp'.seq = o.tag
      BY <1>2, <1>4, <2>2, <2>3, <2>5 DEF WritePcs
    <3>4. 0 \in 0 .. Used'
      BY <3>1
    <3> QED  BY <3>2, <3>3, <3>4
  <2>8. Recent'
    BY <1>2, <1>5, <2>6, <2>7, PendingTypes DEF Tidy, Recent, Behind
  <2>9. Sent(c)'
    <3>1. \A k \in 1 .. Len(o.list) : dd'.pairs[k] = o.list[k]
      BY <2>3, <2>4, <2>5 DEF Mailed
    <3>2. dd'.mctrl.ack # o.tag
      BY <2>3, <2>4
    <3> QED  BY <1>2, <1>5, <2>2, <2>3, <2>5, <3>1, <3>2 DEF Sent
  <2>10. Writing'
    BY <1>2, <1>3, <2>2, <2>5, <2>9 DEF Writing, WritePcs
  <2> QED  BY <2>8, <2>10 DEF Tidy
<1> QED  BY <1>8, <1>9, <1>10, <1>11, <1>12 DEF Handler

\* A write begins: no write the core may still carry out has its number, as long as
\* fewer requests have timed out than there are numbers.
LEMMA TidyBegin ==
  ASSUME MaxTimeouts < MaxSeq, Base, Tidy, NEW c \in Clients, ~hp'.disturbed,
         (\E list \in Reads : ReadRanges(c, list)) \/ (\E pairs \in Writes : WritePairs(c, pairs))
  PROVE  Tidy'
<1>1. /\ Base' /\ \A d \in Clients \ {c} : op'[d] = op[d]
      /\ UNCHANGED <<dd, fp, applied>> /\ left'.timeouts = left.timeouts /\ \A d \in Clients : ~Busy(d)
      /\ \/ op'[c].pc \in {"done", "list"} /\ hp'.seq = hp.seq
         \/ op'[c].pc = "pairs" /\ op'[c].i = 1 /\ op'[c].tag = hp'.seq /\ hp'.seq = NextSeq(hp.seq)
  BY BeginBase
<1>2. (\A d \in Clients : op[d].pc = "done") /\ \A d \in Clients \ {c} : op'[d].pc = "done"
  BY <1>1 DEF Busy
<1>3. Idling
  BY <1>2 DEF Idling, WritePcs
<1>4. left.timeouts \in Nat /\ left.timeouts <= MaxTimeouts /\ Used \in Nat /\ Used <= MaxTimeouts /\ Used' = Used
  <2>1. left \in Left
    BY DEF Base, Shapes
  <2> QED  BY <1>1, <2>1, Params DEF Left, Used
<1>5. Applying' = Applying /\ Waiting' = Waiting
  BY <1>1 DEF Applying, Waiting
<1>6. CASE op'[c].pc \in {"done", "list"} /\ hp'.seq = hp.seq
  <2>1. Idling'
    BY <1>2, <1>6 DEF Idling, WritePcs
  <2>2. Recent'
    BY <1>1, <1>3, <1>4, <1>5, <1>6, <2>1 DEF Tidy, Recent, Behind
  <2>3. Writing'
    BY <1>2, <1>6 DEF Writing, WritePcs
  <2> QED  BY <2>2, <2>3 DEF Tidy
<1>7. CASE op'[c].pc = "pairs" /\ op'[c].i = 1 /\ op'[c].tag = hp'.seq /\ hp'.seq = NextSeq(hp.seq)
  <2>1. ~Idling'
    BY <1>7 DEF Idling, WritePcs
  <2>2. ASSUME NEW s \in 1 .. MaxSeq, Behind(s)
        PROVE  (\E m \in 0 .. Used' : hp'.seq = After(s, m)) /\ hp'.seq # s
    <3>1. PICK n \in 0 .. Used : hp.seq = After(s, n) /\ n < Used
      BY <1>3, <2>2 DEF Behind
    <3>2. n \in Nat /\ n + 1 < MaxSeq /\ n + 1 \in 0 .. Used'
      BY <1>4, <3>1, Params
    <3>3. NextSeq(After(s, n)) = After(s, n + 1) /\ After(s, n + 1) # s
      BY <3>2, SeqStep
    <3> QED  BY <1>7, <3>1, <3>2, <3>3
  <2>3. Recent'
    BY <1>1, <1>5, <2>1, <2>2, PendingTypes DEF Tidy, Recent, Behind
  <2>4. (Applying => fp.cur.seq # hp'.seq) /\ (Waiting => dd.mctrl.seq # hp'.seq)
    BY <2>2, PendingTypes DEF Tidy, Recent
  <2>5. Mailed(c)'
    BY <1>7 DEF Mailed
  <2>6. Writing'
    BY <1>1, <1>2, <1>5, <1>7, <2>4, <2>5 DEF Writing, WritePcs
  <2> QED  BY <2>3, <2>6 DEF Tidy
<1> QED  BY <1>1, <1>6, <1>7

\* A step of the core or the game leaves the handlers, their numbers and the pairs
\* alone; then writes stay sound when the job and the acknowledgement do.
LEMMA TidyCoreKeeps ==
  ASSUME Base, Base', Tidy, UNCHANGED <<op, hp, dd.pairs>>, left'.timeouts = left.timeouts,
         Waiting' => Waiting /\ dd'.mctrl.seq = dd.mctrl.seq,
         \/ Applying' => Applying /\ fp'.cur.seq = fp.cur.seq
         \/ Applying' => Waiting /\ fp'.cur.seq = dd.mctrl.seq,
         \A c \in Clients : op[c].pc = "wpoll" /\ Sent(c) => Sent(c)'
  PROVE  Tidy'
<1>1. Idling' = Idling
  BY DEF Idling
<1>2. \A s \in 1 .. MaxSeq : Behind(s) => \E n \in 0 .. Used' : hp'.seq = After(s, n) /\ (Idling' => n < Used')
  <2>1. left.timeouts \in Nat
    BY Params DEF Base, Shapes, Left
  <2> QED  BY <1>1, <2>1, BehindKept
<1>3. Recent'
  BY <1>2, PendingTypes DEF Tidy, Recent, Behind
<1>4. ASSUME NEW c \in Clients, op[c].pc \in {"pairs", "wctrl"}
      PROVE  /\ Mailed(c)' /\ (Applying' => fp'.cur.seq # op[c].tag)
             /\ Waiting' => dd'.mctrl.seq # op[c].tag
  BY <1>4 DEF Tidy, Writing, Mailed
<1>5. Writing'
  BY <1>4 DEF Tidy, Writing
<1> QED  BY <1>3, <1>5 DEF Tidy

\* The steps of the core and the game keep writes sound.
LEMMA TidyCore ==
  ASSUME Base, Tidy, Core \/ DdramTimeout \/ CoreReset \/ \E a \in Addrs, v \in Vals : GameWrites(a, v)
  PROVE  Tidy'
<1>1. /\ dd \in Dd /\ fp \in [cur : Cur, lastSeen : 0 .. MaxSeq] /\ fp.cur \in Cur /\ CurOK /\ Shapes
      /\ fp.cur.i \in Nat /\ fp.cur.i >= 1 /\ fp.cur.count \in Nat /\ left \in Left /\ MaxSeq \in Nat
  BY Params DEF Base, Shapes, Dd, Cur, Lens
<1>2. Base'
  BY BaseStep DEF MisterNext
<1>3. CASE VBlank \/ WriteResp \/ Fetch \/ Flush \/ \E a \in Addrs, v \in Vals : GameWrites(a, v)
  <2>1. UNCHANGED <<op, hp, applied, dd.pairs, dd.mctrl>> /\ left'.timeouts = left.timeouts
    <3>1. VBlank \/ WriteResp => UNCHANGED <<op, hp, applied, dd.pairs, dd.mctrl, left>>
      BY <1>1 DEF VBlank, WriteResp, Dd
    <3> QED  BY <1>3, <3>1, FetchBase, FlushBase, GameBase
  <2>2. Applying' => fp' = fp
    <3>1. VBlank => fp'.cur.pc \in {"resp", "fetch"}
      BY <1>1, ZenonT(60) DEF VBlank, SetFp, Idle
    <3>2. WriteResp => fp'.cur.pc = "idle"
      BY <1>1 DEF WriteResp, SetFp, Idle
    <3>3. Fetch => fp'.cur.pc \in {"fetch", "flush"}
      <4>1. Fetch => \E v \in Vals : fp'.cur = FetchedJob(v)
        BY FetchBase
      <4> QED  BY <1>1, <4>1 DEF FetchedJob, Cur
    <3>4. Flush => fp'.cur.pc \in {"resp", "fetch"}
      BY FlushBase
    <3> QED  BY <1>3, <3>1, <3>2, <3>3, <3>4, GameBase DEF Applying
  <2>3. Waiting' = Waiting
    BY <2>1 DEF Waiting
  <2>4. ASSUME NEW c \in Clients, Sent(c) PROVE Sent(c)'
    BY <2>1, <2>2, <2>3, <2>4 DEF Sent, Applying
  <2> QED  BY <1>2, <2>1, <2>2, <2>3, <2>4, TidyCoreKeeps DEF Applying
<1>4. CASE DdramTimeout \/ CoreReset
  <2>1. UNCHANGED <<op, hp, applied, dd.pairs, dd.mctrl>> /\ fp'.cur.pc = "idle" /\ left'.timeouts = left.timeouts
    BY <1>1, <1>4, EventTypes, TimeoutBase DEF CoreReset, Idle
  <2>2. ~Applying' /\ Waiting' = Waiting
    BY <2>1 DEF Applying, Waiting
  <2>3. ASSUME NEW c \in Clients, Sent(c) PROVE Sent(c)'
    BY <2>1, <2>2, <2>3 DEF Sent
  <2> QED  BY <1>2, <2>1, <2>2, <2>3, TidyCoreKeeps
<1>5. CASE PollMailbox
  <2>1. /\ UNCHANGED <<op, hp, applied, dd, left>> /\ Waiting
        /\ fp'.cur.seq = dd.mctrl.seq /\ fp'.cur.count = dd.mctrl.count /\ fp'.cur.i = 1
    BY <1>1, <1>5 DEF PollMailbox, SetFp, Idle, Waiting, Accepted
  <2>2. Waiting' = Waiting
    BY <2>1 DEF Waiting
  <2>3. ASSUME NEW c \in Clients, Sent(c) PROVE Sent(c)'
    BY <2>1, <2>2, <2>3 DEF Sent
  <2> QED  BY <1>2, <2>1, <2>2, <2>3, TidyCoreKeeps
<1>6. CASE WriteAck
  <2>1. /\ UNCHANGED <<op, hp, applied, dd.pairs, left>> /\ fp'.cur.pc = "idle" /\ fp.cur.pc = "ack"
        /\ dd'.mctrl.ack = fp.cur.seq /\ dd'.mctrl.status = fp.cur.status
    BY <1>1, <1>6 DEF WriteAck, Dd, Idle
  <2>2. Applying /\ fp.cur.seq # 0 /\ fp.cur.i = fp.cur.count + 1
    <3>1. Applying /\ fp.cur.seq \in 1 .. MaxSeq /\ fp.cur.i = fp.cur.count + 1
      BY <1>1, <2>1 DEF CurOK, Applying
    <3> QED  BY <3>1
  <2>3. ~Applying' /\ ~Waiting'
    BY <2>1, <2>2 DEF Applying, Waiting
  <2>4. ASSUME NEW c \in Clients, op[c].pc = "wpoll", Sent(c) PROVE Sent(c)'
    <3>1. DOMAIN op[c].list = 1 .. Len(op[c].list) /\ Len(op[c].list) \in Nat
      BY <2>4, WriteTypes DEF WritePcs
    <3>2. fp.cur.seq = op[c].tag /\ fp.cur.status = "ok" => ToSet(op[c].list) \subseteq applied[c]
      <4> SUFFICES ASSUME fp.cur.seq = op[c].tag, fp.cur.status = "ok" PROVE ToSet(op[c].list) \subseteq applied[c]
        OBVIOUS
      <4>1. /\ fp.cur.count = Len(op[c].list)
            /\ \A k \in 1 .. Len(op[c].list) : k < fp.cur.i => op[c].list[k] \in applied[c]
        BY <2>2, <2>4 DEF Sent
      <4>2. \A k \in 1 .. Len(op[c].list) : op[c].list[k] \in applied[c]
        BY <2>2, <3>1, <4>1
      <4> QED  BY <3>1, <4>2 DEF ToSet
    <3> QED  BY <2>1, <2>3, <2>4, <3>2 DEF Sent
  <2> QED  BY <1>2, <2>1, <2>3, <2>4, TidyCoreKeeps
<1>7. CASE ApplyPair
  <2>1. /\ UNCHANGED <<op, hp, dd>> /\ left'.timeouts = left.timeouts /\ Applying
        /\ fp'.cur.seq = fp.cur.seq /\ fp'.cur.count = fp.cur.count /\ fp'.cur.i = fp.cur.i + 1
        /\ \A c \in Clients : applied[c] \subseteq applied'[c]
        /\ fp'.cur.status = "ok" =>
             /\ fp.cur.status = "ok"
             /\ \A c \in Clients : op[c].pc = "wpoll" => dd.pairs[fp.cur.i] \in applied'[c]
    BY <1>7, ApplyBase DEF Applying
  <2>2. Waiting' = Waiting
    BY <2>1 DEF Waiting
  <2>3. ASSUME NEW c \in Clients, op[c].pc = "wpoll", Sent(c) PROVE Sent(c)'
    <3>1. ASSUME fp.cur.seq = op[c].tag, fp'.cur.status = "ok", NEW k \in 1 .. Len(op[c].list), k < fp.cur.i + 1
          PROVE  op[c].list[k] \in applied'[c]
      <4>1. CASE k < fp.cur.i
        BY <2>1, <2>3, <3>1, <4>1 DEF Sent
      <4>2. CASE k = fp.cur.i
        BY <2>1, <2>3, <3>1, <4>2 DEF Sent
      <4> QED  BY <1>1, <3>1, <4>1, <4>2
    <3> QED  BY <2>1, <2>2, <2>3, <3>1 DEF Sent
  <2> QED  BY <1>2, <2>1, <2>2, <2>3, TidyCoreKeeps
<1> QED  BY <1>3, <1>4, <1>5, <1>6, <1>7 DEF Core

\* Unless the helper was disturbed, writes are sound after every step.
LEMMA TidyStep ==
  ASSUME MaxTimeouts < MaxSeq, Base, ~hp.disturbed => Alone /\ Tidy, MisterNext
  PROVE  ~hp'.disturbed => Tidy'
<1> SUFFICES ASSUME ~hp'.disturbed PROVE Tidy'
  OBVIOUS
<1>1. CASE \E c \in Clients : Handler(c)
  <2>1. hp' = hp
    BY <1>1 DEF Handler, PutAddr, PutAddrCtrl, SeeResponse, ReadValue, Timeout, PutPair, PutMailCtrl, SeeAck
  <2> QED  BY <1>1, <2>1, TidyHandler
<1>2. CASE \E c \in Clients : \/ \E list \in Reads : ReadRanges(c, list)
                              \/ \E pairs \in Writes : WritePairs(c, pairs)
  BY <1>2, BeginBase, TidyBegin
<1>3. CASE HelperRestart
  BY <1>3, RestartBase
<1>4. CASE Core \/ DdramTimeout \/ CoreReset \/ \E a \in Addrs, v \in Vals : GameWrites(a, v)
  <2>1. hp' = hp
    BY <1>4 DEF Core, VBlank, Fetch, Flush, WriteResp, PollMailbox, ApplyPair, WriteAck, DdramTimeout,
                CoreReset, GameWrites
  <2> QED  BY <1>4, <2>1, TidyCore, SMTT(40)
<1> QED  BY <1>1, <1>2, <1>3, <1>4 DEF MisterNext

\* The invariant behind the writes: every job the core may still carry out is fewer
\* numbers behind the helper than there are.
THEOREM WriteInvariant ==
  ASSUME MaxTimeouts < MaxSeq
  PROVE  Spec => []WriteInv
<1>1. Init => Recent /\ Writing
  <2> SUFFICES ASSUME MisterInit PROVE Recent /\ Writing
    BY DEF Init
  <2>1. ~Applying /\ (\A c \in Clients : op[c].pc = "done") /\ dd.mctrl.count = 0
    BY InitBase DEF MisterInit
  <2> QED  BY <2>1 DEF Recent, Waiting, Writing, WritePcs
<1>2. MisterInv /\ (~hp.disturbed => Tidy) /\ [Next]_vars => (~hp.disturbed => Tidy)'
  <2> SUFFICES ASSUME MisterInv, ~hp.disturbed => Tidy, [Next]_vars PROVE (~hp.disturbed => Tidy)'
    OBVIOUS
  <2>1. CASE MisterNext
    BY <2>1, TidyStep DEF MisterInv
  <2>2. CASE UNCHANGED misterVars
    <3>1. ~hp'.disturbed => Recent'
      BY <2>2 DEF Tidy, Recent, Behind, Applying, Waiting, Used, Idling, misterVars
    <3>2. ~hp'.disturbed => Writing'
      BY <2>2 DEF Tidy, Writing, Mailed, Sent, Applying, Waiting, misterVars
    <3> QED  BY <3>1, <3>2 DEF Tidy
  <2> QED  BY <2>1, <2>2, DeviceStep
<1>3. Init => (~hp.disturbed => Tidy)
  BY <1>1 DEF Tidy
<1>4. MisterInv /\ (~hp.disturbed => Tidy) => WriteInv
  BY DEF WriteInv, Tidy
<1> QED  BY <1>2, <1>3, <1>4, MisterInvariant, PTL DEF Spec

\* write_pairs of a MiSTer: when it reports success, the core has written every pair
\* of this very request, for any connections, any lists and any wrap of the sequence
\* number, as long as fewer requests time out than there are numbers.
THEOREM AcksMeanApplied ==
  ASSUME MaxTimeouts < MaxSeq
  PROVE  Spec => AckedApplied
<1>1. ASSUME WriteInv, [Next]_vars, NEW c \in Clients, op[c].pc = "wpoll", op'[c].pc = "done",
             op'[c].res = "ok", ~hp.disturbed
      PROVE  ToSet(op[c].list) \subseteq applied[c]
  <2>1. Base /\ Sent(c) /\ op[c] \in Op /\ op \in [Clients -> Op] /\ dd \in Dd
    BY <1>1 DEF WriteInv, MisterInv, Base, Shapes, Writing
  <2>2. Timeout(c) \/ SeeAck(c)
    <3>1. MisterNext
      BY <1>1, DeviceStep DEF misterVars
    <3>2. CASE \E d \in Clients : Handler(d)
      <4>1. PICK d \in Clients : Handler(d)
        BY <3>2
      <4>2. d = c
        BY <1>1, <2>1, <4>1, FillBase, WaitBase DEF Handler
      <4> QED  BY <1>1, <4>1, <4>2 DEF Handler, PutAddr, PutAddrCtrl, SeeResponse, ReadValue, PutPair, PutMailCtrl
    <3>3. ~\E d \in Clients : \/ \E list \in Reads : ReadRanges(d, list)
                              \/ \E pairs \in Writes : WritePairs(d, pairs)
      BY <1>1, <2>1, BeginBase DEF Busy
    <3>4. ~HelperRestart
      BY <1>1 DEF HelperRestart, NoOp
    <3>5. Core \/ DdramTimeout \/ CoreReset \/ (\E a \in Addrs, v \in Vals : GameWrites(a, v)) => op' = op
      BY DEF Core, VBlank, Fetch, Flush, WriteResp, PollMailbox, ApplyPair, WriteAck, DdramTimeout,
             CoreReset, GameWrites
    <3> QED  BY <1>1, <3>1, <3>2, <3>3, <3>4, <3>5 DEF MisterNext
  <2>3. ~Timeout(c)
    BY <1>1, <2>1, ZenonT(60) DEF Timeout, Return, Op
  <2>4. dd.mctrl.ack = op[c].tag /\ op'[c].res = AckResult(dd.mctrl.status)
    BY <2>1, <2>2, <2>3, ZenonT(60) DEF SeeAck, Return, Op
  <2>5. dd.mctrl.status = "ok"
    BY <1>1, <2>4 DEF AckResult
  <2> QED  BY <2>1, <2>4, <2>5 DEF Sent
<1>2. WriteInv /\ [Next]_vars =>
        [\A c \in Clients :
           op[c].pc = "wpoll" /\ op'[c].pc = "done" /\ op'[c].res = "ok" /\ ~hp.disturbed =>
             ToSet(op[c].list) \subseteq applied[c]]_vars
  BY <1>1
<1> QED  BY <1>2, WriteInvariant, PTL DEF Spec, AckedApplied

-----------------------------------------------------------------------------
(* The EverDrive *)

\* What travels in each direction.
Frame ==
  [mid : 1 .. MaxMid, action : {READ_ADDRS, READ_ARRAY}, body : Seq(Mem)]
  \cup [mid : 1 .. MaxMid, action : {WRITE_PAIRS}, body : Seq(Mem \X Bytes)]
Symbols == Bytes \cup (0 .. MaxMid) \cup {4, START, STATUS}

\* A call that has something to send or to wait for is at one of its parts.
CallOK ==
  /\ call = [pc |-> call.pc, parts |-> call.parts, at |-> call.at, out |-> call.out,
             res |-> call.res, action |-> call.action]
  /\ call.pc \in {"done", "send", "poll"} /\ call.res \in {"none", "ok", "late"}
  /\ call.action \in {READ_ADDRS, READ_ARRAY}
  /\ call.parts \in Seq(Seq(Mem)) /\ call.at \in 1 .. Len(call.parts) + 1
  /\ call.pc # "done" => call.at \in 1 .. Len(call.parts)
Streams == rxBuf \in Seq(Symbols) /\ wire \in Seq(Symbols) /\ fifo \in Seq(Frame)
ExpectOK == expect.mid \in 0 .. MaxMid /\ expect.action \in {READ_ADDRS, READ_ARRAY} /\ expect.n \in Nat
CcInv == mid \in 0 .. MaxMid /\ ExpectOK /\ CallOK /\ Streams /\ mem \in [Mem -> Bytes]

\* Some position of a sequence is the last of those that have a property.
LEMMA LastOne ==
  ASSUME NEW k \in Nat, NEW P \in SUBSET (1 .. k), P # {}
  PROVE  \E n \in P : \A m \in P : m <= n
<1> DEFINE R == {ss \in Nat \X Nat : ss[1] < ss[2]}
           B == {n \in Nat : k - n \in P}
<1>1. IsWellFoundedOn(R, Nat)
  BY NatLessThanWellFounded DEF OpToRel
<1>2. B \subseteq Nat /\ B # {}
  <2>1. PICK n \in P : TRUE
    OBVIOUS
  <2>2. k - n \in Nat /\ k - (k - n) = n
    BY <2>1
  <2> QED  BY <2>1, <2>2
<1>3. PICK x \in B : \A y \in B : ~(<<y, x>> \in R)
  <2> HIDE DEF R, B
  <2> QED  BY <1>1, <1>2, WFMin
<1>4. \A y \in B : x <= y
  <2> TAKE y \in B
  <2>1. x \in Nat /\ y \in Nat /\ ~(<<y, x>> \in R)
    BY <1>3
  <2> QED  BY <2>1
<1>5. \A m \in P : k - m \in B
  <2> TAKE m \in P
  <2>1. k - m \in Nat /\ k - (k - m) = m
    OBVIOUS
  <2> QED  BY <2>1
<1>6. \A m \in P : m <= k - x
  BY <1>3, <1>4, <1>5
<1> QED  BY <1>3, <1>6

\* Pairs written to RAM leave bytes in RAM.
LEMMA PokedType ==
  ASSUME mem \in [Mem -> Bytes], NEW pairs \in Seq(Mem \X Bytes)
  PROVE  Poked(pairs) \in [Mem -> Bytes]
<1> DEFINE at(a) == {n \in DOMAIN pairs : pairs[n][1] = a}
<1>1. ASSUME NEW a \in Mem, at(a) # {}
      PROVE  pairs[CHOOSE n \in at(a) : \A m \in at(a) : m <= n][2] \in Bytes
  <2>1. Len(pairs) \in Nat /\ at(a) \in SUBSET (1 .. Len(pairs))
    OBVIOUS
  <2>2. (CHOOSE n \in at(a) : \A m \in at(a) : m <= n) \in at(a)
    <3> HIDE DEF at
    <3> QED  BY <1>1, <2>1, LastOne
  <2>3. ASSUME NEW n \in at(a) PROVE pairs[n][2] \in Bytes
    <3>1. n \in 1 .. Len(pairs) /\ pairs[n] \in Mem \X Bytes
      BY <2>1
    <3> QED  BY <3>1
  <2> QED
    <3> HIDE DEF at
    <3> QED  BY <2>2, <2>3
<1>2. \A a \in Mem : (IF at(a) = {} THEN mem[a] ELSE pairs[CHOOSE n \in at(a) : \A m \in at(a) : m <= n][2]) \in Bytes
  <2> HIDE DEF at
  <2> QED  BY <1>1
<1> QED  BY <1>2 DEF Poked

\* _msg_id wraps to 1.
LEMMA NextMidType ==
  ASSUME mid \in 0 .. MaxMid
  PROVE  NextMid \in 1 .. MaxMid
BY CcAssumption DEF NextMid

\* Sending appends a frame of its kind.
LEMMA SendType ==
  ASSUME mid \in 0 .. MaxMid, fifo \in Seq(Frame), NEW action, NEW body, Send(action, body),
         \/ action \in {READ_ADDRS, READ_ARRAY} /\ body \in Seq(Mem)
         \/ action = WRITE_PAIRS /\ body \in Seq(Mem \X Bytes)
  PROVE  mid' \in 1 .. MaxMid /\ fifo' \in Seq(Frame)
<1>1. [mid |-> NextMid, action |-> action, body |-> body] \in Frame
  BY NextMidType DEF Frame
<1> QED  BY <1>1, NextMidType, AppendProperties DEF Send

\* The record of a call, field by field.
LEMMA CallFields ==
  ASSUME CallOK, NEW pc, NEW res
  PROVE  /\ [call EXCEPT !.pc = pc] =
              [pc |-> pc, parts |-> call.parts, at |-> call.at, out |-> call.out,
               res |-> call.res, action |-> call.action]
         /\ [call EXCEPT !.pc = pc, !.res = res] =
              [pc |-> pc, parts |-> call.parts, at |-> call.at, out |-> call.out,
               res |-> res, action |-> call.action]
<1>1. PICK p, parts, t, o, r, action :
        call = [pc |-> p, parts |-> parts, at |-> t, out |-> o, res |-> r, action |-> action]
  BY DEF CallOK
<1>2. [call EXCEPT !.pc = pc] =
        [pc |-> pc, parts |-> call.parts, at |-> call.at, out |-> call.out,
         res |-> call.res, action |-> call.action]
  BY <1>1
<1>3. [call EXCEPT !.pc = pc, !.res = res] =
        [pc |-> pc, parts |-> call.parts, at |-> call.at, out |-> call.out,
         res |-> res, action |-> call.action]
  <2>1. PICK x : x = [call EXCEPT !.pc = pc]
    OBVIOUS
  <2>2. [x EXCEPT !.res = res] = [call EXCEPT !.pc = pc, !.res = res]
    BY <2>1
  <2>3. x = [pc |-> pc, parts |-> call.parts, at |-> call.at, out |-> call.out, res |-> call.res, action |-> call.action]
    BY <1>2, <2>1
  <2> QED  BY <2>2, <2>3
<1> QED  BY <1>2, <1>3

\* The client's own steps: a call begins, a frame is sent, the deadline passes.
LEMMA ClientTypes ==
  ASSUME CcInv,
         \/ \E r \in ReadCalls : Read(r)
         \/ \E pairs \in WriteCalls : Write(pairs)
         \/ SendRead
         \/ PollTimesOut
  PROVE  CcInv'
<1> USE DEF CcInv
<1>1. ASSUME NEW r \in ReadCalls, Read(r) PROVE CcInv'
  <2>1. call' = [pc |-> "send", parts |-> r.parts, at |-> 1, out |-> <<>>, res |-> "none", action |-> r.action]
    BY <1>1 DEF Read, NoCall
  <2>2. r.action \in {READ_ADDRS, READ_ARRAY} /\ r.parts \in Seq(Seq(Mem)) /\ Len(r.parts) \in Nat \ {0}
    BY CcAssumption, EmptySeq
  <2>3. CallOK'
    BY <2>1, <2>2 DEF CallOK
  <2> QED  BY <1>1, <2>3 DEF Read, Streams, ExpectOK
<1>2. ASSUME NEW pairs \in WriteCalls, Write(pairs) PROVE CcInv'
  <2>1. call' = [pc |-> "done", parts |-> <<>>, at |-> 1, out |-> <<>>, res |-> "ok", action |-> READ_ARRAY]
    BY <1>2 DEF Write, NoCall
  <2>2. CallOK'
    <3>1. <<>> \in Seq(Seq(Mem)) /\ Len(<<>>) = 0
      OBVIOUS
    <3> QED  BY <2>1, <3>1 DEF CallOK
  <2>3. mid' \in 1 .. MaxMid /\ fifo' \in Seq(Frame)
    <3>1. pairs \in Seq(Mem \X Bytes) /\ Send(WRITE_PAIRS, pairs)
      BY <1>2, CcAssumption DEF Write
    <3> QED  BY <3>1, SendType DEF Streams
  <2> QED  BY <1>2, <2>2, <2>3 DEF Write, Streams, ExpectOK
<1>3. CASE SendRead
  <2>1. /\ call.parts \in Seq(Seq(Mem)) /\ call.at \in 1 .. Len(call.parts) /\ call.parts[call.at] \in Seq(Mem)
        /\ call.action \in {READ_ADDRS, READ_ARRAY}
    BY <1>3 DEF SendRead, CallOK
  <2>2. mid' \in 1 .. MaxMid /\ fifo' \in Seq(Frame)
    BY <1>3, <2>1, SendType DEF SendRead, Streams
  <2>3. CallOK'
    <3>1. call' = [pc |-> "poll", parts |-> call.parts, at |-> call.at, out |-> call.out,
                   res |-> call.res, action |-> call.action]
      BY <1>3, CallFields DEF SendRead
    <3> QED  BY <2>1, <3>1 DEF CallOK
  <2>4. ExpectOK'
    <3>1. NextMid \in 1 .. MaxMid /\ Len(call.parts[call.at]) \in Nat
      BY <2>1, NextMidType, LenProperties
    <3> QED  BY <1>3, <2>1, <3>1 DEF SendRead, ExpectOK
  <2> QED  BY <1>3, <2>2, <2>3, <2>4 DEF SendRead, Streams
<1>4. CASE PollTimesOut
  <2>1. call' = [pc |-> "done", parts |-> call.parts, at |-> call.at, out |-> call.out,
                 res |-> "late", action |-> call.action]
    BY <1>4, CallFields DEF PollTimesOut
  <2>2. CallOK'
    BY <2>1 DEF CallOK
  <2> QED  BY <1>4, <2>2 DEF PollTimesOut, Streams, ExpectOK
<1> QED  BY <1>1, <1>2, <1>3, <1>4

\* poll_response moves on to the next part, if there is one.
LEMMA PollTypes ==
  ASSUME CcInv, NEW n \in 0 .. Len(wire), PollResponse(n)
  PROVE  CcInv'
<1> USE DEF CcInv
<1> DEFINE buf == rxBuf \o SubSeq(wire, 1, n)
           last == call.at = Len(call.parts)
<1>1. Len(wire) \in Nat /\ \A i \in 1 .. Len(wire) : wire[i] \in Symbols
  BY DEF Streams
<1>2. SubSeq(wire, 1, n) \in Seq(Symbols) /\ wire' \in Seq(Symbols)
  <2>1. wire' = SubSeq(wire, n + 1, Len(wire))
    BY DEF PollResponse
  <2> QED  BY <1>1, <2>1, SubSeqProperties
<1>3. Streams'
  <2>1. buf \in Seq(Symbols)
    BY <1>2, ConcatProperties DEF Streams
  <2>2. rxBuf' = buf \/ rxBuf' = <<>>
    BY DEF PollResponse
  <2>3. rxBuf' \in Seq(Symbols)
    <3> HIDE DEF buf
    <3> QED  BY <2>1, <2>2, EmptySeq
  <2> QED  BY <1>2, <2>3 DEF PollResponse, Streams
<1>4. \/ call' = call
      \/ \E out : call' = [call EXCEPT !.at = call.at + 1, !.out = out,
                                       !.pc = IF last THEN "done" ELSE "send",
                                       !.res = IF last THEN "ok" ELSE "none"]
  BY DEF PollResponse, CallOK
<1>5. CallOK'
  <2>1. CASE call' = call
    BY <2>1 DEF CallOK
  <2>2. ASSUME NEW out, call' = [call EXCEPT !.at = call.at + 1, !.out = out,
                                             !.pc = IF last THEN "done" ELSE "send",
                                             !.res = IF last THEN "ok" ELSE "none"]
        PROVE  CallOK'
    <3>1. call.at \in 1 .. Len(call.parts) /\ Len(call.parts) \in Nat
      BY DEF CallOK, PollResponse
    <3>2. call' = [pc |-> IF last THEN "done" ELSE "send", parts |-> call.parts, at |-> call.at + 1,
                   out |-> out, res |-> IF last THEN "ok" ELSE "none", action |-> call.action]
      <4>1. PICK pc, res, at : /\ pc = (IF last THEN "done" ELSE "send")
                               /\ res = (IF last THEN "ok" ELSE "none")
                               /\ at = call.at + 1
        OBVIOUS
      <4> HIDE DEF last
      <4>2. call' = [call EXCEPT !.at = at, !.out = out, !.pc = pc, !.res = res]
        BY <2>2, <4>1
      <4>3. [call EXCEPT !.at = at, !.out = out, !.pc = pc, !.res = res] =
              [pc |-> pc, parts |-> call.parts, at |-> at, out |-> out,
               res |-> res, action |-> call.action]
        <5>1. PICK x : x = [call EXCEPT !.at = at]
          OBVIOUS
        <5>2. PICK y : y = [x EXCEPT !.out = out]
          OBVIOUS
        <5>3. PICK z : z = [y EXCEPT !.pc = pc]
          OBVIOUS
        <5>4. [z EXCEPT !.res = res] = [call EXCEPT !.at = at, !.out = out, !.pc = pc, !.res = res]
          BY <5>1, <5>2, <5>3
        <5>5. x = [pc |-> call.pc, parts |-> call.parts, at |-> at, out |-> call.out, res |-> call.res, action |-> call.action]
          BY <5>1 DEF CallOK
        <5>6. y = [pc |-> call.pc, parts |-> call.parts, at |-> at, out |-> out, res |-> call.res, action |-> call.action]
          BY <5>2, <5>5
        <5>7. z = [pc |-> pc, parts |-> call.parts, at |-> at, out |-> out, res |-> call.res, action |-> call.action]
          BY <5>3, <5>6
        <5> QED  BY <5>4, <5>7
      <4>4. call' = [pc |-> pc, parts |-> call.parts, at |-> at, out |-> out,
                     res |-> res, action |-> call.action]
        BY <4>2, <4>3, Zenon
      <4> QED  BY <4>1, <4>4
    <3> QED  BY <3>1, <3>2 DEF CallOK
  <2> QED  BY <1>4, <2>1, <2>2
<1> QED  BY <1>3, <1>5 DEF PollResponse, ExpectOK

\* The cartridge answers with bytes of RAM, and the game writes bytes.
LEMMA CartridgeTypes ==
  ASSUME CcInv,
         \/ Serve
         \/ \E b \in {0, 4} : SendStatus(b)
         \/ \E a \in Mem, v \in Bytes : GamePokes(a, v)
  PROVE  CcInv'
<1> USE DEF CcInv
<1>1. CASE Serve
  <2> DEFINE f == Head(fifo)
             vals == [i \in 1 .. Len(f.body) |-> mem[f.body[i]]]
  <2>1. fifo # <<>> /\ f \in Frame /\ fifo' \in Seq(Frame)
    BY <1>1, HeadTailProperties, SMTT(40) DEF Serve, Streams
  <2>2. CASE f.action = WRITE_PAIRS
    <3>1. f.body \in Seq(Mem \X Bytes)
      BY <2>1, <2>2 DEF Frame, WRITE_PAIRS, READ_ADDRS, READ_ARRAY
    <3>2. mem' = Poked(f.body) /\ wire' = wire
      BY <1>1, <2>2 DEF Serve
    <3>3. mem' \in [Mem -> Bytes]
      BY <3>1, <3>2, PokedType, SMTT(40)
    <3> QED  BY <1>1, <2>1, <3>2, <3>3 DEF Serve, Streams, CallOK, ExpectOK
  <2>3. CASE f.action # WRITE_PAIRS
    <3>1. f.body \in Seq(Mem) /\ f.mid \in 1 .. MaxMid /\ f.action \in {READ_ADDRS, READ_ARRAY}
      BY <2>1, <2>3 DEF Frame
    <3>2. vals \in Seq(Bytes)
      BY <3>1
    <3>3. vals \in Seq(Symbols)
      BY <3>2, SeqMonotonic DEF Symbols
    <3>4. <<0, START, f.mid, f.action>> \in Seq(Symbols)
      <4>1. 0 \in Symbols /\ START \in Symbols /\ f.mid \in Symbols /\ f.action \in Symbols
        BY <3>1, CcAssumption, SMTT(40) DEF Symbols, READ_ADDRS, READ_ARRAY
      <4> QED  BY <4>1
    <3>5. wire' = wire \o <<0, START, f.mid, f.action>> \o vals /\ mem' = mem
      BY <1>1, <2>3 DEF Serve
    <3>6. wire' \in Seq(Symbols)
      <4> HIDE DEF vals, f
      <4>1. wire \o <<0, START, f.mid, f.action>> \in Seq(Symbols)
        BY <3>4, ConcatProperties DEF Streams
      <4> QED  BY <3>3, <3>5, <4>1, ConcatProperties
    <3> QED  BY <1>1, <2>1, <3>5, <3>6 DEF Serve, Streams, CallOK, ExpectOK
  <2> QED  BY <2>2, <2>3, SMTT(40)
<1>2. ASSUME NEW b \in {0, 4}, SendStatus(b) PROVE CcInv'
  <2>1. <<b, STATUS>> \in Seq(Symbols)
    <3>1. b \in Symbols /\ STATUS \in Symbols
      BY CcAssumption DEF Symbols
    <3> QED  BY <3>1
  <2>2. wire' \in Seq(Symbols)
    BY <1>2, <2>1, ConcatProperties DEF SendStatus, Streams
  <2> QED  BY <1>2, <2>2 DEF SendStatus, Streams, CallOK, ExpectOK
<1>3. ASSUME NEW a \in Mem, NEW v \in Bytes, GamePokes(a, v) PROVE CcInv'
  BY <1>3 DEF GamePokes, Streams, CallOK, ExpectOK
<1> QED  BY <1>1, <1>2, <1>3

\* The EverDrive starts within its types and keeps them.
LEMMA InitCc == Init => CcInv
<1> SUFFICES ASSUME Init PROVE CcInv
  OBVIOUS
<1>1. CallOK
  BY DEF Init, CcInit, NoCall, CallOK
<1>2. mid \in 0 .. MaxMid /\ ExpectOK
  BY CcAssumption DEF Init, CcInit, ExpectOK
<1>3. Streams
  BY DEF Init, CcInit, Streams
<1>4. mem \in [Mem -> Bytes]
  BY CcAssumption DEF Init, CcInit
<1> QED  BY <1>1, <1>2, <1>3, <1>4 DEF CcInv

LEMMA CcStep == CcInv /\ (CcNext \/ UNCHANGED ccVars) => CcInv'
<1>1. CcInv /\ CcNext => CcInv'
  BY ClientTypes, PollTypes, CartridgeTypes DEF CcNext
<1>2. CcInv /\ UNCHANGED ccVars => CcInv'
  BY DEF ccVars, CcInv, ExpectOK, CallOK, Streams
<1> QED  BY <1>1, <1>2

\* Both endpoints keep to the types of their variables, for any calls, any frames
\* and any bounds: a message id never leaves its range, a reader never points past
\* the parts of its call, and only bytes the two sides know travel on the wire.
THEOREM EndpointTypes == Spec => []TypeOK
<1>1. Init => CcInv /\ device \in {"mister", "edn8"}
  BY InitCc DEF Init
<1>2. CcInv /\ device \in {"mister", "edn8"} /\ [Next]_vars => (CcInv /\ device \in {"mister", "edn8"})'
  <2> SUFFICES ASSUME CcInv, [Next]_vars PROVE CcInv' /\ device' = device
    OBVIOUS
  <2>1. device' = device /\ (CcNext \/ UNCHANGED ccVars)
    BY DEF Next, vars
  <2> QED  BY <2>1, CcStep
<1>3. Base => MisterTypeOK
  <2> SUFFICES ASSUME Base PROVE MisterTypeOK
    OBVIOUS
  <2>1. \A c \in Clients :
          /\ op[c].pc \in {"done", "list", "rctrl", "rpoll", "values", "pairs", "wctrl", "wpoll"}
          /\ op[c].list \in Reads \cup Writes \cup {<<>>} /\ op[c].tag \in 0 .. MaxOps
          /\ op[c].i \in 1 .. Slots + 1 /\ op[c].res \in {"none", "ok", "timeout", "failed"}
          /\ Len(op[c].got) <= Len(op[c].list)
    BY DEF Base, Shapes, OpOK, Op, ReadPcs, WritePcs
  <2> QED  BY <2>1 DEF Base, Shapes, MisterTypeOK, Hp, Dd, Mctrl, Cur, AnyAddr
<1>4. CcInv => CcTypeOK
  <2> SUFFICES ASSUME CcInv PROVE CcTypeOK
    OBVIOUS
  <2>1. ToSet(rxBuf) \cup ToSet(wire) \subseteq Symbols
    BY DEF CcInv, Streams, ToSet
  <2> QED  BY <2>1 DEF CcInv, CcTypeOK, ExpectOK, CallOK, Symbols
<1>5. Base /\ CcInv /\ device \in {"mister", "edn8"} => TypeOK
  BY <1>3, <1>4 DEF TypeOK
<1> QED  BY <1>1, <1>2, <1>5, DeviceInvariant, PTL DEF Spec

-----------------------------------------------------------------------------
(* The filter for status pairs *)

\* Induction up to a bound, as a fact about a set.
LEMMA Climb ==
  ASSUME NEW n \in Nat, NEW T, 0 \in T, \A k \in 0 .. n - 1 : k \in T => k + 1 \in T
  PROVE  \A k \in 0 .. n : k \in T
<1> DEFINE B == {k \in 1 .. n + 1 : n + 1 - k \notin T}
<1>1. SUFFICES ASSUME NEW j \in 0 .. n, j \notin T PROVE FALSE
  OBVIOUS
<1>2. n + 1 - j \in 1 .. n + 1 /\ (n + 1) - (n + 1 - j) = j
  OBVIOUS
<1>3. n + 1 - j \in B /\ B \in SUBSET (1 .. n + 1) /\ n + 1 \in Nat
  BY <1>1, <1>2
<1>4. PICK x \in B : \A y \in B : y <= x
  <2> HIDE DEF B
  <2> QED  BY <1>3, LastOne
<1>5. x \in 1 .. n + 1 /\ n + 1 - x \notin T
  BY <1>4
<1>6. x # n + 1
  BY <1>5
<1>7. x + 1 \in 1 .. n + 1 /\ x + 1 \notin B
  BY <1>4, <1>5, <1>6
<1>8. n + 1 - (x + 1) \in T /\ n + 1 - (x + 1) \in 0 .. n - 1 /\ (n + 1 - (x + 1)) + 1 = n + 1 - x
  BY <1>5, <1>6, <1>7
<1> QED  BY <1>5, <1>8

\* The bytes the filter drops; the buffer it has built after i bytes.
StatusAt(b, i) == i \in 1 .. Len(b) - 1 /\ b[i] \in {0, 4} /\ b[i + 1] = STATUS
Dropped(b, i) == StatusAt(b, i) \/ StatusAt(b, i - 1)
Scan(out, b, n) ==
  /\ out[0] = <<>>
  /\ \A i \in 1 .. n : out[i] = IF Dropped(b, i) THEN out[i - 1] ELSE Append(out[i - 1], b[i])

\* The loop of the filter has a history, and it ends in the result.
LEMMA StripScan ==
  ASSUME NEW S, NEW b \in Seq(S)
  PROVE  \E out : Scan(out, b, Len(b)) /\ StripStatusPairs(b) = out[Len(b)]
<1> DEFINE n == Len(b)
           IsOut(g) == g = [i \in 0 .. n |-> IF i = 0 THEN <<>>
                                             ELSE IF Dropped(b, i) THEN g[i - 1] ELSE Append(g[i - 1], b[i])]
           out == CHOOSE g : IsOut(g)
           H(f, m) == f = [i \in 0 .. m |-> f[i]] /\ Scan(f, b, m)
           T == {m \in Nat : \E f : H(f, m)}
<1>1. n \in Nat
  OBVIOUS
<1>2. 0 \in T
  <2>1. H([i \in 0 .. 0 |-> <<>>], 0)
    BY DEF Scan
  <2> HIDE DEF H
  <2> QED  BY <2>1
<1>3. ASSUME NEW m \in 0 .. n - 1, m \in T PROVE m + 1 \in T
  <2>1. PICK f : H(f, m)
    BY <1>3
  <2> DEFINE g == [i \in 0 .. m + 1 |-> IF i <= m THEN f[i]
                     ELSE IF Dropped(b, m + 1) THEN f[m] ELSE Append(f[m], b[m + 1])]
  <2>2. \A i \in 0 .. m : g[i] = f[i]
    OBVIOUS
  <2>3. g[m + 1] = IF Dropped(b, m + 1) THEN f[m] ELSE Append(f[m], b[m + 1])
    BY <1>1
  <2>4. g = [i \in 0 .. m + 1 |-> g[i]]
    OBVIOUS
  <2> HIDE DEF g
  <2>5. g[0] = <<>>
    BY <1>1, <2>1, <2>2 DEF Scan
  <2>6. ASSUME NEW i \in 1 .. m + 1
        PROVE  g[i] = IF Dropped(b, i) THEN g[i - 1] ELSE Append(g[i - 1], b[i])
    <3>1. CASE i = m + 1
      <4>1. g[i - 1] = f[m]
        BY <1>1, <2>2, <3>1
      <4> QED  BY <2>3, <3>1, <4>1
    <3>2. CASE i # m + 1
      <4>1. i \in 1 .. m /\ g[i] = f[i] /\ g[i - 1] = f[i - 1]
        BY <1>1, <2>2, <3>2
      <4> QED  BY <2>1, <4>1 DEF Scan
    <3> QED  BY <3>1, <3>2
  <2>7. H(g, m + 1)
    BY <2>4, <2>5, <2>6 DEF Scan
  <2> HIDE DEF H
  <2> QED  BY <1>1, <2>7
<1>4. PICK f : H(f, n)
  <2>1. n \in T
    <3> HIDE DEF T, n
    <3>1. \A k \in 0 .. n : k \in T
      BY <1>1, <1>2, <1>3, Climb
    <3> QED  BY <1>1, <3>1
  <2> HIDE DEF H
  <2> QED  BY <2>1
<1>5. IsOut(f)
  <2>1. \A i \in 0 .. n : f[i] = IF i = 0 THEN <<>> ELSE IF Dropped(b, i) THEN f[i - 1] ELSE Append(f[i - 1], b[i])
    BY <1>1, <1>4 DEF Scan
  <2> HIDE DEF n
  <2> QED  BY <1>4, <2>1
<1>6. IsOut(out)
  BY <1>5
<1>7. StripStatusPairs(b) = out[n]
  BY DEF StripStatusPairs, Dropped, StatusAt
<1> HIDE DEF out
<1>8. Scan(out, b, n)
  <2>1. \A i \in 0 .. n : out[i] = IF i = 0 THEN <<>> ELSE IF Dropped(b, i) THEN out[i - 1] ELSE Append(out[i - 1], b[i])
    <3> HIDE DEF n
    <3> QED  BY <1>6
  <2> HIDE DEF n, IsOut
  <2>2. out[0] = <<>> /\ \A i \in 1 .. n : i \in 0 .. n /\ i # 0
    BY <1>1, <2>1
  <2> QED  BY <2>1, <2>2 DEF Scan
<1> QED  BY <1>7, <1>8

\* pos[j] bytes are left of the first j; the j-th one, if it is kept, is the last of them.
Placed(pos, b, filt) ==
  /\ pos \in [0 .. Len(b) -> Nat] /\ pos[0] = 0 /\ pos[Len(b)] = Len(filt)
  /\ \A j \in 1 .. Len(b) :
       IF Dropped(b, j) THEN pos[j] = pos[j - 1]
       ELSE pos[j] = pos[j - 1] + 1 /\ filt[pos[j]] = b[j]

\* Where the filter leaves each byte.
LEMMA StripFacts ==
  ASSUME NEW S, NEW b \in Seq(S)
  PROVE  StripStatusPairs(b) \in Seq(S) /\ \E pos : Placed(pos, b, StripStatusPairs(b))
<1> DEFINE n == Len(b)
<1>1. n \in Nat /\ \A i \in 1 .. n : b[i] \in S
  OBVIOUS
<1>2. PICK out : Scan(out, b, n) /\ StripStatusPairs(b) = out[n]
  BY StripScan
<1> HIDE DEF n
<1> DEFINE Grown(j, k) == Len(out[j]) <= Len(out[k]) /\ \A x \in 1 .. Len(out[j]) : out[k][x] = out[j][x]
           P(k) == out[k] \in Seq(S) /\ \A j \in 0 .. k : Grown(j, k)
           T == {k \in 0 .. n : P(k)}
<1>3. 0 \in T
  <2>1. out[0] = <<>>
    BY <1>2 DEF Scan
  <2>2. out[0] \in Seq(S) /\ Len(out[0]) = 0
    BY <2>1
  <2>3. \A j \in 0 .. 0 : j = 0
    OBVIOUS
  <2>4. Grown(0, 0)
    BY <2>2
  <2> QED  BY <1>1, <2>2, <2>3, <2>4
<1>4. ASSUME NEW k \in 0 .. n - 1, k \in T PROVE k + 1 \in T
  <2>1. out[k] \in Seq(S) /\ \A j \in 0 .. k : Grown(j, k)
    BY <1>4
  <2>2. k + 1 \in 1 .. n /\ (k + 1) - 1 = k /\ b[k + 1] \in S
    BY <1>1
  <2>3. out[k + 1] = out[k] \/ out[k + 1] = Append(out[k], b[k + 1])
    BY <1>2, <2>2 DEF Scan
  <2>4. /\ out[k + 1] \in Seq(S) /\ Len(out[k]) \in Nat /\ Len(out[k]) <= Len(out[k + 1])
        /\ \A x \in 1 .. Len(out[k]) : out[k + 1][x] = out[k][x]
    <3>1. CASE out[k + 1] = out[k]
      BY <2>1, <3>1
    <3>2. CASE out[k + 1] = Append(out[k], b[k + 1])
      <4> HIDE DEF T, Grown
      <4> QED  BY <2>1, <2>2, <3>2, AppendProperties, SMTT(30)
    <3> QED  BY <2>3, <3>1, <3>2
  <2>5. ASSUME NEW j \in 0 .. k + 1 PROVE Grown(j, k + 1)
    <3>1. CASE j = k + 1
      BY <2>4, <3>1
    <3>2. CASE j # k + 1
      <4>1. j \in 0 .. k
        BY <1>1, <3>2
      <4>2. Len(out[j]) <= Len(out[k]) /\ \A x \in 1 .. Len(out[j]) : out[k][x] = out[j][x]
        BY <2>1, <4>1
      <4>3. ASSUME NEW x \in 1 .. Len(out[j]) PROVE out[k + 1][x] = out[j][x]
        <5>1. x \in 1 .. Len(out[k])
          BY <2>4, <4>2
        <5> QED  BY <2>4, <4>2, <5>1
      <4> QED  BY <2>4, <4>2, <4>3
    <3> QED  BY <3>1, <3>2
  <2> QED  BY <2>2, <2>4, <2>5
<1>5. \A k \in 0 .. n : P(k)
  <2>1. \A k \in 0 .. n : k \in T
    <3> HIDE DEF T
    <3> QED  BY <1>1, <1>3, <1>4, Climb
  <2> QED  BY <2>1
<1> DEFINE pos == [j \in 0 .. n |-> Len(out[j])]
<1>6. pos \in [0 .. n -> Nat] /\ pos[0] = 0 /\ pos[n] = Len(out[n])
  <2>1. \A j \in 0 .. n : Len(out[j]) \in Nat
    BY <1>5
  <2>2. Len(out[0]) = 0
    BY <1>2 DEF Scan
  <2> QED  BY <1>1, <2>1, <2>2
<1>7. ASSUME NEW j \in 1 .. n
      PROVE  IF Dropped(b, j) THEN pos[j] = pos[j - 1]
             ELSE pos[j] = pos[j - 1] + 1 /\ out[n][pos[j]] = b[j]
  <2>1. j \in 0 .. n /\ j - 1 \in 0 .. n /\ n \in 0 .. n
    BY <1>1
  <2>2. pos[j] = Len(out[j]) /\ pos[j - 1] = Len(out[j - 1])
    BY <2>1
  <2>3. out[j] = IF Dropped(b, j) THEN out[j - 1] ELSE Append(out[j - 1], b[j])
    BY <1>2 DEF Scan
  <2>4. out[j - 1] \in Seq(S) /\ Grown(j, n)
    BY <1>5, <2>1
  <2>5. CASE ~Dropped(b, j)
    <3>1. Len(out[j]) = Len(out[j - 1]) + 1 /\ Len(out[j]) \in Nat /\ out[j][Len(out[j])] = b[j]
      BY <1>1, <2>3, <2>4, <2>5
    <3>2. Len(out[j]) \in 1 .. Len(out[j])
      BY <2>4, <3>1
    <3> QED  BY <2>2, <2>4, <2>5, <3>1, <3>2
  <2> QED  BY <2>2, <2>3, <2>5
<1> HIDE DEF pos
<1>8. Placed(pos, b, StripStatusPairs(b))
  BY <1>2, <1>6, <1>7 DEF Placed, n
<1>9. out[n] \in Seq(S)
  BY <1>1, <1>5
<1> QED  BY <1>2, <1>8, <1>9

\* No byte moves ahead of another, and the places from j to k are at most k - j.
LEMMA PlacedGrows ==
  ASSUME NEW b, Len(b) \in Nat, NEW filt, NEW pos, Placed(pos, b, filt),
         NEW j \in 0 .. Len(b), NEW k \in j .. Len(b)
  PROVE  pos[j] <= pos[k] /\ pos[k] <= pos[j] + (k - j)
<1> DEFINE n == Len(b)
           T == {d \in 0 .. n - j : pos[j] <= pos[j + d] /\ pos[j + d] <= pos[j] + d}
<1>1. 0 \in T
  BY DEF Placed
<1>2. ASSUME NEW d \in 0 .. (n - j) - 1, d \in T PROVE d + 1 \in T
  <2>1. j + (d + 1) \in 1 .. n /\ (j + (d + 1)) - 1 = j + d /\ j + d \in 0 .. n
    OBVIOUS
  <2>2. pos[j + (d + 1)] = pos[j + d] \/ pos[j + (d + 1)] = pos[j + d] + 1
    BY <2>1 DEF Placed
  <2>3. pos[j] \in Nat /\ pos[j + d] \in Nat
    BY <2>1 DEF Placed
  <2> QED  BY <1>2, <2>2, <2>3
<1>3. k - j \in 0 .. n - j /\ n - j \in Nat /\ j + (k - j) = k
  OBVIOUS
<1>4. k - j \in T
  <2> HIDE DEF T, n
  <2> QED  BY <1>1, <1>2, <1>3, Climb
<1> QED  BY <1>3, <1>4

\* A run of bytes that are all kept stays together.
LEMMA PlacedRun ==
  ASSUME NEW b, Len(b) \in Nat, NEW filt, NEW pos, Placed(pos, b, filt),
         NEW i \in 1 .. Len(b), NEW j \in i .. Len(b), \A m \in i .. j : ~Dropped(b, m)
  PROVE  /\ pos[i] \in Nat /\ pos[i] >= 1 /\ pos[i] + (j - i) <= Len(filt)
         /\ \A m \in i .. j : pos[m] = pos[i] + (m - i) /\ filt[pos[i] + (m - i)] = b[m]
<1> DEFINE n == Len(b)
           T == {d \in 0 .. j - i : pos[i + d] = pos[i] + d /\ filt[pos[i] + d] = b[i + d]}
<1>1. pos[i] \in Nat /\ pos[i - 1] \in Nat /\ pos[i] = pos[i - 1] + 1 /\ filt[pos[i]] = b[i]
  <2>1. i \in 0 .. Len(b) /\ i - 1 \in 0 .. Len(b) /\ i \in i .. j
    OBVIOUS
  <2>2. ~Dropped(b, i)
    BY <2>1
  <2>3. pos[i] \in Nat /\ pos[i - 1] \in Nat
    BY <2>1 DEF Placed
  <2>4. pos[i] = pos[i - 1] + 1 /\ filt[pos[i]] = b[i]
    BY <2>2 DEF Placed
  <2> QED  BY <2>3, <2>4
<1>2. 0 \in T
  BY <1>1
<1>3. ASSUME NEW d \in 0 .. (j - i) - 1, d \in T PROVE d + 1 \in T
  <2>1. i + (d + 1) \in 1 .. n /\ i + (d + 1) \in i .. j /\ (i + (d + 1)) - 1 = i + d
    OBVIOUS
  <2>2. pos[i + (d + 1)] = pos[i + d] + 1 /\ filt[pos[i + (d + 1)]] = b[i + (d + 1)]
    BY <2>1 DEF Placed
  <2>3. pos[i + d] = pos[i] + d
    BY <1>3
  <2> QED  BY <1>1, <2>2, <2>3
<1>4. j - i \in Nat
  OBVIOUS
<1>5. \A d \in 0 .. j - i : d \in T
  <2> HIDE DEF T
  <2> QED  BY <1>2, <1>3, <1>4, Climb
<1>6. ASSUME NEW m \in i .. j PROVE pos[m] = pos[i] + (m - i) /\ filt[pos[i] + (m - i)] = b[m]
  <2>1. m - i \in 0 .. j - i /\ i + (m - i) = m
    OBVIOUS
  <2>2. m - i \in T
    BY <1>5, <2>1
  <2> QED  BY <2>1, <2>2
<1>7. pos[j] <= Len(filt) /\ pos[j] = pos[i] + (j - i)
  <2>1. j \in 0 .. n /\ n \in j .. n /\ j \in i .. j
    OBVIOUS
  <2>2. pos[j] <= pos[n]
    BY <2>1, PlacedGrows
  <2> QED  BY <1>6, <2>1, <2>2 DEF Placed
<1> QED  BY <1>1, <1>6, <1>7
\* Every byte the filter leaves comes from a byte that it kept.
LEMMA PlacedFrom ==
  ASSUME NEW b, Len(b) \in Nat, NEW filt, NEW pos, Placed(pos, b, filt), NEW x \in 1 .. Len(filt)
  PROVE  \E p \in 1 .. Len(b) : ~Dropped(b, p) /\ pos[p] = x /\ filt[x] = b[p]
<1> SUFFICES ASSUME \A p \in 1 .. Len(b) : ~(~Dropped(b, p) /\ pos[p] = x /\ filt[x] = b[p]) PROVE FALSE
  OBVIOUS
<1> DEFINE n == Len(b)
           T == {j \in 0 .. n : pos[j] < x}
<1>1. 0 \in T /\ x \in Nat
  BY DEF Placed
<1>2. ASSUME NEW j \in 0 .. n - 1, j \in T PROVE j + 1 \in T
  <2>1. j + 1 \in 1 .. n /\ (j + 1) - 1 = j /\ j \in 0 .. n
    OBVIOUS
  <2>2. pos[j] \in Nat /\ pos[j] < x
    BY <1>2, <2>1 DEF Placed
  <2>3. CASE Dropped(b, j + 1)
    BY <2>1, <2>2, <2>3 DEF Placed
  <2>4. CASE ~Dropped(b, j + 1)
    <3>1. pos[j + 1] = pos[j] + 1 /\ filt[pos[j + 1]] = b[j + 1]
      BY <2>1, <2>4 DEF Placed
    <3>2. pos[j + 1] # x
      BY <2>1, <2>4, <3>1
    <3> QED  BY <1>1, <2>1, <2>2, <3>1, <3>2
  <2> QED  BY <2>3, <2>4
<1>3. n \in T
  <2> HIDE DEF T, n
  <2>1. n \in Nat
    BY DEF n
  <2>2. \A k \in 0 .. n : k \in T
    BY <1>1, <1>2, <2>1, Climb
  <2> QED  BY <2>1, <2>2
<1>4. pos[n] = Len(filt)
  BY DEF Placed
<1>5. Len(filt) \in Nat
  BY <1>4 DEF Placed
<1> QED  BY <1>1, <1>3, <1>4, <1>5

\* A run that is dropped leaves nothing.
LEMMA PlacedGap ==
  ASSUME NEW b, Len(b) \in Nat, NEW filt, NEW pos, Placed(pos, b, filt),
         NEW i \in 0 .. Len(b), NEW j \in i .. Len(b), \A m \in i + 1 .. j : Dropped(b, m)
  PROVE  pos[j] = pos[i]
<1> DEFINE T == {d \in 0 .. j - i : pos[i + d] = pos[i]}
<1>1. 0 \in T
  OBVIOUS
<1>2. ASSUME NEW d \in 0 .. (j - i) - 1, d \in T PROVE d + 1 \in T
  <2>1. i + (d + 1) \in 1 .. Len(b) /\ i + (d + 1) \in i + 1 .. j /\ (i + (d + 1)) - 1 = i + d
    OBVIOUS
  <2>2. pos[i + (d + 1)] = pos[i + d]
    BY <2>1 DEF Placed
  <2> QED  BY <1>2, <2>2
<1>3. j - i \in Nat /\ i + (j - i) = j
  OBVIOUS
<1>4. j - i \in T
  <2> HIDE DEF T
  <2>1. \A k \in 0 .. j - i : k \in T
    BY <1>1, <1>2, <1>3, Climb
  <2> QED  BY <1>3, <2>1
<1> QED  BY <1>3, <1>4

-----------------------------------------------------------------------------
(* The stream of answers *)

\* t is s followed by x, byte by byte.
Joined(t, s, x) ==
  /\ Len(t) = Len(s) + Len(x)
  /\ \A i \in 1 .. Len(s) : t[i] = s[i]
  /\ \A i \in 1 .. Len(x) : t[Len(s) + i] = x[i]

LEMMA JoinedConcat ==
  ASSUME NEW S, NEW s \in Seq(S), NEW x \in Seq(S)
  PROVE  s \o x \in Seq(S) /\ Joined(s \o x, s, x)
BY ConcatProperties DEF Joined

\* The symbols of an answer.
LEMMA Marks == START \in Symbols /\ STATUS \in Symbols /\ {0, 1} \subseteq Symbols /\ 1 .. MaxMid \subseteq Symbols
BY CcAssumption DEF Symbols

\* What is on its way to the client or in its buffer, in order.
Stream == rxBuf \o wire

LEMMA StreamType == CcInv => Stream \in Seq(Symbols) /\ Len(Stream) \in Nat /\ Joined(Stream, rxBuf, wire)
BY JoinedConcat DEF CcInv, Streams, Stream

Regrouped(a, b, c) == (a \o b) \o c = a \o (b \o c)
LEMMA Regroup ==
  ASSUME NEW S, NEW a \in Seq(S), NEW b \in Seq(S), NEW c \in Seq(S)
  PROVE  Regrouped(a, b, c)
<1>1. a \o b \in Seq(S) /\ b \o c \in Seq(S) /\ Joined(a \o b, a, b) /\ Joined(b \o c, b, c)
  BY JoinedConcat, Zenon
<1>2. PICK x, y : x = a \o b /\ y = b \o c
  OBVIOUS
<1>3. PICK l, r : l = x \o c /\ r = a \o y
  OBVIOUS
<1>4. l \in Seq(S) /\ r \in Seq(S) /\ Joined(l, x, c) /\ Joined(r, a, y)
  <2>1. x \in Seq(S) /\ y \in Seq(S)
    BY <1>1, <1>2
  <2> QED  BY <1>3, <2>1, JoinedConcat, Zenon
<1>5. PICK i, j, k \in Nat : i = Len(a) /\ j = Len(b) /\ k = Len(c)
  OBVIOUS
<1>6. Len(x) = i + j /\ Len(y) = j + k /\ Len(l) = (i + j) + k /\ Len(r) = i + (j + k)
  BY <1>1, <1>2, <1>4, <1>5 DEF Joined
<1>7. ASSUME NEW p \in 1 .. i + j + k PROVE l[p] = r[p]
  <2>1. CASE p <= i
    <3>1. p \in 1 .. i /\ p \in 1 .. i + j
      BY <1>5, <2>1
    <3> QED  BY <1>1, <1>2, <1>4, <1>5, <1>6, <3>1 DEF Joined
  <2>2. CASE i < p /\ p <= i + j
    <3>1. p - i \in 1 .. j /\ p - i \in 1 .. j + k /\ p \in 1 .. i + j /\ i + (p - i) = p
      BY <1>5, <2>2
    <3>2. l[p] = x[p] /\ x[i + (p - i)] = b[p - i] /\ r[i + (p - i)] = y[p - i] /\ y[p - i] = b[p - i]
      BY <1>1, <1>2, <1>4, <1>5, <1>6, <3>1 DEF Joined
    <3> QED  BY <3>1, <3>2
  <2>3. CASE i + j < p
    <3>1. /\ p - (i + j) \in 1 .. k /\ p - i \in 1 .. j + k
          /\ (i + j) + (p - (i + j)) = p /\ i + (p - i) = p /\ j + (p - (i + j)) = p - i
      BY <1>5, <2>3
    <3>2. /\ l[(i + j) + (p - (i + j))] = c[p - (i + j)] /\ r[i + (p - i)] = y[p - i]
          /\ y[j + (p - (i + j))] = c[p - (i + j)]
      BY <1>1, <1>2, <1>4, <1>5, <1>6, <3>1 DEF Joined
    <3> QED  BY <3>1, <3>2
  <2> QED  BY <1>5, <2>1, <2>2, <2>3
<1>8. l = r
  <2>1. Len(l) = Len(r) /\ \A p \in 1 .. Len(l) : l[p] = r[p]
    BY <1>5, <1>6, <1>7
  <2> QED  BY <1>4, <2>1, SeqEqual
<1> QED  BY <1>2, <1>3, <1>8 DEF Regrouped

\* A poll moves bytes from the wire to the buffer and leaves their order.
LEMMA PollStream ==
  ASSUME CcInv, NEW n \in 0 .. Len(wire), NEW buf, buf = rxBuf \o SubSeq(wire, 1, n),
         NEW rest, rest = SubSeq(wire, n + 1, Len(wire))
  PROVE  /\ buf \in Seq(Symbols) /\ rest \in Seq(Symbols) /\ buf \o rest = Stream
<1>1. wire \in Seq(Symbols) /\ rxBuf \in Seq(Symbols) /\ Len(wire) \in Nat
  BY DEF CcInv, Streams
<1>2. PICK a : a = SubSeq(wire, 1, n)
  OBVIOUS
<1>3. a \in Seq(Symbols) /\ Len(a) = n /\ \A i \in 1 .. n : a[i] = wire[i]
  <2>1. \A i \in 1 .. n : wire[i] \in Symbols
    BY <1>1
  <2>2. a \in Seq(Symbols) /\ Len(a) = n /\ \A i \in 1 .. (n - 1) + 1 : a[i] = wire[1 + i - 1]
    BY <1>1, <1>2, <2>1, SubSeqProperties
  <2>3. \A i \in 1 .. n : i \in 1 .. (n - 1) + 1 /\ 1 + i - 1 = i
    BY <1>1
  <2> QED  BY <2>2, <2>3
<1>4. /\ rest \in Seq(Symbols) /\ Len(rest) = Len(wire) - n
      /\ \A i \in 1 .. Len(wire) - n : rest[i] = wire[n + i]
  <2>1. \A i \in n + 1 .. Len(wire) : wire[i] \in Symbols
    BY <1>1
  <2>2. /\ rest \in Seq(Symbols) /\ Len(rest) = (IF n + 1 <= Len(wire) THEN Len(wire) - (n + 1) + 1 ELSE 0)
        /\ \A i \in 1 .. Len(wire) - (n + 1) + 1 : rest[i] = wire[(n + 1) + i - 1]
    BY <1>1, <2>1, SubSeqProperties
  <2>3. \A i \in 1 .. Len(wire) - n : i \in 1 .. Len(wire) - (n + 1) + 1 /\ (n + 1) + i - 1 = n + i
    BY <1>1
  <2> QED  BY <1>1, <2>2, <2>3
<1>5. a \o rest = wire
  <2>0. PICK t : t = a \o rest
    OBVIOUS
  <2>1. t \in Seq(Symbols) /\ Joined(t, a, rest)
    BY <1>3, <1>4, <2>0, JoinedConcat
  <2>2. Len(t) = Len(wire)
    BY <1>1, <1>3, <1>4, <2>1 DEF Joined
  <2>3. ASSUME NEW i \in 1 .. Len(wire) PROVE t[i] = wire[i]
    <3>1. CASE i <= n
      <4>1. i \in 1 .. n
        BY <1>1, <3>1
      <4> QED  BY <1>3, <2>1, <4>1 DEF Joined
    <3>2. CASE ~(i <= n)
      <4>1. i - n \in 1 .. Len(wire) - n /\ n + (i - n) = i
        BY <1>1, <3>2
      <4>2. t[n + (i - n)] = rest[i - n]
        BY <1>3, <1>4, <2>1, <4>1 DEF Joined
      <4>3. rest[i - n] = wire[n + (i - n)]
        BY <1>4, <4>1
      <4> QED  BY <4>1, <4>2, <4>3
    <3> QED  BY <3>1, <3>2
  <2> QED  BY <1>1, <2>0, <2>1, <2>2, <2>3, SeqEqual
<1>6. buf \in Seq(Symbols) /\ buf \o rest = Stream
  <2>1. (rxBuf \o a) \o rest = rxBuf \o (a \o rest)
    <3>1. PICK r \in Seq(Symbols) : r = rest
      BY <1>4
    <3>2. Regrouped(rxBuf, a, r)
      BY <1>1, <1>3, Regroup
    <3> QED  BY <3>1, <3>2 DEF Regrouped
  <2>2. rxBuf \o a \in Seq(Symbols)
    BY <1>1, <1>3, ConcatProperties
  <2> QED  BY <1>2, <1>5, <2>1, <2>2 DEF Stream
<1> QED  BY <1>4, <1>6

\* What the cartridge or the port appends to the wire is appended to the stream.
LEMMA WireGrows ==
  ASSUME CcInv, NEW x \in Seq(Symbols), wire' = wire \o x, rxBuf' = rxBuf
  PROVE  Joined(Stream', Stream, x)
<1>1. rxBuf \in Seq(Symbols) /\ wire \in Seq(Symbols) /\ Stream \in Seq(Symbols)
  BY StreamType DEF CcInv, Streams
<1>2. Regrouped(rxBuf, wire, x)
  BY <1>1, Regroup
<1>3. Stream' = Stream \o x
  BY <1>2 DEF Regrouped, Stream
<1>4. Joined(Stream \o x, Stream, x)
  BY <1>1, JoinedConcat
<1> QED  BY <1>3, <1>4

\* After byte k there is nothing but status pairs.
OnlyPairs(s, k) ==
  \A i \in k + 1 .. Len(s) :
    \/ s[i] \in {0, 4} /\ i + 1 <= Len(s) /\ s[i + 1] = STATUS
    \/ s[i] = STATUS /\ i - 1 > k /\ s[i - 1] \in {0, 4}

\* The answer to message m lies at byte p of s, and only status pairs follow it.
Answer(s, p, m, a, v) ==
  /\ p \in Nat \ {0} /\ Len(v) \in Nat /\ p + 3 + Len(v) <= Len(s)
  /\ s[p] = 0 /\ s[p + 1] = START /\ s[p + 2] = m /\ s[p + 3] = a
  /\ \A k \in 1 .. Len(v) : s[p + 3 + k] = v[k]
  /\ OnlyPairs(s, p + 3 + Len(v))

\* Another status pair leaves the answer where it is.
LEMMA AnswerStays ==
  ASSUME NEW s, Len(s) \in Nat, NEW b \in {0, 4}, NEW t, Joined(t, s, <<b, STATUS>>),
         NEW p, NEW m, NEW a, NEW v, Answer(s, p, m, a, v)
  PROVE  Answer(t, p, m, a, v)
<1>1. /\ Len(t) = Len(s) + 2 /\ t[Len(s) + 1] = b /\ t[Len(s) + 2] = STATUS
      /\ \A i \in 1 .. Len(s) : t[i] = s[i]
  BY DEF Joined
<1>2. PICK e \in Nat : e = p + 3 + Len(v)
  BY DEF Answer
<1>3. e <= Len(s) /\ OnlyPairs(s, e) /\ p \in Nat \ {0} /\ Len(v) \in Nat
  BY <1>2 DEF Answer
<1>4. OnlyPairs(t, e)
  <2> SUFFICES ASSUME NEW i \in e + 1 .. Len(t)
               PROVE  \/ t[i] \in {0, 4} /\ i + 1 <= Len(t) /\ t[i + 1] = STATUS
                      \/ t[i] = STATUS /\ i - 1 > e /\ t[i - 1] \in {0, 4}
    BY DEF OnlyPairs
  <2>1. CASE i <= Len(s)
    <3>1. i \in e + 1 .. Len(s) /\ i \in 1 .. Len(s) /\ t[i] = s[i]
      BY <1>1, <1>2, <1>3, <2>1
    <3>2. CASE s[i] \in {0, 4} /\ i + 1 <= Len(s) /\ s[i + 1] = STATUS
      <4>1. i + 1 \in 1 .. Len(s)
        BY <3>1, <3>2
      <4> QED  BY <1>1, <3>1, <3>2, <4>1
    <3>3. CASE s[i] = STATUS /\ i - 1 > e /\ s[i - 1] \in {0, 4}
      <4>1. i - 1 \in 1 .. Len(s)
        BY <1>2, <3>1, <3>3
      <4> QED  BY <1>1, <3>1, <3>3, <4>1
    <3> QED  BY <1>3, <3>1, <3>2, <3>3 DEF OnlyPairs
  <2>2. CASE i = Len(s) + 1
    BY <1>1, <2>2
  <2>3. CASE i = Len(s) + 2
    <3>1. i - 1 = Len(s) + 1 /\ i - 1 > e
      BY <1>2, <1>3, <2>3
    <3> QED  BY <1>1, <2>3, <3>1
  <2> QED  BY <1>1, <2>1, <2>2, <2>3
<1>5. p \in 1 .. Len(s) /\ p + 1 \in 1 .. Len(s) /\ p + 2 \in 1 .. Len(s) /\ p + 3 \in 1 .. Len(s)
  BY <1>2, <1>3
<1>6. \A k \in 1 .. Len(v) : p + 3 + k \in 1 .. Len(s)
  BY <1>2, <1>3
<1> QED  BY <1>1, <1>2, <1>3, <1>4, <1>5, <1>6 DEF Answer

\* The cartridge puts an answer behind all that is under way.
LEMMA AnswerMade ==
  ASSUME NEW s, Len(s) \in Nat, NEW m, NEW a, NEW v, Len(v) \in Nat,
         NEW y, Joined(y, <<0, START, m, a>>, v), NEW t, Joined(t, s, y)
  PROVE  Answer(t, Len(s) + 1, m, a, v)
<1>1. /\ Len(y) = 4 + Len(v) /\ y[1] = 0 /\ y[2] = START /\ y[3] = m /\ y[4] = a
      /\ \A k \in 1 .. Len(v) : y[4 + k] = v[k]
  <2>1. Len(<<0, START, m, a>>) = 4
    OBVIOUS
  <2> QED  BY <2>1 DEF Joined
<1>2. PICK n \in Nat : n = Len(s)
  OBVIOUS
<1>3. Len(t) = n + (4 + Len(v)) /\ \A k \in 1 .. 4 + Len(v) : t[n + k] = y[k]
  BY <1>1, <1>2 DEF Joined
<1>4. t[n + 1] = 0 /\ t[n + 2] = START /\ t[n + 3] = m /\ t[n + 4] = a
  BY <1>1, <1>3
<1>5. ASSUME NEW k \in 1 .. Len(v) PROVE t[(n + 1) + 3 + k] = v[k]
  <2>1. 4 + k \in 1 .. 4 + Len(v) /\ n + (4 + k) = (n + 1) + 3 + k
    OBVIOUS
  <2>2. t[n + (4 + k)] = y[4 + k]
    BY <1>3, <2>1
  <2> QED  BY <1>1, <2>1, <2>2
<1>6. OnlyPairs(t, (n + 1) + 3 + Len(v))
  BY <1>3 DEF OnlyPairs
<1>7. /\ n + 1 \in Nat \ {0} /\ (n + 1) + 3 + Len(v) <= Len(t)
      /\ (n + 1) + 1 = n + 2 /\ (n + 1) + 2 = n + 3 /\ (n + 1) + 3 = n + 4
  BY <1>3
<1> QED  BY <1>2, <1>4, <1>5, <1>6, <1>7 DEF Answer

-----------------------------------------------------------------------------
(* What a search of the buffer finds *)

\* b is how the bytes of s begin.
Begins(b, s) == Len(b) \in Nat /\ Len(s) \in Nat /\ Len(b) <= Len(s) /\ \A i \in 1 .. Len(b) : b[i] = s[i]

\* Where the filter treats two buffers alike, it leaves the same.
LEMMA PlacedAlike ==
  ASSUME NEW b, Len(b) \in Nat, NEW filt, NEW pos, Placed(pos, b, filt),
         NEW d, Len(d) \in Nat, NEW gilt, NEW qos, Placed(qos, d, gilt),
         NEW c \in Nat, c <= Len(b), c <= Len(d),
         \A j \in 1 .. c : b[j] = d[j] /\ (Dropped(b, j) <=> Dropped(d, j))
  PROVE  /\ pos[c] \in Nat /\ pos[c] = qos[c] /\ pos[c] <= Len(filt) /\ pos[c] <= Len(gilt)
         /\ \A x \in 1 .. pos[c] : filt[x] = gilt[x]
<1> DEFINE T == {k \in 0 .. c : pos[k] = qos[k]}
<1>1. 0 \in T
  BY DEF Placed
<1>2. ASSUME NEW k \in 0 .. c - 1, k \in T PROVE k + 1 \in T
  <2>1. k + 1 \in 1 .. c /\ k + 1 \in 1 .. Len(b) /\ k + 1 \in 1 .. Len(d) /\ (k + 1) - 1 = k
    OBVIOUS
  <2>2. pos[k] = qos[k]
    BY <1>2
  <2>3. CASE Dropped(b, k + 1)
    <3>1. Dropped(d, k + 1)
      BY <2>1, <2>3
    <3>2. pos[k + 1] = pos[k] /\ qos[k + 1] = qos[k]
      BY <2>1, <2>3, <3>1 DEF Placed
    <3> QED  BY <2>1, <2>2, <3>2
  <2>4. CASE ~Dropped(b, k + 1)
    <3>1. ~Dropped(d, k + 1)
      BY <2>1, <2>4
    <3>2. pos[k + 1] = pos[k] + 1 /\ qos[k + 1] = qos[k] + 1
      BY <2>1, <2>4, <3>1 DEF Placed
    <3> QED  BY <2>1, <2>2, <3>2
  <2> QED  BY <2>3, <2>4
<1>3. \A k \in 0 .. c : pos[k] = qos[k]
  <2>1. \A k \in 0 .. c : k \in T
    <3> HIDE DEF T
    <3> QED  BY <1>1, <1>2, Climb
  <2> QED  BY <2>1
<1>4. c \in 0 .. Len(b) /\ c \in 0 .. Len(d) /\ Len(b) \in c .. Len(b) /\ Len(d) \in c .. Len(d)
  OBVIOUS
<1>5. pos[c] \in Nat /\ pos[c] = qos[c] /\ pos[c] <= Len(filt) /\ pos[c] <= Len(gilt)
  <2>1. pos[c] <= pos[Len(b)] /\ qos[c] <= qos[Len(d)]
    BY <1>4, PlacedGrows
  <2> QED  BY <1>3, <1>4, <2>1 DEF Placed
<1>6. ASSUME NEW x \in 1 .. pos[c] PROVE filt[x] = gilt[x]
  <2>1. x \in 1 .. Len(filt)
    <3>1. Len(filt) \in Nat
      BY DEF Placed
    <3> QED  BY <1>5, <3>1
  <2>2. PICK k \in 1 .. Len(b) : ~Dropped(b, k) /\ pos[k] = x /\ filt[x] = b[k]
    BY <2>1, PlacedFrom
  <2>3. k <= c
    <3> SUFFICES ASSUME k > c PROVE FALSE
      OBVIOUS
    <3>1. k - 1 \in c .. Len(b) /\ k - 1 \in 0 .. Len(b)
      OBVIOUS
    <3>2. pos[c] <= pos[k - 1] /\ pos[k - 1] \in Nat /\ pos[k] = pos[k - 1] + 1
      BY <1>4, <2>2, <3>1, PlacedGrows DEF Placed
    <3> QED  BY <1>5, <2>2, <3>2
  <2>4. k \in 1 .. c /\ k \in 1 .. Len(d) /\ k \in 0 .. c
    BY <2>3
  <2>5. gilt[qos[k]] = d[k]
    BY <2>2, <2>4 DEF Placed
  <2> QED  BY <1>3, <2>2, <2>4, <2>5
<1> QED  BY <1>5, <1>6

\* A header found among the late bytes is still there when more of them have come.
LEMMA LateHeader ==
  ASSUME NEW S, NEW b \in Seq(S), NEW d \in Seq(S), Begins(b, d),
         NEW m, NEW x \in Nat \ {0}, x + 3 <= Len(StripStatusPairs(b)),
         StripStatusPairs(b)[x] = START, StripStatusPairs(b)[x + 1] = m
  PROVE  \E i \in 1 .. Len(StripStatusPairs(d)) - 1 :
            StripStatusPairs(d)[i] = START /\ StripStatusPairs(d)[i + 1] = m
<1>1. PICK filt, gilt : filt = StripStatusPairs(b) /\ gilt = StripStatusPairs(d)
  OBVIOUS
<1>2. /\ filt \in Seq(S) /\ gilt \in Seq(S) /\ \E pos : Placed(pos, b, filt)
      /\ \E qos : Placed(qos, d, gilt)
  BY <1>1, StripFacts
<1>3. PICK pos, qos : Placed(pos, b, filt) /\ Placed(qos, d, gilt)
  BY <1>2
<1>4. Len(b) \in Nat /\ Len(d) \in Nat /\ Len(b) <= Len(d) /\ Len(filt) \in Nat /\ Len(gilt) \in Nat
  BY <1>2 DEF Begins
<1>5. Len(b) >= 1
  <2>1. pos[0] = 0 /\ pos[Len(b)] = Len(filt)
    BY <1>3 DEF Placed
  <2> QED  BY <1>1, <1>4, <2>1
<1>6. PICK c : c = Len(b) - 1 /\ c \in Nat /\ c <= Len(b) /\ c <= Len(d)
  <2>1. Len(b) - 1 \in Nat /\ Len(b) - 1 <= Len(b) /\ Len(b) - 1 <= Len(d)
    BY <1>4, <1>5
  <2>2. PICK k : k = Len(b) - 1
    OBVIOUS
  <2> QED  BY <2>1, <2>2, Zenon
<1>7. ASSUME NEW j \in 1 .. c PROVE b[j] = d[j] /\ (Dropped(b, j) <=> Dropped(d, j))
  <2>1. /\ j \in 1 .. Len(b) /\ j + 1 \in 1 .. Len(b) /\ j \in 1 .. Len(b) - 1 /\ j \in 1 .. Len(d) - 1
        /\ (j - 1) + 1 = j /\ (j - 1 \in 1 .. Len(b) - 1 <=> j - 1 \in 1 .. Len(d) - 1)
        /\ (j - 1 \in 1 .. Len(b) - 1 => j - 1 \in 1 .. Len(b))
    BY <1>4, <1>6
  <2>2. b[j] = d[j] /\ b[j + 1] = d[j + 1] /\ (j - 1 \in 1 .. Len(b) - 1 => b[j - 1] = d[j - 1])
    BY <2>1 DEF Begins
  <2> QED  BY <2>1, <2>2 DEF Dropped, StatusAt
<1>8. /\ pos[c] \in Nat /\ pos[c] <= Len(gilt)
      /\ \A y \in 1 .. pos[c] : filt[y] = gilt[y]
  <2>1. \A j \in 1 .. c : b[j] = d[j] /\ (Dropped(b, j) <=> Dropped(d, j))
    BY <1>7
  <2>2. /\ Len(b) \in Nat /\ Len(d) \in Nat /\ c \in Nat /\ c <= Len(b) /\ c <= Len(d)
        /\ Placed(pos, b, filt) /\ Placed(qos, d, gilt)
    BY <1>3, <1>4, <1>6
  <2> QED  BY <2>1, <2>2, PlacedAlike, SMTT(60)
<1>9. Len(filt) <= pos[c] + 1
  <2>1. c \in 0 .. Len(b) /\ Len(b) \in c .. Len(b) /\ Len(b) - c = 1
    BY <1>4, <1>6
  <2>2. pos[Len(b)] <= pos[c] + (Len(b) - c)
    BY <1>3, <1>4, <2>1, PlacedGrows
  <2> QED  BY <1>3, <2>1, <2>2 DEF Placed
<1>10. x \in 1 .. pos[c] /\ x + 1 \in 1 .. pos[c] /\ x \in 1 .. Len(gilt) - 1
  BY <1>1, <1>4, <1>8, <1>9
<1> QED  BY <1>1, <1>8, <1>10

\* Of the bytes from the answer's first one on, only its values, from the action on,
\* and what follows them can look like status pairs.
LEMMA OwnPairs ==
  ASSUME NEW s, NEW b, Begins(b, s), NEW p, NEW m, NEW a \in {READ_ADDRS, READ_ARRAY}, NEW v,
         Answer(s, p, m, a, v), NEW j \in Nat, j >= p - 1, StatusAt(b, j)
  PROVE  j >= p + 3 /\ j # p + 3 + Len(v)
<1>1. PICK e \in Nat : e = p + 3 + Len(v) /\ p \in Nat \ {0} /\ e <= Len(s) /\ e >= p + 3
  BY DEF Answer
<1>2. j \in 1 .. Len(b) - 1 /\ s[j] \in {0, 4} /\ s[j + 1] = STATUS /\ j + 1 <= Len(s)
  <2>1. j \in 1 .. Len(b) - 1 /\ b[j] \in {0, 4} /\ b[j + 1] = STATUS
    BY DEF StatusAt
  <2>2. j \in 1 .. Len(b) /\ j + 1 \in 1 .. Len(b) /\ j + 1 <= Len(s)
    BY <2>1 DEF Begins
  <2> QED  BY <2>1, <2>2 DEF Begins
<1>3. s[p] = 0 /\ s[p + 1] = START /\ s[p + 3] = a
  BY DEF Answer
<1>4. j # p - 1
  <2>1. j = p - 1 => j + 1 = p
    BY <1>1
  <2> QED  BY <1>2, <1>3, <2>1 DEF STATUS
<1>5. j # p /\ j # p + 1
  BY <1>2, <1>3 DEF STATUS, START
<1>6. j # p + 2
  <2>1. j = p + 2 => j + 1 = p + 3
    BY <1>1
  <2> QED  BY <1>2, <1>3, <2>1 DEF STATUS, READ_ADDRS, READ_ARRAY
<1>7. j # e
  <2> SUFFICES ASSUME j = e PROVE FALSE
    OBVIOUS
  <2>1. e + 1 \in e + 1 .. Len(s) /\ OnlyPairs(s, e) /\ (e + 1) - 1 = e
    <3>1. Len(s) \in Nat
      BY DEF Begins
    <3>2. OnlyPairs(s, e)
      BY <1>1 DEF Answer
    <3> QED  BY <1>1, <1>2, <3>1, <3>2
  <2>2. s[e + 1] \in {0, 4}
    <3>1. ~(e > e)
      BY <1>1
    <3>2. \/ s[e + 1] \in {0, 4}
          \/ (e + 1) - 1 > e
      BY <2>1 DEF OnlyPairs
    <3> QED  BY <2>1, <3>1, <3>2
  <2> QED  BY <1>2, <2>2 DEF STATUS
<1> QED  BY <1>1, <1>4, <1>5, <1>6, <1>7

\* The header of the answer is kept, as far as it has come.
LEMMA HeaderKept ==
  ASSUME NEW s, NEW b, Begins(b, s), NEW p, NEW m, NEW a \in {READ_ADDRS, READ_ARRAY}, NEW v,
         Answer(s, p, m, a, v), NEW j \in p .. p + 2
  PROVE  ~Dropped(b, j)
<1>1. p \in Nat \ {0}
  BY DEF Answer
<1>2. ASSUME NEW k \in {j, j - 1}, StatusAt(b, k) PROVE FALSE
  <2>1. k \in Nat /\ k >= p - 1 /\ k < p + 3
    BY <1>1
  <2>2. k >= p + 3
    BY <1>2, <2>1, OwnPairs
  <2> QED  BY <1>1, <2>1, <2>2
<1> QED  BY <1>2 DEF Dropped

\* The answer at p has come whole and without a pair in it; the filter has left it so.
Spared(b, p, v) == p + 3 + Len(v) <= Len(b) /\ \A j \in p + 3 .. p + 2 + Len(v) : ~StatusAt(b, j)
Whole(pos, filt, s, p, v) ==
  /\ pos[p - 1] \in Nat /\ pos[p + 3 + Len(v)] = pos[p - 1] + 4 + Len(v)
  /\ pos[p - 1] + 4 + Len(v) <= Len(filt)
  /\ \A k \in 0 .. 3 + Len(v) : filt[pos[p - 1] + 1 + k] = s[p + k]

LEMMA OwnKept ==
  ASSUME NEW s, NEW b, Begins(b, s), NEW p, NEW m, NEW a \in {READ_ADDRS, READ_ARRAY}, NEW v,
         Answer(s, p, m, a, v), NEW filt, NEW pos, Placed(pos, b, filt), Spared(b, p, v)
  PROVE  Whole(pos, filt, s, p, v)
<1>1. PICK n \in Nat : n = Len(v) /\ p \in Nat \ {0} /\ Len(b) \in Nat
  BY DEF Answer, Begins
<1>2. PICK e \in Nat : e = p + 3 + n /\ e <= Len(b) /\ p \in 1 .. Len(b) /\ e \in p .. Len(b) /\ p - 1 \in 0 .. Len(b)
  BY <1>1 DEF Spared
<1>3. ASSUME NEW j \in p - 1 .. e, StatusAt(b, j) PROVE FALSE
  <2>1. j \in Nat /\ j >= p - 1
    BY <1>1
  <2>2. j >= p + 3 /\ j # p + 3 + Len(v)
    BY <1>3, <2>1, OwnPairs
  <2>3. j \in p + 3 .. p + 2 + Len(v)
    BY <1>1, <1>2, <2>1, <2>2
  <2> QED  BY <1>3, <2>3 DEF Spared
<1>4. ASSUME NEW j \in p .. e PROVE ~Dropped(b, j)
  <2>1. j \in p - 1 .. e /\ j - 1 \in p - 1 .. e
    BY <1>1, <1>2
  <2> QED  BY <1>3, <2>1 DEF Dropped
<1>5. /\ pos[p] \in Nat /\ pos[p] + (e - p) <= Len(filt)
      /\ \A j \in p .. e : pos[j] = pos[p] + (j - p) /\ filt[pos[p] + (j - p)] = b[j]
  BY <1>1, <1>2, <1>4, PlacedRun
<1>6. pos[p - 1] \in Nat /\ pos[p] = pos[p - 1] + 1
  <2>1. p \in p .. e
    BY <1>1, <1>2
  <2>2. ~Dropped(b, p)
    BY <1>4, <2>1
  <2> QED  BY <1>2, <2>2 DEF Placed
<1>7. PICK x \in Nat : x = pos[p - 1]
  BY <1>6
<1>8. e - p = 3 + n /\ e \in p .. e
  BY <1>1, <1>2
<1>9. pos[e] = x + 4 + n /\ x + 4 + n <= Len(filt)
  <2>1. pos[e] = pos[p] + (e - p)
    BY <1>5, <1>8
  <2>2. PICK l \in Nat : l = Len(filt)
    BY <1>2 DEF Placed
  <2>3. pos[p] = x + 1 /\ pos[e] = pos[p] + (3 + n) /\ pos[p] + (3 + n) <= l
    BY <1>5, <1>6, <1>7, <1>8, <2>1, <2>2
  <2>4. pos[e] = (x + 1) + (3 + n) /\ (x + 1) + (3 + n) <= l
    BY <2>3
  <2>5. (x + 1) + (3 + n) = x + 4 + n
    OBVIOUS
  <2> QED  BY <2>2, <2>4, <2>5
<1>10. ASSUME NEW k \in 0 .. 3 + n PROVE filt[x + 1 + k] = s[p + k]
  <2>1. p + k \in p .. e /\ (p + k) - p = k /\ p + k \in 1 .. Len(b)
    BY <1>1, <1>2
  <2>2. filt[pos[p] + k] = b[p + k]
    BY <1>5, <2>1
  <2>3. b[p + k] = s[p + k]
    BY <2>1 DEF Begins
  <2> QED  BY <1>6, <1>7, <2>2, <2>3
<1> QED  BY <1>1, <1>2, <1>6, <1>7, <1>9, <1>10 DEF Whole

\* An answer that has come whole and without a pair in it is found.
LEMMA OwnFound ==
  ASSUME ExpectOK, NEW S, NEW s, NEW b \in Seq(S), Begins(b, s), NEW p, NEW v, Len(v) = expect.n, expect.n # 0,
         Answer(s, p, expect.mid, expect.action, v), Spared(b, p, v)
  PROVE  \E x \in Starts(StripStatusPairs(b)) : Match(StripStatusPairs(b), x)
<1>1. PICK filt : filt = StripStatusPairs(b)
  OBVIOUS
<1>2. filt \in Seq(S) /\ \E pos : Placed(pos, b, filt)
  BY <1>1, StripFacts
<1>3. PICK pos : Placed(pos, b, filt)
  BY <1>2
<1>4. PICK m, a : m = expect.mid /\ a = expect.action
  OBVIOUS
<1>5. a \in {READ_ADDRS, READ_ARRAY} /\ Answer(s, p, m, a, v)
  BY <1>4 DEF ExpectOK
<1>6. /\ pos[p - 1] \in Nat /\ pos[p - 1] + 4 + Len(v) <= Len(filt)
      /\ \A k \in 0 .. 3 + Len(v) : filt[pos[p - 1] + 1 + k] = s[p + k]
  <2>1. Whole(pos, filt, s, p, v)
    BY <1>3, <1>5, OwnKept
  <2> QED  BY <2>1 DEF Whole
<1>7. PICK n \in Nat : n = Len(v) /\ n >= 1 /\ Len(filt) \in Nat
  BY <1>2 DEF ExpectOK
<1>8. PICK x \in Nat : x = pos[p - 1] + 2
  BY <1>6
<1>9. filt[x] = START /\ filt[x + 1] = expect.mid /\ filt[x + 2] = expect.action
  <2>1. 1 \in 0 .. 3 + n /\ 2 \in 0 .. 3 + n /\ 3 \in 0 .. 3 + n
    BY <1>7
  <2>2. /\ filt[pos[p - 1] + 1 + 1] = s[p + 1] /\ filt[pos[p - 1] + 1 + 2] = s[p + 2]
        /\ filt[pos[p - 1] + 1 + 3] = s[p + 3]
    BY <1>6, <1>7, <2>1
  <2>3. /\ pos[p - 1] + 1 + 1 = x /\ pos[p - 1] + 1 + 2 = x + 1 /\ pos[p - 1] + 1 + 3 = x + 2
    BY <1>6, <1>8
  <2> QED  BY <1>4, <1>5, <2>2, <2>3 DEF Answer
<1>10. x \in 1 .. Len(filt) /\ x + 3 <= Len(filt) /\ x + 2 + expect.n <= Len(filt)
  BY <1>6, <1>7, <1>8
<1>11. x \in Starts(filt) /\ Match(filt, x)
  BY <1>9, <1>10 DEF Starts, Match
<1> QED  BY <1>1, <1>11

\* Of the pairs after the answer at most half a one is left.
LEMMA TailShort ==
  ASSUME NEW s, NEW b, Begins(b, s), NEW filt, NEW pos, Placed(pos, b, filt),
         NEW e \in Nat, e <= Len(b), OnlyPairs(s, e)
  PROVE  Len(filt) <= pos[e] + 1
<1>1. PICK l \in Nat : l = Len(b) /\ l <= Len(s) /\ e <= l /\ pos[l] = Len(filt) /\ e \in 0 .. l
  BY DEF Begins, Placed
<1>2. CASE e = l
  <2>1. pos[l] \in Nat
    BY <1>1 DEF Placed
  <2> QED  BY <1>1, <1>2, <2>1
<1>3. CASE e # l
  <2>1. PICK c \in Nat : c = l - 1 /\ e <= c /\ c \in e .. l /\ c \in 0 .. l /\ l \in c .. l /\ l - c = 1
    <3>1. l - 1 \in Nat /\ e <= l - 1 /\ l - (l - 1) = 1
      BY <1>1, <1>3
    <3>2. PICK c : c = l - 1
      OBVIOUS
    <3> QED  BY <1>1, <3>1, <3>2
  <2>2. ASSUME NEW j \in e + 1 .. c PROVE Dropped(b, j)
    <3>1. j \in e + 1 .. Len(s) /\ j \in 1 .. Len(b) - 1 /\ j \in 1 .. Len(b) /\ j + 1 \in 1 .. Len(b)
      <4>1. Len(s) \in Nat /\ j \in Int /\ e + 1 <= j /\ j <= c
        BY DEF Begins
      <4> QED  BY <1>1, <2>1, <4>1
    <3>2. b[j] = s[j] /\ b[j + 1] = s[j + 1]
      BY <3>1 DEF Begins
    <3>3. CASE s[j] \in {0, 4} /\ s[j + 1] = STATUS
      BY <3>1, <3>2, <3>3 DEF Dropped, StatusAt
    <3>4. CASE s[j] = STATUS /\ j - 1 > e /\ s[j - 1] \in {0, 4}
      <4>1. j - 1 \in 1 .. Len(b) - 1 /\ j - 1 \in 1 .. Len(b) /\ (j - 1) + 1 = j
        BY <3>1, <3>4
      <4>2. b[j - 1] = s[j - 1]
        BY <4>1 DEF Begins
      <4> QED  BY <3>2, <3>4, <4>1, <4>2 DEF Dropped, StatusAt
    <3> QED  BY <3>1, <3>3, <3>4 DEF OnlyPairs
  <2>a. /\ Len(b) \in Nat /\ e \in 0 .. Len(b) /\ c \in e .. Len(b)
        /\ c \in 0 .. Len(b) /\ l \in c .. Len(b)
    BY <1>1, <2>1
  <2>3. pos[c] = pos[e]
    BY <2>a, <2>2, PlacedGap
  <2>4. pos[l] <= pos[c] + (l - c)
    BY <2>a, PlacedGrows
  <2> QED  BY <1>1, <2>1, <2>3, <2>4
<1> QED  BY <1>2, <1>3

\* What is left holds 0x20 and an id; there, it looks like an answer of n values to m.
Header(filt, m) == \E i \in 1 .. Len(filt) - 1 : filt[i] = START /\ filt[i + 1] = m
Looks(filt, x, m, n) ==
  x \in Nat \ {0} /\ x + 3 <= Len(filt) /\ x + 2 + n <= Len(filt) /\ filt[x] = START /\ filt[x + 1] = m

\* The bytes before the answer are filtered as they would be without it.
Alike(b, d, c) == \A j \in 1 .. c : b[j] = d[j] /\ (Dropped(b, j) <=> Dropped(d, j))

LEMMA LateAlone ==
  ASSUME NEW s, NEW b, Begins(b, s), NEW p, NEW m, NEW a \in {READ_ADDRS, READ_ARRAY}, NEW v,
         Answer(s, p, m, a, v), p <= Len(b), NEW d, Begins(d, s), Len(d) = p - 1
  PROVE  Alike(b, d, p - 1)
<1>1. p \in Nat \ {0} /\ Len(b) \in Nat
  BY DEF Answer, Begins
<1>2. ASSUME NEW k \in 1 .. p - 1 PROVE b[k] = s[k] /\ d[k] = s[k]
  <2>1. k \in 1 .. Len(b) /\ k \in 1 .. Len(d)
    BY <1>1
  <2> QED  BY <2>1 DEF Begins
<1>3. ASSUME NEW k \in 0 .. p - 1 PROVE StatusAt(b, k) <=> StatusAt(d, k)
  <2>1. CASE k = 0
    BY <2>1 DEF StatusAt
  <2>2. CASE k = p - 1
    <3>1. ~StatusAt(d, k)
      BY <1>1, <2>2 DEF StatusAt
    <3>2. ~StatusAt(b, k)
      <4> SUFFICES ASSUME StatusAt(b, k) PROVE FALSE
        OBVIOUS
      <4>1. k \in Nat /\ k >= p - 1
        BY <1>1, <2>2
      <4>2. k >= p + 3
        BY <4>1, OwnPairs
      <4> QED  BY <1>1, <2>2, <4>2
    <3> QED  BY <3>1, <3>2
  <2>3. CASE k # 0 /\ k # p - 1
    <3>1. k \in 1 .. p - 1 /\ k + 1 \in 1 .. p - 1 /\ k \in 1 .. Len(b) - 1 /\ k \in 1 .. Len(d) - 1
      BY <1>1, <2>3
    <3> QED  BY <1>2, <3>1 DEF StatusAt
  <2> QED  BY <2>1, <2>2, <2>3
<1> SUFFICES ASSUME NEW j \in 1 .. p - 1 PROVE b[j] = d[j] /\ (Dropped(b, j) <=> Dropped(d, j))
  BY DEF Alike
<1>4. j \in 0 .. p - 1 /\ j - 1 \in 0 .. p - 1
  BY <1>1
<1> QED  BY <1>2, <1>3, <1>4 DEF Dropped

\* What is returned for a match at x.
Yields(filt, x, v) == \A k \in 1 .. Len(v) : filt[x + 2 + k] = v[k]

\* The answer at p of the stream s has begun to reach the buffer b; d came before it.
Reached(s, b, p, m, a, v, d) ==
  /\ Begins(b, s) /\ Begins(d, s) /\ Answer(s, p, m, a, v) /\ p <= Len(b) /\ Len(d) = p - 1
  /\ m \in Nat \ {0} /\ a \in {READ_ADDRS, READ_ARRAY}

\* A match in a buffer that the answer has begun to reach, with no header among the
\* bytes before it, is the answer: no pair was taken out of it, and there is no room for
\* another match behind it.
LEMMA MatchIsOwn ==
  ASSUME NEW s, NEW b, NEW p, NEW m, NEW a, NEW v, NEW d, Reached(s, b, p, m, a, v, d),
         NEW filt, NEW pos, Placed(pos, b, filt), NEW gilt, NEW qos, Placed(qos, d, gilt),
         ~Header(gilt, m), NEW x, Looks(filt, x, m, Len(v))
  PROVE  x = pos[p - 1] + 2 /\ Yields(filt, x, v)
<1>a. /\ Begins(b, s) /\ Begins(d, s) /\ Answer(s, p, m, a, v) /\ p <= Len(b) /\ Len(d) = p - 1
      /\ m \in Nat \ {0} /\ a \in {READ_ADDRS, READ_ARRAY}
  BY DEF Reached
<1> USE <1>a
<1>1. /\ p \in Nat \ {0} /\ Len(v) \in Nat /\ Len(b) \in Nat /\ Len(d) \in Nat
      /\ x \in Nat \ {0} /\ Len(filt) \in Nat /\ filt[x] = START /\ filt[x + 1] = m
      /\ p - 1 \in 0 .. Len(b) /\ p \in 0 .. Len(b) /\ p \in 1 .. Len(b) /\ Len(b) \in 0 .. Len(b)
  BY DEF Answer, Begins, Looks, Placed
<1>2. PICK n \in Nat, l \in Nat, y \in Nat : n = Len(v) /\ l = Len(b) /\ y = pos[p - 1]
  BY <1>1 DEF Placed
<1>0. x \in Nat /\ p \in Nat
  BY <1>1
<1>3. PICK w \in Nat : pos[l] = w /\ w = Len(filt) /\ p <= l /\ x + 3 <= w /\ x + 2 + n <= w
  BY <1>1, <1>2 DEF Placed, Looks
<1>4. x >= y
  <2>1. PICK c \in Nat : c = p - 1 /\ c <= Len(b) /\ c <= Len(d)
    <3>1. p - 1 \in Nat /\ p - 1 <= Len(b) /\ p - 1 <= Len(d)
      BY <1>1
    <3> QED  BY <3>1
  <2>2. \A j \in 1 .. c : b[j] = d[j] /\ (Dropped(b, j) <=> Dropped(d, j))
    <3>1. Alike(b, d, p - 1)
      BY LateAlone
    <3> QED  BY <2>1, <3>1 DEF Alike
  <2>3. pos[c] = qos[c] /\ pos[c] \in Nat /\ pos[c] <= Len(gilt) /\ \A z \in 1 .. pos[c] : filt[z] = gilt[z]
    <3>1. Len(b) \in Nat /\ Len(d) \in Nat /\ c <= Len(b) /\ c <= Len(d)
      BY <1>1, <2>1
    <3> QED  BY <2>2, <3>1, PlacedAlike, SMTT(60)
  <2>4. Len(gilt) = y
    <3>1. qos[Len(d)] = Len(gilt)
      BY DEF Placed
    <3> QED  BY <1>2, <2>1, <2>3, <3>1
  <2> SUFFICES ASSUME x < y PROVE FALSE
    BY <1>1, <1>2
  <2>5. x \in 1 .. y /\ x + 1 \in 1 .. y /\ x \in 1 .. Len(gilt) - 1 /\ pos[c] = y
    BY <1>1, <1>2, <2>1, <2>4
  <2>6. gilt[x] = START /\ gilt[x + 1] = m
    BY <1>1, <2>3, <2>5
  <2> QED  BY <2>5, <2>6 DEF Header
<1>5. pos[p] = y + 1 /\ filt[y + 1] = 0
  <2>1. p \in p .. p + 2
    BY <1>1
  <2>2. ~Dropped(b, p)
    BY <2>1, HeaderKept
  <2>3. pos[p] = pos[p - 1] + 1 /\ filt[pos[p]] = b[p]
    BY <1>1, <2>2 DEF Placed
  <2>4. b[p] = s[p] /\ s[p] = 0
    BY <1>1 DEF Begins, Answer
  <2> QED  BY <1>2, <2>3, <2>4
<1>6. x >= y + 2
  <2>1. x # y
    BY <1>1, <1>5
  <2>2. x # y + 1
    BY <1>1, <1>5 DEF START
  <2> QED  BY <1>0, <1>4, <2>1, <2>2
<1>7. l >= p + 4
  <2>1. p \in 0 .. l /\ l \in p .. l
    BY <1>1, <1>2, <1>3
  <2>2. pos[l] <= pos[p] + (l - p)
    BY <1>1, <1>2, <2>1, PlacedGrows
  <2>3. w <= (y + 1) + (l - p)
    BY <1>3, <1>5, <2>2
  <2>4. x + 3 <= w
    BY <1>3
  <2> QED  BY <1>0, <1>6, <2>3, <2>4
<1>8. pos[p + 2] = y + 3
  <2>1. /\ p + 1 \in 1 .. l /\ p + 2 \in 1 .. l /\ p + 1 \in p .. p + 2 /\ p + 2 \in p .. p + 2
        /\ (p + 1) - 1 = p /\ (p + 2) - 1 = p + 1
    BY <1>1, <1>2, <1>7
  <2>2. ~Dropped(b, p + 1) /\ ~Dropped(b, p + 2)
    BY <2>1, HeaderKept
  <2>3. pos[p + 1] = pos[p] + 1 /\ pos[p + 2] = pos[p + 1] + 1
    BY <1>2, <2>1, <2>2 DEF Placed
  <2> QED  BY <1>2, <1>5, <2>3
<1>9. PICK e \in Nat : e = p + 3 + n
  BY <1>1, <1>2
<1>10. p + 2 \in 0 .. l /\ l \in p + 2 .. l
  BY <1>1, <1>2, <1>7
<1>11. e <= l
  <2>1. pos[l] <= pos[p + 2] + (l - (p + 2))
    BY <1>1, <1>2, <1>10, PlacedGrows
  <2>2. x + 2 + n <= w /\ w <= (y + 3) + (l - (p + 2))
    BY <1>3, <1>8, <2>1
  <2> QED  BY <1>0, <1>6, <1>9, <2>2
<1>12. pos[l] <= pos[e] + 1 /\ pos[e] \in Nat
  <2>1. OnlyPairs(s, e) /\ e <= Len(b) /\ e \in 0 .. Len(b)
    BY <1>1, <1>2, <1>9, <1>11 DEF Answer
  <2>2. Len(filt) <= pos[e] + 1
    BY <2>1, TailShort
  <2> QED  BY <1>3, <2>1, <2>2 DEF Placed
<1>13. Spared(b, p, v)
  <2> SUFFICES ASSUME NEW j \in p + 3 .. p + 2 + n, StatusAt(b, j) PROVE FALSE
    BY <1>2, <1>9, <1>11 DEF Spared
  <2>1. /\ j \in Nat /\ j \in 1 .. l /\ j + 1 \in 1 .. l /\ (j + 1) - 1 = j /\ j - 1 \in p + 2 .. l
        /\ j + 1 \in 0 .. l /\ e \in j + 1 .. l /\ j - 1 \in 0 .. l
    BY <1>1, <1>2, <1>9, <1>11
  <2>2. Dropped(b, j) /\ Dropped(b, j + 1)
    BY <2>1 DEF Dropped
  <2>3. pos[j] = pos[j - 1] /\ pos[j + 1] = pos[j]
    BY <1>2, <2>1, <2>2 DEF Placed
  <2>4. pos[j - 1] <= pos[p + 2] + ((j - 1) - (p + 2))
    BY <1>1, <1>2, <1>10, <2>1, PlacedGrows
  <2>5. pos[e] <= pos[j + 1] + (e - (j + 1))
    BY <1>1, <1>2, <2>1, PlacedGrows
  <2>6. pos[j - 1] \in Nat
    BY <1>2, <2>1 DEF Placed
  <2>7. PICK z \in Nat, u \in Nat : z = pos[e] /\ u = pos[j - 1]
    BY <1>12, <2>6
  <2>8. x + 2 + n <= w /\ w <= z + 1 /\ u <= (y + 3) + ((j - 1) - (p + 2)) /\ z <= u + (e - (j + 1))
    BY <1>3, <1>8, <1>12, <2>3, <2>4, <2>5, <2>7
  <2> QED  BY <1>0, <1>6, <1>9, <2>1, <2>8
<1>14. Whole(pos, filt, s, p, v)
  BY <1>13, OwnKept
<1>15. pos[e] = y + 4 + n /\ \A k \in 0 .. 3 + n : filt[y + 1 + k] = s[p + k]
  BY <1>2, <1>9, <1>14 DEF Whole
<1>16. x <= y + 3
  <2>1. x + 2 + n <= w /\ w <= (y + 4 + n) + 1
    BY <1>3, <1>12, <1>15
  <2> QED  BY <1>0, <2>1
<1>17. x # y + 3
  <2> SUFFICES ASSUME x = y + 3 PROVE FALSE
    OBVIOUS
  <2>1. 2 \in 0 .. 3 + n /\ 3 \in 0 .. 3 + n /\ y + 1 + 2 = x /\ y + 1 + 3 = x + 1
    OBVIOUS
  <2>2. filt[y + 1 + 2] = s[p + 2] /\ filt[y + 1 + 3] = s[p + 3]
    BY <1>15, <2>1
  <2>3. s[p + 2] = m /\ s[p + 3] = a
    BY DEF Answer
  <2>4. m = START /\ a = m
    BY <1>1, <2>1, <2>2, <2>3
  <2> QED  BY <2>4 DEF START, READ_ADDRS, READ_ARRAY
<1>18. x = y + 2
  BY <1>1, <1>6, <1>16, <1>17
<1>19. ASSUME NEW k \in 1 .. n PROVE filt[x + 2 + k] = v[k]
  <2>1. 3 + k \in 0 .. 3 + n /\ y + 1 + (3 + k) = x + 2 + k /\ p + (3 + k) = p + 3 + k
    BY <1>1, <1>18
  <2>2. filt[y + 1 + (3 + k)] = s[p + (3 + k)]
    BY <1>15, <2>1
  <2>3. s[p + 3 + k] = v[k]
    BY <1>2 DEF Answer
  <2> QED  BY <2>1, <2>2, <2>3
<1> QED  BY <1>2, <1>18, <1>19 DEF Yields

-----------------------------------------------------------------------------
(* The client and the cartridge *)

\* The cartridge has not reached the frame the client waits for, which is the last one,
\* or has answered it and has nothing more to do.
Asks(f) == f.mid = expect.mid /\ f.action = expect.action /\ Len(f.body) = expect.n
Pending == own = NoAnswer /\ fifo # <<>> /\ Asks(fifo[Len(fifo)])
Served ==
  /\ fifo = <<>> /\ own.vals \in Seq(Bytes) /\ Len(own.vals) = expect.n
  /\ Answer(Stream, own.at, expect.mid, expect.action, own.vals)
PollInv == CcInv /\ (call.pc = "poll" => expect.mid \in 1 .. MaxMid /\ (Pending \/ Served))

\* A match returns the values of the awaited answer.
Says == call'.out # call.out /\ call.pc = "poll" /\ ~Mistakable => call'.out = call.out \o own.vals

LEMMA SendReadPending ==
  ASSUME PollInv, CcInv', SendRead
  PROVE  PollInv' /\ ArrivedIsFound' /\ Says
<1>1. /\ NextMid \in 1 .. MaxMid /\ call.pc = "send" /\ own' = NoAnswer
      /\ expect' = [mid |-> NextMid, action |-> call.action, n |-> Len(call.parts[call.at])]
      /\ fifo' = Append(fifo, [mid |-> NextMid, action |-> call.action, body |-> call.parts[call.at]])
  BY NextMidType DEF SendRead, Send, PollInv, CcInv
<1>2. fifo \in Seq(Frame)
  BY DEF PollInv, CcInv, Streams
<1>3. /\ fifo' # <<>> /\ Len(fifo') = Len(fifo) + 1
      /\ fifo'[Len(fifo')] = [mid |-> NextMid, action |-> call.action, body |-> call.parts[call.at]]
  BY <1>1, <1>2
<1>4. Asks(fifo[Len(fifo)])'
  BY <1>1, <1>3 DEF Asks
<1>5. PollInv'
  BY <1>1, <1>3, <1>4 DEF PollInv, Pending
<1>6. own'.vals = <<>>
  BY <1>1 DEF NoAnswer
<1> QED  BY <1>1, <1>5, <1>6 DEF ArrivedIsFound, Says

\* An answer with no pair among its bytes is spared where it has come whole.
LEMMA NotHidden ==
  ASSUME NEW s, NEW b, Begins(b, s), NEW p, NEW m \in Symbols, NEW a \in Symbols, NEW v \in Seq(Symbols),
         Answer(s, p, m, a, v), NEW w, w = <<START, m, a>> \o v,
         ~ \E i \in 3 .. Len(w) - 1 : w[i] \in {0, 4} /\ w[i + 1] = STATUS,
         p + 3 + Len(v) <= Len(b)
  PROVE  Spared(b, p, v)
<1>1. Len(v) \in Nat /\ Len(<<START, m, a>>) = 3 /\ <<START, m, a>> \in Seq(Symbols) /\ p \in Nat \ {0} /\ Len(b) \in Nat
  <2>1. START \in Symbols
    BY Marks
  <2> QED  BY <2>1 DEF Answer, Begins
<1>2. Joined(w, <<START, m, a>>, v)
  BY <1>1, JoinedConcat
<1>3. Len(w) = Len(v) + 3 /\ w[3] = a /\ \A k \in 1 .. Len(v) : w[3 + k] = v[k]
  BY <1>1, <1>2 DEF Joined
<1> SUFFICES ASSUME NEW j \in p + 3 .. p + 2 + Len(v), StatusAt(b, j) PROVE FALSE
  BY DEF Spared
<1>4. b[j] \in {0, 4} /\ b[j + 1] = STATUS /\ j \in 1 .. Len(b) /\ j + 1 \in 1 .. Len(b)
  BY <1>1 DEF StatusAt
<1>5. s[j] \in {0, 4} /\ s[j + 1] = STATUS
  BY <1>4 DEF Begins
<1>6. ASSUME NEW k \in 0 .. Len(v) PROVE s[p + 3 + k] = w[3 + k]
  <2>1. CASE k = 0
    BY <1>1, <1>3, <2>1 DEF Answer
  <2>2. CASE k # 0
    <3>1. k \in 1 .. Len(v)
      BY <1>1, <2>2
    <3> QED  BY <1>3, <3>1 DEF Answer
  <2> QED  BY <2>1, <2>2
<1>7. PICK k \in Nat : k = j - (p + 3)
  <2>1. j - (p + 3) \in Nat
    BY <1>1
  <2> QED  BY <2>1
<1>8. k \in 0 .. Len(v) /\ k + 1 \in 0 .. Len(v) /\ p + 3 + k = j /\ p + 3 + (k + 1) = j + 1
  BY <1>1, <1>7
<1>9. w[3 + k] \in {0, 4} /\ w[3 + (k + 1)] = STATUS
  BY <1>5, <1>6, <1>8
<1>10. 3 + k \in 3 .. Len(w) - 1 /\ (3 + k) + 1 = 3 + (k + 1)
  BY <1>1, <1>3, <1>8
<1> QED  BY <1>9, <1>10

\* What a poll has in hand is how the stream begins.
LEMMA PollBegins ==
  ASSUME CcInv, NEW n \in 0 .. Len(wire), NEW buf, buf = rxBuf \o SubSeq(wire, 1, n),
         NEW rest, rest = SubSeq(wire, n + 1, Len(wire))
  PROVE  buf \in Seq(Symbols) /\ rest \in Seq(Symbols) /\ buf \o rest = Stream /\ Begins(buf, Stream)
<1>1. buf \in Seq(Symbols) /\ rest \in Seq(Symbols) /\ buf \o rest = Stream
  BY PollStream
<1>2. Joined(buf \o rest, buf, rest) /\ Len(buf) \in Nat /\ Len(rest) \in Nat
  <2>1. Joined(buf \o rest, buf, rest)
    BY <1>1, JoinedConcat, Zenon
  <2> QED  BY <1>1, <2>1
<1>3. Joined(Stream, buf, rest)
  BY <1>1, <1>2
<1>4. Begins(buf, Stream)
  <2>1. Len(Stream) = Len(buf) + Len(rest) /\ \A i \in 1 .. Len(buf) : Stream[i] = buf[i]
    BY <1>3 DEF Joined
  <2>2. Len(Stream) \in Nat /\ Len(buf) <= Len(Stream)
    <3>1. PICK x \in Nat, y \in Nat : x = Len(buf) /\ y = Len(rest)
      BY <1>2
    <3>2. Len(Stream) = x + y
      BY <2>1, <3>1
    <3>3. x + y \in Nat /\ x <= x + y
      OBVIOUS
    <3> QED  BY <3>1, <3>2, <3>3
  <2> QED  BY <1>2, <2>1, <2>2 DEF Begins
<1> QED  BY <1>1, <1>4

\* The bytes before the awaited answer.
LEMMA LateBytes ==
  ASSUME PollInv, call.pc = "poll"
  PROVE  /\ Late \in Seq(Symbols) /\ Begins(Late, Stream) /\ expect.mid \in Nat \ {0}
         /\ \/ own.at = 0 /\ Late = Stream
            \/ Served /\ own.at \in Nat \ {0} /\ Len(Late) = own.at - 1
<1>1. Stream \in Seq(Symbols) /\ Len(Stream) \in Nat
  BY StreamType DEF PollInv
<1>2. expect.mid \in Nat \ {0} /\ (Pending \/ Served)
  BY CcAssumption DEF PollInv
<1>3. CASE Pending
  <2>1. own.at = 0 /\ Late = Stream
    BY <1>3 DEF Pending, NoAnswer, Late, Stream
  <2> QED  BY <1>1, <1>2, <2>1 DEF Begins
<1>4. CASE Served
  <2>1. own.at \in Nat \ {0} /\ own.at <= Len(Stream)
    BY <1>4 DEF Served, Answer
  <2>2. Late = SubSeq(Stream, 1, own.at - 1)
    BY <2>1 DEF Late, Stream
  <2>3. PICK p \in Nat : p = own.at - 1 /\ p <= Len(Stream) /\ Late = SubSeq(Stream, 1, p)
    <3>1. own.at - 1 \in Nat /\ own.at - 1 <= Len(Stream)
      BY <1>1, <2>1
    <3> QED  BY <2>2, <3>1
  <2>4. \A i \in 1 .. p : Stream[i] \in Symbols
    BY <1>1, <2>3
  <2>5. /\ Late \in Seq(Symbols) /\ Len(Late) = (IF 1 <= p THEN p - 1 + 1 ELSE 0)
        /\ \A i \in 1 .. p - 1 + 1 : Late[i] = Stream[1 + i - 1]
    BY <2>3, <2>4, SubSeqProperties
  <2>6. Len(Late) = p
    BY <2>5
  <2>7. \A i \in 1 .. p : Late[i] = Stream[i]
    <3> TAKE i \in 1 .. p
    <3>1. i \in 1 .. p - 1 + 1 /\ 1 + i - 1 = i
      OBVIOUS
    <3> QED  BY <2>5, <3>1
  <2>8. Begins(Late, Stream)
    BY <1>1, <2>3, <2>6, <2>7 DEF Begins
  <2> QED  BY <1>2, <1>4, <2>1, <2>3, <2>5, <2>6, <2>8
<1> QED  BY <1>2, <1>3, <1>4

OwnOnly(filt, y) ==
  \A x : Looks(filt, x, expect.mid, expect.n) =>
           /\ x = y /\ own.vals \in Seq(Bytes) /\ Len(own.vals) = expect.n
           /\ Yields(filt, x, own.vals)

\* Unless the late bytes can be mistaken, every match in the buffer is at one place, the
\* awaited answer's.
LEMMA PollReturns ==
  ASSUME PollInv, call.pc = "poll", ~Mistakable, NEW buf \in Seq(Symbols), Begins(buf, Stream),
         NEW filt, filt = StripStatusPairs(buf)
  PROVE  \E y : OwnOnly(filt, y)
<1>1. PICK d, s, m : d = Late /\ s = Stream /\ m = expect.mid
  OBVIOUS
<1>2. /\ d \in Seq(Symbols) /\ Begins(d, s) /\ Begins(buf, s) /\ m \in Nat \ {0}
      /\ \/ own.at = 0 /\ d = s
         \/ Served /\ own.at \in Nat \ {0} /\ Len(d) = own.at - 1
  BY <1>1, LateBytes
<1>3. ~Header(StripStatusPairs(d), m)
  BY <1>1 DEF Mistakable, Header
<1>4. ASSUME Begins(buf, d), NEW x, Looks(filt, x, m, expect.n) PROVE FALSE
  <2>1. /\ x \in Nat \ {0} /\ x + 3 <= Len(StripStatusPairs(buf))
        /\ StripStatusPairs(buf)[x] = START /\ StripStatusPairs(buf)[x + 1] = m
    BY <1>4 DEF Looks
  <2>2. \E i \in 1 .. Len(StripStatusPairs(d)) - 1 :
           StripStatusPairs(d)[i] = START /\ StripStatusPairs(d)[i + 1] = m
    BY <1>2, <1>4, <2>1, LateHeader
  <2> QED  BY <1>3, <2>2 DEF Header
<1>5. CASE Begins(buf, d)
  <2>1. OwnOnly(filt, 0)
    BY <1>1, <1>4, <1>5 DEF OwnOnly
  <2> QED  BY <2>1
<1>6. CASE ~Begins(buf, d)
  <2>1. Served /\ own.at \in Nat \ {0} /\ Len(d) = own.at - 1
    BY <1>2, <1>6
  <2>2. PICK p, a, v : p = own.at /\ a = expect.action /\ v = own.vals
    OBVIOUS
  <2>3. /\ Answer(s, p, m, a, v) /\ v \in Seq(Bytes) /\ Len(v) = expect.n
        /\ a \in {READ_ADDRS, READ_ARRAY} /\ p \in Nat \ {0} /\ Len(d) = p - 1
    BY <1>1, <2>1, <2>2 DEF Served, PollInv, CcInv, ExpectOK
  <2>4. p <= Len(buf)
    <3> SUFFICES ASSUME ~(p <= Len(buf)) PROVE Begins(buf, d)
      BY <1>6
    <3>1. Len(buf) \in Nat /\ Len(d) \in Nat /\ Len(buf) <= Len(d)
      BY <2>3
    <3>2. ASSUME NEW i \in 1 .. Len(buf) PROVE buf[i] = d[i]
      <4>1. i \in 1 .. Len(d)
        BY <3>1
      <4> QED  BY <1>2, <4>1 DEF Begins
    <3> QED  BY <3>1, <3>2 DEF Begins
  <2>5. PICK gilt : gilt = StripStatusPairs(d)
    OBVIOUS
  <2>6. (\E pos : Placed(pos, buf, filt)) /\ (\E qos : Placed(qos, d, gilt))
    BY <1>2, <2>5, StripFacts
  <2>7. PICK pos, qos : Placed(pos, buf, filt) /\ Placed(qos, d, gilt)
    BY <2>6
  <2>8. ASSUME NEW x, Looks(filt, x, m, Len(v))
        PROVE  x = pos[p - 1] + 2 /\ Yields(filt, x, v)
    <3>1. ~Header(gilt, m)
      BY <1>3, <2>5
    <3>2. Reached(s, buf, p, m, a, v, d)
      BY <1>2, <2>3, <2>4 DEF Reached
    <3> QED  BY <2>7, <2>8, <3>1, <3>2, MatchIsOwn
  <2>9. PICK y : y = pos[p - 1] + 2
    OBVIOUS
  <2>10. ASSUME NEW x, Looks(filt, x, expect.mid, expect.n)
         PROVE  x = y /\ own.vals \in Seq(Bytes) /\ Len(own.vals) = expect.n /\ Yields(filt, x, own.vals)
    <3>1. Looks(filt, x, m, Len(v))
      BY <1>1, <2>3, <2>10
    <3> QED  BY <2>2, <2>3, <2>8, <2>9, <3>1
  <2>11. OwnOnly(filt, y)
    BY <2>10 DEF OwnOnly
  <2> QED  BY <2>11, Zenon
<1> QED  BY <1>5, <1>6

\* The values a match returns, as a sequence.
LEMMA Excerpt ==
  ASSUME NEW f \in Seq(Symbols), NEW y \in Nat, NEW n \in Nat, y + 2 + n <= Len(f),
         NEW v \in Seq(Bytes), Len(v) = n, Yields(f, y, v)
  PROVE  SubSeq(f, y + 3, y + 2 + n) = v
<1>1. PICK w : w = SubSeq(f, y + 3, y + 2 + n)
  OBVIOUS
<1>2. \A i \in y + 3 .. y + 2 + n : f[i] \in Symbols
  OBVIOUS
<1>3. /\ w \in Seq(Symbols)
      /\ Len(w) = (IF y + 3 <= y + 2 + n THEN (y + 2 + n) - (y + 3) + 1 ELSE 0)
      /\ \A i \in 1 .. (y + 2 + n) - (y + 3) + 1 : w[i] = f[(y + 3) + i - 1]
  BY <1>1, <1>2, SubSeqProperties
<1>4. Len(w) = n /\ v \in Seq(Symbols)
  <2>1. v \in Seq(Symbols)
    BY SeqMonotonic DEF Symbols
  <2>2. Len(w) = n
    BY <1>3
  <2> QED  BY <2>1, <2>2
<1>5. ASSUME NEW i \in 1 .. n PROVE w[i] = v[i]
  <2>1. i \in 1 .. (y + 2 + n) - (y + 3) + 1 /\ (y + 3) + i - 1 = y + 2 + i
    OBVIOUS
  <2> QED  BY <1>3, <2>1 DEF Yields
<1>6. w = v
  BY <1>3, <1>4, <1>5, SeqEqual
<1> QED  BY <1>1, <1>6

\* A poll finds the answer and returns its values, or the answer is not there yet.
LEMMA PollKeeps ==
  ASSUME PollInv, CcInv', NEW n \in 0 .. Len(wire), PollResponse(n)
  PROVE  PollInv' /\ ArrivedIsFound' /\ Says
<1> DEFINE buf == rxBuf \o SubSeq(wire, 1, n)
           rest == SubSeq(wire, n + 1, Len(wire))
           filt == StripStatusPairs(buf)
           found == {i \in Starts(filt) : Match(filt, i)}
           first == CHOOSE i \in found : \A j \in found : i <= j
<1>1. buf \in Seq(Symbols) /\ rest \in Seq(Symbols) /\ buf \o rest = Stream /\ Begins(buf, Stream)
  BY PollBegins DEF PollInv
<1>2. /\ wire' = rest /\ expect' = expect /\ fifo' = fifo /\ own' = own /\ call.pc = "poll"
      /\ found = {} => rxBuf' = buf /\ call' = call
      /\ found # {} => /\ rxBuf' = <<>> /\ call'.pc # "poll"
                       /\ call'.out = call.out \o SubSeq(filt, first + 3, first + 2 + expect.n)
  <2>1. CallOK
    BY DEF PollInv, CcInv
  <2> QED  BY <2>1 DEF PollResponse, CallOK
<1>3. filt \in Seq(Symbols) /\ expect.n \in Nat
  BY <1>1, StripFacts DEF PollInv, CcInv, ExpectOK
<1> HIDE DEF buf, rest
<1>4. CASE found = {}
  <2>1. Stream' = Stream
    BY <1>1, <1>2, <1>4 DEF Stream
  <2>2. PollInv'
    BY <1>2, <1>4, <2>1 DEF PollInv, Pending, Served, Asks
  <2>3. ArrivedIsFound'
    <3>0. PICK w, v, a, m, p : w = <<START, expect.mid, expect.action>> \o own.vals /\ v = own.vals /\ a = expect.action /\ m = expect.mid /\ p = own.at
      OBVIOUS
    <3>1. SUFFICES ASSUME v # <<>>, ~ \E k \in 3 .. Len(w) - 1 : w[k] \in {0, 4} /\ w[k + 1] = STATUS,
                          ~(Len(buf) < p + 3 + Len(v))
                   PROVE  FALSE
      BY <1>2, <1>4, <3>0 DEF ArrivedIsFound
    <3>2. /\ ExpectOK /\ m \in 1 .. MaxMid /\ v \in Seq(Bytes) /\ Len(v) = expect.n
          /\ Answer(Stream, p, m, a, v) /\ a \in {READ_ADDRS, READ_ARRAY}
      BY <1>2, <3>0, <3>1 DEF PollInv, CcInv, Pending, Served, NoAnswer, ExpectOK
    <3>3. v \in Seq(Symbols) /\ m \in Symbols /\ a \in Symbols /\ w = <<START, m, a>> \o v
      BY <3>0, <3>2, SeqMonotonic, Marks DEF Symbols, READ_ADDRS, READ_ARRAY
    <3>4. p + 3 + Len(v) <= Len(buf)
      BY <1>1, <3>1, <3>2 DEF Answer
    <3>5. PICK s : s = Stream
      OBVIOUS
    <3>6. Spared(buf, p, v)
      <4>1. Begins(buf, s) /\ Answer(s, p, m, a, v)
        BY <1>1, <3>2, <3>5
      <4> QED  BY <3>1, <3>3, <3>4, <4>1, NotHidden
    <3>7. expect.n # 0
      BY <3>1, <3>2, EmptySeq
    <3>8. \E k \in Starts(StripStatusPairs(buf)) : Match(StripStatusPairs(buf), k)
      <4>1. Begins(buf, s) /\ Answer(s, p, expect.mid, expect.action, v)
        BY <1>1, <3>0, <3>2, <3>5
      <4> QED  BY <1>1, <3>2, <3>6, <3>7, <4>1, OwnFound
    <3> QED  BY <1>4, <3>8
  <2> QED  BY <1>2, <1>4, <2>2, <2>3 DEF Says
<1>5. CASE found # {}
  <2>1. PollInv' /\ ArrivedIsFound'
    BY <1>2, <1>5 DEF PollInv, ArrivedIsFound
  <2>2. ASSUME ~Mistakable PROVE call'.out = call.out \o own.vals
    <3>1. PICK f : f = filt
      OBVIOUS
    <3>2. PICK y : OwnOnly(f, y)
      <4>1. f = StripStatusPairs(buf)
        BY <3>1
      <4> QED  BY <1>1, <1>2, <2>2, <4>1, PollReturns
    <3>3. ASSUME NEW x \in found PROVE Looks(f, x, expect.mid, expect.n)
      <4>1. x \in Starts(f) /\ Match(f, x)
        BY <3>1
      <4> QED  BY <1>3, <3>1, <4>1 DEF Starts, Match, Looks
    <3> HIDE DEF found, filt
    <3>4. \A x \in found : x = y /\ x \in Nat
      BY <3>2, <3>3 DEF OwnOnly, Looks
    <3>5. first = y /\ y \in found /\ y \in Nat
      <4>1. y \in Nat /\ y \in found
        BY <1>5, <3>4
      <4>2. found = {y}
        BY <3>4, <4>1
      <4> QED  BY <4>1, <4>2
    <3>6. /\ own.vals \in Seq(Bytes) /\ Len(own.vals) = expect.n /\ y + 2 + expect.n <= Len(f)
          /\ Yields(f, y, own.vals)
      BY <3>2, <3>3, <3>5 DEF OwnOnly, Looks
    <3> HIDE DEF first
    <3>7. PICK v : v = own.vals
      OBVIOUS
    <3>8. SubSeq(f, y + 3, y + 2 + expect.n) = v
      BY <1>3, <3>1, <3>5, <3>6, <3>7, Excerpt
    <3> QED  BY <1>2, <1>5, <3>1, <3>5, <3>7, <3>8
  <2> QED  BY <2>1, <2>2 DEF Says
<1> QED  BY <1>4, <1>5

\* The cartridge takes the first frame: the awaited one if it is the only one.
LEMMA ServeTakes ==
  ASSUME PollInv, Serve, NEW f, f = Head(fifo)
  PROVE  /\ f \in Frame /\ Len(fifo) \in Nat \ {0} /\ fifo' \in Seq(Frame)
         /\ call.pc = "poll" =>
              /\ expect.mid \in 1 .. MaxMid /\ own = NoAnswer
              /\ \/ Len(fifo) = 1 /\ Asks(f) /\ f.action # WRITE_PAIRS /\ fifo' = <<>>
                 \/ Len(fifo) # 1 /\ fifo' # <<>> /\ Asks(fifo'[Len(fifo')])
<1>1. fifo \in Seq(Frame) /\ fifo # <<>> /\ Len(fifo) \in Nat \ {0}
  BY EmptySeq DEF Serve, PollInv, CcInv, Streams
<1>2. /\ f = fifo[1] /\ f \in Frame /\ Len(fifo') = Len(fifo) - 1
      /\ fifo' \in Seq(Frame) /\ \A i \in 1 .. Len(fifo) - 1 : fifo'[i] = fifo[i + 1]
  BY <1>1, HeadTailProperties DEF Serve
<1>3. ASSUME call.pc = "poll"
      PROVE  /\ expect.mid \in 1 .. MaxMid /\ own = NoAnswer
             /\ \/ Len(fifo) = 1 /\ Asks(f) /\ f.action # WRITE_PAIRS /\ fifo' = <<>>
                \/ Len(fifo) # 1 /\ fifo' # <<>> /\ Asks(fifo'[Len(fifo')])
  <2>1. Pending /\ expect.mid \in 1 .. MaxMid /\ ExpectOK
    BY <1>1, <1>3 DEF PollInv, Served, CcInv
  <2>2. CASE Len(fifo) = 1
    <3>1. Len(fifo') = 0
      BY <1>2, <2>2
    <3>2. fifo' = <<>>
      BY <1>2, <3>1, EmptySeq
    <3>3. Asks(f)
      BY <1>2, <2>1, <2>2 DEF Pending
    <3>4. f.action # WRITE_PAIRS
      BY <2>1, <3>3 DEF Asks, ExpectOK, READ_ADDRS, READ_ARRAY, WRITE_PAIRS
    <3> QED  BY <2>1, <2>2, <3>2, <3>3, <3>4 DEF Pending
  <2>3. CASE Len(fifo) # 1
    <3>1. Len(fifo') \in Nat \ {0} /\ Len(fifo') + 1 = Len(fifo) /\ Len(fifo') \in 1 .. Len(fifo) - 1
      BY <1>1, <1>2, <2>3
    <3>2. fifo' # <<>> /\ fifo'[Len(fifo')] = fifo[Len(fifo)]
      BY <1>2, <3>1
    <3> QED  BY <2>1, <2>3, <3>2 DEF Pending
  <2> QED  BY <2>2, <2>3
<1> QED  BY <1>1, <1>2, <1>3

\* It answers a read with bytes of RAM, behind all that is under way.
LEMMA ServeAnswers ==
  ASSUME PollInv, Serve, NEW f, f = Head(fifo), f.action # WRITE_PAIRS
  PROVE  \E v \in Seq(Bytes), y \in Seq(Symbols) :
            /\ Len(v) = Len(f.body) /\ own' = IF Len(fifo) = 1 THEN [at |-> Len(Stream) + 1, vals |-> v] ELSE own
            /\ Joined(y, <<0, START, f.mid, f.action>>, v) /\ Joined(Stream', Stream, y)
<1>1. f.body \in Seq(Mem) /\ f.mid \in 1 .. MaxMid /\ f.action \in {READ_ADDRS, READ_ARRAY}
  BY ServeTakes DEF Frame
<1> DEFINE vals == [i \in 1 .. Len(f.body) |-> mem[f.body[i]]]
<1>2. /\ rxBuf' = rxBuf /\ wire' = wire \o <<0, START, f.mid, f.action>> \o vals
      /\ own' = IF Len(fifo) = 1 THEN [at |-> Len(Stream) + 1, vals |-> vals] ELSE own
  BY DEF Serve, Stream
<1>3. vals \in Seq(Bytes) /\ Len(vals) = Len(f.body)
  <2>1. mem \in [Mem -> Bytes]
    BY DEF PollInv, CcInv
  <2> QED  BY <1>1, <2>1
<1>4. PICK v : v = vals
  OBVIOUS
<1> HIDE DEF vals
<1>5. v \in Seq(Bytes) /\ v \in Seq(Symbols) /\ Len(v) = Len(f.body) /\ Len(v) \in Nat
  BY <1>3, <1>4, SeqMonotonic DEF Symbols
<1>6. PICK h : h = <<0, START, f.mid, f.action>>
  OBVIOUS
<1>7. h \in Seq(Symbols)
  <2>1. 0 \in Symbols /\ START \in Symbols /\ f.mid \in Symbols /\ f.action \in Symbols
    BY <1>1, Marks DEF READ_ADDRS, READ_ARRAY
  <2> QED  BY <1>6, <2>1
<1>8. PICK y : y = h \o v
  OBVIOUS
<1>9. y \in Seq(Symbols) /\ Joined(y, h, v)
  BY <1>5, <1>7, <1>8, JoinedConcat
<1>10. wire' = wire \o y
  <2>1. wire' = (wire \o h) \o v
    BY <1>2, <1>4, <1>6
  <2>2. Regrouped(wire, h, v)
    BY <1>5, <1>7, Regroup DEF PollInv, CcInv, Streams
  <2> QED  BY <1>8, <2>1, <2>2 DEF Regrouped
<1>11. Joined(Stream', Stream, y)
  BY <1>2, <1>9, <1>10, WireGrows DEF PollInv
<1>12. /\ Joined(y, <<0, START, f.mid, f.action>>, v)
       /\ own' = IF Len(fifo) = 1 THEN [at |-> Len(Stream) + 1, vals |-> v] ELSE own
  BY <1>2, <1>4, <1>6, <1>9
<1> QED  BY <1>5, <1>9, <1>11, <1>12

LEMMA ServeKeeps ==
  ASSUME PollInv, ArrivedIsFound, CcInv', Serve
  PROVE  PollInv' /\ ArrivedIsFound' /\ Says
<1>1. PICK f : f = Head(fifo)
  OBVIOUS
<1>2. /\ rxBuf' = rxBuf /\ call' = call /\ expect' = expect
      /\ f.action = WRITE_PAIRS => own' = own
  BY <1>1 DEF Serve
<1>3. CASE call.pc # "poll"
  BY <1>2, <1>3 DEF PollInv, ArrivedIsFound, Says
<1>4. CASE call.pc = "poll"
  <2>1. /\ expect.mid \in 1 .. MaxMid /\ own = NoAnswer
        /\ \/ Len(fifo) = 1 /\ Asks(f) /\ f.action # WRITE_PAIRS /\ fifo' = <<>>
           \/ Len(fifo) # 1 /\ fifo' # <<>> /\ Asks(fifo'[Len(fifo')])
    BY <1>1, <1>4, ServeTakes
  <2>2. CASE Len(fifo) = 1
    <3>1. Asks(f) /\ f.action # WRITE_PAIRS /\ fifo' = <<>>
      BY <2>1, <2>2
    <3>2. PICK v \in Seq(Bytes), y \in Seq(Symbols) :
            /\ Len(v) = Len(f.body) /\ own' = [at |-> Len(Stream) + 1, vals |-> v]
            /\ Joined(y, <<0, START, f.mid, f.action>>, v) /\ Joined(Stream', Stream, y)
      BY <1>1, <2>2, <3>1, ServeAnswers
    <3>3. Len(Stream) \in Nat /\ Joined(Stream, rxBuf, wire) /\ Len(v) \in Nat
      BY StreamType DEF PollInv
    <3>4. PICK k, a, t : k = f.mid /\ a = f.action /\ t = Stream'
      OBVIOUS
    <3>5. Answer(t, Len(Stream) + 1, k, a, v)
      <4>1. Joined(y, <<0, START, k, a>>, v) /\ Joined(t, Stream, y)
        BY <3>2, <3>4
      <4> QED  BY <3>3, <4>1, AnswerMade
    <3>6. k = expect'.mid /\ a = expect'.action /\ Len(v) = expect'.n
      BY <1>2, <3>1, <3>2, <3>4 DEF Asks
    <3>7. own'.at = Len(Stream) + 1 /\ own'.vals = v
      BY <3>2
    <3>8. Served'
      BY <3>1, <3>4, <3>5, <3>6, <3>7 DEF Served
    <3>9. PollInv'
      BY <1>2, <2>1, <3>8 DEF PollInv
    <3>10. Len(rxBuf') < own'.at + 3 + Len(own'.vals)
      <4>1. Len(rxBuf) \in Nat /\ Len(wire) \in Nat
        BY DEF PollInv, CcInv, Streams
      <4>2. Len(Stream) = Len(rxBuf) + Len(wire)
        BY <3>3 DEF Joined
      <4> QED  BY <1>2, <3>3, <3>7, <4>1, <4>2
    <3> QED  BY <1>2, <3>9, <3>10 DEF ArrivedIsFound, Says
  <2>3. CASE Len(fifo) # 1
    <3>1. own' = own
      <4>1. CASE f.action # WRITE_PAIRS
        BY <1>1, <2>3, <4>1, ServeAnswers
      <4> QED  BY <1>2, <4>1
    <3>2. fifo' # <<>> /\ Asks(fifo[Len(fifo)])'
      BY <1>2, <2>1, <2>3 DEF Asks
    <3>3. PollInv'
      BY <1>2, <2>1, <3>1, <3>2 DEF PollInv, Pending
    <3>4. own'.vals = <<>>
      BY <2>1, <3>1 DEF NoAnswer
    <3> QED  BY <1>2, <3>3, <3>4 DEF ArrivedIsFound, Says
  <2> QED  BY <2>2, <2>3
<1> QED  BY <1>3, <1>4

\* A status pair joins the stream.
LEMMA StatusKeeps ==
  ASSUME PollInv, ArrivedIsFound, CcInv', NEW b \in {0, 4}, SendStatus(b)
  PROVE  PollInv' /\ ArrivedIsFound' /\ Says
<1>1. /\ wire' = wire \o <<b, STATUS>> /\ rxBuf' = rxBuf /\ call' = call /\ expect' = expect /\ fifo' = fifo
      /\ own' = own
  BY DEF SendStatus
<1>2. <<b, STATUS>> \in Seq(Symbols)
  <2>1. b \in Symbols /\ STATUS \in Symbols
    BY Marks DEF Symbols
  <2> QED  BY <2>1
<1>3. Joined(Stream', Stream, <<b, STATUS>>)
  BY <1>1, <1>2, WireGrows DEF PollInv
<1>4. Len(Stream) \in Nat
  BY StreamType DEF PollInv
<1>5. PICK t, p, m, a, v : t = Stream' /\ p = own.at /\ m = expect.mid /\ a = expect.action /\ v = own.vals
  OBVIOUS
<1>6. Answer(Stream, p, m, a, v) => Answer(t, p, m, a, v)
  BY <1>3, <1>4, <1>5, AnswerStays
<1>7. Served => Served'
  BY <1>1, <1>5, <1>6 DEF Served
<1>8. Pending => Pending'
  BY <1>1 DEF Pending, Asks
<1>9. PollInv'
  BY <1>1, <1>7, <1>8 DEF PollInv
<1> QED  BY <1>1, <1>9 DEF ArrivedIsFound, Says

\* The other steps of the EverDrive end the call or leave all of this alone.
LEMMA RestKeeps ==
  ASSUME PollInv, ArrivedIsFound, CcInv',
         \/ \E r \in ReadCalls : Read(r)
         \/ \E pairs \in WriteCalls : Write(pairs)
         \/ PollTimesOut
         \/ \E a \in Mem, v \in Bytes : GamePokes(a, v)
         \/ UNCHANGED ccVars
  PROVE  PollInv' /\ ArrivedIsFound' /\ Says
<1>1. ASSUME call'.pc # "poll", call.pc # "poll" \/ call'.out = call.out
      PROVE  PollInv' /\ ArrivedIsFound' /\ Says
  BY <1>1 DEF PollInv, ArrivedIsFound, Says
<1>2. ASSUME NEW r \in ReadCalls, Read(r) PROVE PollInv' /\ ArrivedIsFound' /\ Says
  BY <1>1, <1>2 DEF Read, NoCall
<1>3. ASSUME NEW pairs \in WriteCalls, Write(pairs) PROVE PollInv' /\ ArrivedIsFound' /\ Says
  BY <1>1, <1>3 DEF Write, NoCall
<1>4. CASE PollTimesOut
  <2>1. CallOK
    BY DEF PollInv, CcInv
  <2>2. call'.pc = "done" /\ call'.out = call.out
    BY <1>4, <2>1, CallFields DEF PollTimesOut
  <2> QED  BY <1>1, <2>2
<1>5. CASE UNCHANGED <<rxBuf, wire, own, call, expect, fifo>>
  <2>1. Stream' = Stream
    BY <1>5 DEF Stream
  <2> QED  BY <1>5, <2>1 DEF PollInv, Pending, Served, Asks, ArrivedIsFound, Says
<1>6. ASSUME NEW a \in Mem, NEW v \in Bytes, GamePokes(a, v) PROVE PollInv' /\ ArrivedIsFound' /\ Says
  BY <1>5, <1>6 DEF GamePokes
<1>7. CASE UNCHANGED ccVars
  BY <1>5, <1>7 DEF ccVars
<1> QED  BY <1>2, <1>3, <1>4, <1>6, <1>7

LEMMA PollStep ==
  ASSUME PollInv, ArrivedIsFound, CcNext \/ UNCHANGED ccVars
  PROVE  PollInv' /\ ArrivedIsFound' /\ Says
<1>1. CcInv'
  BY CcStep DEF PollInv
<1>2. CASE SendRead
  BY <1>1, <1>2, SendReadPending
<1>3. CASE Serve
  BY <1>1, <1>3, ServeKeeps
<1>4. CASE \E b \in {0, 4} : SendStatus(b)
  BY <1>1, <1>4, StatusKeeps
<1>5. CASE \E n \in 0 .. Len(wire) : PollResponse(n)
  BY <1>1, <1>5, PollKeeps
<1> QED  BY <1>1, <1>2, <1>3, <1>4, <1>5, RestKeeps DEF CcNext

LEMMA PollStart == Init => PollInv /\ ArrivedIsFound
<1> SUFFICES ASSUME Init PROVE PollInv /\ ArrivedIsFound
  OBVIOUS
<1>1. CcInv
  BY InitCc
<1>2. call.pc = "done"
  BY DEF Init, CcInit, NoCall
<1> QED  BY <1>1, <1>2 DEF PollInv, ArrivedIsFound

\* What a poll relies on holds, and every step says what it should of a match.
LEMMA PollSays == Spec => [](PollInv /\ ArrivedIsFound) /\ [][Says]_vars
<1>1. PollInv /\ ArrivedIsFound /\ [Next]_vars => (PollInv /\ ArrivedIsFound)' /\ Says
  <2> SUFFICES ASSUME PollInv, ArrivedIsFound, [Next]_vars PROVE PollInv' /\ ArrivedIsFound' /\ Says
    OBVIOUS
  <2>1. CcNext \/ UNCHANGED ccVars
    BY DEF Next, vars
  <2> QED  BY <2>1, PollStep
<1> QED  BY <1>1, PollStart, PTL DEF Spec

\* poll_response of the EverDrive: the awaited answer, once it has arrived in full, in
\* however many pieces and behind whatever late answers and status pairs, is found at
\* once, unless the filter bites into it.  For any calls, any message ids and any RAM.
THEOREM AnswersAreFound == Spec => []ArrivedIsFound
BY PollSays, PTL

\* poll_response of the EverDrive: what a read returns is what the cartridge read for
\* this very frame, unless late bytes before the answer spell 0x20 and its message id.
\* For any calls, any message ids (0x20 among them, and ids used again) and any RAM.
THEOREM AnswersAreOwn == Spec => AnswersMatch
<1>1. AnswersMatch <=> [][Says]_vars
  BY DEF AnswersMatch, Says
<1> QED  BY <1>1, PollSays, PTL
===========================================================================
