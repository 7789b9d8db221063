--------------------------- MODULE EndpointProps ---------------------------
(* What the two endpoints must guarantee to the session above them. *)
EXTENDS Endpoint

\* read_ranges of a MiSTer: unless the helper was restarted or asked twice at a
\* time, every value of a snapshot is one its address really had after the
\* request was posted (0 where the core gave up), although earlier requests timed
\* out, the core answers a request again and again, and the cache is read word by
\* word while the next answer is being written.
SnapshotFresh ==
  [][\A c \in Clients :
       op[c].pc = "values" /\ op'[c].pc = "done" /\ op'[c].res = "ok" /\ ~hp.disturbed =>
         \A i \in 1 .. Len(op[c].list) : op'[c].got[i] \in offered[c][op[c].list[i]]]_vars

\* write_pairs of a MiSTer: when it reports success, the core has written every
\* pair of this request, across timeouts and the wrap of the sequence number.
AckedApplied ==
  [][\A c \in Clients :
       op[c].pc = "wpoll" /\ op'[c].pc = "done" /\ op'[c].res = "ok" /\ ~hp.disturbed =>
         ToSet(op[c].list) \subseteq applied[c]]_vars

\* However requests, restarts and resets interleave, the core writes only pairs
\* somebody asked for.
OnlyAsked ==
  [][fp.cur.pc = "apply" /\ fp'.cur.pc \in {"apply", "ack"} => dd.pairs[fp.cur.i] \in asked]_vars

\* What late answers and status pairs put before the awaited answer, as the filter
\* leaves it, spells the header poll_response looks for: 0x20 and the awaited id.
Late == IF own.at = 0 THEN rxBuf \o wire ELSE SubSeq(rxBuf \o wire, 1, own.at - 1)
Mistakable ==
  LET b == StripStatusPairs(Late) IN \E i \in 1 .. Len(b) - 1 : b[i] = START /\ b[i + 1] = expect.mid

\* poll_response of the EverDrive: what a read returns is what the cartridge
\* read for this very frame, however the bytes arrive and wherever status pairs,
\* the ends of other answers and 0x20 among the values fall.  The one exception:
\* late bytes before the answer spell 0x20 and its id (values, or an id used again).
AnswersMatch ==
  [][call'.out # call.out /\ call.pc = "poll" /\ ~Mistakable => call'.out = call.out \o own.vals]_vars

\* The same without the exception, as the docstring of poll_response has it: a
\* response to the last send_read, whatever is late.
AnswersAlwaysMatch ==
  [][call'.out # call.out /\ call.pc = "poll" => call'.out = call.out \o own.vals]_vars

\* An answer that has arrived in full is found, unless the status-pair filter
\* bites into it: a 0 or 4 (the action byte of read_addrs too) before an 0xA5.
ArrivedIsFound ==
  LET answer == <<START, expect.mid, expect.action>> \o own.vals
      hidden == \E i \in 3 .. Len(answer) - 1 : answer[i] \in {0, 4} /\ answer[i + 1] = STATUS
  IN  call.pc = "poll" /\ own.vals # <<>> /\ ~hidden => Len(rxBuf) < own.at + 3 + Len(own.vals)
=============================================================================
