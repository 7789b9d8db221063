-------------------------- MODULE SyncConvergence --------------------------
(* Two games end up with the same items, for any addresses, values and     *)
(* number of moves of both players.                                        *)
EXTENDS SyncProofs

-----------------------------------------------------------------------------
(* Queues as sets of messages *)

\* Taking the first message off a queue.
LEMMA RangeHead ==
  ASSUME NEW S, NEW q \in Seq(S), q # <<>>
  PROVE  Range(q) = {Head(q)} \cup Range(Tail(q)) /\ Head(q) \in S /\ Tail(q) \in Seq(S)
<1>1. /\ Len(q) \in Nat \ {0} /\ Head(q) = q[1] /\ Tail(q) \in Seq(S)
      /\ Len(Tail(q)) = Len(q) - 1 /\ \A n \in 1 .. Len(q) - 1 : Tail(q)[n] = q[n + 1]
  OBVIOUS
<1>2. DOMAIN q = 1 .. Len(q) /\ DOMAIN Tail(q) = 1 .. Len(q) - 1
  BY <1>1
<1>3. \A n \in DOMAIN q : n = 1 \/ (n - 1 \in DOMAIN Tail(q) /\ q[n] = Tail(q)[n - 1])
  BY <1>1, <1>2
<1>4. 1 \in DOMAIN q /\ \A n \in DOMAIN Tail(q) : n + 1 \in DOMAIN q /\ Tail(q)[n] = q[n + 1]
  BY <1>1, <1>2
<1>5. Range(q) \subseteq {Head(q)} \cup Range(Tail(q))
  BY <1>1, <1>3 DEF Range
<1>6. {Head(q)} \cup Range(Tail(q)) \subseteq Range(q)
  BY <1>1, <1>4 DEF Range
<1> QED  BY <1>1, <1>5, <1>6

\* Joining two queues.
LEMMA RangeConcat ==
  ASSUME NEW S, NEW q \in Seq(S), NEW r \in Seq(S)
  PROVE  Range(q \o r) = Range(q) \cup Range(r) /\ q \o r \in Seq(S)
BY RangeConcatenation, ConcatProperties

\* Adding a message to a queue.
LEMMA RangeAppend ==
  ASSUME NEW S, NEW q \in Seq(S), NEW x \in S
  PROVE  Range(Append(q, x)) = Range(q) \cup {x}
<1>1. Append(q, x) = q \o <<x>> /\ <<x>> \in Seq(S)
  OBVIOUS
<1>2. Range(<<x>>) = {x}
  BY DEF Range
<1>3. Range(q \o <<x>>) = Range(q) \cup Range(<<x>>)
  BY <1>1, RangeConcat, ZenonT(60)
<1> QED  BY <1>1, <1>2, <1>3

\* What drain_resync_send_queue sends and what it keeps are all there was.
LEMMA RangeChunk ==
  ASSUME NEW q \in Seq(Frames)
  PROVE  Range(q) = Range(Chunk(q)) \cup Range(Rest(q))
<1> DEFINE k == IF Len(q) < ResyncLimit THEN Len(q) ELSE ResyncLimit
<1>1. Len(q) \in Nat /\ k \in 0 .. Len(q)
  BY SyncAssumption
<1>2. /\ Len(Chunk(q)) = k /\ DOMAIN Chunk(q) = 1 .. k /\ \A n \in 1 .. k : Chunk(q)[n] = q[n]
  <2>1. Chunk(q) = SubSeq(q, 1, k)
    BY DEF Chunk
  <2> HIDE DEF k
  <2>2. \A n \in 1 .. k : q[n] \in Frames
    BY <1>1
  <2>3. SubSeq(q, 1, k) \in Seq(Frames) /\ Len(SubSeq(q, 1, k)) = k
    BY <1>1, <2>2, SubSeqProperties
  <2>4. \A n \in 1 .. k : SubSeq(q, 1, k)[n] = q[n]
    BY <1>1
  <2> QED  BY <2>1, <2>3, <2>4
<1> HIDE DEF k
<1>3. Rest(q) = SubSeq(q, k + 1, Len(q))
  BY <1>2 DEF Rest
<1>4. DOMAIN Rest(q) = 1 .. Len(q) - k /\ \A n \in 1 .. Len(q) - k : Rest(q)[n] = q[k + n]
  BY <1>1, <1>3
<1>5. DOMAIN q = 1 .. Len(q)
  OBVIOUS
<1>6. \A n \in DOMAIN q : n \in 1 .. k \/ (n - k \in 1 .. Len(q) - k /\ q[n] = Rest(q)[n - k])
  BY <1>1, <1>4, <1>5
<1>7. \A n \in 1 .. k : n \in DOMAIN q
  BY <1>1, <1>5
<1>8. \A n \in 1 .. Len(q) - k : k + n \in DOMAIN q
  BY <1>1, <1>5
<1>9. Range(q) \subseteq Range(Chunk(q)) \cup Range(Rest(q))
  BY <1>2, <1>4, <1>6 DEF Range
<1>10. Range(Chunk(q)) \cup Range(Rest(q)) \subseteq Range(q)
  BY <1>2, <1>4, <1>7, <1>8 DEF Range
<1> QED  BY <1>9, <1>10

\* The loops over SYNC visit every address of the set they are about.
LEMMA InOrderAll ==
  ASSUME NEW P \in SUBSET Addrs
  PROVE  Range(InOrder(P)) = P
<1> DEFINE N == {n \in DOMAIN Order : Order[n] \in P}
           up(f) == \A m, n \in DOMAIN f : m < n => f[m] < f[n]
           c == Cardinality(N)
           at == CHOOSE f \in [1 .. c -> N] : up(f)
<1>1. Len(Order) \in Nat /\ N \in SUBSET (1 .. Len(Order))
  BY RecordAssumption
<1>2. IsFiniteSet(N) /\ \E f : Lists(f, N)
  <2> HIDE DEF N
  <2> QED  BY <1>1, Listed
<1>3. c \in Nat
  BY <1>2, FS_CardinalityType
<1>4. at \in [1 .. c -> N] /\ up(at)
  <2>1. \E f \in [1 .. c -> N] : up(f)
    BY <1>2 DEF Lists
  <2> HIDE DEF N, c, up
  <2> QED  BY <2>1
<1>5. InOrder(P) = [n \in 1 .. c |-> Order[at[n]]]
  <2>1. InOrder(P) = [n \in DOMAIN at |-> Order[at[n]]]
    BY DEF InOrder
  <2> HIDE DEF at, c, N, up
  <2> QED  BY <1>4, <2>1
<1> HIDE DEF at
<1>6. at \in Injection(1 .. c, N)
  <2>1. \A m, n \in 1 .. c : m = n \/ at[m] # at[n]
    <3> SUFFICES ASSUME NEW m \in 1 .. c, NEW n \in 1 .. c, m # n PROVE at[m] # at[n]
      OBVIOUS
    <3>1. at[m] \in Nat /\ at[n] \in Nat
      <4>1. at[m] \in N /\ at[n] \in N /\ N \subseteq Nat
        <5> HIDE DEF N
        <5> QED  BY <1>1, <1>4
      <4> HIDE DEF N
      <4> QED  BY <4>1
    <3>2. m < n \/ n < m
      <4> HIDE DEF c
      <4> QED  BY <1>3
    <3>3. m < n => at[m] < at[n]
      <4> HIDE DEF c, N
      <4> QED  BY <1>4
    <3>4. n < m => at[n] < at[m]
      <4> HIDE DEF c, N
      <4> QED  BY <1>4
    <3> QED  BY <3>1, <3>2, <3>3, <3>4
  <2> QED  BY <1>4, <2>1 DEF Injection, IsInjective
<1>7. at \in Surjection(1 .. c, N)
  <2>1. Cardinality(1 .. c) = c
    BY <1>3, FS_Interval
  <2> HIDE DEF N
  <2> QED  BY <1>2, <1>6, <2>1, FS_Injection
<1>8. \A n \in N : \E m \in 1 .. c : at[m] = n
  BY <1>7 DEF Surjection
<1>9. \A a \in P : \E n \in N : Order[n] = a
  BY DEF Addrs
<1>10. \A m \in 1 .. c : Order[at[m]] \in P
  BY <1>4
<1> HIDE DEF N, c
<1>11. Range(InOrder(P)) = {Order[at[m]] : m \in 1 .. c}
  BY <1>5 DEF Range
<1> QED  BY <1>8, <1>9, <1>10, <1>11

-----------------------------------------------------------------------------
(* The inductive invariant *)

Items == HighAddrs \cap Addrs
Writing == {"write", "writeGated", "writeDrain"}

\* The circumstances under which items are synchronised: endpoints work, the
\* connection lasts, a player whose game changes starts with force_send, and
\* no address is gated.
Steady ==
  /\ ~Faults /\ MaxCuts = 0 /\ Writers \subseteq Forced
  /\ \A i \in Players, a \in Addrs : ~Gates(i, a)

\* The items on their way into the game of i, and those i has sent or is about
\* to send.
Inbox(i) == Range(chan[i]) \cup Range(sleepQueue[i]) \cup (IF pc[i] \in Writing THEN {job[i]} ELSE {})
Told(i) == {t \in Inbox(Partner(i)) \cup Range(resyncQueue[i]) : t.addr \in Items}

\* What the game of i is sure to keep of an item: a write in progress may take
\* back what the game did since the byte was read.
Floor(i, a) ==
  IF pc[i] \in Writing /\ job[i].addr = a /\ job[i].value < ram[i][a]
  THEN job[i].value ELSE ram[i][a]

\* v is an item the game of i really has; the partner of i has v or will get it.
Backed(i, a, v) == v <= Floor(i, a) /\ v <= MaxHigh
Arrives(i, a, v) == v <= Floor(Partner(i), a) \/ \E t \in Told(i) : t.addr = a /\ v <= t.value

\* The connection lasts and nothing is gated.
Online == down = {} /\ chan \in [Players -> Seq(Frames)] /\ \A i \in Players : gate[i] = <<>>

\* What a bridge has told its partner, cached or seen, its game has.
ToldBacked == \A i \in Players : \A t \in Told(i) : Backed(i, t.addr, t.value)
CacheBacked == \A i \in Players, a \in Items : cache[i][a] # None => Backed(i, a, cache[i][a])
SnapBacked == \A i \in Players, a \in Items : pc[i] \in Draining => Backed(i, a, snap[i][a])

\* What a bridge has cached, its partner has or will get.
Promised == \A i \in Players, a \in Items : cache[i][a] # None => Arrives(i, a, cache[i][a])

\* What a bridge has not cached it will still broadcast, or there is nothing to tell.
Armed == \A i \in Players, a \in Items : cache[i][a] = None =>
  /\ resyncQueue[i] = <<>> /\ (i \in Forced => forceSend[i])
  /\ i \notin Forced => ram[i][a] \in {0, MaxHigh + 1}

ItemInv ==
  SyncInv /\ Online /\ ToldBacked /\ CacheBacked /\ SnapBacked /\ Promised /\ Armed

-----------------------------------------------------------------------------
(* What every step keeps *)

\* There are two bridges, partners of each other.
LEMMA TwoPlayers ==
  ASSUME NEW i \in Players
  PROVE  /\ Partner(i) \in Players /\ Partner(i) # i /\ Partner(Partner(i)) = i
         /\ \A j \in Players : j = i \/ j = Partner(i)
BY PartnerType, PartnerOnly

\* Items are numbers.
ItemNumbers == \A i \in Players, a \in Items :
  /\ a \in Addrs /\ a \in HighAddrs /\ MaxHigh \in Nat
  /\ ram[i][a] \in 0 .. MaxHigh + 1 /\ snap[i][a] \in 0 .. MaxHigh + 1
  /\ cache[i][a] \in (0 .. MaxHigh + 1) \cup {None}
  /\ pc[i] \in Writing /\ job[i].addr = a =>
       job[i].value \in 0 .. MaxHigh /\ ~Implausible(a, job[i].value)
  /\ Floor(i, a) \in 0 .. MaxHigh + 1

\* They are in range wherever a bridge keeps them.
LEMMA ItemTypes ==
  SyncInv => ItemNumbers
<1> SUFFICES ASSUME SyncInv PROVE ItemNumbers
  OBVIOUS
<1> SUFFICES ASSUME NEW i \in Players, NEW a \in Items
             PROVE  /\ a \in Addrs /\ a \in HighAddrs /\ MaxHigh \in Nat
                    /\ ram[i][a] \in 0 .. MaxHigh + 1 /\ snap[i][a] \in 0 .. MaxHigh + 1
                    /\ cache[i][a] \in (0 .. MaxHigh + 1) \cup {None}
                    /\ pc[i] \in Writing /\ job[i].addr = a =>
                         job[i].value \in 0 .. MaxHigh /\ ~Implausible(a, job[i].value)
                    /\ Floor(i, a) \in 0 .. MaxHigh + 1
  BY DEF ItemNumbers
<1>1. a \in Addrs /\ a \in HighAddrs /\ MaxHigh \in Nat
  BY RecordAssumption DEF Items
<1>2. Value(a) = 0 .. MaxHigh + 1
  BY <1>1, ValueOf
<1>3. /\ ram[i][a] \in 0 .. MaxHigh + 1 /\ snap[i][a] \in 0 .. MaxHigh + 1
      /\ cache[i][a] \in (0 .. MaxHigh + 1) \cup {None}
  BY <1>1, <1>2 DEF SyncInv, Memory
<1>4. pc[i] \in Writing /\ job[i].addr = a =>
        job[i].value \in 0 .. MaxHigh + 1 /\ ~Implausible(a, job[i].value)
  BY <1>1, <1>2 DEF SyncInv, JobsOK, JobOK, Writing
<1>5. pc[i] \in Writing /\ job[i].addr = a => job[i].value \in 0 .. MaxHigh
  BY <1>1, <1>4 DEF Implausible
<1> QED  BY <1>1, <1>3, <1>4, <1>5 DEF Floor

\* The items on their way are numbers too.
LEMMA ToldTypes ==
  ASSUME SyncInv, Online, NEW i \in Players, NEW t \in Told(i)
  PROVE  t.addr \in Items /\ t.value \in 0 .. MaxHigh + 1
<1> DEFINE j == Partner(i)
<1>1. j \in Players
  BY TwoPlayers
<1> HIDE DEF j
<1>2. t.addr \in Items
  BY DEF Told
<1>3. /\ chan[j] \in Seq(Frames) /\ sleepQueue[j] \in Seq(Frames) /\ resyncQueue[i] \in Seq(Frames)
  BY <1>1 DEF SyncInv, Control, Online
<1>4. Range(chan[j]) \cup Range(sleepQueue[j]) \cup Range(resyncQueue[i]) \subseteq Frames
  BY <1>3 DEF Range
<1>5. CASE t \in Frames
  <2>1. t.value \in Value(t.addr)
    BY <1>2, <1>5, FrameFields, RecordAssumption DEF Payload, Items
  <2> QED  BY <1>2, <2>1, ValueOf DEF Items
<1>6. CASE pc[j] \in Writing /\ t = job[j]
  <2>1. t.value \in 0 .. MaxHigh /\ MaxHigh \in Nat
    BY <1>1, <1>2, <1>6, ItemTypes DEF ItemNumbers
  <2> QED  BY <1>2, <2>1
<1> QED  BY <1>4, <1>5, <1>6 DEF Told, Inbox, j

\* A step that loses no item keeps the invariants about them.
Keeps ==
  /\ \A i \in Players, a \in Items : Floor(i, a) <= Floor(i, a)'
  /\ \A i \in Players : \A t \in Told(i)' : t \in Told(i) \/ Backed(i, t.addr, t.value)'
  /\ \A i \in Players : \A t \in Told(i) : t \in Told(i)' \/ t.value <= Floor(Partner(i), t.addr)'
  /\ \A i \in Players, a \in Items : cache'[i][a] # None =>
       \/ cache'[i][a] = cache[i][a]
       \/ (Backed(i, a, cache[i][a]) /\ Arrives(i, a, cache[i][a]))'
  /\ \A i \in Players, a \in Items : pc'[i] \in Draining =>
       \/ pc[i] \in Draining /\ snap'[i] = snap[i]
       \/ Backed(i, a, snap[i][a])'

LEMMA Kept ==
  ASSUME ItemInv, SyncInv', Online', Keeps
  PROVE  ToldBacked' /\ CacheBacked' /\ SnapBacked' /\ Promised'
<1>1. ASSUME NEW i \in Players, NEW a \in Items
      PROVE  /\ Floor(i, a) \in Int /\ (Floor(i, a))' \in Int /\ Floor(i, a) <= (Floor(i, a))'
             /\ MaxHigh \in Nat
             /\ cache[i][a] \in Int \cup {None} /\ cache'[i][a] \in Int \cup {None}
             /\ snap[i][a] \in Int
  <2>1. /\ Floor(i, a) \in 0 .. MaxHigh + 1 /\ MaxHigh \in Nat
        /\ cache[i][a] \in (0 .. MaxHigh + 1) \cup {None} /\ snap[i][a] \in 0 .. MaxHigh + 1
    BY ItemTypes DEF ItemInv, ItemNumbers
  <2>2. (Floor(i, a))' \in 0 .. MaxHigh + 1 /\ cache'[i][a] \in (0 .. MaxHigh + 1) \cup {None}
    <3>1. ItemNumbers'
      BY ItemTypes, PTL
    <3> QED  BY <3>1 DEF ItemNumbers
  <2> QED  BY <2>1, <2>2 DEF Keeps
<1>2. ASSUME NEW i \in Players, NEW a \in Items, NEW v \in Int, Backed(i, a, v)
      PROVE  Backed(i, a, v)'
  BY <1>1, <1>2 DEF Backed
<1>3. ASSUME NEW i \in Players, NEW t \in Told(i) PROVE t.addr \in Items /\ t.value \in Int
  BY ToldTypes DEF ItemInv
<1>4. ToldBacked'
  <2> SUFFICES ASSUME NEW i \in Players, NEW t \in (Told(i))' PROVE Backed(i, t.addr, t.value)'
    BY DEF ToldBacked
  <2>1. CASE t \in Told(i)
    <3>1. Backed(i, t.addr, t.value)
      BY <2>1 DEF ItemInv, ToldBacked
    <3> QED  BY <1>2, <1>3, <2>1, <3>1
  <2> QED  BY <2>1 DEF Keeps
<1>5. CacheBacked' /\ Promised'
  <2> SUFFICES ASSUME NEW i \in Players, NEW a \in Items, cache'[i][a] # None
               PROVE  (Backed(i, a, cache[i][a]) /\ Arrives(i, a, cache[i][a]))'
    BY DEF CacheBacked, Promised
  <2>1. CASE cache'[i][a] = cache[i][a]
    <3> DEFINE v == cache[i][a]
    <3>1. v \in Int /\ Backed(i, a, v) /\ Arrives(i, a, v)
      BY <1>1, <2>1 DEF ItemInv, CacheBacked, Promised
    <3>2. PICK w : w = v
      OBVIOUS
    <3>3. w \in Int /\ Backed(i, a, w) /\ Arrives(i, a, w) /\ w = cache'[i][a]
      BY <2>1, <3>1, <3>2
    <3>4. Backed(i, a, w)'
      BY <1>2, <3>3
    <3>5. Arrives(i, a, w)'
      <4>1. CASE w <= Floor(Partner(i), a)
        <5>1. w <= (Floor(Partner(i), a))'
          BY <1>1, <3>3, <4>1, TwoPlayers
        <5> QED  BY <5>1 DEF Arrives
      <4>2. CASE \E t \in Told(i) : t.addr = a /\ w <= t.value
        <5>1. PICK t \in Told(i) : t.addr = a /\ w <= t.value
          BY <4>2
        <5>2. CASE t \in (Told(i))'
          BY <5>1, <5>2 DEF Arrives
        <5>3. CASE t.value <= (Floor(Partner(i), a))'
          <6>1. w <= (Floor(Partner(i), a))'
            BY <1>1, <1>3, <3>3, <5>1, <5>3, TwoPlayers
          <6> QED  BY <6>1 DEF Arrives
        <5> QED  BY <5>1, <5>2, <5>3 DEF Keeps
      <4> QED  BY <3>3, <4>1, <4>2 DEF Arrives
    <3> QED  BY <3>3, <3>4, <3>5
  <2> QED  BY <2>1 DEF Keeps
<1>6. SnapBacked'
  <2> SUFFICES ASSUME NEW i \in Players, NEW a \in Items, pc'[i] \in Draining
               PROVE  Backed(i, a, snap[i][a])'
    BY DEF SnapBacked
  <2>1. CASE pc[i] \in Draining /\ snap'[i] = snap[i]
    <3>1. PICK w : w = snap[i][a]
      OBVIOUS
    <3>2. w \in Int /\ Backed(i, a, w) /\ w = snap'[i][a]
      BY <1>1, <2>1, <3>1 DEF ItemInv, SnapBacked
    <3>3. Backed(i, a, w)'
      BY <1>2, <3>2
    <3> QED  BY <3>2, <3>3
  <2> QED  BY <2>1 DEF Keeps
<1> QED  BY <1>4, <1>5, <1>6

-----------------------------------------------------------------------------
(* Steps *)

\* A step that moves no item from where it is.
LEMMA QuietKeeps ==
  ASSUME ItemInv, UNCHANGED <<ram, cache, snap>>, \A i \in Players : Told(i)' = Told(i),
         \A i \in Players : \/ pc'[i] = pc[i] /\ job'[i] = job[i]
                            \/ pc[i] \notin Writing /\ pc'[i] \notin Writing \cup Draining
  PROVE  Keeps
<1>1. ItemNumbers
  BY ItemTypes DEF ItemInv
<1>2. ASSUME NEW i \in Players, NEW a \in Items PROVE (Floor(i, a))' = Floor(i, a)
  BY DEF Floor
<1>3. ASSUME NEW i \in Players, NEW a \in Items PROVE Floor(i, a) <= (Floor(i, a))'
  BY <1>1, <1>2 DEF ItemNumbers
<1> QED  BY <1>3 DEF Keeps

\* A paused game, and a snapshot that is not used.
LEMMA ItemsQuiet ==
  ASSUME ItemInv, NEW p \in Players, PollPaused(p) \/ SnapshotIgnored(p) \/ GamePauses(p)
  PROVE  Online' /\ Armed' /\ Keeps
<1>1. UNCHANGED <<ram, cache, snap, forceSend, sleepQueue, resyncQueue, gate, job, chan, down>>
  BY DEF PollPaused, SnapshotIgnored, GamePauses, games, engine, thread, network
<1>2. Online' /\ Armed'
  BY <1>1 DEF ItemInv, Online, Armed
<1>3. ASSUME NEW i \in Players
      PROVE  \/ pc'[i] = pc[i]
             \/ pc[i] \notin Writing /\ pc'[i] \notin Writing \cup Draining
  <2>1. pc \in [Players -> Labels]
    BY DEF ItemInv, SyncInv, Control
  <2> QED  BY <2>1 DEF PollPaused, SnapshotIgnored, GamePauses, Goto, thread, Writing, Draining
<1>4. ASSUME NEW i \in Players PROVE Told(i)' = Told(i)
  <2>1. Partner(i) \in Players
    BY TwoPlayers
  <2>2. Inbox(Partner(i))' = Inbox(Partner(i))
    BY <1>1, <1>3, <2>1 DEF Inbox
  <2> QED  BY <1>1, <2>2 DEF Told
<1> QED  BY <1>1, <1>2, <1>3, <1>4, QuietKeeps

\* What is sent arrives in the partner's inbox.
LEMMA SentBox ==
  ASSUME ItemInv, NEW p \in Players, NEW s \in Seq(Frames), chan' = Sent(p, s),
         UNCHANGED <<sleepQueue, job>>, NEW l \in Labels \ Writing, pc' = [pc EXCEPT ![p] = l],
         pc[p] \notin Writing, down' = down, gate' = gate
  PROVE  /\ Inbox(p)' = Inbox(p) /\ Inbox(Partner(p))' = Inbox(Partner(p)) \cup Range(s)
         /\ Online'
<1> DEFINE q == Partner(p)
<1>1. q \in Players /\ q # p
  BY TwoPlayers
<1>2. chan \in [Players -> Seq(Frames)] /\ down = {}
  BY DEF ItemInv, Online
<1>3. pc \in [Players -> Labels]
  BY DEF ItemInv, SyncInv, Control
<1>4. chan' = [chan EXCEPT ![q] = @ \o s]
  BY <1>2 DEF Sent
<1> HIDE DEF q
<1>5. Range(chan[q] \o s) = Range(chan[q]) \cup Range(s) /\ chan[q] \o s \in Seq(Frames)
  BY <1>1, <1>2, RangeConcat
<1>6. chan' \in [Players -> Seq(Frames)] /\ chan'[p] = chan[p] /\ chan'[q] = chan[q] \o s
  BY <1>1, <1>2, <1>4, <1>5
<1>7. Online'
  BY <1>6 DEF ItemInv, Online
<1>8. pc'[p] \notin Writing /\ pc'[q] = pc[q]
  BY <1>1, <1>3
<1>9. Inbox(p)' = Inbox(p)
  BY <1>6, <1>8 DEF Inbox
<1>10. (Inbox(q))' = Inbox(q) \cup Range(s)
  BY <1>5, <1>6, <1>8 DEF Inbox
<1> QED  BY <1>7, <1>9, <1>10 DEF q

\* A chunk of the throttled broadcast is sent.
LEMMA ItemsChunk ==
  ASSUME ItemInv, NEW p \in Players, SendChunk(p)
  PROVE  Online' /\ Armed' /\ Keeps
<1> DEFINE q == Partner(p)
           r == resyncQueue[p]
<1>1. q \in Players /\ q # p /\ Partner(q) = p /\ \A j \in Players : j = p \/ j = q
  BY TwoPlayers
<1>2. /\ UNCHANGED <<ram, cache, sleepQueue, gate, job, snap, down>>
      /\ pc' = [pc EXCEPT ![p] = "idle"] /\ chan' = Sent(p, Chunk(r))
      /\ resyncQueue' = [resyncQueue EXCEPT ![p] = Rest(r)]
      /\ forceSend' = [forceSend EXCEPT ![p] = @ /\ Rest(r) # <<>>]
      /\ pc[p] \in {"gated", "idle"} /\ ~FullPoll(p)
  BY DEF SendChunk, Probed, Goto, games
<1>3. /\ pc \in [Players -> Labels] /\ resyncQueue \in [Players -> Seq(Frames)]
      /\ forceSend \in [Players -> BOOLEAN]
  BY DEF ItemInv, SyncInv, Control
<1>4. /\ r \in Seq(Frames) /\ Chunk(r) \in Seq(Frames)
      /\ Range(r) = Range(Chunk(r)) \cup Range(Rest(r))
  BY <1>3, ChunkTypes, RangeChunk
<1>5. r # <<>>
  BY <1>2 DEF FullPoll, ItemInv, Online
<1>6. resyncQueue'[p] = Rest(r) /\ resyncQueue'[q] = resyncQueue[q] /\ forceSend'[q] = forceSend[q]
  BY <1>1, <1>2, <1>3
<1>7. Inbox(p)' = Inbox(p) /\ (Inbox(q))' = Inbox(q) \cup Range(Chunk(r)) /\ Online'
  <2>1. "idle" \in Labels \ Writing /\ pc[p] \notin Writing
    BY <1>2 DEF Labels, Writing
  <2> QED  BY <1>2, <1>4, <2>1, SentBox
<1> HIDE DEF q
<1>8. \A i \in Players : Told(i)' = Told(i)
  <2>1. Told(p)' = Told(p)
    BY <1>4, <1>6, <1>7 DEF Told, q
  <2>2. Told(q)' = Told(q)
    BY <1>1, <1>6, <1>7 DEF Told
  <2> QED  BY <1>1, <2>1, <2>2
<1>9. \A i \in Players : \/ pc'[i] = pc[i] /\ job'[i] = job[i]
                         \/ pc[i] \notin Writing /\ pc'[i] \notin Writing \cup Draining
  BY <1>2, <1>3 DEF Writing, Draining
<1>10. Armed'
  <2>1. \A a \in Items : cache[p][a] # None
    BY <1>5 DEF ItemInv, Armed
  <2> QED  BY <1>1, <1>2, <1>6, <2>1 DEF ItemInv, Armed
<1> QED  BY <1>2, <1>7, <1>8, <1>9, <1>10, QuietKeeps

\* A message taken from a queue is being written, or is no news to the game.
LEMMA ItemsTaken ==
  ASSUME ItemInv, NEW p \in Players, NEW t \in Frames, NEW write, NEW skip,
         \/ write = "write" /\ skip = "idle"
         \/ write = "writeDrain" /\ skip = "drain" /\ pc[p] = "drain",
         pc[p] \notin Writing, Examine(p, t, write, skip),
         UNCHANGED <<ram, cache, snap, resyncQueue, forceSend>>,
         Range(chan[p]) \cup Range(sleepQueue[p])
           = {t} \cup Range(chan'[p]) \cup Range(sleepQueue'[p]),
         \A j \in Players \ {p} : chan'[j] = chan[j] /\ sleepQueue'[j] = sleepQueue[j]
  PROVE  Armed' /\ Keeps
<1> DEFINE q == Partner(p)
           a == t.addr
           r == Changed(a, t.value, ram[p][a], TRUE)
           applies == r.allow /\ ~Implausible(a, t.value)
<1>1. q \in Players /\ q # p /\ Partner(q) = p /\ \A j \in Players : j = p \/ j = q
  BY TwoPlayers
<1>2. Armed'
  BY DEF ItemInv, Armed
<1>3. /\ pc' = [pc EXCEPT ![p] = IF applies THEN write ELSE skip]
      /\ job' = [job EXCEPT ![p] = IF applies THEN Data(a, r.value) ELSE None]
  BY DEF Examine, Goto
<1>4. ItemNumbers /\ pc \in [Players -> Labels] /\ job \in [Players -> Frames \cup {None}]
  BY ItemTypes DEF ItemInv, SyncInv, Control
<1>5. a \in Addrs /\ t.value \in Payload(a) /\ t = Data(a, t.value)
  <2>1. PICK b \in Addrs : \E v \in Payload(b) : t = Data(b, v)
    BY DEF Frames
  <2> QED  BY <2>1 DEF Data
<1> HIDE DEF r, applies
<1>6. /\ pc'[p] = (IF applies THEN write ELSE skip) /\ pc'[q] = pc[q] /\ job'[q] = job[q]
      /\ applies => job'[p] = Data(a, r.value)
  BY <1>1, <1>3, <1>4
<1> HIDE DEF q
<1>7. write \in Writing /\ skip \notin Writing
  BY DEF Writing
<1>8. Told(p)' = Told(p)
  <2>1. (Inbox(q))' = Inbox(q)
    BY <1>1, <1>6 DEF Inbox
  <2> QED  BY <2>1 DEF Told, q
<1>9. Told(q) = {s \in Inbox(p) \cup Range(resyncQueue[q]) : s.addr \in Items}
  BY <1>1 DEF Told
<1>10. Told(q)' = {s \in Inbox(p)' \cup Range(resyncQueue[q]) : s.addr \in Items}
  BY <1>1 DEF Told
<1>11. Inbox(p) = {t} \cup Range(chan'[p]) \cup Range(sleepQueue'[p])
  BY DEF Inbox
<1>12. Inbox(p)' = Range(chan'[p]) \cup Range(sleepQueue'[p])
                   \cup (IF applies THEN {Data(a, r.value)} ELSE {})
  BY <1>6, <1>7 DEF Inbox
<1>13. a \in Items => /\ r.value = t.value /\ (applies <=> t.value > ram[p][a])
                      /\ t.value \in 0 .. MaxHigh + 1 /\ t \in Told(q)
  <2> SUFFICES ASSUME a \in Items
               PROVE  /\ r.value = t.value /\ (applies <=> t.value > ram[p][a])
                      /\ t.value \in 0 .. MaxHigh + 1 /\ t \in Told(q)
    OBVIOUS
  <2>1. t \in Told(q)
    BY <1>9, <1>11
  <2>2. t.value \in 0 .. MaxHigh + 1 /\ MaxHigh \in Nat
    BY <1>1, <2>1, ToldTypes, RecordAssumption DEF ItemInv
  <2>3. t.value <= MaxHigh
    BY <1>1, <2>1 DEF ItemInv, ToldBacked, Backed
  <2>4. r = [allow |-> t.value > ram[p][a], value |-> t.value]
    BY RecordAssumption DEF r, Items, Changed, HighChanged
  <2>5. ~Implausible(a, t.value)
    BY <2>2, <2>3 DEF Implausible
  <2> QED  BY <2>1, <2>2, <2>4, <2>5 DEF applies
<1>14. \A s \in Told(q)' : s \in Told(q)
  <2> SUFFICES ASSUME NEW s \in Told(q)' PROVE s \in Told(q)
    OBVIOUS
  <2>1. s.addr \in Items
    BY <1>10
  <2>2. CASE applies /\ s = Data(a, r.value)
    <3>1. s.addr = a
      BY <2>2 DEF Data
    <3> QED  BY <1>5, <1>13, <2>1, <2>2, <3>1
  <2> QED  BY <1>9, <1>10, <1>11, <1>12, <2>1, <2>2
<1>15. \A s \in Told(q) : s \in Told(q)' \/ (s = t /\ ~applies)
  <2> SUFFICES ASSUME NEW s \in Told(q), s \notin Told(q)' PROVE s = t /\ ~applies
    OBVIOUS
  <2>1. s.addr \in Items /\ s = t
    BY <1>9, <1>10, <1>11, <1>12
  <2>2. applies => t = Data(a, r.value)
    BY <1>5, <1>13, <2>1
  <2> QED  BY <1>10, <1>12, <2>1, <2>2
<1>16. ASSUME NEW b \in Items
       PROVE  (Floor(p, b))' = ram[p][b] /\ Floor(p, b) = ram[p][b] /\ (Floor(q, b))' = Floor(q, b)
  <2>1. Floor(p, b) = ram[p][b]
    BY DEF Floor
  <2>2. (Floor(q, b))' = Floor(q, b)
    BY <1>6 DEF Floor
  <2>3. CASE applies /\ b = a
    <3>1. pc'[p] \in Writing /\ job'[p].value = t.value
      BY <1>6, <1>7, <1>13, <2>3 DEF Data
    <3>2. ~(t.value < ram[p][b])
      <4>1. ram[p][b] \in 0 .. MaxHigh + 1 /\ MaxHigh \in Nat
        BY <1>4 DEF ItemNumbers
      <4> QED  BY <1>13, <2>3, <4>1
    <3> QED  BY <2>1, <2>2, <3>1, <3>2 DEF Floor
  <2>4. CASE applies /\ b # a
    <3>1. job'[p].addr # b
      BY <1>6, <2>4 DEF Data
    <3> QED  BY <2>1, <2>2, <3>1 DEF Floor
  <2>5. CASE ~applies
    <3>1. pc'[p] \notin Writing
      BY <1>6, <1>7, <2>5
    <3> QED  BY <2>1, <2>2, <3>1 DEF Floor
  <2> QED  BY <2>3, <2>4, <2>5
<1>17. \A i \in Players, b \in Items : Floor(i, b) <= (Floor(i, b))'
  BY <1>1, <1>4, <1>16 DEF ItemNumbers
<1>18. \A i \in Players : \A s \in Told(i) : s \in Told(i)' \/ s.value <= (Floor(Partner(i), s.addr))'
  <2>1. ASSUME NEW s \in Told(q), s = t, ~applies PROVE s.value <= (Floor(p, s.addr))'
    <3>1. a \in Items
      BY <1>9, <2>1
    <3>2. ram[p][a] \in 0 .. MaxHigh + 1 /\ MaxHigh \in Nat
      BY <1>4, <3>1 DEF ItemNumbers
    <3> QED  BY <1>13, <1>16, <2>1, <3>1, <3>2
  <2> QED  BY <1>1, <1>8, <1>15, <2>1
<1>19. \A i \in Players : pc'[i] \in Draining => pc[i] \in Draining
  BY <1>1, <1>6 DEF Draining
<1> QED  BY <1>1, <1>2, <1>8, <1>14, <1>17, <1>18, <1>19 DEF Keeps

\* Receiving a message.
LEMMA ItemsReceived ==
  ASSUME Steady, ItemInv, NEW p \in Players, Receive(p)
  PROVE  Online' /\ Armed' /\ Keeps
<1> DEFINE q == Partner(p)
           t == Head(chan[p])
<1>1. q \in Players /\ q # p /\ Partner(q) = p /\ \A j \in Players : j = p \/ j = q
  BY TwoPlayers
<1>2. /\ chan \in [Players -> Seq(Frames)] /\ down = {} /\ \A i \in Players : gate[i] = <<>>
      /\ sleepQueue \in [Players -> Seq(Frames)]
  BY DEF ItemInv, Online, SyncInv, Control
<1>3. chan[p] # <<>> => /\ Range(chan[p]) = {t} \cup Range(Tail(chan[p])) /\ t \in Frames
                        /\ Tail(chan[p]) \in Seq(Frames)
  BY <1>2, RangeHead
<1>4. chan' = [chan EXCEPT ![p] = Tail(@)] /\ chan[p] # <<>>
  BY DEF Receive, ReceiveApply, ReceiveQueued, ReceiveGated, ReceiveReconnected
<1>5. /\ chan' \in [Players -> Seq(Frames)] /\ chan'[p] = Tail(chan[p])
      /\ \A j \in Players \ {p} : chan'[j] = chan[j]
  BY <1>2, <1>3, <1>4
<1>6. t.addr \in Addrs
  BY <1>3, <1>4, FrameFields
<1>7. CASE ReceiveApply(p)
  <2>1. /\ UNCHANGED <<ram, cache, snap, resyncQueue, forceSend, sleepQueue, gate, down>>
        /\ pc[p] = "idle" /\ Examine(p, t, "write", "idle")
    BY <1>7 DEF ReceiveApply, games, engine
  <2>2. Online'
    BY <1>5, <2>1 DEF ItemInv, Online
  <2>3. Range(chan[p]) \cup Range(sleepQueue[p])
          = {t} \cup Range(chan'[p]) \cup Range(sleepQueue'[p])
    BY <1>3, <1>4, <1>5, <2>1
  <2>4. pc[p] \notin Writing /\ t \in Frames
    BY <1>3, <1>4, <2>1 DEF Writing
  <2> HIDE DEF t
  <2>5. Armed' /\ Keeps
    BY <1>5, <2>1, <2>3, <2>4, ItemsTaken
  <2> QED  BY <2>2, <2>5
<1>8. CASE ReceiveQueued(p)
  <2>1. /\ UNCHANGED <<ram, cache, snap, resyncQueue, forceSend, gate, down, pc, job>>
        /\ sleepQueue' = [sleepQueue EXCEPT ![p] = Append(@, t)]
    BY <1>8 DEF ReceiveQueued, games, thread
  <2>2. Online' /\ Armed'
    BY <1>5, <2>1 DEF ItemInv, Online, Armed
  <2>3. Range(sleepQueue'[p]) = Range(sleepQueue[p]) \cup {t} /\ sleepQueue'[q] = sleepQueue[q]
    <3>1. Range(Append(sleepQueue[p], t)) = Range(sleepQueue[p]) \cup {t}
      BY <1>2, <1>3, <1>4, RangeAppend
    <3> QED  BY <1>1, <1>2, <2>1, <3>1
  <2> HIDE DEF t, q
  <2>4. Inbox(p)' = Inbox(p) /\ (Inbox(q))' = Inbox(q)
    BY <1>1, <1>3, <1>4, <1>5, <2>1, <2>3 DEF Inbox
  <2>5. Told(p)' = Told(p) /\ Told(q)' = Told(q)
    BY <1>1, <2>1, <2>4 DEF Told, q
  <2> QED  BY <1>1, <2>1, <2>2, <2>5, QuietKeeps
<1>9. CASE ReceiveGated(p)
  BY <1>6, <1>9 DEF ReceiveGated, Steady
<1>10. CASE ReceiveReconnected(p)
  <2>1. t = PartnerReconnected
    BY <1>10 DEF ReceiveReconnected
  <2>2. None \in Addrs
    BY <1>6, <2>1 DEF PartnerReconnected, Data
  <2> QED  BY <2>2, SyncAssumption
<1> QED  BY <1>7, <1>8, <1>9, <1>10 DEF Receive

\* A write: what it puts into the game and the cache, the partner has.
LEMMA ItemsWritten ==
  ASSUME ItemInv, NEW p \in Players, Write(p)
  PROVE  Online' /\ Armed' /\ Keeps
<1> DEFINE q == Partner(p)
<1>0. PICK a, v : a = job[p].addr /\ v = job[p].value
  OBVIOUS
<1>1. q \in Players /\ q # p /\ Partner(q) = p /\ \A j \in Players : j = p \/ j = q
  BY TwoPlayers
<1>2. /\ pc[p] \in Writing /\ pc' = [pc EXCEPT ![p] = After[pc[p]]]
      /\ job' = [job EXCEPT ![p] = None]
      /\ ram' = [ram EXCEPT ![p][a] = v] /\ cache' = [cache EXCEPT ![p][a] = v]
      /\ UNCHANGED <<forceSend, sleepQueue, resyncQueue, gate, snap, chan, down>>
  BY <1>0, AfterLabels DEF Write, Goto, network, Writing
<1>3. /\ ItemNumbers /\ Shape /\ pc \in [Players -> Labels] /\ job \in [Players -> Frames \cup {None}]
      /\ a \in Addrs /\ v \in Value(a)
  BY <1>0, <1>2, ItemTypes DEF ItemInv, SyncInv, Control, JobsOK, JobOK, Writing
<1>4. After[pc[p]] \notin Writing /\ (After[pc[p]] \in Draining => pc[p] \in Draining)
  BY <1>2, AfterLabels DEF Writing, Draining
<1>5. pc'[p] = After[pc[p]] /\ pc'[q] = pc[q] /\ job'[q] = job[q]
  BY <1>1, <1>2, <1>3
<1>6. /\ v \in AnyValue /\ v # None
  BY <1>3, SyncAssumption DEF AnyValue
<1>7. /\ ram'[p][a] = v /\ \A j \in Players, b \in Addrs : <<j, b>> # <<p, a>> => ram'[j][b] = ram[j][b]
  BY <1>2, <1>3, <1>6, SetCell DEF Shape
<1>8. /\ cache'[p][a] = v
      /\ \A j \in Players, b \in Addrs : <<j, b>> # <<p, a>> => cache'[j][b] = cache[j][b]
  BY <1>2, <1>3, <1>6, SetCell DEF Shape
<1> HIDE DEF q
<1>9. Online'
  BY <1>2 DEF ItemInv, Online
<1>10. Armed'
  <2> SUFFICES ASSUME NEW i \in Players, NEW b \in Items, cache'[i][b] = None
               PROVE  cache[i][b] = None /\ ram'[i][b] = ram[i][b]
    BY <1>2 DEF ItemInv, Armed
  <2>1. b \in Addrs
    BY DEF Items
  <2> QED  BY <1>6, <1>7, <1>8, <2>1
<1>11. (Inbox(q))' = Inbox(q)
  BY <1>2, <1>5 DEF Inbox
<1>12. Inbox(p) = Inbox(p)' \cup {job[p]}
  BY <1>2, <1>4, <1>5 DEF Inbox
<1>13. Told(p)' = Told(p)
  BY <1>2, <1>11 DEF Told, q
<1>14. /\ \A t \in Told(q)' : t \in Told(q)
       /\ \A t \in Told(q) : t \in Told(q)' \/ (t = job[p] /\ a \in Items)
       /\ a \in Items => job[p] \in Told(q)
  BY <1>0, <1>1, <1>2, <1>12 DEF Told
<1>15. ASSUME NEW b \in Items
       PROVE  /\ b = a => (Floor(p, b))' = v /\ Floor(p, b) <= v /\ v <= MaxHigh
              /\ b # a => (Floor(p, b))' = Floor(p, b)
              /\ (Floor(q, b))' = Floor(q, b)
  <2>1. b \in Addrs /\ ram[p][b] \in 0 .. MaxHigh + 1 /\ MaxHigh \in Nat
    BY <1>3 DEF ItemNumbers
  <2>2. (Floor(p, b))' = ram'[p][b]
    BY <1>4, <1>5 DEF Floor
  <2>3. CASE b = a
    <3>1. v \in 0 .. MaxHigh
      BY <1>0, <1>2, <1>3, <2>3 DEF ItemNumbers
    <3>2. Floor(p, b) = IF v < ram[p][b] THEN v ELSE ram[p][b]
      BY <1>0, <1>2, <2>3 DEF Floor
    <3>3. Floor(p, b) <= v
      BY <2>1, <3>1, <3>2
    <3>4. (Floor(q, b))' = Floor(q, b)
      BY <1>1, <1>5, <1>7, <2>1 DEF Floor
    <3> QED  BY <1>7, <2>1, <2>2, <2>3, <3>1, <3>3, <3>4
  <2>4. CASE b # a
    <3>1. Floor(p, b) = ram[p][b]
      BY <1>0, <2>4 DEF Floor
    <3>2. (Floor(q, b))' = Floor(q, b)
      BY <1>1, <1>5, <1>7, <2>1 DEF Floor
    <3> QED  BY <1>7, <2>1, <2>2, <2>4, <3>1, <3>2
  <2> QED  BY <2>3, <2>4
<1>16. \A i \in Players, b \in Items : Floor(i, b) <= (Floor(i, b))'
  BY <1>1, <1>3, <1>15 DEF ItemNumbers
<1>17. a \in Items => v <= v /\ v \in 0 .. MaxHigh
  <2>1. a \in Items => v \in 0 .. MaxHigh
    BY <1>0, <1>2, <1>3 DEF ItemNumbers
  <2> QED  BY <2>1, RecordAssumption
<1>18. \A i \in Players : \A t \in Told(i) : t \in Told(i)' \/ t.value <= (Floor(Partner(i), t.addr))'
  <2>1. ASSUME NEW t \in Told(q), t = job[p], a \in Items PROVE t.value <= (Floor(p, t.addr))'
    BY <1>0, <1>15, <1>17, <2>1
  <2> QED  BY <1>1, <1>13, <1>14, <2>1
<1>19. a \in Items => (Backed(p, a, cache[p][a]) /\ Arrives(p, a, cache[p][a]))'
  <2> SUFFICES ASSUME a \in Items PROVE (Backed(p, a, cache[p][a]) /\ Arrives(p, a, cache[p][a]))'
    OBVIOUS
  <2>1. cache'[p][a] = v /\ v <= (Floor(p, a))' /\ v <= MaxHigh
    BY <1>8, <1>15, <1>17
  <2>2. Backed(q, a, v)
    BY <1>0, <1>1, <1>14 DEF ItemInv, ToldBacked
  <2>3. v <= (Floor(q, a))'
    BY <1>15, <2>2 DEF Backed
  <2> QED  BY <2>1, <2>3 DEF Backed, Arrives, q
<1>20. \A i \in Players, b \in Items :
         cache'[i][b] = cache[i][b] \/ (Backed(i, b, cache[i][b]) /\ Arrives(i, b, cache[i][b]))'
  <2> SUFFICES ASSUME NEW i \in Players, NEW b \in Items, cache'[i][b] # cache[i][b]
               PROVE  (Backed(i, b, cache[i][b]) /\ Arrives(i, b, cache[i][b]))'
    OBVIOUS
  <2>1. i = p /\ b = a
    BY <1>8 DEF Items
  <2> QED  BY <1>19, <2>1
<1>21. \A i \in Players : pc'[i] \in Draining => pc[i] \in Draining /\ snap'[i] = snap[i]
  BY <1>1, <1>2, <1>4, <1>5
<1> QED  BY <1>1, <1>9, <1>10, <1>13, <1>14, <1>16, <1>18, <1>20, <1>21 DEF Keeps

\* A game that plays or shows garbage only ever raises an item.
LEMMA ItemsPlayed ==
  ASSUME Steady, ItemInv, NEW p \in Players, NEW a \in Addrs, GamePlays(p, a) \/ GameGlitches(p, a)
  PROVE  Online' /\ Armed' /\ Keeps
<1> DEFINE q == Partner(p)
<1>1. q \in Players /\ q # p /\ Partner(q) = p /\ \A j \in Players : j = p \/ j = q
  BY TwoPlayers
<1>2. ItemNumbers /\ Shape /\ Memory
  BY ItemTypes DEF ItemInv, SyncInv
<1>3. UNCHANGED <<cache, forceSend, sleepQueue, resyncQueue, gate, pc, job, snap, chan, down>>
  BY DEF GamePlays, GameGlitches, engine, thread, network
<1>4. \E v : /\ ram' = [ram EXCEPT ![p][a] = v]
             /\ a \in HighAddrs => \/ v \in 0 .. MaxHigh /\ v > ram[p][a] /\ p \in Forced
                                   \/ v = MaxHigh + 1
  <2>1. CASE GamePlays(p, a)
    <3>1. PICK v \in GameValues(a, ram[p][a]) : ram' = [ram EXCEPT ![p][a] = v]
      BY <2>1 DEF GamePlays
    <3>2. a \in HighAddrs => v \in {n \in 0 .. MaxHigh : n > ram[p][a]}
      BY <3>1, RecordAssumption DEF GameValues
    <3>3. p \in Forced
      BY <2>1 DEF GamePlays, Steady
    <3> QED  BY <3>1, <3>2, <3>3
  <2>2. CASE GameGlitches(p, a)
    BY <2>2 DEF GameGlitches
  <2> QED  BY <2>1, <2>2
<1>5. PICK v : /\ ram' = [ram EXCEPT ![p][a] = v]
               /\ a \in HighAddrs => \/ v \in 0 .. MaxHigh /\ v > ram[p][a] /\ p \in Forced
                                     \/ v = MaxHigh + 1
  BY <1>4
<1>6. /\ ram'[p][a] = v
      /\ \A j \in Players, b \in Addrs : <<j, b>> # <<p, a>> => ram'[j][b] = ram[j][b]
  BY <1>2, <1>5 DEF Shape
<1>7. \A i \in Players : Told(i)' = Told(i)
  BY <1>3 DEF Told, Inbox
<1>8. \A i \in Players, b \in Items : ram[i][b] <= ram'[i][b] /\ ram'[i][b] \in Int
  <2> SUFFICES ASSUME NEW i \in Players, NEW b \in Items
               PROVE  ram[i][b] <= ram'[i][b] /\ ram'[i][b] \in Int
    OBVIOUS
  <2>1. ram[i][b] \in 0 .. MaxHigh + 1 /\ MaxHigh \in Nat /\ b \in Addrs /\ b \in HighAddrs
    BY <1>2 DEF ItemNumbers
  <2>2. CASE <<i, b>> = <<p, a>>
    BY <1>5, <1>6, <2>1, <2>2
  <2>3. CASE <<i, b>> # <<p, a>>
    BY <1>6, <2>1, <2>3
  <2> QED  BY <2>2, <2>3
<1>9. ASSUME NEW i \in Players, NEW b \in Items PROVE Floor(i, b) <= (Floor(i, b))'
  <2>1. /\ ram[i][b] \in Int /\ (pc[i] \in Writing /\ job[i].addr = b => job[i].value \in Int)
        /\ Floor(i, b) \in Int
    BY <1>2 DEF ItemNumbers
  <2>2. ram[i][b] <= ram'[i][b] /\ ram'[i][b] \in Int
    BY <1>8
  <2> QED  BY <1>3, <2>1, <2>2 DEF Floor
<1>10. Online'
  BY <1>3 DEF ItemInv, Online
<1>11. Armed'
  <2> SUFFICES ASSUME NEW i \in Players, NEW b \in Items, cache[i][b] = None, i \notin Forced
               PROVE  ram'[i][b] \in {0, MaxHigh + 1}
    BY <1>3 DEF ItemInv, Armed
  <2>1. ram[i][b] \in {0, MaxHigh + 1} /\ b \in Addrs /\ b \in HighAddrs
    BY DEF ItemInv, Armed, Items
  <2> QED  BY <1>5, <1>6, <2>1
<1> QED  BY <1>3, <1>7, <1>9, <1>10, <1>11 DEF Keeps

\* One message for each address of a set.
LEMMA FramesRange ==
  ASSUME NEW P \in SUBSET Addrs, NEW l \in Seq(P), Range(l) = P, NEW v
  PROVE  Range([n \in DOMAIN l |-> Data(l[n], v[l[n]])]) = {Data(a, v[a]) : a \in P}
<1>1. P = {l[n] : n \in DOMAIN l}
  BY DEF Range
<1>2. Range([n \in DOMAIN l |-> Data(l[n], v[l[n]])]) = {Data(l[n], v[l[n]]) : n \in DOMAIN l}
  BY DEF Range
<1> QED  BY <1>1, <1>2

\* The startup broadcast carries every item but the missing ones.
LEMMA StartupRange ==
  ASSUME SyncInv, NEW p \in Players
  PROVE  /\ Startup(p) \in Seq(Frames)
         /\ Range(Startup(p)) = {Data(a, ram[p][a]) : a \in
              {b \in Addrs : forceSend[p] /\ ram[p][b] # Zero(b) /\ b \notin DeltaAddrs}}
<1> DEFINE P == {b \in Addrs : forceSend[p] /\ ram[p][b] # Zero(b) /\ b \notin DeltaAddrs}
           l == InOrder(P)
<1>1. P \in SUBSET Addrs
  OBVIOUS
<1>2. Startup(p) = [n \in DOMAIN l |-> Data(l[n], ram[p][l[n]])]
  BY DEF Startup
<1>3. \A a \in P : ram[p][a] \in Payload(a)
  <2>1. \A a \in Addrs : ram[p][a] \in Value(a)
    BY DEF SyncInv, Memory
  <2> QED  BY <1>1, <2>1, SentValue
<1> HIDE DEF P
<1>4. l \in Seq(P) /\ Range(l) = P
  BY <1>1, InOrderType, InOrderAll
<1> HIDE DEF l
<1>5. Startup(p) \in Seq(Frames)
  BY <1>1, <1>2, <1>3, <1>4, FramesOf
<1>6. Range(Startup(p)) = {Data(a, ram[p][a]) : a \in P}
  BY <1>1, <1>2, <1>4, FramesRange
<1> QED  BY <1>5, <1>6 DEF P

\* The full poll: what is cached for the first time is broadcast.
LEMMA ItemsPolled ==
  ASSUME ItemInv, NEW p \in Players, Snapshot(p)
  PROVE  Online' /\ Armed' /\ Keeps
<1> DEFINE q == Partner(p)
<1>1. q \in Players /\ q # p /\ Partner(q) = p /\ \A j \in Players : j = p \/ j = q
  BY TwoPlayers
<1> HIDE DEF q
<1>2. /\ ItemNumbers /\ Shape /\ Control /\ SyncInv /\ Online
  BY ItemTypes DEF ItemInv, SyncInv
<1>3. /\ snap' = [snap EXCEPT ![p] = ram[p]] /\ pc' = [pc EXCEPT ![p] = "drain"]
      /\ UNCHANGED <<ram, sleepQueue, gate, job, down>>
      /\ pc[p] \in {"gated", "idle"} /\ resyncQueue[p] = <<>> /\ Plausible(p)
  BY DEF Snapshot, Probed, FullPoll, Goto, games
<1>4. /\ snap'[p] = ram[p] /\ snap'[q] = snap[q] /\ pc'[p] = "drain" /\ pc'[q] = pc[q]
  BY <1>1, <1>2, <1>3 DEF Shape, Control
<1>5. pc[p] \notin Writing /\ pc'[p] \notin Writing /\ "drain" \in Labels \ Writing
  BY <1>3, <1>4 DEF Writing, Labels
<1>6. \A a \in Items : ram[p][a] \in 0 .. MaxHigh
  <2> SUFFICES ASSUME NEW a \in Items PROVE ram[p][a] \in 0 .. MaxHigh
    OBVIOUS
  <2>1. a \in Addrs /\ a \in HighAddrs /\ ram[p][a] \in 0 .. MaxHigh + 1 /\ MaxHigh \in Nat
    BY <1>2 DEF ItemNumbers
  <2>2. ~(ram[p][a] > MaxHigh)
    BY <1>3, <2>1 DEF Plausible, Implausible
  <2> QED  BY <2>1, <2>2
<1>7. ASSUME NEW b \in Items
      PROVE  /\ (Floor(p, b))' = ram[p][b] /\ Floor(p, b) = ram[p][b]
             /\ (Floor(q, b))' = Floor(q, b) /\ Floor(q, b) \in 0 .. MaxHigh + 1
  BY <1>1, <1>2, <1>3, <1>4, <1>5 DEF Floor, ItemNumbers
<1>8. \A i \in Players, b \in Items : Floor(i, b) <= (Floor(i, b))'
  BY <1>1, <1>2, <1>7 DEF ItemNumbers
<1>9. ASSUME NEW b \in Items, NEW v, v = ram[p][b] PROVE Backed(p, b, v)'
  BY <1>6, <1>7, <1>9 DEF Backed
<1>10. \A i \in Players, a \in Items : pc'[i] \in Draining =>
         \/ pc[i] \in Draining /\ snap'[i] = snap[i]
         \/ Backed(i, a, snap[i][a])'
  <2>1. ASSUME NEW a \in Items PROVE Backed(p, a, snap[p][a])'
    <3>1. PICK v : v = ram[p][a]
      OBVIOUS
    <3>2. v = snap'[p][a] /\ Backed(p, a, v)'
      BY <1>4, <1>9, <3>1
    <3> QED  BY <3>2
  <2> QED  BY <1>1, <1>4, <2>1
<1>11. CASE didCache[p]
  <2>1. UNCHANGED <<cache, forceSend, resyncQueue, chan>>
    BY <1>11 DEF Snapshot
  <2>2. Online' /\ Armed'
    BY <1>3, <2>1 DEF ItemInv, Online, Armed
  <2>3. Inbox(p)' = Inbox(p) /\ (Inbox(q))' = Inbox(q)
    BY <1>3, <1>4, <1>5, <2>1 DEF Inbox
  <2>4. Told(p)' = Told(p) /\ Told(q)' = Told(q)
    BY <1>1, <2>1, <2>3 DEF Told, q
  <2> QED  BY <1>1, <1>8, <1>10, <2>1, <2>2, <2>4 DEF Keeps
<1>12. CASE ~didCache[p]
  <2> DEFINE s == Startup(p)
             now == IF p \in Edn8 THEN Chunk(s) ELSE s
             later == IF p \in Edn8 THEN Rest(s) ELSE <<>>
  <2>1. /\ cache' = [cache EXCEPT ![p] = FirstCache(@, ram[p])]
        /\ chan' = Sent(p, now)
        /\ resyncQueue' = [resyncQueue EXCEPT ![p] = later]
        /\ forceSend' = [forceSend EXCEPT ![p] = later # <<>>]
    BY <1>12 DEF Snapshot
  <2>2. s \in Seq(Frames)
    BY <1>2, StartupRange
  <2>3. now \in Seq(Frames) /\ Range(now) \cup Range(later) = Range(s)
    <3>1. Range(<<>>) = {}
      BY DEF Range
    <3> HIDE DEF s
    <3> QED  BY <2>2, <3>1, ChunkTypes, RangeChunk
  <2> HIDE DEF s, now, later
  <2>4. Inbox(p)' = Inbox(p) /\ (Inbox(q))' = Inbox(q) \cup Range(now) /\ Online'
    BY <1>3, <1>5, <2>1, <2>3, SentBox DEF q
  <2>5. /\ resyncQueue'[p] = later /\ resyncQueue'[q] = resyncQueue[q]
        /\ forceSend'[q] = forceSend[q] /\ cache'[q] = cache[q]
        /\ \A a \in Addrs : cache'[p][a] = IF cache[p][a] = None THEN ram[p][a] ELSE cache[p][a]
    BY <1>1, <1>2, <2>1 DEF Shape, Control, FirstCache
  <2>6. Told(q)' = Told(q)
    BY <1>1, <2>4, <2>5 DEF Told
  <2>7. Told(p)' = Told(p) \cup {t \in Range(s) : t.addr \in Items}
    <3>1. Range(resyncQueue[p]) = {}
      BY <1>3 DEF Range
    <3> QED  BY <2>3, <2>4, <2>5, <3>1 DEF Told, q
  <2>8. \A t \in Range(s) : t.value = ram[p][t.addr]
    BY <1>2, StartupRange DEF s, Data
  <2>9. \A t \in Told(p)' : t \in Told(p) \/ Backed(p, t.addr, t.value)'
    BY <1>9, <2>7, <2>8
  <2>10. ASSUME NEW a \in Items, cache[p][a] = None, NEW v, v = ram[p][a] PROVE Arrives(p, a, v)'
    <3>1. v \in 0 .. MaxHigh /\ MaxHigh \in Nat
      BY <1>6, <2>10, RecordAssumption
    <3>2. CASE v = 0
      <4>1. v <= (Floor(q, a))'
        BY <1>7, <3>2, RecordAssumption
      <4> QED  BY <4>1 DEF Arrives, q
    <3>3. CASE v # 0
      <4>1. forceSend[p]
        <5>1. (p \in Forced => forceSend[p]) /\ (p \notin Forced => v \in {0, MaxHigh + 1})
          BY <2>10 DEF ItemInv, Armed
        <5> QED  BY <3>1, <3>3, <5>1
      <4>2. a \in Addrs /\ Zero(a) = 0 /\ a \notin DeltaAddrs
        BY RecordAssumption DEF Items, Zero
      <4>3. Data(a, v) \in Range(s) /\ Data(a, v).addr = a /\ Data(a, v).value = v
        BY <1>2, <2>10, <3>3, <4>1, <4>2, StartupRange DEF s, Data
      <4>4. Data(a, v) \in Told(p)'
        BY <2>7, <4>3
      <4>5. v <= v
        BY <3>1
      <4> QED  BY <4>3, <4>4, <4>5 DEF Arrives
    <3> QED  BY <3>2, <3>3
  <2>11. ASSUME NEW a \in Items, cache'[p][a] # cache[p][a]
         PROVE  (Backed(p, a, cache[p][a]) /\ Arrives(p, a, cache[p][a]))'
    <3>1. PICK v : v = ram[p][a]
      OBVIOUS
    <3>2. cache[p][a] = None /\ cache'[p][a] = v
      BY <2>5, <2>11, <3>1 DEF Items
    <3>3. Backed(p, a, v)' /\ Arrives(p, a, v)'
      BY <1>9, <2>10, <3>1, <3>2
    <3> QED  BY <3>2, <3>3
  <2>12. Armed'
    <3>1. ASSUME NEW a \in Items PROVE cache'[p][a] # None
      <4>1. a \in Addrs /\ ram[p][a] \in Value(a)
        BY <1>2 DEF SyncInv, Memory, Items
      <4> QED  BY <2>5, <4>1, SyncAssumption
    <3> QED  BY <1>1, <1>3, <2>5, <3>1 DEF ItemInv, Armed
  <2> QED  BY <1>1, <1>8, <1>10, <2>4, <2>5, <2>6, <2>7, <2>9, <2>11, <2>12 DEF Keeps
<1> QED  BY <1>11, <1>12

\* A message is taken from the sleep queue.
LEMMA ItemsDrained ==
  ASSUME ItemInv, NEW p \in Players, DrainSleep(p)
  PROVE  Online' /\ Armed' /\ Keeps
<1>1. PICK t : t = Head(sleepQueue[p])
  OBVIOUS
<1>2. /\ pc[p] = "drain" /\ sleepQueue[p] # <<>> /\ Examine(p, t, "writeDrain", "drain")
      /\ sleepQueue' = [sleepQueue EXCEPT ![p] = Tail(@)]
      /\ UNCHANGED <<ram, cache, snap, resyncQueue, forceSend, gate, chan, down>>
  BY <1>1 DEF DrainSleep, games, network
<1>3. sleepQueue \in [Players -> Seq(Frames)]
  BY DEF ItemInv, SyncInv, Control
<1>4. Range(sleepQueue[p]) = {t} \cup Range(Tail(sleepQueue[p])) /\ t \in Frames
  BY <1>1, <1>2, <1>3, RangeHead
<1>5. /\ sleepQueue'[p] = Tail(sleepQueue[p])
      /\ \A j \in Players \ {p} : chan'[j] = chan[j] /\ sleepQueue'[j] = sleepQueue[j]
  BY <1>2, <1>3
<1>6. Online'
  BY <1>2 DEF ItemInv, Online
<1>7. Range(chan[p]) \cup Range(sleepQueue[p]) = {t} \cup Range(chan'[p]) \cup Range(sleepQueue'[p])
  BY <1>2, <1>4, <1>5
<1>8. pc[p] \notin Writing
  BY <1>2 DEF Writing
<1>9. Armed' /\ Keeps
  BY <1>2, <1>4, <1>5, <1>7, <1>8, ItemsTaken
<1> QED  BY <1>6, <1>9

\* diff sends every item it caches.
LEMMA ItemsDiffed ==
  ASSUME ItemInv, NEW p \in Players, Diff(p)
  PROVE  Online' /\ Armed' /\ Keeps
<1> DEFINE q == Partner(p)
           change(a) == Changed(a, snap[p][a], cache[p][a], FALSE)
           allowed(a) == snap[p][a] # cache[p][a] /\ change(a).allow
           P == {a \in Addrs : allowed(a)}
           l == InOrder(P)
           s == [n \in DOMAIN l |-> Data(l[n], change(l[n]).value)]
           v == [a \in Addrs |-> change(a).value]
<1>1. q \in Players /\ q # p /\ Partner(q) = p /\ \A j \in Players : j = p \/ j = q
  BY TwoPlayers
<1>2. /\ ItemNumbers /\ Shape /\ Control /\ SyncInv /\ Online
  BY ItemTypes DEF ItemInv, SyncInv
<1>3. /\ pc[p] = "drain" /\ pc' = [pc EXCEPT ![p] = "idle"] /\ chan' = Sent(p, s)
      /\ cache' = [cache EXCEPT ![p] = [a \in Addrs |->
           IF allowed(a) \/ SuppressedDelta(a, snap[p][a], @[a]) THEN snap[p][a] ELSE @[a]]]
      /\ UNCHANGED <<ram, forceSend, sleepQueue, resyncQueue, gate, job, snap, down>>
  BY ZenonT(60) DEF Diff, Goto, games
<1>4. pc'[p] = "idle" /\ pc'[q] = pc[q] /\ cache'[q] = cache[q]
  BY <1>1, <1>2, <1>3, ZenonT(60) DEF Shape, Control
<1>5. pc[p] \notin Writing /\ pc'[p] \notin Writing \cup Draining /\ "idle" \in Labels \ Writing
  BY <1>3, <1>4, ZenonT(60) DEF Writing, Draining, Labels
<1>6. \A a \in Addrs : snap[p][a] \in Value(a) /\ cache[p][a] \in Value(a)
  BY <1>2, <1>3 DEF SyncInv, Memory, CacheFull
<1>7. \A a \in Items : /\ v[a] = snap[p][a] /\ (allowed(a) => a \in P)
                       /\ cache'[p][a] = IF allowed(a) THEN snap[p][a] ELSE cache[p][a]
  <2> SUFFICES ASSUME NEW a \in Items
               PROVE  /\ v[a] = snap[p][a] /\ (allowed(a) => a \in P)
                      /\ cache'[p][a] = IF allowed(a) THEN snap[p][a] ELSE cache[p][a]
    OBVIOUS
  <2>1. a \in Addrs /\ a \in HighAddrs /\ a \notin OrAddrs \cup HeartAddrs /\ a \notin Bombs
    BY RecordAssumption DEF Items
  <2>2. change(a).value = snap[p][a]
    BY <2>1 DEF Changed, HighChanged
  <2>3. ~SuppressedDelta(a, snap[p][a], cache[p][a])
    BY <2>1 DEF SuppressedDelta
  <2>4. cache'[p][a] = IF allowed(a) THEN snap[p][a] ELSE cache[p][a]
    <3> HIDE DEF allowed
    <3> QED  BY <1>2, <1>3, <2>1, <2>3 DEF Shape
  <2> QED  BY <2>1, <2>2, <2>4
<1>8. P \in SUBSET Addrs /\ \A a \in P : v[a] \in Payload(a)
  BY <1>6, SentValue
<1> HIDE DEF P
<1>9. l \in Seq(P) /\ Range(l) = P
  BY <1>8, InOrderType, InOrderAll
<1>10. s = [n \in DOMAIN l |-> Data(l[n], v[l[n]])]
  <2>1. \A n \in DOMAIN l : l[n] \in Addrs
    <3> HIDE DEF l
    <3> QED  BY <1>8, <1>9
  <2> HIDE DEF l
  <2> QED  BY <2>1
<1> HIDE DEF l, s, v, allowed, change, q
<1>11. s \in Seq(Frames) /\ Range(s) = {Data(a, v[a]) : a \in P}
  BY <1>8, <1>9, <1>10, FramesOf, FramesRange
<1>12. Inbox(p)' = Inbox(p) /\ (Inbox(q))' = Inbox(q) \cup Range(s) /\ Online'
  BY <1>3, <1>5, <1>11, SentBox DEF q
<1>13. Told(q)' = Told(q)
  BY <1>1, <1>3, <1>12 DEF Told
<1>14. Told(p)' = Told(p) \cup {t \in Range(s) : t.addr \in Items}
  BY <1>3, <1>12 DEF Told, q
<1>15. ASSUME NEW b \in Items
       PROVE  (Floor(p, b))' = Floor(p, b) /\ (Floor(q, b))' = Floor(q, b)
  BY <1>3, <1>4, <1>5 DEF Floor
<1>16. \A i \in Players, b \in Items : Floor(i, b) <= (Floor(i, b))'
  BY <1>1, <1>2, <1>15 DEF ItemNumbers
<1>17. ASSUME NEW b \in Items, NEW w, w = snap[p][b] PROVE Backed(p, b, w)'
  <2>1. Backed(p, b, w)
    BY <1>3, <1>17 DEF ItemInv, SnapBacked, Draining
  <2> QED  BY <1>15, <2>1 DEF Backed
<1>18. \A t \in Told(p)' : t \in Told(p) \/ Backed(p, t.addr, t.value)'
  <2>1. \A t \in Range(s) : t.value = v[t.addr]
    BY <1>11 DEF Data
  <2> QED  BY <1>7, <1>14, <1>17, <2>1
<1>19. ASSUME NEW a \in Items, cache'[p][a] # cache[p][a]
       PROVE  (Backed(p, a, cache[p][a]) /\ Arrives(p, a, cache[p][a]))'
  <2>1. PICK w : w = snap[p][a]
    OBVIOUS
  <2>2. cache'[p][a] = w /\ v[a] = w /\ a \in P
    BY <1>7, <1>19, <2>1
  <2>3. Data(a, w) \in Told(p)' /\ Data(a, w).addr = a /\ Data(a, w).value = w
    BY <1>11, <1>14, <2>2 DEF Data
  <2>4. w <= w
    BY <1>2, <2>1 DEF ItemNumbers
  <2>5. Arrives(p, a, w)'
    BY <2>3, <2>4 DEF Arrives
  <2>6. Backed(p, a, w)'
    BY <1>17, <2>1
  <2> QED  BY <2>2, <2>5, <2>6
<1>20. Armed'
  <2>1. ASSUME NEW a \in Items PROVE cache'[p][a] # None
    <3>1. a \in Addrs /\ cache'[p][a] \in Value(a)
      BY <1>6, <1>7 DEF Items
    <3> QED  BY <3>1, SyncAssumption
  <2> QED  BY <1>1, <1>3, <1>4, <2>1 DEF ItemInv, Armed
<1> QED  BY <1>1, <1>3, <1>4, <1>5, <1>12, <1>13, <1>14, <1>16, <1>18, <1>19, <1>20, SMTT(40) DEF Keeps

-----------------------------------------------------------------------------
(* The theorems *)

\* A new session satisfies the invariant.
LEMMA ItemsInitial ==
  Init => ItemInv
<1> SUFFICES ASSUME Init PROVE ItemInv
  OBVIOUS
<1>1. SyncInv
  BY SyncInitial
<1>2. ItemNumbers
  BY <1>1, ItemTypes
<1>3. Online
  BY DEF Init, Online
<1>4. \A i \in Players : Told(i) = {}
  <2> SUFFICES ASSUME NEW i \in Players PROVE Told(i) = {}
    OBVIOUS
  <2>1. Range(<<>>) = {}
    BY DEF Range
  <2>2. Partner(i) \in Players
    BY TwoPlayers
  <2>3. Inbox(Partner(i)) = {}
    BY <2>1, <2>2 DEF Init, Inbox, Writing
  <2> QED  BY <2>1, <2>3 DEF Init, Told
<1>5. ToldBacked
  BY <1>4 DEF ToldBacked
<1>6. \A i \in Players, a \in Items : cache[i][a] = None
  BY DEF Init, Items
<1>7. CacheBacked /\ Promised /\ SnapBacked
  BY <1>6 DEF Init, CacheBacked, Promised, SnapBacked, Draining
<1>8. Armed
  <2> SUFFICES ASSUME NEW i \in Players, NEW a \in Items
               PROVE  /\ resyncQueue[i] = <<>> /\ (i \in Forced => forceSend[i])
                      /\ i \notin Forced => ram[i][a] = 0
    BY DEF Armed
  <2>1. a \in Addrs /\ Zero(a) = 0
    BY RecordAssumption DEF Items, Zero
  <2> QED  BY <2>1 DEF Init
<1> QED  BY <1>1, <1>3, <1>5, <1>7, <1>8 DEF ItemInv

\* Every step of the bridges and the games keeps it; faults, gates and cuts do
\* not happen.
LEMMA ItemsInductive ==
  ASSUME Steady, ItemInv, [Next]_vars
  PROVE  ItemInv'
<1>1. SyncInv'
  BY SyncInductive DEF ItemInv
<1>2. SUFFICES Online' /\ Armed' /\ Keeps
  BY <1>1, Kept DEF ItemInv
<1>3. CASE Next
  <2>1. PICK p \in Players : \/ Receive(p) \/ Write(p) \/ WriteFails(p) \/ Poll(p) \/ Game(p)
                            \/ Cut(p) \/ Rejoin(p)
    BY <1>3 DEF Next
  <2>2. CASE Poll(p)
    <3>1. ~DrainGate(p)
      BY DEF DrainGate, ItemInv, Online
    <3> QED  BY <2>2, <3>1, ItemsQuiet, ItemsChunk, ItemsPolled, ItemsDrained, ItemsDiffed DEF Poll
  <2>3. CASE Game(p)
    BY <2>3, ItemsQuiet, ItemsPlayed DEF Game
  <2>4. ~WriteFails(p) /\ ~Rejoin(p)
    BY DEF WriteFails, Rejoin, Steady, ItemInv, Online
  <2>5. ~Cut(p)
    <3>1. cuts \in 0 .. MaxCuts /\ MaxCuts = 0
      BY DEF Steady, ItemInv, SyncInv, Control
    <3> QED  BY <3>1 DEF Cut
  <2> QED  BY <2>1, <2>2, <2>3, <2>4, <2>5, ItemsReceived, ItemsWritten
<1>4. CASE UNCHANGED vars
  <2>1. UNCHANGED <<ram, cache, snap, forceSend, sleepQueue, resyncQueue, gate, job, chan, down, pc>>
    BY <1>4 DEF vars, games, engine, thread, network
  <2>2. Online' /\ Armed'
    BY <2>1 DEF ItemInv, Online, Armed
  <2>3. \A i \in Players : Told(i)' = Told(i)
    BY <2>1 DEF Told, Inbox
  <2> QED  BY <2>1, <2>2, <2>3, QuietKeeps
<1> QED  BY <1>3, <1>4

\* Whatever two bridges do, no item one of them knows of is lost.
THEOREM ItemInvariant ==
  ASSUME Steady
  PROVE  Spec => []ItemInv
BY ItemsInitial, ItemsInductive, PTL DEF Spec

\* When both bridges have nothing left to do, the games have the same items.
ItemsAgree == (\A i \in Players : Settled(i)) =>
  \A a \in Items, i, j \in Players : ram[i][a] = ram[j][a]

\* The reason: what a settled bridge's game has it has cached, and what it has
\* cached the partner's game has.
LEMMA SettledItems ==
  ItemInv => ItemsAgree
<1> SUFFICES ASSUME ItemInv, \A i \in Players : Settled(i), NEW a \in Items
             PROVE  \A i, j \in Players : ram[i][a] = ram[j][a]
  BY DEF ItemsAgree
<1>1. ItemNumbers
  BY ItemTypes DEF ItemInv
<1>2. ASSUME NEW i \in Players PROVE ram[i][a] <= ram[Partner(i)][a]
  <2> DEFINE j == Partner(i)
  <2>1. j \in Players /\ Partner(j) = i
    BY TwoPlayers
  <2>2. /\ a \in Addrs /\ a \in HighAddrs /\ a \notin OrAddrs \cup HeartAddrs /\ MaxHigh \in Nat
        /\ ram[i][a] \in 0 .. MaxHigh + 1 /\ ram[j][a] \in 0 .. MaxHigh + 1
    BY <1>1, <2>1, RecordAssumption DEF ItemNumbers
  <2>3. /\ pc[j] \notin Writing /\ chan[j] = <<>> /\ sleepQueue[j] = <<>> /\ resyncQueue[i] = <<>>
        /\ didCache[i] /\ ~Changed(a, ram[i][a], cache[i][a], FALSE).allow
    BY <2>1, <2>2 DEF Settled, Writing
  <2>4. cache[i][a] \in 0 .. MaxHigh + 1 /\ cache[i][a] # None
    <3>1. cache[i][a] \in Value(a)
      BY <2>2, <2>3 DEF ItemInv, SyncInv, CacheFull
    <3> QED  BY <2>2, <3>1, ValueOf, SyncAssumption
  <2>5. ram[i][a] <= cache[i][a]
    <3>1. Changed(a, ram[i][a], cache[i][a], FALSE).allow = (ram[i][a] > cache[i][a])
      BY <2>2 DEF Changed, HighChanged
    <3>2. ~(ram[i][a] > cache[i][a])
      BY <2>3, <3>1
    <3> QED  BY <2>2, <2>4, <3>2
  <2>6. cache[i][a] <= ram[j][a]
    <3>1. Arrives(i, a, cache[i][a])
      BY <2>4 DEF ItemInv, Promised
    <3>2. Told(i) = {}
      <4>1. Range(<<>>) = {}
        BY DEF Range
      <4> QED  BY <2>3, <4>1 DEF Told, Inbox
    <3>3. Floor(j, a) = ram[j][a]
      BY <2>3 DEF Floor
    <3> QED  BY <3>1, <3>2, <3>3 DEF Arrives
  <2> HIDE DEF j
  <2>7. ram[i][a] <= ram[j][a]
    BY <2>2, <2>4, <2>5, <2>6
  <2> QED  BY <2>7 DEF j
<1> SUFFICES ASSUME NEW i \in Players, NEW j \in Players PROVE ram[i][a] = ram[j][a]
  OBVIOUS
<1>3. j = i \/ (j = Partner(i) /\ i = Partner(j))
  BY TwoPlayers
<1> QED  BY <1>1, <1>2, <1>3 DEF ItemNumbers

\* Two games in step: with working endpoints, a lasting connection, no gated address
\* and force_send wherever a game changes, both games have the same items whenever both
\* bridges are settled, however many moves both players make, whatever pauses, garbage,
\* races of a write with the game and crossing messages there were, and beside
\* counters, hearts and bit fields.
THEOREM ItemsConverge ==
  ASSUME Steady
  PROVE  Spec => []ItemsAgree
BY ItemInvariant, SettledItems, PTL

\* Where SYNC has items and counters only, that is all of Converged.
THEOREM BridgesConverge ==
  ASSUME Steady, Addrs \subseteq HighAddrs \cup DeltaAddrs
  PROVE  Spec => []Converged
<1>1. ItemsAgree => Converged
  <2> SUFFICES ASSUME ItemsAgree, \A i \in Players : Settled(i), NEW a \in Addrs,
                      NEW i \in Players, NEW j \in Players
               PROVE  Essence(a, ram[i][a]) = Essence(a, ram[j][a])
    BY DEF Converged, Agreed, SameRam
  <2>1. CASE a \in HighAddrs
    BY <2>1 DEF ItemsAgree, Items
  <2>2. CASE a \in DeltaAddrs
    BY <2>2, RecordAssumption DEF Essence
  <2> QED  BY <2>1, <2>2
<1> QED  BY <1>1, ItemsConverge, PTL
=============================================================================
