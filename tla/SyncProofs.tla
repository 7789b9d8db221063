----------------------------- MODULE SyncProofs -----------------------------
(* Two bridges keep what they write, cache and send well formed, for any    *)
(* addresses, values, bridges and bounds.                                   *)
EXTENDS SyncProps, WellFoundedInduction, FiniteSetTheorems, SequenceTheorems, TLAPS

-----------------------------------------------------------------------------
(* Values *)

\* SYNC has records of the four kinds and no others, and one kind each.
LEMMA KindsOfAddrs ==
  /\ Addrs \subseteq OrAddrs \cup HighAddrs \cup DeltaAddrs \cup HeartAddrs
  /\ Order \in Seq(Addrs)
<1>1. \A n \in DOMAIN Order : Order[n] \in OrAddrs \cup HighAddrs \cup DeltaAddrs \cup HeartAddrs
  BY RecordAssumption
<1>2. DOMAIN Order = 1 .. Len(Order) /\ Len(Order) \in Nat
  BY RecordAssumption
<1> QED  BY <1>1, <1>2, RecordAssumption DEF Addrs

\* What RAM holds at an address of each kind.
LEMMA ValueOf ==
  ASSUME NEW a \in Addrs
  PROVE  /\ a \in OrAddrs => Value(a) = SUBSET Bits
         /\ a \in HighAddrs => Value(a) = 0 .. MaxHigh + 1
         /\ a \in HeartAddrs => Value(a) = [containers : 0 .. MaxCount, filled : 0 .. MaxCount]
         /\ a \in DeltaAddrs => Value(a) = 0 .. MaxCount
BY RecordAssumption, KindsOfAddrs DEF Value

\* deltaMin, deltaMax and the byte mask keep a counter in its range.
LEMMA ClampType ==
  ASSUME NEW a, NEW n \in Int
  PROVE  Clamp(a, n) \in 0 .. MaxCount
<1>1. MaxCount \in Nat \ {0}
  BY RecordAssumption
<1>2. n >= 0 => n % (MaxCount + 1) \in 0 .. MaxCount
  BY <1>1
<1> QED  BY <1>1, <1>2 DEF Clamp

\* The nibbles of _heart_kind: no carry, and no more hearts than containers.
LEMMA HeartFits ==
  ASSUME NEW v \in [containers : 0 .. MaxCount, filled : 0 .. MaxCount],
         NEW prev \in [containers : 0 .. MaxCount, filled : 0 .. MaxCount],
         prev.filled <= prev.containers
  PROVE  NewFilled(v, prev) \in 0 .. MaxCount /\ NewFilled(v, prev) <= v.containers
<1>1. MaxCount \in Nat /\ {v.containers, prev.containers, prev.filled} \subseteq 0 .. MaxCount
  BY RecordAssumption
<1>2. CASE v.containers > prev.containers
  <2> DEFINE sum == prev.filled + (v.containers - prev.containers)
  <2>1. sum \in 0 .. MaxCount /\ sum <= v.containers
    BY <1>1, <1>2
  <2>2. sum % (MaxCount + 1) = sum
    BY <1>1, <2>1
  <2> QED  BY <1>2, <2>1, <2>2 DEF NewFilled
<1>3. CASE ~(v.containers > prev.containers)
  BY <1>1, <1>3 DEF NewFilled
<1> QED  BY <1>2, <1>3

\* What record_changed lets a bridge write on receiving v is a value of the
\* address; a bit field keeps its bits, a heart byte its shape.
LEMMA ReceivedValue ==
  ASSUME NEW a \in Addrs, NEW v \in Payload(a), NEW prev \in Value(a),
         a \in HeartAddrs => prev.filled <= prev.containers
  PROVE  /\ Changed(a, v, prev, TRUE).value \in Value(a)
         /\ a \in OrAddrs => prev \subseteq Changed(a, v, prev, TRUE).value
         /\ a \in HighAddrs => Changed(a, v, prev, TRUE).value = v
         /\ a \in HeartAddrs => Changed(a, v, prev, TRUE).value.filled
                                  <= Changed(a, v, prev, TRUE).value.containers
<1> DEFINE r == Changed(a, v, prev, TRUE)
<1>1. CASE a \in OrAddrs
  <2>1. v \in SUBSET Bits /\ prev \in SUBSET Bits /\ Value(a) = SUBSET Bits
    BY <1>1, ValueOf, RecordAssumption DEF Payload
  <2>2. r.value = MaskedValue(a, v, prev) \cup prev
    BY <1>1, RecordAssumption DEF Changed, OrChanged
  <2>3. MaskedValue(a, v, prev) \in SUBSET Bits
    BY <2>1 DEF MaskedValue
  <2> QED  BY <1>1, <2>1, <2>2, <2>3, RecordAssumption
<1>2. CASE a \in HighAddrs
  <2>1. r.value = v
    BY <1>2, RecordAssumption DEF Changed, HighChanged
  <2> QED  BY <1>2, <2>1, RecordAssumption DEF Payload
<1>3. CASE a \in HeartAddrs
  <2> DEFINE w == [containers |-> v.containers, filled |-> NewFilled(v, prev)]
  <2>1. /\ v \in [containers : 0 .. MaxCount, filled : 0 .. MaxCount]
        /\ prev \in [containers : 0 .. MaxCount, filled : 0 .. MaxCount]
    BY <1>3, ValueOf, RecordAssumption DEF Payload
  <2>2. r.value = w
    BY <1>3, RecordAssumption DEF Changed, HeartChanged
  <2>3. NewFilled(v, prev) \in 0 .. MaxCount /\ NewFilled(v, prev) <= v.containers
    BY <1>3, <2>1, HeartFits
  <2>4. w \in [containers : 0 .. MaxCount, filled : 0 .. MaxCount] /\ w.filled <= w.containers
    BY <2>1, <2>3
  <2> QED  BY <1>3, <2>2, <2>4, ValueOf, RecordAssumption
<1>4. CASE a \in DeltaAddrs
  <2>1. v \in -MaxCount .. MaxCount /\ prev \in 0 .. MaxCount /\ MaxCount \in Nat
    BY <1>4, ValueOf, RecordAssumption DEF Payload
  <2>2. r.value = Clamp(a, prev + v)
    BY <1>4, RecordAssumption DEF Changed, DeltaChanged
  <2>3. Clamp(a, prev + v) \in 0 .. MaxCount
    BY <2>1, ClampType
  <2> QED  BY <1>4, <2>2, <2>3, ValueOf, RecordAssumption
<1> QED  BY <1>1, <1>2, <1>3, <1>4, KindsOfAddrs

\* What it lets a bridge send is a legal payload.
LEMMA SentValue ==
  ASSUME NEW a \in Addrs, NEW v \in Value(a), NEW prev \in Value(a)
  PROVE  Changed(a, v, prev, FALSE).value \in Payload(a) /\ v \in Payload(a)
<1> DEFINE r == Changed(a, v, prev, FALSE)
<1>1. CASE a \in OrAddrs
  <2>1. v \in SUBSET Bits /\ prev \in SUBSET Bits /\ Payload(a) = SUBSET Bits
    BY <1>1, ValueOf, RecordAssumption DEF Payload
  <2>2. r.value = MaskedValue(a, v, prev)
    BY <1>1, RecordAssumption DEF Changed, OrChanged
  <2> QED  BY <2>1, <2>2 DEF MaskedValue
<1>2. CASE a \in HighAddrs
  BY <1>2, RecordAssumption DEF Changed, HighChanged, Payload
<1>3. CASE a \in HeartAddrs
  BY <1>3, RecordAssumption DEF Changed, HeartChanged, Payload
<1>4. CASE a \in DeltaAddrs
  <2>1. v \in 0 .. MaxCount /\ prev \in 0 .. MaxCount /\ MaxCount \in Nat
    BY <1>4, ValueOf, RecordAssumption
  <2>2. r.value = v - prev
    BY <1>4, RecordAssumption DEF Changed, DeltaChanged
  <2>3. v - prev \in -MaxCount .. MaxCount /\ v \in -MaxCount .. MaxCount
    BY <2>1
  <2>4. Payload(a) = -MaxCount .. MaxCount
    BY <1>4 DEF Payload
  <2> QED  BY <2>2, <2>3, <2>4
<1> QED  BY <1>1, <1>2, <1>3, <1>4, KindsOfAddrs

-----------------------------------------------------------------------------
(* Sequences *)

\* Induction over the naturals, as a fact about a set.
LEMMA NatSet ==
  ASSUME NEW T \in SUBSET Nat, 0 \in T, \A n \in T : n + 1 \in T
  PROVE  T = Nat
<1> DEFINE R == {ss \in Nat \X Nat : ss[1] < ss[2]}
           B == Nat \ T
<1>1. IsWellFoundedOn(R, Nat)
  BY NatLessThanWellFounded DEF OpToRel
<1>2. SUFFICES ASSUME B # {} PROVE FALSE
  OBVIOUS
<1>3. \E x \in B : \A y \in B : ~(<<y, x>> \in R)
  <2>1. B \subseteq Nat
    OBVIOUS
  <2> HIDE DEF R, B
  <2> QED  BY <1>1, <1>2, <2>1, WFMin
<1>4. PICK x \in B : \A y \in B : ~(y < x)
  <2>1. PICK x \in B : \A y \in B : ~(<<y, x>> \in R)
    BY <1>3
  <2>2. \A y \in B : (y < x) => <<y, x>> \in R
    OBVIOUS
  <2> QED  BY <2>1, <2>2
<1>5. x \in Nat /\ x # 0 /\ x - 1 \notin B
  BY <1>4
<1> QED  BY <1>4, <1>5

\* A finite set of naturals can be listed in order.
Lists(f, N) ==
  /\ f \in [1 .. Cardinality(N) -> N] /\ {f[n] : n \in DOMAIN f} = N
  /\ \A m, n \in DOMAIN f : m < n => f[m] < f[n]

LEMMA Listed ==
  ASSUME NEW k \in Nat, NEW N \in SUBSET (1 .. k)
  PROVE  IsFiniteSet(N) /\ \E f : Lists(f, N)
<1> DEFINE T == {l \in Nat : \A M \in SUBSET (1 .. l) : IsFiniteSet(M) /\ \E f : Lists(f, M)}
<1>1. 0 \in T
  <2>1. \A M \in SUBSET (1 .. 0) : M = {}
    OBVIOUS
  <2>2. IsFiniteSet({}) /\ Cardinality({}) = 0
    BY FS_EmptySet
  <2>3. Lists([n \in 1 .. 0 |-> 0], {})
    BY <2>2 DEF Lists
  <2> QED  BY <2>1, <2>2, <2>3
<1>2. ASSUME NEW l \in T PROVE l + 1 \in T
  <2>1. SUFFICES ASSUME NEW M \in SUBSET (1 .. l + 1)
                 PROVE  IsFiniteSet(M) /\ \E f : Lists(f, M)
    OBVIOUS
  <2>2. CASE l + 1 \notin M
    BY <1>2, <2>2
  <2>3. CASE l + 1 \in M
    <3> DEFINE L == M \ {l + 1}
               c == Cardinality(L)
    <3>1. L \in SUBSET (1 .. l)
      OBVIOUS
    <3>2. IsFiniteSet(L)
      BY <1>2, <3>1
    <3>3. PICK f : Lists(f, L)
      BY <1>2, <3>1
    <3>4. M = L \cup {l + 1} /\ l + 1 \notin L
      BY <2>3
    <3>5. IsFiniteSet(M) /\ Cardinality(M) = c + 1 /\ c \in Nat
      <4> HIDE DEF L
      <4>1. IsFiniteSet(L \cup {l + 1}) /\ Cardinality(L \cup {l + 1}) = Cardinality(L) + 1
        BY <3>2, <3>4, FS_AddElement
      <4> QED  BY <3>2, <3>4, <4>1, FS_CardinalityType
    <3> DEFINE g == [n \in 1 .. c + 1 |-> IF n \in 1 .. c THEN f[n] ELSE l + 1]
    <3>6. f \in [1 .. c -> L] /\ {f[n] : n \in 1 .. c} = L
      BY <3>3 DEF Lists
    <3>7. g \in [1 .. c + 1 -> M]
      BY <3>4, <3>6
    <3>8. {g[n] : n \in 1 .. c + 1} = M
      <4>1. \A n \in 1 .. c : n \in 1 .. c + 1 /\ g[n] = f[n]
        BY <3>5
      <4>2. c + 1 \in 1 .. c + 1 /\ g[c + 1] = l + 1
        BY <3>5
      <4>3. \A x \in M : \E n \in 1 .. c + 1 : g[n] = x
        <5> HIDE DEF g, L, c
        <5> QED  BY <3>4, <3>6, <4>1, <4>2
      <4> QED  BY <3>7, <4>3
    <3>9. ASSUME NEW m \in 1 .. c + 1, NEW n \in 1 .. c + 1, m < n PROVE g[m] < g[n]
      <4>1. m \in 1 .. c /\ g[m] = f[m]
        BY <3>5, <3>9
      <4>2. f[m] \in 1 .. l
        BY <3>1, <3>6, <4>1
      <4>3. CASE n \in 1 .. c
        BY <3>3, <3>6, <3>9, <4>1, <4>3 DEF Lists
      <4>4. CASE n \notin 1 .. c
        BY <4>1, <4>2, <4>4
      <4> QED  BY <4>3, <4>4
    <3>10. Lists(g, M)
      BY <3>5, <3>7, <3>8, <3>9 DEF Lists
    <3> QED  BY <3>5, <3>10
  <2> QED  BY <2>2, <2>3
<1>3. T = Nat
  <2> HIDE DEF T
  <2>1. T \in SUBSET Nat
    BY DEF T
  <2> QED  BY <1>1, <1>2, <2>1, NatSet
<1> QED  BY <1>3

\* The loops over SYNC visit addresses of the set they are about.
LEMMA InOrderType ==
  ASSUME NEW P \in SUBSET Addrs
  PROVE  InOrder(P) \in Seq(P)
<1> DEFINE N == {n \in DOMAIN Order : Order[n] \in P}
           up(f) == \A m, n \in DOMAIN f : m < n => f[m] < f[n]
           at == CHOOSE f \in [1 .. Cardinality(N) -> N] : up(f)
<1>1. Len(Order) \in Nat /\ N \in SUBSET (1 .. Len(Order))
  BY RecordAssumption
<1>2. IsFiniteSet(N) /\ \E f : Lists(f, N)
  <2> HIDE DEF N
  <2> QED  BY <1>1, Listed
<1>3. \E f \in [1 .. Cardinality(N) -> N] : up(f)
  BY <1>2 DEF Lists
<1>4. at \in [1 .. Cardinality(N) -> N]
  <2> HIDE DEF N, up
  <2> QED  BY <1>3
<1>5. Cardinality(N) \in Nat
  BY <1>2, FS_CardinalityType
<1>6. InOrder(P) = [n \in 1 .. Cardinality(N) |-> Order[at[n]]]
  <2>1. InOrder(P) = [n \in DOMAIN at |-> Order[at[n]]]
    BY DEF InOrder
  <2> QED  BY <1>4, <2>1
<1>7. \A n \in 1 .. Cardinality(N) : Order[at[n]] \in P
  BY <1>4
<1>8. InOrder(P) \in [1 .. Cardinality(N) -> P]
  <2> HIDE DEF N, at
  <2> QED  BY <1>6, <1>7
<1> QED  BY <1>5, <1>8, SeqDef

\* A message carries an address of SYNC and a payload for it.
LEMMA FrameFields ==
  /\ \A f \in Frames : f.addr \in Addrs /\ f.value \in Payload(f.addr)
  /\ \A a \in Addrs : \A v \in Payload(a) :
       Data(a, v) \in Frames /\ Data(a, v).addr = a /\ Data(a, v).value = v
BY DEF Frames, Data

\* One message for each address of a list.
LEMMA FramesOf ==
  ASSUME NEW P \in SUBSET Addrs, NEW q \in Seq(P), NEW v, \A a \in P : v[a] \in Payload(a)
  PROVE  [n \in DOMAIN q |-> Data(q[n], v[q[n]])] \in Seq(Frames)
<1>1. DOMAIN q = 1 .. Len(q) /\ Len(q) \in Nat /\ \A n \in 1 .. Len(q) : q[n] \in P
  OBVIOUS
<1>2. \A n \in 1 .. Len(q) : Data(q[n], v[q[n]]) \in Frames
  BY <1>1, FrameFields
<1> QED  BY <1>1, <1>2

\* drain_resync_send_queue cuts a queue of messages in two.
LEMMA ChunkTypes ==
  ASSUME NEW q \in Seq(Frames)
  PROVE  Chunk(q) \in Seq(Frames) /\ Rest(q) \in Seq(Frames)
<1>1. Len(q) \in Nat /\ ResyncLimit \in Nat /\ \A n \in 1 .. Len(q) : q[n] \in Frames
  BY SyncAssumption
<1>2. Chunk(q) \in Seq(Frames) /\ Len(Chunk(q)) \in 0 .. Len(q)
  BY <1>1, SubSeqProperties DEF Chunk
<1>3. Rest(q) \in Seq(Frames)
  BY <1>1, <1>2, SubSeqProperties DEF Rest
<1> QED  BY <1>2, <1>3

\* MapWriteGate.enqueue keeps a queue of messages.
LEMMA EnqueueType ==
  ASSUME NEW q \in Seq(Frames), NEW t \in Frames
  PROVE  Enqueue(q, t) \in Seq(Frames)
BY DEF Enqueue

-----------------------------------------------------------------------------
(* The inductive invariant *)

AnyValue == UNION {Value(a) : a \in Addrs}

\* The three memories of a bridge are functions on the addresses of SYNC.
Shape ==
  /\ ram \in [Players -> [Addrs -> AnyValue]] /\ snap \in [Players -> [Addrs -> AnyValue]]
  /\ cache \in [Players -> [Addrs -> AnyValue \cup {None}]]

\* The part of TypeOK about the memories, and the rest of it.
Memory == \A i \in Players, a \in Addrs :
  /\ ram[i][a] \in Value(a) /\ snap[i][a] \in Value(a)
  /\ cache[i][a] \in Value(a) \cup {None}
Labels == {"idle", "gated", "drain", "write", "writeGated", "writeDrain"}
Control ==
  /\ running \in [Players -> BOOLEAN] /\ didCache \in [Players -> BOOLEAN]
  /\ forceSend \in [Players -> BOOLEAN]
  /\ moves \in [Players -> 0 .. MaxMoves] /\ pauses \in [Players -> 0 .. PauseTicks]
  /\ sleepQueue \in [Players -> Seq(Frames)] /\ resyncQueue \in [Players -> Seq(Frames)]
  /\ gate \in [Players -> Seq(Frames)]
  /\ pc \in [Players -> Labels]
  /\ job \in [Players -> Frames \cup {None}]
  /\ chan \in [Players -> Seq(Frames \cup {PartnerReconnected})]
  /\ down \subseteq Players /\ cuts \in 0 .. MaxCuts

\* What a write in progress puts into RAM: a plausible value of the address that
\* takes away no bit the snapshot or the cache has.
JobOK(i) == pc[i] \in {"write", "writeGated", "writeDrain"} =>
  /\ job[i].addr \in Addrs /\ job[i].value \in Value(job[i].addr)
  /\ ~Implausible(job[i].addr, job[i].value)
  /\ job[i].addr \in HeartAddrs => job[i].value.filled <= job[i].value.containers
  /\ pc[i] = "writeDrain" /\ job[i].addr \in OrAddrs => snap[i][job[i].addr] \subseteq job[i].value
  /\ job[i].addr \in OrAddrs /\ cache[i][job[i].addr] # None => cache[i][job[i].addr] \subseteq job[i].value
JobsOK == \A i \in Players : JobOK(i)

\* diff only ever runs on a cache without gaps.
CacheFull == \A i \in Players : didCache[i] \/ pc[i] \in {"drain", "writeDrain"} =>
  \A a \in Addrs : cache[i][a] \in Value(a)

\* Until diff runs, the game has kept the bits of the snapshot.
SnapHonest == \A i \in Players : pc[i] \in {"drain", "writeDrain"} =>
  \A a \in OrAddrs \cap Addrs : snap[i][a] \subseteq ram[i][a]

SyncInv ==
  /\ Shape /\ Memory /\ Control /\ JobsOK /\ CacheFull /\ SnapHonest
  /\ GarbageStaysLocal /\ HeartsFit /\ CacheHonest

-----------------------------------------------------------------------------
(* Steps *)

\* A bridge has one partner.
LEMMA PartnerType ==
  ASSUME NEW i \in Players
  PROVE  Partner(i) \in Players /\ Partner(i) # i
<1>1. IsFiniteSet(Players) /\ Cardinality(Players) = 2
  BY SyncAssumption
<1>2. IsFiniteSet(Players \ {i}) /\ Cardinality(Players \ {i}) = 1
  BY <1>1, FS_RemoveElement
<1>3. Players \ {i} # {}
  BY <1>2, FS_EmptySet
<1> QED  BY <1>3 DEF Partner

\* The other bridge is the partner.
LEMMA PartnerOnly ==
  ASSUME NEW i \in Players, NEW j \in Players \ {i}
  PROVE  j = Partner(i)
<1> SUFFICES ASSUME j # Partner(i) PROVE FALSE
  OBVIOUS
<1>1. IsFiniteSet(Players \ {i}) /\ Cardinality(Players \ {i}) = 1
  BY SyncAssumption, FS_RemoveElement
<1>2. PICK x : Players \ {i} = {x}
  BY <1>1, FS_Singleton
<1> QED  BY <1>2, PartnerType

\* send_data puts messages on their way, or loses them.
LEMMA SentType ==
  ASSUME Control, NEW i \in Players, NEW q \in Seq(Frames)
  PROVE  Sent(i, q) \in [Players -> Seq(Frames \cup {PartnerReconnected})]
<1>1. chan \in [Players -> Seq(Frames \cup {PartnerReconnected})]
  BY DEF Control
<1>2. q \in Seq(Frames \cup {PartnerReconnected})
  OBVIOUS
<1>3. chan[Partner(i)] \o q \in Seq(Frames \cup {PartnerReconnected})
  BY <1>1, <1>2, PartnerType
<1> QED  BY <1>1, <1>3 DEF Sent

\* One cell of one bridge's memory is set.
LEMMA SetCell ==
  ASSUME NEW V, NEW m \in [Players -> [Addrs -> V]], NEW i \in Players, NEW a \in Addrs,
         NEW v \in V
  PROVE  LET w == [m EXCEPT ![i][a] = v]
         IN /\ w \in [Players -> [Addrs -> V]] /\ w[i][a] = v
            /\ \A j \in Players, b \in Addrs : <<j, b>> # <<i, a>> => w[j][b] = m[j][b]
OBVIOUS

\* A write in progress is one of the three labels of After.
LEMMA AfterLabels ==
  /\ DOMAIN After = {"write", "writeGated", "writeDrain"}
  /\ After["write"] = "idle" /\ After["writeGated"] = "gated" /\ After["writeDrain"] = "drain"
BY DEF After

\* handle_table_result up to its write: the message is dropped, or the write it
\* leaves for the bridge is sound.
LEMMA ExamineStep ==
  ASSUME SyncInv, NEW i \in Players, NEW t \in Frames, NEW write, NEW skip,
         \/ write = "write" /\ skip = "idle"
         \/ write = "writeGated" /\ skip = "gated"
         \/ write = "writeDrain" /\ skip = "drain" /\ pc[i] = "drain",
         Examine(i, t, write, skip), snap' = snap, cache' = cache
  PROVE  /\ pc' \in [Players -> Labels] /\ pc'[i] \in {write, skip}
         /\ \A j \in Players \ {i} : pc'[j] = pc[j]
         /\ job' \in [Players -> Frames \cup {None}]
         /\ JobsOK'
<1> DEFINE a == t.addr
           r == Changed(a, t.value, ram[i][a], TRUE)
           applies == r.allow /\ ~Implausible(a, t.value)
<1>1. /\ a \in Addrs /\ t.value \in Payload(a)
      /\ ram[i][a] \in Value(a) /\ (a \in HeartAddrs => ram[i][a].filled <= ram[i][a].containers)
      /\ pc \in [Players -> Labels] /\ job \in [Players -> Frames \cup {None}]
  BY FrameFields DEF SyncInv, Memory, Control, HeartsFit
<1>2. /\ r.value \in Value(a)
      /\ a \in OrAddrs => ram[i][a] \subseteq r.value
      /\ a \in HighAddrs => r.value = t.value
      /\ a \in HeartAddrs => r.value.filled <= r.value.containers
  <2> HIDE DEF a
  <2> QED  BY <1>1, ReceivedValue
<1>3. /\ pc' = [pc EXCEPT ![i] = IF applies THEN write ELSE skip]
      /\ job' = [job EXCEPT ![i] = IF applies THEN Data(a, r.value) ELSE None]
  BY DEF Examine, Goto
<1> HIDE DEF r, applies, a
<1>4. Data(a, r.value) \in Frames /\ Data(a, r.value).addr = a /\ Data(a, r.value).value = r.value
  <2>1. r.value \in Payload(a)
    BY <1>1, <1>2, SentValue
  <2> QED  BY <1>1, <2>1, FrameFields
<1>5. pc' \in [Players -> Labels] /\ pc'[i] = IF applies THEN write ELSE skip
  BY <1>1, <1>3 DEF Labels
<1>6. job' \in [Players -> Frames \cup {None}] /\ (applies => job'[i] = Data(a, r.value))
  BY <1>1, <1>3, <1>4
<1>7. \A j \in Players \ {i} : pc'[j] = pc[j] /\ job'[j] = job[j]
  BY <1>1, <1>3
<1>8. JobOK(i)'
  <2>1. CASE applies
    <3>1. ~Implausible(a, r.value)
      BY <1>2, <2>1 DEF applies, Implausible
    <3>2. pc'[i] = "writeDrain" /\ a \in OrAddrs => snap[i][a] \subseteq r.value
      BY <1>1, <1>2, <1>5 DEF SyncInv, SnapHonest
    <3>3. a \in OrAddrs /\ cache[i][a] # None => cache[i][a] \subseteq r.value
      BY <1>1, <1>2 DEF SyncInv, CacheHonest
    <3> QED  BY <1>1, <1>2, <1>4, <1>6, <2>1, <3>1, <3>2, <3>3 DEF JobOK
  <2>2. CASE ~applies
    BY <1>5, <2>2 DEF JobOK
  <2> QED  BY <2>1, <2>2
<1>9. ASSUME NEW j \in Players \ {i} PROVE JobOK(j)'
  BY <1>7 DEF SyncInv, JobsOK, JobOK
<1> QED  BY <1>5, <1>6, <1>7, <1>8, <1>9 DEF JobsOK

Draining == {"drain", "writeDrain"}

\* A step that writes no memory and starts no diff keeps what is known of them.
LEMMA MemoryKept ==
  ASSUME SyncInv, UNCHANGED <<ram, snap, cache>>,
         \A j \in Players : didCache'[j] => didCache[j],
         \A j \in Players : pc'[j] \in Draining => pc[j] \in Draining
  PROVE  /\ Shape' /\ Memory' /\ CacheFull' /\ SnapHonest'
         /\ GarbageStaysLocal' /\ HeartsFit' /\ CacheHonest'
BY DEF SyncInv, Shape, Memory, CacheFull, SnapHonest, GarbageStaysLocal, HeartsFit, CacheHonest,
       Draining

\* A bridge that has no write in progress after a step has nothing to answer for.
LEMMA JobsKept ==
  ASSUME SyncInv, NEW i \in Players,
         pc'[i] \notin {"write", "writeGated", "writeDrain"} \/ UNCHANGED <<pc[i], job[i], snap[i], cache[i]>>,
         \A j \in Players \ {i} : UNCHANGED <<pc[j], job[j], snap[j], cache[j]>>
  PROVE  JobsOK'
BY DEF SyncInv, JobsOK, JobOK

\* Receiving a message.
LEMMA ReceiveStep ==
  ASSUME SyncInv, NEW i \in Players, Receive(i)
  PROVE  SyncInv'
<1> USE DEF SyncInv
<1>1. Control
  OBVIOUS
<1>2. chan[i] # <<>> => /\ Head(chan[i]) \in Frames \cup {PartnerReconnected}
                        /\ Tail(chan[i]) \in Seq(Frames \cup {PartnerReconnected})
  BY <1>1 DEF Control
<1>3. CASE ReceiveApply(i)
  <2>1. Head(chan[i]) \in Frames /\ UNCHANGED <<games, engine, snap, down, cuts>> /\ pc[i] = "idle"
    BY <1>2, <1>3 DEF ReceiveApply
  <2>2. /\ pc' \in [Players -> Labels] /\ pc'[i] \in {"write", "idle"}
        /\ \A j \in Players \ {i} : pc'[j] = pc[j]
        /\ job' \in [Players -> Frames \cup {None}]
        /\ JobsOK'
    BY <1>3, <2>1, ExamineStep DEF ReceiveApply, engine
  <2>3. Control'
    <3>1. chan' \in [Players -> Seq(Frames \cup {PartnerReconnected})]
      BY <1>1, <1>2, <1>3 DEF ReceiveApply, Control
    <3> QED  BY <1>1, <2>1, <2>2, <3>1 DEF Control, games, engine
  <2> QED  BY <2>1, <2>2, <2>3, MemoryKept DEF games, engine, Draining
<1>4. CASE ReceiveQueued(i)
  <2>1. Head(chan[i]) \in Frames /\ UNCHANGED <<games, cache, didCache, thread>>
    BY <1>2, <1>4 DEF ReceiveQueued
  <2>2. JobsOK'
    BY <2>1, JobsKept DEF thread
  <2>3. Control'
    BY <1>1, <1>2, <1>4, <2>1, SMTT(40) DEF ReceiveQueued, Control, games, thread
  <2> QED  BY <2>1, <2>2, <2>3, MemoryKept DEF games, thread, Draining
<1>5. CASE ReceiveGated(i)
  <2>1. Head(chan[i]) \in Frames /\ UNCHANGED <<games, cache, didCache, thread>>
    BY <1>2, <1>5 DEF ReceiveGated
  <2>2. JobsOK'
    BY <2>1, JobsKept DEF thread
  <2>3. Control'
    <3>1. Enqueue(gate[i], Head(chan[i])) \in Seq(Frames)
      BY <1>1, <2>1, EnqueueType DEF Control
    <3> QED  BY <1>1, <1>2, <1>5, <2>1, <3>1 DEF ReceiveGated, Control, games, thread
  <2> QED  BY <2>1, <2>2, <2>3, MemoryKept DEF games, thread, Draining
<1>6. CASE ReceiveReconnected(i)
  <2>1. UNCHANGED <<ram, running, moves, pc, job, snap, sleepQueue, gate, cuts>> /\ pc[i] = "idle"
    BY <1>6 DEF ReceiveReconnected, games, thread
  <2>2. /\ cache' = [cache EXCEPT ![i] = [a \in Addrs |-> None]]
        /\ didCache' = [didCache EXCEPT ![i] = FALSE]
    BY <1>6 DEF ReceiveReconnected
  <2>3. JobsOK'
    BY <2>1, <2>2, JobsKept DEF Shape
  <2>4. Control'
    <3>1. pauses' \in [Players -> 0 .. PauseTicks]
      <4>1. 0 \in 0 .. PauseTicks
        BY SyncAssumption
      <4> QED  BY <1>1, <1>6, <4>1 DEF ReceiveReconnected, Control
    <3>2. chan' \in [Players -> Seq(Frames \cup {PartnerReconnected})]
      BY <1>1, <1>2, <1>6 DEF ReceiveReconnected, Control
    <3>3. resyncQueue' \in [Players -> Seq(Frames)]
      BY <1>1, <1>6 DEF ReceiveReconnected, Control
    <3> QED  BY <1>1, <1>6, <2>1, <3>1, <3>2, <3>3 DEF ReceiveReconnected, Control
  <2>5. /\ cache' \in [Players -> [Addrs -> AnyValue \cup {None}]]
        /\ \A a \in Addrs : cache'[i][a] = None
        /\ \A j \in Players \ {i} : cache'[j] = cache[j] /\ didCache'[j] = didCache[j]
        /\ ~didCache'[i]
    BY <1>1, <2>2 DEF Shape, Control
  <2>6. Shape' /\ Memory'
    BY <2>1, <2>5 DEF Shape, Memory
  <2>7. CacheFull'
    BY <2>1, <2>5 DEF CacheFull
  <2>8. SnapHonest' /\ GarbageStaysLocal' /\ HeartsFit'
    BY <2>1 DEF SnapHonest, GarbageStaysLocal, HeartsFit
  <2>9. CacheHonest'
    BY <2>1, <2>5 DEF CacheHonest
  <2> QED  BY <2>3, <2>4, <2>6, <2>7, <2>8, <2>9
<1> QED  BY <1>3, <1>4, <1>5, <1>6 DEF Receive

\* write_pairs with the cache, and its failure.
LEMMA WriteStep ==
  ASSUME SyncInv, NEW i \in Players, Write(i) \/ WriteFails(i)
  PROVE  SyncInv'
<1> USE DEF SyncInv
<1> DEFINE a == job[i].addr
           v == job[i].value
<1>1. /\ pc[i] \in {"write", "writeGated", "writeDrain"} /\ pc' = [pc EXCEPT ![i] = After[pc[i]]]
      /\ job' = [job EXCEPT ![i] = None]
      /\ UNCHANGED <<running, moves, didCache, forceSend, pauses, sleepQueue, resyncQueue, gate,
                     snap, chan, down, cuts>>
  BY AfterLabels DEF Write, WriteFails, Goto, games, engine, network
<1>2. After[pc[i]] \in {"idle", "gated", "drain"} /\ (After[pc[i]] = "drain" => pc[i] = "writeDrain")
  BY <1>1, AfterLabels
<1>3. Control'
  BY <1>1, <1>2 DEF Control, Labels
<1>4. pc'[i] = After[pc[i]] /\ \A j \in Players \ {i} : pc'[j] = pc[j] /\ job'[j] = job[j]
  BY <1>1 DEF Control
<1>5. JobsOK'
  <2>1. \A j \in Players \ {i} : cache'[j] = cache[j]
    BY DEF Write, WriteFails, engine, Shape
  <2> QED  BY <1>1, <1>2, <1>4, <2>1, JobsKept
<1>6. \A j \in Players : pc'[j] \in Draining => pc[j] \in Draining
  BY <1>2, <1>4 DEF Draining
<1>7. CASE UNCHANGED <<ram, cache>>
  BY <1>1, <1>3, <1>5, <1>6, <1>7, MemoryKept
<1>8. CASE /\ ram' = [ram EXCEPT ![i][a] = v]
           /\ cache' = cache \/ cache' = [cache EXCEPT ![i][a] = v]
  <2>1. /\ a \in Addrs /\ v \in Value(a) /\ ~Implausible(a, v)
        /\ a \in HeartAddrs => v.filled <= v.containers
        /\ pc[i] = "writeDrain" /\ a \in OrAddrs => snap[i][a] \subseteq v
        /\ a \in OrAddrs /\ cache[i][a] # None => cache[i][a] \subseteq v
    BY <1>1 DEF JobsOK, JobOK
  <2>2. v \in AnyValue
    BY <2>1 DEF AnyValue
  <2>3. ram' = [ram EXCEPT ![i][a] = v] /\ (cache' = cache \/ cache' = [cache EXCEPT ![i][a] = v])
    BY <1>8
  <2> HIDE DEF a, v
  <2>4. /\ ram' \in [Players -> [Addrs -> AnyValue]] /\ ram'[i][a] = v
        /\ \A j \in Players, b \in Addrs : <<j, b>> # <<i, a>> => ram'[j][b] = ram[j][b]
    BY <2>1, <2>2, <2>3, SetCell DEF Shape
  <2>5. /\ cache' \in [Players -> [Addrs -> AnyValue \cup {None}]] /\ cache'[i][a] \in {cache[i][a], v}
        /\ \A j \in Players, b \in Addrs : <<j, b>> # <<i, a>> => cache'[j][b] = cache[j][b]
    <3>1. CASE cache' = cache
      BY <3>1 DEF Shape
    <3>2. CASE cache' = [cache EXCEPT ![i][a] = v]
      BY <2>1, <2>2, <3>2, SetCell DEF Shape
    <3> QED  BY <2>3, <3>1, <3>2
  <2>6. Shape' /\ Memory'
    BY <1>1, <2>1, <2>4, <2>5 DEF Shape, Memory
  <2>7. CacheFull'
    <3> SUFFICES ASSUME NEW j \in Players, didCache[j] \/ pc'[j] \in {"drain", "writeDrain"},
                        NEW b \in Addrs
                 PROVE  cache'[j][b] \in Value(b)
      BY <1>1 DEF CacheFull
    <3>1. CASE <<j, b>> = <<i, a>>
      BY <1>6, <2>1, <2>5, <3>1 DEF CacheFull, Draining
    <3>2. CASE <<j, b>> # <<i, a>>
      BY <1>6, <2>5, <3>2 DEF CacheFull, Draining
    <3> QED  BY <3>1, <3>2
  <2>8. SnapHonest'
    <3> SUFFICES ASSUME NEW j \in Players, pc'[j] \in {"drain", "writeDrain"},
                        NEW b \in OrAddrs \cap Addrs
                 PROVE  snap[j][b] \subseteq ram'[j][b]
      BY <1>1 DEF SnapHonest
    <3>1. CASE <<j, b>> = <<i, a>>
      BY <1>2, <1>4, <2>1, <2>4, <3>1
    <3>2. CASE <<j, b>> # <<i, a>>
      BY <1>6, <2>4, <3>2 DEF SnapHonest, Draining
    <3> QED  BY <3>1, <3>2
  <2>9. GarbageStaysLocal'
    <3>1. a \in HighAddrs => v <= MaxHigh
      <4>1. a \in HighAddrs => v \in 0 .. MaxHigh + 1 /\ ~(v > MaxHigh)
        BY <2>1, ValueOf DEF Implausible
      <4> QED  BY <4>1, RecordAssumption
    <3> QED  BY <2>4, <3>1 DEF GarbageStaysLocal
  <2>10. HeartsFit'
    BY <2>1, <2>4 DEF HeartsFit
  <2>11. CacheHonest'
    BY <2>1, <2>4, <2>5 DEF CacheHonest
  <2> QED  BY <1>3, <1>5, <2>6, <2>7, <2>8, <2>9, <2>10, <2>11
<1> QED  BY <1>7, <1>8 DEF Write, WriteFails, MaybeWritten, engine

\* A game that plays, glitches, pauses or resumes.
LEMMA GameStep ==
  ASSUME SyncInv, NEW i \in Players, Game(i)
  PROVE  SyncInv'
<1> USE DEF SyncInv
<1>1. CASE GamePauses(i)
  <2>1. UNCHANGED <<ram, moves, engine, thread, network>> /\ running' = [running EXCEPT ![i] = ~@]
    BY <1>1 DEF GamePauses
  <2>2. Control'
    BY <2>1 DEF Control, engine, thread, network
  <2>3. JobsOK'
    BY <2>1, JobsKept DEF thread, engine
  <2> QED  BY <2>1, <2>2, <2>3, MemoryKept DEF engine, thread, Draining
<1>2. ASSUME NEW a \in Addrs, NEW v \in Value(a), UNCHANGED <<running, engine, thread, network>>,
             moves[i] < MaxMoves, moves' = [moves EXCEPT ![i] = @ + 1],
             ram' = [ram EXCEPT ![i][a] = v],
             a \in OrAddrs => ram[i][a] \subseteq v,
             a \in HighAddrs /\ i \notin Glitchy => v <= MaxHigh,
             a \in HeartAddrs => v.filled <= v.containers
      PROVE  SyncInv'
  <2>1. v \in AnyValue
    BY DEF AnyValue
  <2>2. /\ ram' \in [Players -> [Addrs -> AnyValue]] /\ ram'[i][a] = v
        /\ \A j \in Players, b \in Addrs : <<j, b>> # <<i, a>> => ram'[j][b] = ram[j][b]
    BY <1>2, <2>1, SetCell DEF Shape
  <2>3. UNCHANGED <<running, cache, didCache, forceSend, pauses, sleepQueue, resyncQueue, gate,
                    pc, job, snap, chan, down, cuts>>
    BY <1>2 DEF engine, thread, network
  <2>4. Control'
    <3>1. moves[i] \in 0 .. MaxMoves /\ MaxMoves \in Nat
      BY SyncAssumption DEF Control
    <3>2. moves[i] + 1 \in 0 .. MaxMoves
      BY <1>2, <3>1
    <3> QED  BY <1>2, <2>3, <3>2 DEF Control
  <2>5. JobsOK' /\ CacheFull'
    BY <2>3, JobsKept DEF CacheFull
  <2>6. Shape' /\ Memory'
    BY <2>2, <2>3 DEF Shape, Memory
  <2>7. ASSUME NEW j \in Players, NEW b \in OrAddrs \cap Addrs PROVE ram[j][b] \subseteq ram'[j][b]
    BY <1>2, <2>2
  <2>8. SnapHonest' /\ CacheHonest'
    BY <2>3, <2>7 DEF SnapHonest, CacheHonest
  <2>9. GarbageStaysLocal' /\ HeartsFit'
    BY <1>2, <2>2 DEF GarbageStaysLocal, HeartsFit
  <2> QED  BY <2>4, <2>5, <2>6, <2>8, <2>9
<1>3. ASSUME NEW a \in Addrs, GamePlays(i, a) PROVE SyncInv'
  <2>1. PICK v \in GameValues(a, ram[i][a]) : ram' = [ram EXCEPT ![i][a] = v]
    BY <1>3 DEF GamePlays
  <2>2. ram[i][a] \in Value(a)
    BY DEF Memory
  <2>3. /\ v \in Value(a) /\ (a \in OrAddrs => ram[i][a] \subseteq v)
        /\ a \in HighAddrs => v <= MaxHigh
        /\ a \in HeartAddrs => v.filled <= v.containers
    <3>1. CASE a \in OrAddrs
      BY <2>2, <3>1, ValueOf, RecordAssumption DEF GameValues
    <3>2. CASE a \in HighAddrs
      <4>1. v \in 0 .. MaxHigh
        BY <3>2, RecordAssumption DEF GameValues
      <4>2. v \in 0 .. MaxHigh + 1 /\ v <= MaxHigh
        BY <4>1, RecordAssumption
      <4> QED  BY <3>2, <4>2, ValueOf, RecordAssumption
    <3>3. CASE a \in HeartAddrs
      BY <3>3, RecordAssumption DEF GameValues
    <3>4. CASE a \in DeltaAddrs
      BY <3>4, RecordAssumption DEF GameValues
    <3> QED  BY <3>1, <3>2, <3>3, <3>4, KindsOfAddrs
  <2> QED  BY <1>2, <1>3, <2>1, <2>3 DEF GamePlays
<1>4. ASSUME NEW a \in Addrs, GameGlitches(i, a) PROVE SyncInv'
  <2>1. MaxHigh + 1 \in 0 .. MaxHigh + 1
    BY RecordAssumption
  <2>2. a \in HighAddrs /\ i \in Glitchy /\ MaxHigh + 1 \in Value(a)
    BY <1>4, <2>1, ValueOf DEF GameGlitches
  <2> QED  BY <1>2, <1>4, <2>2, RecordAssumption DEF GameGlitches
<1> QED  BY <1>1, <1>3, <1>4 DEF Game

\* A connection that breaks, or is made again.
LEMMA NetworkStep ==
  ASSUME SyncInv, NEW i \in Players, Cut(i) \/ Rejoin(i)
  PROVE  SyncInv'
<1> USE DEF SyncInv
<1>1. UNCHANGED <<games, engine, thread>>
  BY DEF Cut, Rejoin
<1>2. chan \in [Players -> Seq(Frames \cup {PartnerReconnected})] /\ Partner(i) \in Players
  BY PartnerType DEF Control
<1>3. chan' \in [Players -> Seq(Frames \cup {PartnerReconnected})]
  <2>1. CASE Cut(i)
    <3>1. PICK n \in 0 .. Len(chan[Partner(i)]) :
            chan' = [j \in Players |-> IF j = i THEN <<>> ELSE SubSeq(chan[j], 1, n)]
      BY <2>1 DEF Cut
    <3>2. ASSUME NEW j \in Players \ {i}
          PROVE  SubSeq(chan[j], 1, n) \in Seq(Frames \cup {PartnerReconnected})
      <4> DEFINE q == chan[j]
      <4>1. q \in Seq(Frames \cup {PartnerReconnected}) /\ n \in 0 .. Len(q)
        BY <1>2, PartnerOnly
      <4> HIDE DEF q
      <4>2. \A k \in 1 .. n : q[k] \in Frames \cup {PartnerReconnected}
        BY <4>1
      <4>3. SubSeq(q, 1, n) \in Seq(Frames \cup {PartnerReconnected})
        BY <4>1, <4>2, SubSeqProperties
      <4> QED  BY <4>3 DEF q
    <3> QED  BY <3>1, <3>2
  <2>2. CASE Rejoin(i)
    BY <1>2, <2>2 DEF Rejoin
  <2> QED  BY <2>1, <2>2
<1>4. down' \subseteq Players /\ cuts' \in 0 .. MaxCuts
  <2>1. cuts \in 0 .. MaxCuts /\ MaxCuts \in Nat
    BY SyncAssumption DEF Control
  <2>2. cuts < MaxCuts => cuts + 1 \in 0 .. MaxCuts
    BY <2>1
  <2> QED  BY <2>1, <2>2 DEF Cut, Rejoin, Control
<1>5. Control'
  BY <1>1, <1>3, <1>4 DEF Control, games, engine, thread
<1>6. JobsOK'
  BY <1>1, JobsKept DEF thread, engine
<1> QED  BY <1>1, <1>5, <1>6, MemoryKept DEF games, engine, thread, Draining

\* The full poll, with check_first_running.
LEMMA SnapshotStep ==
  ASSUME SyncInv, NEW i \in Players, Snapshot(i)
  PROVE  SyncInv'
<1> USE DEF SyncInv
<1>1. /\ snap' = [snap EXCEPT ![i] = ram[i]] /\ pauses' = [pauses EXCEPT ![i] = 0]
      /\ pc' = [pc EXCEPT ![i] = "drain"]
      /\ UNCHANGED <<ram, running, moves, sleepQueue, gate, job, down, cuts>>
  BY DEF Snapshot, Goto, games
<1>2. \A j \in Players : pc'[j] = (IF j = i THEN "drain" ELSE pc[j])
                         /\ snap'[j] = (IF j = i THEN ram[i] ELSE snap[j])
  BY <1>1 DEF Control, Shape
<1>3. pauses' \in [Players -> 0 .. PauseTicks] /\ pc' \in [Players -> Labels]
  <2>1. 0 \in 0 .. PauseTicks
    BY SyncAssumption
  <2> QED  BY <1>1, <2>1 DEF Control, Labels
<1>4. JobsOK'
  <2>1. \A j \in Players \ {i} : cache'[j] = cache[j]
    BY DEF Snapshot, Shape
  <2> QED  BY <1>1, <1>2, <2>1, JobsKept
<1>5. snap' \in [Players -> [Addrs -> AnyValue]]
  BY <1>1 DEF Shape
<1>6. SnapHonest' /\ GarbageStaysLocal' /\ HeartsFit'
  <2>1. SnapHonest'
    BY <1>1, <1>2 DEF SnapHonest
  <2> QED  BY <1>1, <2>1 DEF GarbageStaysLocal, HeartsFit
<1>7. CASE didCache[i]
  <2>1. UNCHANGED <<cache, didCache, forceSend, resyncQueue, chan>>
    BY <1>7 DEF Snapshot
  <2>2. Control'
    BY <1>1, <1>3, <2>1 DEF Control
  <2>3. Shape' /\ Memory'
    BY <1>1, <1>2, <1>5, <2>1 DEF Shape, Memory
  <2>4. CacheFull' /\ CacheHonest'
    BY <1>1, <1>2, <1>7, <2>1 DEF CacheFull, CacheHonest
  <2> QED  BY <1>4, <1>6, <2>2, <2>3, <2>4
<1>8. CASE ~didCache[i]
  <2> DEFINE q == Startup(i)
             now == IF i \in Edn8 THEN Chunk(q) ELSE q
             later == IF i \in Edn8 THEN Rest(q) ELSE <<>>
  <2>1. /\ cache' = [cache EXCEPT ![i] = FirstCache(@, ram[i])]
        /\ didCache' = [didCache EXCEPT ![i] = TRUE]
        /\ chan' = Sent(i, now)
        /\ resyncQueue' = [resyncQueue EXCEPT ![i] = later]
        /\ forceSend' = [forceSend EXCEPT ![i] = later # <<>>]
    BY <1>8 DEF Snapshot
  <2>2. q \in Seq(Frames)
    <3> DEFINE P == {a \in Addrs : forceSend[i] /\ ram[i][a] # Zero(a) /\ a \notin DeltaAddrs}
               l == InOrder(P)
    <3>1. P \in SUBSET Addrs
      OBVIOUS
    <3>2. q = [n \in DOMAIN l |-> Data(l[n], ram[i][l[n]])]
      BY DEF Startup
    <3>3. \A a \in P : ram[i][a] \in Payload(a)
      <4>1. \A a \in Addrs : ram[i][a] \in Value(a)
        BY DEF Memory
      <4> QED  BY <3>1, <4>1, SentValue
    <3>4. l \in Seq(P)
      <4> HIDE DEF P
      <4> QED  BY <3>1, InOrderType
    <3> HIDE DEF P, l
    <3> QED  BY <3>1, <3>2, <3>3, <3>4, FramesOf
  <2> HIDE DEF q
  <2>3. now \in Seq(Frames) /\ later \in Seq(Frames)
    BY <2>2, ChunkTypes
  <2> HIDE DEF now, later
  <2>4. chan' \in [Players -> Seq(Frames \cup {PartnerReconnected})]
    BY <2>1, <2>3, SentType
  <2>5. Control'
    BY <1>1, <1>3, <2>1, <2>3, <2>4 DEF Control
  <2>6. \A a \in Addrs : FirstCache(cache[i], ram[i])[a]
                           = IF cache[i][a] = None THEN ram[i][a] ELSE cache[i][a]
    BY DEF FirstCache
  <2>7. FirstCache(cache[i], ram[i]) \in [Addrs -> AnyValue \cup {None}]
    BY DEF FirstCache, Shape
  <2>8. /\ cache' \in [Players -> [Addrs -> AnyValue \cup {None}]]
        /\ cache'[i] = FirstCache(cache[i], ram[i])
        /\ \A j \in Players \ {i} : cache'[j] = cache[j] /\ didCache'[j] = didCache[j]
    BY <2>1, <2>7 DEF Shape, Control
  <2>9. Shape' /\ Memory'
    BY <1>1, <1>2, <1>5, <2>6, <2>8 DEF Shape, Memory
  <2>10. CacheFull'
    <3>1. \A a \in Addrs : cache'[i][a] \in Value(a)
      BY <2>6, <2>8 DEF Memory
    <3> QED  BY <1>2, <2>8, <3>1 DEF CacheFull
  <2>11. CacheHonest'
    BY <1>1, <2>6, <2>8, SMTT(40) DEF CacheHonest
  <2> QED  BY <1>4, <1>6, <2>5, <2>9, <2>10, <2>11
<1> QED  BY <1>7, <1>8

\* diff sends what changed since the snapshot, and remembers it.
LEMMA DiffStep ==
  ASSUME SyncInv, NEW i \in Players, Diff(i)
  PROVE  SyncInv'
<1> USE DEF SyncInv
<1> DEFINE change(a) == Changed(a, snap[i][a], cache[i][a], FALSE)
           allowed(a) == snap[i][a] # cache[i][a] /\ change(a).allow
           P == {a \in Addrs : allowed(a)}
           l == InOrder(P)
           q == [n \in DOMAIN l |-> Data(l[n], change(l[n]).value)]
           kept == [a \in Addrs |-> IF allowed(a) \/ SuppressedDelta(a, snap[i][a], cache[i][a])
                                   THEN snap[i][a] ELSE cache[i][a]]
<1>1. /\ pc[i] = "drain" /\ pc' = [pc EXCEPT ![i] = "idle"]
      /\ chan' = Sent(i, q) /\ cache' = [cache EXCEPT ![i] = kept]
      /\ UNCHANGED <<ram, running, moves, didCache, forceSend, pauses, sleepQueue, resyncQueue,
                     gate, job, snap, down, cuts>>
  BY ZenonT(60) DEF Diff, Goto, games
<1>2. \A j \in Players : pc'[j] = IF j = i THEN "idle" ELSE pc[j]
  BY <1>1, ZenonT(60) DEF Control
<1>3. \A a \in Addrs : snap[i][a] \in Value(a) /\ cache[i][a] \in Value(a)
  BY <1>1 DEF Memory, CacheFull
<1>4. q \in Seq(Frames)
  <2> DEFINE v == [a \in Addrs |-> change(a).value]
  <2>1. P \in SUBSET Addrs
    OBVIOUS
  <2>2. \A a \in P : v[a] \in Payload(a)
    BY <1>3, SentValue
  <2>3. l \in Seq(P)
    <3> HIDE DEF P
    <3> QED  BY <2>1, InOrderType
  <2>4. q = [n \in DOMAIN l |-> Data(l[n], v[l[n]])]
    <3>1. \A n \in DOMAIN l : l[n] \in Addrs
      <4> HIDE DEF P, l
      <4> QED  BY <2>1, <2>3
    <3> HIDE DEF l
    <3> QED  BY <3>1
  <2> HIDE DEF P, l, v, q
  <2> QED  BY <2>1, <2>2, <2>3, <2>4, FramesOf
<1>5. \A a \in Addrs : kept[a] \in {snap[i][a], cache[i][a]}
  OBVIOUS
<1>6. kept \in [Addrs -> AnyValue \cup {None}]
  <2>1. \A a \in Addrs : kept[a] \in AnyValue
    BY <1>3, <1>5 DEF AnyValue
  <2> QED  BY <2>1
<1> HIDE DEF q, kept
<1>7. chan' \in [Players -> Seq(Frames \cup {PartnerReconnected})]
  BY <1>1, <1>4, SentType
<1>8. Control'
  BY <1>1, <1>7 DEF Control, Labels
<1>9. JobsOK'
  BY <1>1, <1>2, JobsKept
<1>10. /\ cache' \in [Players -> [Addrs -> AnyValue \cup {None}]] /\ cache'[i] = kept
       /\ \A j \in Players \ {i} : cache'[j] = cache[j]
  BY <1>1, <1>6 DEF Shape
<1>11. Shape' /\ Memory'
  BY <1>1, <1>3, <1>5, <1>10 DEF Shape, Memory
<1>12. CacheFull'
  BY <1>1, <1>2, <1>3, <1>5, <1>10 DEF CacheFull
<1>13. SnapHonest' /\ GarbageStaysLocal' /\ HeartsFit'
  BY <1>1, <1>2 DEF SnapHonest, GarbageStaysLocal, HeartsFit
<1>14. CacheHonest'
  BY <1>1, <1>5, <1>10 DEF CacheHonest, SnapHonest
<1> QED  BY <1>8, <1>9, <1>11, <1>12, <1>13, <1>14

\* The polling thread.
LEMMA PollStep ==
  ASSUME SyncInv, NEW i \in Players, Poll(i)
  PROVE  SyncInv'
<1> USE DEF SyncInv
<1>1. CASE PollPaused(i)
  <2>1. /\ UNCHANGED <<games, cache, forceSend, sleepQueue, resyncQueue, gate, job, snap, network>>
        /\ pc' = [pc EXCEPT ![i] = "idle"]
        /\ pauses' = [pauses EXCEPT ![i] = IF @ < PauseTicks THEN @ + 1 ELSE @]
        /\ didCache' = [didCache EXCEPT ![i] = @ /\ pauses[i] + 1 < PauseTicks]
    BY <1>1 DEF PollPaused, NotRunning, Goto
  <2>2. \A j \in Players : /\ pc'[j] = IF j = i THEN "idle" ELSE pc[j]
                           /\ didCache'[j] => didCache[j]
    BY <2>1 DEF Control
  <2>3. Control'
    <3>1. pauses[i] \in 0 .. PauseTicks /\ PauseTicks \in Nat
      BY SyncAssumption DEF Control
    <3>2. pauses[i] < PauseTicks => pauses[i] + 1 \in 0 .. PauseTicks
      BY <3>1
    <3>3. pauses' \in [Players -> 0 .. PauseTicks]
      BY <2>1, <3>1, <3>2 DEF Control
    <3>4. didCache' \in [Players -> BOOLEAN] /\ pc' \in [Players -> Labels]
      BY <2>1 DEF Control, Labels
    <3> QED  BY <2>1, <3>3, <3>4 DEF Control, games, network
  <2>4. JobsOK'
    BY <2>1, <2>2, JobsKept
  <2> QED  BY <2>1, <2>2, <2>3, <2>4, MemoryKept DEF games, Draining
<1>2. CASE DrainGate(i)
  <2>1. /\ Head(gate[i]) \in Frames /\ gate' \in [Players -> Seq(Frames)] /\ pc[i] = "idle"
        /\ UNCHANGED <<games, cache, didCache, forceSend, pauses, sleepQueue, resyncQueue, snap,
                       network>>
    BY <1>2 DEF DrainGate, Control
  <2>2. /\ pc' \in [Players -> Labels] /\ pc'[i] \in {"writeGated", "gated"}
        /\ \A j \in Players \ {i} : pc'[j] = pc[j]
        /\ job' \in [Players -> Frames \cup {None}] /\ JobsOK'
    BY <1>2, <2>1, ExamineStep DEF DrainGate
  <2>3. Control'
    BY <2>1, <2>2 DEF Control, games, network
  <2> QED  BY <2>1, <2>2, <2>3, MemoryKept DEF games, Draining
<1>3. CASE SendChunk(i)
  <2>1. /\ UNCHANGED <<games, cache, didCache, pauses, sleepQueue, gate, job, snap, down, cuts>>
        /\ pc' = [pc EXCEPT ![i] = "idle"]
        /\ chan' = Sent(i, Chunk(resyncQueue[i]))
        /\ resyncQueue' = [resyncQueue EXCEPT ![i] = Rest(@)]
        /\ forceSend' = [forceSend EXCEPT ![i] = @ /\ Rest(resyncQueue[i]) # <<>>]
    BY <1>3 DEF SendChunk, Goto
  <2>2. \A j \in Players : pc'[j] = IF j = i THEN "idle" ELSE pc[j]
    BY <2>1 DEF Control
  <2>3. Control'
    <3>1. Chunk(resyncQueue[i]) \in Seq(Frames) /\ Rest(resyncQueue[i]) \in Seq(Frames)
      <4>1. resyncQueue[i] \in Seq(Frames)
        BY DEF Control
      <4> QED  BY <4>1, ChunkTypes
    <3>2. chan' \in [Players -> Seq(Frames \cup {PartnerReconnected})]
      BY <2>1, <3>1, SentType
    <3>3. resyncQueue' \in [Players -> Seq(Frames)] /\ forceSend' \in [Players -> BOOLEAN]
      BY <2>1, <3>1 DEF Control
    <3>4. pc' \in [Players -> Labels]
      BY <2>1 DEF Control, Labels
    <3> QED  BY <2>1, <3>2, <3>3, <3>4 DEF Control, games
  <2>4. JobsOK'
    BY <2>1, <2>2, JobsKept
  <2> QED  BY <2>1, <2>2, <2>3, <2>4, MemoryKept DEF games, Draining
<1>4. CASE SnapshotIgnored(i)
  <2>1. UNCHANGED <<games, engine, job, snap, network>> /\ pc' = [pc EXCEPT ![i] = "idle"]
    BY <1>4 DEF SnapshotIgnored, Goto
  <2>2. \A j \in Players : pc'[j] = IF j = i THEN "idle" ELSE pc[j]
    BY <2>1 DEF Control
  <2>3. Control'
    BY <2>1 DEF Control, Labels, games, engine, network
  <2>4. JobsOK'
    BY <2>1, <2>2, JobsKept DEF engine
  <2> QED  BY <2>1, <2>2, <2>3, <2>4, MemoryKept DEF games, engine, Draining
<1>5. CASE DrainSleep(i)
  <2>1. /\ Head(sleepQueue[i]) \in Frames /\ sleepQueue' \in [Players -> Seq(Frames)]
        /\ pc[i] = "drain"
        /\ UNCHANGED <<games, cache, didCache, forceSend, pauses, resyncQueue, gate, snap, network>>
    BY <1>5 DEF DrainSleep, Control
  <2>2. /\ pc' \in [Players -> Labels] /\ pc'[i] \in {"writeDrain", "drain"}
        /\ \A j \in Players \ {i} : pc'[j] = pc[j]
        /\ job' \in [Players -> Frames \cup {None}] /\ JobsOK'
    BY <1>5, <2>1, ExamineStep DEF DrainSleep
  <2>3. Control'
    BY <2>1, <2>2 DEF Control, games, network
  <2> QED  BY <2>1, <2>2, <2>3, MemoryKept DEF games, Draining
<1>6. CASE Snapshot(i)
  BY <1>6, SnapshotStep
<1>7. CASE Diff(i)
  BY <1>7, DiffStep
<1> QED  BY <1>1, <1>2, <1>3, <1>4, <1>5, <1>6, <1>7 DEF Poll

-----------------------------------------------------------------------------
(* The theorems *)

\* A new session satisfies the invariant.
LEMMA SyncInitial ==
  Init => SyncInv
<1> SUFFICES ASSUME Init PROVE SyncInv
  OBVIOUS
<1>1. \A a \in Addrs : Zero(a) \in Value(a)
  <2> TAKE a \in Addrs
  <2>1. MaxCount \in Nat /\ MaxHigh \in Nat
    BY RecordAssumption
  <2>2. 0 \in 0 .. MaxCount /\ 0 \in 0 .. MaxHigh + 1
    BY <2>1
  <2>3. [containers |-> 0, filled |-> 0] \in [containers : 0 .. MaxCount, filled : 0 .. MaxCount]
    BY <2>2
  <2>4. CASE a \in HighAddrs \cup DeltaAddrs
    BY <2>2, <2>4, ValueOf, RecordAssumption DEF Zero
  <2>5. CASE a \in OrAddrs
    BY <2>5, ValueOf, RecordAssumption DEF Zero
  <2>6. CASE a \in HeartAddrs
    BY <2>3, <2>6, ValueOf, RecordAssumption DEF Zero
  <2> QED  BY <2>4, <2>5, <2>6, KindsOfAddrs
<1>2. /\ ram \in [Players -> [Addrs -> AnyValue]]
      /\ \A i \in Players, a \in Addrs : ram[i][a] \in Value(a) /\ (a \in HighAddrs => ram[i][a] <= MaxHigh)
  BY DEF Init, AnyValue
<1>3. Shape /\ Memory
  <2>1. snap \in [Players -> [Addrs -> AnyValue]] /\ \A i \in Players, a \in Addrs : snap[i][a] \in Value(a)
    BY <1>1 DEF Init, AnyValue
  <2>2. /\ cache \in [Players -> [Addrs -> AnyValue \cup {None}]]
        /\ \A i \in Players, a \in Addrs : cache[i][a] = None
    BY DEF Init
  <2> QED  BY <1>2, <2>1, <2>2 DEF Shape, Memory
<1>4. Control
  <2>1. 0 \in 0 .. MaxMoves /\ 0 \in 0 .. PauseTicks /\ 0 \in 0 .. MaxCuts
    BY SyncAssumption
  <2> QED  BY <2>1 DEF Init, Control, Labels
<1>5. JobsOK /\ CacheFull /\ SnapHonest
  BY DEF Init, JobsOK, JobOK, CacheFull, SnapHonest
<1>6. GarbageStaysLocal /\ HeartsFit /\ CacheHonest
  BY <1>2 DEF Init, GarbageStaysLocal, HeartsFit, CacheHonest
<1> QED  BY <1>3, <1>4, <1>5, <1>6 DEF SyncInv

\* The invariant is kept by every step of a bridge, a game and the connection.
LEMMA SyncInductive ==
  SyncInv /\ [Next]_vars => SyncInv'
<1> SUFFICES ASSUME SyncInv, [Next]_vars PROVE SyncInv'
  OBVIOUS
<1>1. CASE Next
  <2>1. PICK i \in Players : \/ Receive(i) \/ Write(i) \/ WriteFails(i) \/ Poll(i) \/ Game(i)
                            \/ Cut(i) \/ Rejoin(i)
    BY <1>1 DEF Next
  <2> QED  BY <2>1, ReceiveStep, WriteStep, PollStep, GameStep, NetworkStep
<1>2. CASE UNCHANGED vars
  BY <1>2 DEF SyncInv, Shape, Memory, Control, JobsOK, JobOK, CacheFull, SnapHonest,
              GarbageStaysLocal, HeartsFit, CacheHonest, vars, games, engine, thread, network
<1> QED  BY <1>1, <1>2

\* Whatever two bridges do, their invariant holds.
THEOREM SyncInvariant ==
  Spec => []SyncInv
BY SyncInitial, SyncInductive, PTL DEF Spec

\* Every variable keeps its type: no address, value or message that record_changed,
\* the queues or a lost connection produce is out of range.
THEOREM SyncTypes ==
  Spec => []TypeOK
<1>1. SyncInv => TypeOK
  BY DEF SyncInv, Memory, Control, Labels, TypeOK
<1> QED  BY <1>1, SyncInvariant, PTL

\* The cache of diff never claims a bit the game does not have.
THEOREM CacheStaysHonest ==
  Spec => []CacheHonest
BY SyncInvariant, PTL DEF SyncInv

\* An implausible byte stays in the game it appeared in.
THEOREM GarbageIsLocal ==
  Spec => []GarbageStaysLocal
BY SyncInvariant, PTL DEF SyncInv

\* Heart bytes never show more hearts than containers.
THEOREM HeartsAlwaysFit ==
  Spec => []HeartsFit
BY SyncInvariant, PTL DEF SyncInv
=============================================================================
