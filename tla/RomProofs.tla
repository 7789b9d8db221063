----------------------------- MODULE RomProofs -----------------------------
(***************************************************************************)
(* Proofs for the patch build and the patching of a ROM.  A patch made by  *)
(* make_ips is exactly the difference of its two ROMs; relocate_patch.py   *)
(* keeps the control flow of the code it moves; and what the two programs  *)
(* write and hand on carries the whole patch.                              *)
(***************************************************************************)
EXTENDS RomProps, WellFoundedInduction, FiniteSetTheorems, SequenceTheorems, TLAPS

Ops == {"abs", "rel", "arg", "ptr", "byte"}
Cells == [op : Ops, v : Int]

-----------------------------------------------------------------------------
(* Induction and recursion over the naturals *)

\* A set of naturals that is not empty has a least element.
LEMMA Least ==
  ASSUME NEW B \in SUBSET Nat, B # {}
  PROVE  \E x \in B : \A y \in B : x <= y
<1> DEFINE R == {ss \in Nat \X Nat : ss[1] < ss[2]}
<1>1. IsWellFoundedOn(R, Nat)
  BY NatLessThanWellFounded DEF OpToRel
<1>2. \E x \in B : \A y \in B : ~(<<y, x>> \in R)
  <2> HIDE DEF R
  <2> QED  BY <1>1, WFMin
<1>3. PICK x \in B : \A y \in B : ~(<<y, x>> \in R)
  BY <1>2
<1>4. \A y \in B : (y < x) => <<y, x>> \in R
  OBVIOUS
<1>5. \A y \in B : ~(y < x)
  <2> HIDE DEF R
  <2> QED  BY <1>3, <1>4
<1> QED  BY <1>5

\* A bounded one has a greatest.
LEMMA Greatest ==
  ASSUME NEW n \in Nat, NEW B \in SUBSET (1 .. n), B # {}
  PROVE  \E x \in B : \A y \in B : y <= x
<1> DEFINE C == {m \in 0 .. n : n - m \in B}
<1>1. PICK b \in B : TRUE
  OBVIOUS
<1>2. n - b \in 0 .. n /\ n - (n - b) = b
  OBVIOUS
<1>3. n - b \in C /\ C \in SUBSET Nat
  BY <1>1, <1>2
<1>4. PICK x \in C : \A y \in C : x <= y
  <2> HIDE DEF C
  <2> QED  BY <1>3, Least
<1>5. n - x \in B /\ x \in 0 .. n
  BY <1>4
<1>6. ASSUME NEW y \in B PROVE y <= n - x
  <2>1. n - y \in 0 .. n /\ n - (n - y) = y
    OBVIOUS
  <2>2. x <= n - y
    BY <1>4, <2>1
  <2> QED  BY <1>5, <2>2
<1> QED  BY <1>5, <1>6

\* Induction up to a bound, as a fact about a set.
LEMMA UpTo ==
  ASSUME NEW n \in Nat, NEW T, 0 \in T, \A k \in 0 .. n - 1 : k \in T => k + 1 \in T
  PROVE  \A k \in 0 .. n : k \in T
<1> DEFINE B == {k \in 0 .. n : k \notin T}
<1>1. SUFFICES ASSUME B # {} PROVE FALSE
  OBVIOUS
<1>2. B \in SUBSET Nat
  OBVIOUS
<1>3. PICK x \in B : \A y \in B : x <= y
  BY <1>1, <1>2, Least
<1>4. x # 0 /\ x - 1 \in 0 .. n - 1 /\ x - 1 \in T
  BY <1>3
<1> QED  BY <1>3, <1>4

\* A loop of n steps, each a function of the state before it, and its history.
Steps(G, n, S) == \A k \in 1 .. n : G[k] \in [S -> S]
IsHistory(f, base, G, n) ==
  f[0] = base /\ \A k \in 1 .. n : f[k] = G[k][f[k - 1]]

\* Every loop has a history.
LEMMA History ==
  ASSUME NEW S, NEW n \in Nat, NEW base \in S, NEW G, Steps(G, n, S)
  PROVE  \E f : IsHistory(f, base, G, n) /\ f \in [0 .. n -> S]
<1> DEFINE H(f, m) == IsHistory(f, base, G, m) /\ f \in [0 .. m -> S]
           T == {m \in Nat : \E f : H(f, m)}
<1>1. 0 \in T
  <2>1. H([k \in 0 .. 0 |-> base], 0)
    BY DEF IsHistory
  <2> QED  BY <2>1
<1>2. ASSUME NEW m \in 0 .. n - 1, m \in T
      PROVE  m + 1 \in T
  <2>1. PICK f : H(f, m)
    BY <1>2
  <2> DEFINE g == [k \in 0 .. m + 1 |-> IF k <= m THEN f[k] ELSE G[m + 1][f[m]]]
  <2>2. m \in 0 .. m /\ f[m] \in S /\ G[m + 1][f[m]] \in S
    BY <2>1 DEF Steps
  <2>3. g \in [0 .. m + 1 -> S]
    BY <2>1, <2>2
  <2>4. g[0] = base
    BY <2>1 DEF IsHistory
  <2>5. \A k \in 1 .. m + 1 : g[k] = G[k][g[k - 1]]
    <3> TAKE k \in 1 .. m + 1
    <3>1. CASE k <= m
      BY <2>1, <3>1 DEF IsHistory
    <3>2. CASE k = m + 1
      BY <3>2
    <3> QED  BY <3>1, <3>2
  <2> HIDE DEF g
  <2>6. H(g, m + 1)
    BY <2>3, <2>4, <2>5 DEF IsHistory
  <2> HIDE DEF H
  <2> QED  BY <2>6
<1>3. n \in T
  <2> HIDE DEF T
  <2>1. \A k \in 0 .. n : k \in T
    BY <1>1, <1>2, UpTo
  <2> QED  BY <2>1
<1> HIDE DEF H
<1>4. \E f : H(f, n)
  BY <1>3
<1> QED  BY <1>4 DEF H

-----------------------------------------------------------------------------
(* Slices and overlays *)

\* A record of parse, inside a ROM of n bytes; the offsets it writes.
Rec(r, n) ==
  /\ r.offset \in Nat /\ r.length \in Nat /\ r.data \in Bytes
  /\ Len(r.data) = r.length /\ r.offset + r.length <= n
Covers(r, o) == r.offset <= o /\ o < r.offset + r.length

\* sl holds the bytes of b from offset o on.
IsSlice(sl, b, o) == \A i \in 1 .. Len(sl) : sl[i] = b[o + i]

\* A slice inside the ROM has the length asked for.
LEMMA SliceFacts ==
  ASSUME NEW b \in Bytes, NEW o \in Nat, NEW n \in Nat
  PROVE  /\ Slice(b, o, n) \in Bytes
         /\ Len(Slice(b, o, n)) <= n
         /\ o + n <= Len(b) => Len(Slice(b, o, n)) = n
         /\ o < Len(b) => o + Len(Slice(b, o, n)) <= Len(b)
         /\ Len(Slice(b, o, n)) = n => o + n <= Len(b) \/ n = 0
         /\ IsSlice(Slice(b, o, n), b, o)
<1> DEFINE e == IF o + n > Len(b) THEN Len(b) ELSE o + n
<1>1. b \in Seq(Cells) /\ Len(b) \in Nat /\ e \in Int /\ o + 1 \in Int /\ \A i \in o + 1 .. e : b[i] \in Cells
  <2>1. b \in Seq(Cells) /\ Len(b) \in Nat
    BY LenProperties DEF Bytes, Cells, Ops
  <2> QED  BY <2>1
<1>2. Slice(b, o, n) = SubSeq(b, o + 1, e)
  BY DEF Slice
<1>3. e <= Len(b) /\ e <= o + n /\ (o + n <= Len(b) => e = o + n)
  BY <1>1
<1> HIDE DEF e
<1>4. /\ Slice(b, o, n) \in Seq(Cells)
      /\ Len(Slice(b, o, n)) = IF o + 1 <= e THEN e - (o + 1) + 1 ELSE 0
      /\ \A i \in 1 .. e - (o + 1) + 1 : Slice(b, o, n)[i] = b[o + 1 + i - 1]
  BY <1>1, <1>2, SubSeqProperties
<1>5. \A i \in 1 .. Len(Slice(b, o, n)) : Slice(b, o, n)[i] = b[o + i]
  <2> TAKE i \in 1 .. Len(Slice(b, o, n))
  <2>1. i \in 1 .. e - (o + 1) + 1 /\ o + 1 + i - 1 = o + i
    BY <1>1, <1>4
  <2> QED  BY <1>4, <2>1
<1> QED  BY <1>1, <1>3, <1>4, <1>5 DEF Bytes, Cells, Ops, IsSlice

\* out[offset:end] = data, inside out.
LEMMA OverlayFacts ==
  ASSUME NEW b \in Bytes, NEW r, Rec(r, Len(b))
  PROVE  /\ Overlay(b, r) \in Bytes /\ Len(Overlay(b, r)) = Len(b)
         /\ \A o \in 0 .. Len(b) - 1 :
              Overlay(b, r)[o + 1] = IF Covers(r, o) THEN r.data[o - r.offset + 1] ELSE b[o + 1]
<1> DEFINE end == r.offset + r.length
           h == Slice(b, 0, r.offset)
           t == SubSeq(b, end + 1, Len(b))
<1>1. /\ b \in Seq(Cells) /\ Len(b) \in Nat /\ r.data \in Seq(Cells) /\ end \in Nat /\ end <= Len(b)
      /\ r.offset \in Nat /\ r.length \in Nat /\ Len(r.data) = r.length
  BY DEF Bytes, Cells, Rec, Ops
<1>2. Overlay(b, r) = h \o r.data \o t
  BY <1>1 DEF Overlay
<1>3. h \in Seq(Cells) /\ Len(h) = r.offset /\ \A i \in 1 .. r.offset : h[i] = b[i]
  <2>1. 0 + r.offset <= Len(b)
    BY <1>1
  <2>2. h \in Seq(Cells) /\ Len(h) = r.offset /\ IsSlice(h, b, 0)
    BY <1>1, <2>1, SliceFacts DEF Bytes, Cells, Ops
  <2> HIDE DEF h
  <2> QED  BY <1>1, <2>2 DEF IsSlice
<1>4. /\ t \in Seq(Cells) /\ Len(t) = Len(b) - end
      /\ \A i \in 1 .. Len(b) - end : t[i] = b[end + i]
  <2>1. \A i \in end + 1 .. Len(b) : b[i] \in Cells
    BY <1>1, ElementOfSeq
  <2> HIDE DEF end
  <2>2. /\ t \in Seq(Cells)
        /\ Len(t) = IF end + 1 <= Len(b) THEN Len(b) - (end + 1) + 1 ELSE 0
        /\ \A i \in 1 .. Len(b) - (end + 1) + 1 : t[i] = b[end + 1 + i - 1]
    BY <1>1, <2>1, SubSeqProperties
  <2>3. \A i \in 1 .. Len(b) - end : t[i] = b[end + i]
    <3> HIDE DEF t
    <3> TAKE i \in 1 .. Len(b) - end
    <3>1. i \in 1 .. Len(b) - (end + 1) + 1 /\ end + 1 + i - 1 = end + i
      BY <1>1
    <3> QED  BY <2>2, <3>1
  <2> HIDE DEF t
  <2> QED  BY <1>1, <2>2, <2>3
<1> HIDE DEF h, t
<1>5. /\ h \o r.data \in Seq(Cells) /\ Len(h \o r.data) = end
      /\ \A i \in 1 .. end : (h \o r.data)[i] = IF i <= r.offset THEN b[i] ELSE r.data[i - r.offset]
  BY <1>1, <1>3, ConcatProperties, SMTT(40)
<1> DEFINE d == h \o r.data
<1> HIDE DEF d
<1>6. /\ d \o t \in Seq(Cells) /\ Len(d \o t) = Len(b)
      /\ \A i \in 1 .. Len(b) : (d \o t)[i] = IF i <= end THEN d[i] ELSE b[i]
  <2>1. d \in Seq(Cells) /\ Len(d) = end
    BY <1>5 DEF d
  <2> HIDE DEF end
  <2>2. /\ d \o t \in Seq(Cells) /\ Len(d \o t) = Len(d) + Len(t)
        /\ \A i \in 1 .. Len(d) + Len(t) : (d \o t)[i] = IF i <= Len(d) THEN d[i] ELSE t[i - Len(d)]
    BY <1>4, <2>1, ConcatProperties
  <2>3. \A i \in 1 .. Len(b) : (d \o t)[i] = IF i <= end THEN d[i] ELSE b[i]
    BY <1>1, <1>4, <2>1, <2>2, SMTT(40)
  <2> QED  BY <1>1, <1>4, <2>1, <2>2, <2>3
<1>7. \A o \in 0 .. Len(b) - 1 :
        Overlay(b, r)[o + 1] = IF Covers(r, o) THEN r.data[o - r.offset + 1] ELSE b[o + 1]
  <2> TAKE o \in 0 .. Len(b) - 1
  <2>1. o + 1 \in 1 .. Len(b) /\ (o + 1 <= end => o + 1 \in 1 .. end)
    BY <1>1
  <2>2. Overlay(b, r)[o + 1] = IF o + 1 <= end THEN d[o + 1] ELSE b[o + 1]
    BY <1>2, <1>6, <2>1 DEF d
  <2>3. o + 1 <= end => d[o + 1] = IF o + 1 <= r.offset THEN b[o + 1] ELSE r.data[(o + 1) - r.offset]
    BY <1>5, <2>1 DEF d
  <2>4. (o + 1) - r.offset = o - r.offset + 1
    BY <1>1, SMTT(40)
  <2> QED  BY <1>1, <2>1, <2>2, <2>3, <2>4 DEF Covers
<1> QED  BY <1>2, <1>6, <1>7 DEF d, Bytes, Cells, Ops

\* The last record over an offset decides, the other offsets keep the ROM's byte.
LastWins(out, rm, rs) ==
  \A o \in 0 .. Len(rm) - 1 :
    /\ (\A k \in 1 .. Len(rs) : ~Covers(rs[k], o)) => out[o + 1] = rm[o + 1]
    /\ \A j \in 1 .. Len(rs) :
         Covers(rs[j], o) /\ (\A k \in j + 1 .. Len(rs) : ~Covers(rs[k], o)) =>
           out[o + 1] = rs[j].data[o - rs[j].offset + 1]

\* What the records of a loop like apply's leave in a ROM they stay inside.
LEMMA OverlaidFacts ==
  ASSUME NEW rm \in Bytes, NEW rs, Len(rs) \in Nat, \A k \in 1 .. Len(rs) : Rec(rs[k], Len(rm))
  PROVE  /\ Overlaid(rm, rs) \in Bytes /\ Len(Overlaid(rm, rs)) = Len(rm)
         /\ LastWins(Overlaid(rm, rs), rm, rs)
<1> DEFINE n == Len(rs)
           S == {b \in Bytes : Len(b) = Len(rm)}
           G == [k \in 1 .. n |-> [b \in S |-> Overlay(b, rs[k])]]
           IsOut(g) == g = [k \in 0 .. n |-> IF k = 0 THEN rm ELSE Overlay(g[k - 1], rs[k])]
           out == CHOOSE g : IsOut(g)
<1>1. Steps(G, n, S)
  <2>1. \A k \in 1 .. n : \A b \in S : Overlay(b, rs[k]) \in S
    BY OverlayFacts
  <2> HIDE DEF S, n
  <2> QED  BY <2>1 DEF Steps
<1>2. rm \in S /\ n \in Nat
  OBVIOUS
<1>3. PICK f : IsHistory(f, rm, G, n) /\ f \in [0 .. n -> S]
  <2> HIDE DEF G, S, n
  <2> QED  BY <1>1, <1>2, History
<1>4. IsOut(f)
  <2>1. \A k \in 1 .. n : f[k - 1] \in S /\ f[k] = Overlay(f[k - 1], rs[k])
    <3> TAKE k \in 1 .. n
    <3>1. f[k - 1] \in S /\ f[k] = G[k][f[k - 1]]
      <4> HIDE DEF S, G
      <4> QED  BY <1>2, <1>3 DEF IsHistory
    <3>2. \A b \in S : G[k][b] = Overlay(b, rs[k])
      <4> HIDE DEF S
      <4> QED  OBVIOUS
    <3> HIDE DEF S, G
    <3> QED  BY <3>1, <3>2
  <2>2. \A k \in 0 .. n : f[k] = IF k = 0 THEN rm ELSE Overlay(f[k - 1], rs[k])
    <3> HIDE DEF S, G
    <3> QED  BY <1>3, <2>1 DEF IsHistory
  <2> HIDE DEF S, n, G
  <2> QED  BY <1>3, <2>2 DEF IsHistory
<1>5. IsOut(out)
  BY <1>4
<1>6. Overlaid(rm, rs) = out[n]
  BY DEF Overlaid
<1> HIDE DEF out, G
<1>7. out[0] = rm /\ \A k \in 1 .. n : out[k] = Overlay(out[k - 1], rs[k])
  BY <1>2, <1>5
<1> HIDE DEF IsOut
<1> DEFINE P(k) == /\ out[k] \in S
                   /\ \A o \in 0 .. Len(rm) - 1 :
                        /\ (\A i \in 1 .. k : ~Covers(rs[i], o)) => out[k][o + 1] = rm[o + 1]
                        /\ \A j \in 1 .. k :
                             Covers(rs[j], o) /\ (\A i \in j + 1 .. k : ~Covers(rs[i], o)) =>
                               out[k][o + 1] = rs[j].data[o - rs[j].offset + 1]
           T == {k \in 0 .. n : P(k)}
<1>8. 0 \in T
  BY <1>2, <1>7
<1>9. ASSUME NEW k \in 0 .. n - 1, k \in T
      PROVE  k + 1 \in T
  <2>1. k + 1 \in 1 .. n /\ (k + 1) - 1 = k /\ k + 1 \in 0 .. n
    BY <1>2
  <2>2. out[k + 1] = Overlay(out[k], rs[k + 1]) /\ out[k] \in Bytes /\ Len(out[k]) = Len(rm)
    BY <1>7, <1>9, <2>1
  <2>3. Rec(rs[k + 1], Len(out[k]))
    BY <2>1, <2>2
  <2>4. /\ out[k + 1] \in Bytes /\ Len(out[k + 1]) = Len(rm)
        /\ \A o \in 0 .. Len(rm) - 1 :
             out[k + 1][o + 1] = IF Covers(rs[k + 1], o) THEN rs[k + 1].data[o - rs[k + 1].offset + 1]
                                 ELSE out[k][o + 1]
    BY <2>2, <2>3, OverlayFacts
  <2>5. ASSUME NEW o \in 0 .. Len(rm) - 1
        PROVE  /\ (\A i \in 1 .. k + 1 : ~Covers(rs[i], o)) => out[k + 1][o + 1] = rm[o + 1]
               /\ \A j \in 1 .. k + 1 :
                    Covers(rs[j], o) /\ (\A i \in j + 1 .. k + 1 : ~Covers(rs[i], o)) =>
                      out[k + 1][o + 1] = rs[j].data[o - rs[j].offset + 1]
    <3>1. /\ (\A i \in 1 .. k : ~Covers(rs[i], o)) => out[k][o + 1] = rm[o + 1]
          /\ \A j \in 1 .. k :
               Covers(rs[j], o) /\ (\A i \in j + 1 .. k : ~Covers(rs[i], o)) =>
                 out[k][o + 1] = rs[j].data[o - rs[j].offset + 1]
      BY <1>9
    <3> HIDE DEF T
    <3>2. ASSUME \A i \in 1 .. k + 1 : ~Covers(rs[i], o)
          PROVE  out[k + 1][o + 1] = rm[o + 1]
      BY <2>4, <3>1, <3>2
    <3>3. ASSUME NEW j \in 1 .. k + 1, Covers(rs[j], o), \A i \in j + 1 .. k + 1 : ~Covers(rs[i], o)
          PROVE  out[k + 1][o + 1] = rs[j].data[o - rs[j].offset + 1]
      <4>1. CASE j = k + 1
        BY <2>4, <3>3, <4>1
      <4>2. CASE j # k + 1
        <5>1. j \in 1 .. k /\ ~Covers(rs[k + 1], o) /\ \A i \in j + 1 .. k : ~Covers(rs[i], o)
          BY <3>3, <4>2
        <5> QED  BY <2>4, <3>1, <3>3, <5>1
      <4> QED  BY <4>1, <4>2
    <3> QED  BY <3>2, <3>3
  <2> QED  BY <2>1, <2>4, <2>5
<1>10. n \in T
  <2>1. \A k \in 0 .. n : k \in T
    <3> HIDE DEF T
    <3> QED  BY <1>2, <1>8, <1>9, UpTo
  <2> QED  BY <1>2, <2>1
<1> QED  BY <1>6, <1>10 DEF LastWins

-----------------------------------------------------------------------------
(* Sequences of sequences *)

\* T[k] is where the (k + 1)-st of the sequences ss begins when they are packed.
Packs(T, ss) ==
  /\ T \in [0 .. Len(ss) -> Nat] /\ T[0] = 0
  /\ \A k \in 1 .. Len(ss) : T[k] = T[k - 1] + Len(ss[k])

\* Every element of the k-th sequence is in its place in fl, and nothing else is there.
IsPacked(fl, T, ss) ==
  /\ \A k \in 1 .. Len(ss) : \A i \in 1 .. Len(ss[k]) :
       T[k - 1] + i <= T[Len(ss)] /\ fl[T[k - 1] + i] = ss[k][i]
  /\ \A p \in 1 .. T[Len(ss)] :
       \E k \in 1 .. Len(ss) : \E i \in 1 .. Len(ss[k]) : p = T[k - 1] + i

\* FlattenSeq packs its sequences.
LEMMA FlattenFacts ==
  ASSUME NEW S, NEW ss, Len(ss) \in Nat \ {0}, \A k \in 1 .. Len(ss) : ss[k] \in Seq(S),
         NEW T, Packs(T, ss)
  PROVE  /\ FlattenSeq(ss) \in Seq(S) /\ Len(FlattenSeq(ss)) = T[Len(ss)]
         /\ IsPacked(FlattenSeq(ss), T, ss)
<1> DEFINE n == Len(ss)
           Q == Seq(S)
           Cat(s, t) == s \o t
           G == [k \in 1 .. n |-> [s \in Q |-> Cat(s, ss[k])]]
           IsFlat(g) == g = [k \in 1 .. n |-> IF k = 1 THEN ss[k] ELSE Cat(g[k - 1], ss[k])]
           flat == CHOOSE g : IsFlat(g)
<1>1. n \in Nat /\ n # 0 /\ 1 \in 1 .. n
  OBVIOUS
<1>a. <<>> \in Q /\ \A k \in 1 .. n : ss[k] \in Q
  BY EmptySeq
<1>b. \A s \in Q : Cat(<<>>, s) = s /\ Len(s) \in Nat
  BY ConcatEmptySeq, LenProperties
<1>c. \A s, t \in Q : /\ Cat(s, t) \in Q /\ Len(Cat(s, t)) = Len(s) + Len(t)
                     /\ \A i \in 1 .. Len(s) + Len(t) :
                          Cat(s, t)[i] = IF i <= Len(s) THEN s[i] ELSE t[i - Len(s)]
  BY ConcatProperties
<1>2. /\ \A k \in 0 .. n : T[k] \in Nat
      /\ \A k \in 1 .. n : T[k - 1] \in Nat /\ T[k] = T[k - 1] + Len(ss[k]) /\ Len(ss[k]) \in Nat
      /\ T[0] = 0
  <2>1. T \in [0 .. n -> Nat] /\ T[0] = 0 /\ \A k \in 1 .. n : T[k] = T[k - 1] + Len(ss[k])
    BY DEF Packs
  <2> HIDE DEF n, Q, Cat
  <2> QED  BY <1>1, <1>a, <1>b, <2>1
<1>3. FlattenSeq(ss) = flat[n]
  BY <1>1 DEF FlattenSeq
<1> HIDE DEF n, Q, Cat
<1>4. Steps(G, n, Q)
  BY <1>a, <1>c DEF Steps
<1>5. PICK h : IsHistory(h, <<>>, G, n) /\ h \in [0 .. n -> Q]
  <2> HIDE DEF G
  <2> QED  BY <1>1, <1>a, <1>4, History
<1> DEFINE f == [k \in 1 .. n |-> h[k]]
<1>6. IsFlat(f)
  <2>1. \A k \in 1 .. n : h[k - 1] \in Q /\ h[k] = Cat(h[k - 1], ss[k])
    <3> TAKE k \in 1 .. n
    <3>1. h[k - 1] \in Q /\ h[k] = G[k][h[k - 1]]
      <4> HIDE DEF G
      <4>1. k - 1 \in 0 .. n
        BY <1>1
      <4> QED  BY <1>5, <4>1 DEF IsHistory
    <3> QED  BY <3>1
  <2>2. h[1] = ss[1]
    <3>1. h[0] = <<>>
      BY <1>5 DEF IsHistory
    <3>2. h[1] = Cat(h[1 - 1], ss[1]) /\ 1 - 1 = 0
      BY <1>1, <2>1
    <3> QED  BY <1>1, <1>a, <1>b, <3>1, <3>2
  <2> HIDE DEF G
  <2> QED  BY <1>1, <2>1, <2>2
<1>7. IsFlat(flat)
  BY <1>6
<1> HIDE DEF flat, G
<1>8. flat[1] = ss[1] /\ \A k \in 2 .. n : flat[k] = Cat(flat[k - 1], ss[k])
  BY <1>1, <1>7
<1> HIDE DEF IsFlat
<1> DEFINE P(m) == /\ flat[m] \in Q /\ Len(flat[m]) = T[m]
                   /\ \A k \in 1 .. m : T[k] <= T[m]
                   /\ \A k \in 1 .. m : \A i \in 1 .. Len(ss[k]) : flat[m][T[k - 1] + i] = ss[k][i]
                   /\ \A p \in 1 .. T[m] :
                        \E k \in 1 .. m : \E i \in 1 .. Len(ss[k]) : p = T[k - 1] + i
           D == {m \in 0 .. n : m = 0 \/ P(m)}
<1>9. 0 \in D
  BY <1>1
<1>10. ASSUME NEW m \in 0 .. n - 1, m \in D
       PROVE  m + 1 \in D
  <2>1. m + 1 \in 1 .. n /\ (m + 1) - 1 = m /\ ss[m + 1] \in Q /\ m + 1 \in 0 .. n
    BY <1>1, <1>a
  <2>2. CASE m = 0
    <3>1. flat[1] \in Q /\ Len(flat[1]) = T[1] /\ T[1] = Len(ss[1]) /\ T[1] <= T[1] /\ flat[1] = ss[1]
      BY <1>8, <1>2, <2>1, <2>2
    <3>2. P(1)
      BY <1>2, <2>1, <2>2, <3>1
    <3> QED  BY <2>1, <2>2, <3>2
  <2>3. CASE m # 0
    <3>1. P(m) /\ flat[m + 1] = Cat(flat[m], ss[m + 1])
      BY <1>8, <1>10, <2>1, <2>3
    <3>2. /\ flat[m + 1] \in Q /\ Len(flat[m + 1]) = T[m + 1]
          /\ \A i \in 1 .. T[m + 1] :
               flat[m + 1][i] = IF i <= T[m] THEN flat[m][i] ELSE ss[m + 1][i - T[m]]
      <4>1. flat[m] \in Q /\ Len(flat[m]) = T[m] /\ T[m + 1] = T[m] + Len(ss[m + 1])
        BY <1>2, <2>1, <3>1
      <4> HIDE DEF P
      <4> DEFINE c == Cat(flat[m], ss[m + 1])
      <4>3. /\ c \in Q /\ Len(c) = Len(flat[m]) + Len(ss[m + 1])
            /\ \A i \in 1 .. Len(flat[m]) + Len(ss[m + 1]) :
                 c[i] = IF i <= Len(flat[m]) THEN flat[m][i] ELSE ss[m + 1][i - Len(flat[m])]
        BY <1>c, <2>1, <4>1
      <4> HIDE DEF c
      <4>4. flat[m + 1] = c
        BY <3>1 DEF c
      <4> QED  BY <4>1, <4>3, <4>4
    <3>3. \A k \in 1 .. m + 1 : T[k] <= T[m + 1]
      <4>1. T[m] <= T[m + 1] /\ T[m] \in Nat /\ T[m + 1] \in Nat /\ \A k \in 1 .. m : T[k] <= T[m] /\ T[k] \in Nat
        BY <1>1, <1>2, <2>1, <3>1
      <4> HIDE DEF P
      <4> QED  BY <4>1
    <3>4. ASSUME NEW k \in 1 .. m + 1, NEW i \in 1 .. Len(ss[k])
          PROVE  flat[m + 1][T[k - 1] + i] = ss[k][i]
      <4>0. k \in 1 .. n /\ T[k] <= T[m + 1]
        BY <1>1, <2>1, <3>3
      <4>t. /\ T[k - 1] \in Nat /\ T[k] = T[k - 1] + Len(ss[k]) /\ Len(ss[k]) \in Nat
            /\ T[m] \in Nat /\ T[m + 1] \in Nat
        BY <1>1, <1>2, <2>1, <4>0
      <4>1. T[k - 1] + i \in 1 .. T[m + 1] /\ T[k - 1] + i <= T[k]
        <5>1. PICK x, y, z, u : x = T[k - 1] /\ y = Len(ss[k]) /\ z = T[k] /\ u = T[m + 1]
          OBVIOUS
        <5>2. x \in Nat /\ y \in Nat /\ z = x + y /\ u \in Nat /\ z <= u /\ i \in 1 .. y
          BY <3>4, <4>0, <4>t, <5>1
        <5>3. x + i \in 1 .. u /\ x + i <= z
          BY <5>2
        <5> QED  BY <5>1, <5>3
      <4>2. CASE k = m + 1
        <5> HIDE DEF P
        <5>1. T[k - 1] = T[m] /\ ss[k] = ss[m + 1] /\ T[m] + i \in 1 .. T[m + 1] /\ (T[m] + i) - T[m] = i /\ ~(T[m] + i <= T[m])
          BY <1>2, <2>1, <4>1, <4>2
        <5> QED  BY <3>2, <5>1
      <4>3. CASE k \in 1 .. m
        <5>0. T[k] <= T[m] /\ flat[m][T[k - 1] + i] = ss[k][i]
          BY <3>1, <4>3
        <5>1. T[k - 1] + i <= T[m]
          <6> HIDE DEF P
          <6> QED  BY <4>t, <4>1, <5>0, SMTT(40)
        <5> HIDE DEF P
        <5> QED  BY <3>2, <4>1, <5>0, <5>1
      <4> QED  BY <4>2, <4>3
    <3>5. ASSUME NEW p \in 1 .. T[m + 1]
          PROVE  \E k \in 1 .. m + 1 : \E i \in 1 .. Len(ss[k]) : p = T[k - 1] + i
      <4>1. CASE p <= T[m]
        <5>1. p \in 1 .. T[m]
          BY <1>2, <2>1, <4>1
        <5>2. PICK k \in 1 .. m : \E i \in 1 .. Len(ss[k]) : p = T[k - 1] + i
          BY <3>1, <5>1
        <5>3. k \in 1 .. m + 1
          OBVIOUS
        <5> QED  BY <5>2, <5>3
      <4>2. CASE p > T[m]
        <5>1. p - T[m] \in 1 .. Len(ss[m + 1]) /\ p = T[(m + 1) - 1] + (p - T[m])
          BY <1>2, <2>1, <4>2, SMTT(40)
        <5>2. m + 1 \in 1 .. m + 1
          OBVIOUS
        <5> QED  BY <5>1, <5>2
      <4> QED  BY <1>2, <2>1, <4>1, <4>2
    <3>6. P(m + 1)
      BY <3>2, <3>3, <3>4, <3>5
    <3> QED  BY <2>1, <3>6
  <2> QED  BY <2>2, <2>3
<1>11. P(n)
  <2>1. \A m \in 0 .. n : m \in D
    <3> HIDE DEF D
    <3> QED  BY <1>1, <1>9, <1>10, UpTo
  <2>2. n \in 0 .. n /\ n # 0
    BY <1>1
  <2>3. n \in D
    <3> HIDE DEF D
    <3> QED  BY <2>1, <2>2
  <2> HIDE DEF P
  <2> QED  BY <2>2, <2>3
<1>12. \A k \in 1 .. n : \A i \in 1 .. Len(ss[k]) : T[k - 1] + i <= T[n]
  <2>1. \A k \in 1 .. n : T[k] <= T[n]
    BY <1>11
  <2> HIDE DEF P
  <2> TAKE k \in 1 .. n
  <2> TAKE i \in 1 .. Len(ss[k])
  <2>2. PICK x, y, z, u : x = T[k - 1] /\ y = Len(ss[k]) /\ z = T[k] /\ u = T[n]
    OBVIOUS
  <2>3. x \in Nat /\ y \in Nat /\ z = x + y /\ u \in Nat /\ z <= u /\ i \in 1 .. y
    <3>1. k - 1 \in 0 .. n /\ n \in 0 .. n
      BY <1>1
    <3> QED  BY <1>1, <1>2, <2>1, <2>2, <3>1
  <2>4. x + i <= u
    BY <2>3
  <2> QED  BY <2>2, <2>4
<1> QED  BY <1>3, <1>11, <1>12 DEF n, Q, IsPacked

\* Any sequences can be packed.
LEMMA PackingExists ==
  ASSUME NEW S, NEW ss, Len(ss) \in Nat, \A k \in 1 .. Len(ss) : ss[k] \in Seq(S)
  PROVE  \E T : Packs(T, ss)
<1> DEFINE n == Len(ss)
           G == [k \in 1 .. n |-> [x \in Nat |-> x + Len(ss[k])]]
<1>1. Steps(G, n, Nat)
  BY LenProperties DEF Steps
<1>2. PICK h : IsHistory(h, 0, G, n) /\ h \in [0 .. n -> Nat]
  <2> HIDE DEF G, n
  <2> QED  BY <1>1, History DEF n
<1>3. \A k \in 1 .. n : h[k] = h[k - 1] + Len(ss[k])
  <2> TAKE k \in 1 .. n
  <2>1. h[k - 1] \in Nat /\ h[k] = G[k][h[k - 1]]
    <3> HIDE DEF G, n
    <3>1. k - 1 \in 0 .. n
      BY DEF n
    <3> QED  BY <1>2, <3>1 DEF IsHistory
  <2> HIDE DEF n
  <2> QED  BY <2>1
<1> QED  BY <1>2, <1>3 DEF Packs, IsHistory

-----------------------------------------------------------------------------
(* make_ips *)

\* The elements of a finite set of offsets are ranked by how many lie below.
LEMMA Ranked ==
  ASSUME NEW n \in Nat, NEW S \in SUBSET (0 .. n - 1)
  PROVE  /\ IsFiniteSet(S) /\ Cardinality(S) \in Nat
         /\ \A i \in 1 .. Cardinality(S) : \E o \in S : Cardinality({p \in S : p < o}) = i - 1
         /\ \A o \in S : \E i \in 1 .. Cardinality(S) : Cardinality({p \in S : p < o}) = i - 1
         /\ \A o, q \in S : Cardinality({p \in S : p < o}) = Cardinality({p \in S : p < q}) => o = q
<1> DEFINE Below(o) == {p \in S : p < o}
           c == Cardinality(S)
<1>1. IsFiniteSet(S)
  <2>1. 0 \in Int /\ n - 1 \in Int
    OBVIOUS
  <2>2. IsFiniteSet(0 .. n - 1)
    BY <2>1, FS_Interval
  <2> QED  BY <2>2, FS_Subset
<1>2. c \in Nat
  BY <1>1, FS_CardinalityType
<1>3. \A o \in S : Below(o) \in SUBSET S /\ o \notin Below(o)
  OBVIOUS
<1>4. \A o \in S : IsFiniteSet(Below(o)) /\ Cardinality(Below(o)) \in Nat /\ Cardinality(Below(o)) < c
  <2> TAKE o \in S
  <2>1. Below(o) \in SUBSET S /\ Below(o) # S
    BY <1>3
  <2> HIDE DEF Below
  <2>2. IsFiniteSet(Below(o)) /\ Cardinality(Below(o)) <= Cardinality(S) /\ Cardinality(Below(o)) # Cardinality(S)
    BY <1>1, <2>1, FS_Subset
  <2>3. Cardinality(Below(o)) \in Nat
    BY <2>2, FS_CardinalityType
  <2> QED  BY <1>2, <2>2, <2>3
<1>5. ASSUME NEW o \in S, NEW q \in S, o < q
      PROVE  Cardinality(Below(o)) < Cardinality(Below(q))
  <2>1. Below(o) \in SUBSET Below(q) /\ Below(o) # Below(q)
    <3>1. o \in Below(q) /\ o \notin Below(o)
      BY <1>5
    <3>2. \A p \in S : p < o => p < q
      BY <1>5
    <3> QED  BY <3>1, <3>2
  <2> HIDE DEF Below
  <2>2. Cardinality(Below(o)) <= Cardinality(Below(q)) /\ Cardinality(Below(o)) # Cardinality(Below(q))
    BY <1>4, <2>1, FS_Subset
  <2> QED  BY <1>4, <2>2
<1> DEFINE f == [o \in S |-> Cardinality(Below(o))]
<1>6. \A o, q \in S : Cardinality(Below(o)) = Cardinality(Below(q)) => o = q
  <2> TAKE o, q \in S
  <2>1. o \in Int /\ q \in Int /\ Cardinality(Below(o)) \in Nat /\ Cardinality(Below(q)) \in Nat
    BY <1>4
  <2>2. o < q => Cardinality(Below(o)) < Cardinality(Below(q))
    BY <1>5
  <2>3. q < o => Cardinality(Below(q)) < Cardinality(Below(o))
    BY <1>5
  <2> HIDE DEF Below
  <2> QED  BY <2>1, <2>2, <2>3
<1>7. f \in Injection(S, 0 .. c - 1)
  <2> HIDE DEF Below, c
  <2>1. \A o \in S : Cardinality(Below(o)) \in 0 .. c - 1
    BY <1>2, <1>4
  <2> QED  BY <1>6, <2>1 DEF Injection, IsInjective
<1>8. IsFiniteSet(0 .. c - 1) /\ Cardinality(0 .. c - 1) = c
  <2> HIDE DEF c
  <2>1. 0 \in Int /\ c - 1 \in Int
    BY <1>2
  <2>2. IsFiniteSet(0 .. c - 1) /\ Cardinality(0 .. c - 1) = IF 0 > c - 1 THEN 0 ELSE (c - 1) - 0 + 1
    BY <2>1, FS_Interval
  <2> QED  BY <1>2, <2>2
<1>9. f \in Surjection(S, 0 .. c - 1)
  <2> HIDE DEF f
  <2> QED  BY <1>7, <1>8, FS_Injection
<1>10. \A i \in 1 .. c : \E o \in S : Cardinality(Below(o)) = i - 1
  <2> HIDE DEF Below, c
  <2> TAKE i \in 1 .. c
  <2>1. i - 1 \in 0 .. c - 1
    BY <1>2
  <2> QED  BY <1>9, <2>1 DEF Surjection
<1>11. \A o \in S : Cardinality(Below(o)) + 1 \in 1 .. c /\ (Cardinality(Below(o)) + 1) - 1 = Cardinality(Below(o))
  <2> HIDE DEF Below, c
  <2> QED  BY <1>2, <1>4
<1>12. \A o \in S : \E i \in 1 .. c : Cardinality(Below(o)) = i - 1
  <2> HIDE DEF Below, c
  <2> QED  BY <1>11
<1> QED  BY <1>1, <1>2, <1>6, <1>10, <1>12

\* A record that writes exactly differing bytes: those of the modified ROM.
Faithful(r, V, F) ==
  /\ Rec(r, Len(F)) /\ r.length # 0
  /\ \A i \in 1 .. r.length : r.data[i] = F[r.offset + i]
  /\ \A o \in 0 .. Len(F) - 1 : Covers(r, o) => Differs(V, F, o)

\* It goes on up to the end of the run, or is as long as a record can be.
Ends(r, V, F) == r.offset + r.length = Len(F) \/ ~Differs(V, F, r.offset + r.length)
Full(r, V, F) == r.length <= MaxLen /\ (r.length = MaxLen \/ Ends(r, V, F))

\* _diff_runs yields the differing bytes, and all of them.
LEMMA DiffRunsFacts ==
  ASSUME NEW V \in Bytes, NEW F \in Bytes
  PROVE  /\ Len(DiffRuns(V, F)) \in Nat /\ DOMAIN DiffRuns(V, F) = 1 .. Len(DiffRuns(V, F))
         /\ \A k \in 1 .. Len(DiffRuns(V, F)) :
              Faithful(DiffRuns(V, F)[k], V, F) /\ Ends(DiffRuns(V, F)[k], V, F)
         /\ \A o \in 0 .. Len(F) - 1 :
              Differs(V, F, o) => \E k \in 1 .. Len(DiffRuns(V, F)) : Covers(DiffRuns(V, F)[k], o)
<1> DEFINE n == Len(F)
           D(o) == o \in 0 .. n - 1 /\ Differs(V, F, o)
           starts == {o \in 0 .. n - 1 : D(o) /\ ~D(o - 1)}
           End(o) == CHOOSE e \in o .. n : ~D(e) /\ \A k \in o .. e - 1 : D(k)
           Nth(i) == CHOOSE o \in starts : Cardinality({p \in starts : p < o}) = i - 1
           c == Cardinality(starts)
           Run(i) == Raw(Nth(i), SubSeq(F, Nth(i) + 1, End(Nth(i))))
           runs == [i \in 1 .. c |-> Run(i)]
<1>1. DiffRuns(V, F) = runs
  BY DEF DiffRuns
<1>2. n \in Nat /\ F \in Seq(Cells) /\ \A i \in 1 .. n : F[i] \in Cells
  <2>1. F \in Seq(Cells)
    BY DEF Bytes, Cells, Ops
  <2> QED  BY <2>1, LenProperties, ElementOfSeq
<1> HIDE DEF n
<1>3. starts \in SUBSET (0 .. n - 1) /\ \A o \in starts : D(o) /\ ~D(o - 1)
  OBVIOUS
<1>4. \A s \in starts : End(s) \in s .. n /\ ~D(End(s)) /\ \A k \in s .. End(s) - 1 : D(k)
  <2> TAKE s \in starts
  <2> DEFINE B == {e \in s .. n : ~D(e)}
  <2>1. s \in 0 .. n - 1
    BY <1>3
  <2>2. n \in B /\ B \in SUBSET Nat
    BY <1>2, <2>1
  <2>3. PICK e \in B : \A k \in B : e <= k
    <3> HIDE DEF B
    <3> QED  BY <2>2, Least
  <2>4. e \in s .. n /\ ~D(e)
    BY <2>3
  <2>5. \A k \in s .. e - 1 : D(k)
    <3> HIDE DEF D
    <3> TAKE k \in s .. e - 1
    <3>1. k \in s .. n /\ ~(e <= k)
      BY <1>2, <2>1, <2>4
    <3> QED  BY <2>3, <3>1
  <2> HIDE DEF D, starts
  <2>6. \E x \in s .. n : ~D(x) /\ \A k \in s .. x - 1 : D(k)
    BY <2>4, <2>5
  <2> QED  BY <2>6
<1> HIDE DEF starts
<1>5. /\ c \in Nat
      /\ \A i \in 1 .. c : Nth(i) \in starts
      /\ \A o \in starts : \E i \in 1 .. c : Nth(i) = o
  <2>1. /\ c \in Nat
        /\ \A i \in 1 .. c : \E o \in starts : Cardinality({p \in starts : p < o}) = i - 1
        /\ \A o \in starts : \E i \in 1 .. c : Cardinality({p \in starts : p < o}) = i - 1
        /\ \A o, q \in starts : Cardinality({p \in starts : p < o}) = Cardinality({p \in starts : p < q}) => o = q
    BY <1>2, <1>3, Ranked
  <2> DEFINE Rank(o) == Cardinality({p \in starts : p < o})
  <2>2. \A i \in 1 .. c : Nth(i) \in starts /\ Rank(Nth(i)) = i - 1
    BY <2>1
  <2>3. \A o \in starts : \E i \in 1 .. c : Rank(o) = i - 1
    BY <2>1
  <2>4. \A o, q \in starts : Rank(o) = Rank(q) => o = q
    BY <2>1
  <2>5. c \in Nat
    BY <2>1
  <2> HIDE DEF Rank, Nth, c
  <2>6. \A o \in starts : \E i \in 1 .. c : Nth(i) = o
    <3> TAKE o \in starts
    <3>1. PICK i \in 1 .. c : Rank(o) = i - 1
      BY <2>3
    <3> QED  BY <2>2, <2>4, <3>1
  <2> QED  BY <2>2, <2>5, <2>6
<1> HIDE DEF End, Nth, c
<1>6. Len(runs) = c /\ DOMAIN runs = 1 .. c /\ \A i \in 1 .. c : runs[i] = Run(i)
  <2> HIDE DEF Run
  <2> QED  BY <1>5
<1> HIDE DEF runs
<1>7. ASSUME NEW i \in 1 .. c
      PROVE  /\ Faithful(Run(i), V, F) /\ Ends(Run(i), V, F)
             /\ Run(i).offset = Nth(i) /\ Run(i).offset + Run(i).length = End(Nth(i))
  <2>1. PICK s : s = Nth(i)
    OBVIOUS
  <2>2. PICK e : e = End(s)
    OBVIOUS
  <2>3. /\ s \in 0 .. n - 1 /\ D(s) /\ e \in s .. n /\ ~D(e) /\ \A k \in s .. e - 1 : D(k)
    <3>1. s \in starts
      BY <1>5, <2>1
    <3> HIDE DEF D
    <3> QED  BY <1>3, <1>4, <2>2, <3>1
  <2>4. e # s /\ e \in Nat /\ s \in Nat /\ s < e /\ e <= n
    BY <1>2, <2>3
  <2> DEFINE d == SubSeq(F, s + 1, e)
  <2>5. d \in Seq(Cells) /\ Len(d) = e - s /\ \A k \in 1 .. e - s : d[k] = F[s + k]
    <3>1. \A k \in s + 1 .. e : F[k] \in Cells
      BY <1>2, <2>4
    <3>2. /\ d \in Seq(Cells) /\ Len(d) = IF s + 1 <= e THEN e - (s + 1) + 1 ELSE 0
          /\ \A k \in 1 .. e - (s + 1) + 1 : d[k] = F[s + 1 + k - 1]
      BY <2>4, <3>1, SubSeqProperties
    <3> HIDE DEF d
    <3>3. \A k \in 1 .. e - s : k \in 1 .. e - (s + 1) + 1 /\ s + 1 + k - 1 = s + k
      BY <2>4
    <3> QED  BY <2>4, <3>2, <3>3
  <2>6. Run(i) = Raw(s, d)
    BY <2>1, <2>2
  <2> HIDE DEF d, Run
  <2>7. Run(i).offset = s /\ Run(i).length = e - s /\ Run(i).data = d
    BY <2>5, <2>6 DEF Raw
  <2>8. Rec(Run(i), Len(F)) /\ Run(i).length # 0
    BY <2>4, <2>5, <2>7 DEF Rec, Bytes, Cells, Ops, n
  <2>9. \A o \in 0 .. Len(F) - 1 : Covers(Run(i), o) => Differs(V, F, o)
    <3> TAKE o \in 0 .. Len(F) - 1
    <3> HAVE Covers(Run(i), o)
    <3>1. o \in s .. e - 1
      BY <2>4, <2>7 DEF Covers
    <3> QED  BY <2>3, <3>1
  <2>10. \A k \in 1 .. Run(i).length : Run(i).data[k] = F[Run(i).offset + k]
    BY <2>5, <2>7
  <2>11. Run(i).offset + Run(i).length = e
    BY <2>4, <2>7
  <2>12. Ends(Run(i), V, F)
    BY <1>2, <2>3, <2>4, <2>11 DEF Ends, n
  <2> QED  BY <2>1, <2>2, <2>7, <2>8, <2>9, <2>10, <2>11, <2>12 DEF Faithful
<1>8. ASSUME NEW o \in 0 .. Len(F) - 1, Differs(V, F, o)
      PROVE  \E k \in 1 .. c : Covers(Run(k), o)
  <2> DEFINE B == {e \in 0 .. o : D(o - e) /\ ~D(o - e - 1)}
             A == {e \in 0 .. o + 1 : ~D(o - e)}
  <2>1. o \in 0 .. n - 1 /\ D(o)
    BY <1>8 DEF n
  <2>2. o + 1 \in A /\ A \in SUBSET Nat
    BY <1>2, <2>1
  <2>3. PICK a \in A : \A k \in A : a <= k
    <3> HIDE DEF A
    <3> QED  BY <2>2, Least
  <2>4. a \in 0 .. o + 1 /\ ~D(o - a) /\ a # 0
    BY <2>1, <2>3
  <2>5. \A e \in 0 .. a - 1 : D(o - e)
    <3> HIDE DEF D
    <3> TAKE e \in 0 .. a - 1
    <3>1. e \in 0 .. o + 1 /\ ~(a <= e)
      BY <2>1, <2>4
    <3> QED  BY <2>3, <3>1
  <2>6. PICK s : s = o - (a - 1)
    OBVIOUS
  <2>7. s \in 0 .. n - 1 /\ s <= o /\ s \in Int /\ o \in Int
    BY <1>2, <2>1, <2>4, <2>6
  <2>8. D(s) /\ ~D(s - 1)
    <3>1. a - 1 \in 0 .. a - 1 /\ s - 1 = o - a
      BY <2>1, <2>4, <2>6
    <3> HIDE DEF D
    <3> QED  BY <2>4, <2>5, <2>6, <3>1
  <2>9. \A k \in s .. o : D(k)
    <3> HIDE DEF D
    <3> TAKE k \in s .. o
    <3>1. o - k \in 0 .. a - 1 /\ o - (o - k) = k
      BY <2>1, <2>4, <2>6, <2>7
    <3> QED  BY <2>5, <3>1
  <2>10. s \in starts
    BY <2>7, <2>8 DEF starts
  <2>11. End(s) \in s .. n /\ ~D(End(s))
    BY <1>4, <2>10
  <2>12. o < End(s)
    <3> HIDE DEF D
    <3> QED  BY <1>2, <2>7, <2>9, <2>11
  <2>13. PICK i \in 1 .. c : Nth(i) = s
    BY <1>5, <2>10
  <2>14. Run(i).offset = s /\ Run(i).offset + Run(i).length = End(s)
    BY <1>7, <2>13
  <2> HIDE DEF Run
  <2> QED  BY <2>7, <2>12, <2>14 DEF Covers
<1> HIDE DEF Run
<1> QED  BY <1>1, <1>5, <1>6, <1>7, <1>8

\* Division of naturals.
LEMMA DivFacts ==
  ASSUME NEW a \in Nat, NEW m \in Nat \ {0}
  PROVE  a \div m \in Nat /\ (a \div m) * m <= a /\ a < (a \div m) * m + m
OBVIOUS

\* Multiples grow with their factor.
LEMMA Multiples ==
  ASSUME NEW k \in Nat, NEW q \in Nat, NEW m \in Nat \ {0}, k <= q
  PROVE  k * m <= q * m /\ k * m \in Nat
OBVIOUS

\* The chunks of at most m bytes that l bytes are cut into.
LEMMA Chunks ==
  ASSUME NEW l \in Nat, NEW m \in Nat \ {0}
  PROVE  /\ (l + m - 1) \div m \in Nat
         /\ \A k \in 1 .. (l + m - 1) \div m : (k - 1) * m \in Nat /\ (k - 1) * m < l
         /\ \A i \in 0 .. l - 1 : \E k \in 1 .. (l + m - 1) \div m :
              (k - 1) * m <= i /\ i < (k - 1) * m + m
<1>1. PICK q : q = (l + m - 1) \div m
  OBVIOUS
<1>2. q \in Nat /\ q * m <= l + m - 1 /\ l + m - 1 < q * m + m
  BY <1>1, DivFacts
<1>3. ASSUME NEW k \in 1 .. q
      PROVE  (k - 1) * m \in Nat /\ (k - 1) * m < l
  <2>1. k * m <= q * m /\ k * m \in Nat /\ (k - 1) * m \in Nat
    BY <1>2, Multiples
  <2>2. (k - 1) * m = k * m - m
    OBVIOUS
  <2> QED  BY <1>2, <2>1, <2>2
<1>4. ASSUME NEW i \in 0 .. l - 1
      PROVE  \E k \in 1 .. q : (k - 1) * m <= i /\ i < (k - 1) * m + m
  <2>1. PICK j : j = i \div m
    OBVIOUS
  <2>2. j \in Nat /\ j * m <= i /\ i < j * m + m
    BY <2>1, DivFacts
  <2>3. j + 1 <= q
    <3>1. SUFFICES ASSUME q <= j PROVE FALSE
      BY <1>2, <2>2
    <3>2. q * m <= j * m
      BY <1>2, <2>2, <3>1, Multiples
    <3> QED  BY <1>2, <2>2, <3>2
  <2>4. j + 1 \in 1 .. q /\ (j + 1) - 1 = j
    BY <1>2, <2>2, <2>3
  <2> QED  BY <2>2, <2>4
<1> QED  BY <1>1, <1>2, <1>3, <1>4

\* What parse yields for a record.
Expanded(r) ==
  IF r.length = 0 THEN Raw(r.offset, [i \in 1 .. r.count |-> r.data[1]]) ELSE r

\* The encoded chunks of a record say what the record says.
LEMMA EncodeRecordFacts ==
  ASSUME NEW V \in Bytes, NEW F \in Bytes, NEW r, Faithful(r, V, F), Ends(r, V, F)
  PROVE  /\ Len(EncodeRecord(r)) \in Nat /\ DOMAIN EncodeRecord(r) = 1 .. Len(EncodeRecord(r))
         /\ EncodeRecord(r) = [k \in 1 .. Len(EncodeRecord(r)) |-> EncodeRecord(r)[k]]
         /\ \A k \in 1 .. Len(EncodeRecord(r)) :
              /\ Faithful(Expanded(EncodeRecord(r)[k]), V, F)
              /\ Full(Expanded(EncodeRecord(r)[k]), V, F)
              /\ Expanded(EncodeRecord(r)[k]).offset = EncodeRecord(r)[k].offset
         /\ \A o \in 0 .. Len(F) - 1 :
              Covers(r, o) => \E k \in 1 .. Len(EncodeRecord(r)) : Covers(Expanded(EncodeRecord(r)[k]), o)
<1> DEFINE l == r.length
           q == (l + MaxLen - 1) \div MaxLen
           At(k) == (k - 1) * MaxLen
           Chunk(k) == Slice(r.data, At(k), MaxLen)
           Code(k) == IF Len(Chunk(k)) >= RleMin /\ \A i \in DOMAIN Chunk(k) : Chunk(k)[i] = Chunk(k)[1]
                      THEN Rle(r.offset + At(k), Len(Chunk(k)), Chunk(k)[1])
                      ELSE Raw(r.offset + At(k), Chunk(k))
           enc == [k \in 1 .. q |-> Code(k)]
<1>1. EncodeRecord(r) = enc
  BY DEF EncodeRecord
<1>2. /\ r.offset \in Nat /\ l \in Nat /\ r.data \in Bytes /\ Len(r.data) = l /\ r.offset + l <= Len(F)
      /\ Len(F) \in Nat
      /\ \A i \in 1 .. l : r.data[i] = F[r.offset + i]
      /\ \A o \in 0 .. Len(F) - 1 : Covers(r, o) => Differs(V, F, o)
  BY LenProperties DEF Faithful, Rec, Bytes
<1>3. MaxLen \in Nat \ {0} /\ RleMin \in Nat \ {0}
  BY IpsAssumption
<1>4. /\ q \in Nat
      /\ \A k \in 1 .. q : At(k) \in Nat /\ At(k) < l
      /\ \A i \in 0 .. l - 1 : \E k \in 1 .. q : At(k) <= i /\ i < At(k) + MaxLen
  BY <1>2, <1>3, Chunks
<1> HIDE DEF l, q, At
<1>5. Len(enc) = q /\ DOMAIN enc = 1 .. q /\ (\A k \in 1 .. q : enc[k] = Code(k)) /\ enc = [k \in 1 .. q |-> enc[k]]
  <2> HIDE DEF Code
  <2> QED  BY <1>4
<1> HIDE DEF enc
<1>6. ASSUME NEW k \in 1 .. q
      PROVE  /\ Faithful(Expanded(Code(k)), V, F) /\ Full(Expanded(Code(k)), V, F)
             /\ Expanded(Code(k)).offset = Code(k).offset
             /\ \A o \in Nat : r.offset + At(k) <= o /\ o < r.offset + At(k) + MaxLen /\ o < r.offset + l =>
                  Covers(Expanded(Code(k)), o)
  <2>1. PICK a : a = At(k)
    OBVIOUS
  <2>2. PICK d : d = Slice(r.data, a, MaxLen)
    OBVIOUS
  <2>3. a \in Nat /\ a < l
    BY <1>4, <2>1
  <2>4. /\ d \in Bytes /\ Len(d) \in Nat /\ Len(d) # 0 /\ a + Len(d) <= l /\ Len(d) <= MaxLen
        /\ Len(d) = MaxLen \/ a + Len(d) = l
        /\ \A i \in 1 .. Len(d) : d[i] = r.data[a + i]
    <3>1. /\ d \in Bytes /\ Len(d) <= MaxLen /\ (a + MaxLen <= Len(r.data) => Len(d) = MaxLen)
          /\ (a < Len(r.data) => a + Len(d) <= Len(r.data))
          /\ \A i \in 1 .. Len(d) : d[i] = r.data[a + i]
      <4>1. PICK b, m : b = r.data /\ m = MaxLen
        OBVIOUS
      <4>2. b \in Bytes /\ a \in Nat /\ m \in Nat /\ d = Slice(b, a, m)
        BY <1>2, <1>3, <2>2, <2>3, <4>1
      <4>3. d \in Bytes /\ Len(d) <= m
        BY <4>2, SliceFacts
      <4>4. a + m <= Len(b) => Len(d) = m
        BY <4>2, SliceFacts
      <4>5. a < Len(b) => a + Len(d) <= Len(b)
        BY <4>2, SliceFacts
      <4>6. \A i \in 1 .. Len(d) : d[i] = b[a + i]
        <5>1. IsSlice(d, b, a)
          BY <4>2, SliceFacts
        <5> QED  BY <5>1 DEF IsSlice
      <4> QED  BY <4>1, <4>3, <4>4, <4>5, <4>6
    <3>2. ~(a + MaxLen <= Len(r.data)) => Len(d) = Len(r.data) - a
      <4>1. r.data \in Seq(Cells) /\ Len(r.data) \in Nat
        BY <1>2 DEF Bytes, Cells, Ops
      <4>2. \A i \in a + 1 .. Len(r.data) : r.data[i] \in Cells
        BY <4>1, <2>3, ElementOfSeq
      <4>3. HAVE ~(a + MaxLen <= Len(r.data))
      <4>4. d = SubSeq(r.data, a + 1, Len(r.data))
        BY <1>2, <1>3, <2>2, <2>3, <4>3 DEF Slice
      <4>5. Len(d) = IF a + 1 <= Len(r.data) THEN Len(r.data) - (a + 1) + 1 ELSE 0
        BY <1>2, <2>3, <4>1, <4>2, <4>4, SubSeqProperties
      <4> QED  BY <1>2, <2>3, <4>5
    <3>3. Len(d) \in Nat
      BY <3>1, LenProperties DEF Bytes
    <3> QED  BY <1>2, <1>3, <2>3, <3>1, <3>2, <3>3
  <2>5. PICK w : w = r.offset + a
    OBVIOUS
  <2>6. w \in Nat /\ w + Len(d) <= Len(F) /\ \A i \in 1 .. Len(d) : d[i] = F[w + i]
    <3>1. w \in Nat /\ w + Len(d) <= Len(F)
      BY <1>2, <2>3, <2>4, <2>5, SMTT(40)
    <3>2. \A i \in 1 .. Len(d) : a + i \in 1 .. l /\ r.offset + (a + i) = w + i
      BY <1>2, <2>3, <2>4, <2>5, SMTT(40)
    <3> QED  BY <1>2, <2>4, <3>1, <3>2
  <2> DEFINE x == Raw(w, d)
  <2>7. Expanded(Code(k)) = x /\ Code(k).offset = w
    <3>1. Code(k) = IF Len(d) >= RleMin /\ \A i \in DOMAIN d : d[i] = d[1] THEN Rle(w, Len(d), d[1]) ELSE x
      BY <2>1, <2>2, <2>5
    <3>2. CASE Len(d) >= RleMin /\ \A i \in DOMAIN d : d[i] = d[1]
      <4>1. Code(k) = Rle(w, Len(d), d[1])
        BY <3>1, <3>2
      <4>2. d = [i \in 1 .. Len(d) |-> d[1]]
        <5>1. d \in Seq(Cells) /\ DOMAIN d = 1 .. Len(d)
          BY <2>4, LenProperties DEF Bytes, Cells, Ops
        <5>2. 1 \in 1 .. Len(d)
          BY <2>4
        <5>3. \A i \in 1 .. Len(d) : d[i] = d[1]
          BY <3>2, <5>1
        <5>4. d = [i \in 1 .. Len(d) |-> d[i]]
          BY <5>1, LenProperties
        <5> QED  BY <5>3, <5>4
      <4>3. PICK g : g = [i \in 1 .. Len(d) |-> d[1]]
        OBVIOUS
      <4>4. Rle(w, Len(d), d[1]).length = 0 /\ Rle(w, Len(d), d[1]).offset = w /\ Rle(w, Len(d), d[1]).count = Len(d)
            /\ Rle(w, Len(d), d[1]).data[1] = d[1]
        BY DEF Rle
      <4>5. Expanded(Rle(w, Len(d), d[1])) = Raw(w, [i \in 1 .. Len(d) |-> d[1]])
        BY <4>4 DEF Expanded
      <4>6. Expanded(Rle(w, Len(d), d[1])) = Raw(w, g) /\ g = d
        BY <4>2, <4>3, <4>5
      <4> HIDE DEF Code
      <4> QED  BY <4>1, <4>4, <4>6
    <3>3. CASE ~(Len(d) >= RleMin /\ \A i \in DOMAIN d : d[i] = d[1])
      <4>1. Code(k) = Raw(w, d)
        BY <3>1, <3>3
      <4> HIDE DEF Code
      <4> QED  BY <2>4, <4>1 DEF Expanded, Raw
    <3> QED  BY <3>2, <3>3
  <2>8. x.offset = w /\ x.length = Len(d) /\ x.data = d
    BY DEF Raw
  <2> HIDE DEF x, Code
  <2>9. Rec(x, Len(F)) /\ x.length # 0 /\ \A i \in 1 .. x.length : x.data[i] = F[x.offset + i]
    BY <2>4, <2>6, <2>8 DEF Rec
  <2>10. \A o \in 0 .. Len(F) - 1 : Covers(x, o) => Differs(V, F, o)
    <3> TAKE o \in 0 .. Len(F) - 1
    <3> HAVE Covers(x, o)
    <3>1. Covers(r, o)
      BY <1>2, <2>3, <2>4, <2>5, <2>8, SMTT(40) DEF Covers, l
    <3> QED  BY <1>2, <3>1
  <2>11. \A o \in Nat : r.offset + a <= o /\ o < r.offset + a + MaxLen /\ o < r.offset + l => Covers(x, o)
    BY <1>2, <1>3, <2>3, <2>4, <2>5, <2>8, SMTT(40) DEF Covers
  <2>12. Full(x, V, F)
    <3>1. a + Len(d) = l => x.offset + x.length = r.offset + r.length
      BY <1>2, <2>3, <2>4, <2>5, <2>8 DEF l
    <3> QED  BY <2>4, <2>8, <3>1 DEF Full, Ends
  <2> QED  BY <2>1, <2>7, <2>8, <2>9, <2>10, <2>11, <2>12 DEF Faithful
<1>7. ASSUME NEW o \in 0 .. Len(F) - 1, Covers(r, o)
      PROVE  \E k \in 1 .. q : Covers(Expanded(Code(k)), o)
  <2> HIDE DEF Code
  <2>1. o \in Nat /\ r.offset <= o /\ o < r.offset + l /\ o - r.offset \in 0 .. l - 1
    BY <1>2, <1>7 DEF Covers, l
  <2>2. PICK k \in 1 .. q : At(k) <= o - r.offset /\ o - r.offset < At(k) + MaxLen
    BY <1>4, <2>1
  <2>3. At(k) \in Nat /\ r.offset + At(k) <= o /\ o < r.offset + At(k) + MaxLen
    <3>1. r.offset \in Nat /\ MaxLen \in Nat /\ At(k) \in Nat
      BY <1>2, <1>3, <1>4
    <3> QED  BY <2>1, <2>2, <3>1
  <2> QED  BY <1>6, <2>1, <2>3
<1> HIDE DEF Code
<1> QED  BY <1>1, <1>4, <1>5, <1>6, <1>7

\* The records of a patch from V to F: faithful, and complete.
IsDiff(rs, V, F) ==
  /\ Len(rs) \in Nat /\ DOMAIN rs = 1 .. Len(rs)
  /\ \A k \in 1 .. Len(rs) : Faithful(rs[k], V, F) /\ Full(rs[k], V, F)
  /\ \A o \in 0 .. Len(F) - 1 : Differs(V, F, o) => \E k \in 1 .. Len(rs) : Covers(rs[k], o)

\* The records make_ips concatenates.
Records(V, F) == FlattenSeq([i \in DOMAIN DiffRuns(V, F) |-> EncodeRecord(DiffRuns(V, F)[i])])

\* They are, once parsed, the difference of the two ROMs.
LEMMA RecordsFacts ==
  ASSUME NEW V \in Bytes, NEW F \in Bytes
  PROVE  \E S : /\ Records(V, F) \in Seq(S)
                /\ IsDiff([i \in 1 .. Len(Records(V, F)) |-> Expanded(Records(V, F)[i])], V, F)
                /\ \A i \in 1 .. Len(Records(V, F)) : Expanded(Records(V, F)[i]).offset = Records(V, F)[i].offset
<1> DEFINE runs == DiffRuns(V, F)
           n == Len(runs)
           E(k) == EncodeRecord(runs[k])
           ss == [i \in DOMAIN runs |-> E(i)]
           S == UNION {{E(k)[j] : j \in 1 .. Len(E(k))} : k \in 1 .. n}
           recs == FlattenSeq(ss)
           rs == [i \in 1 .. Len(recs) |-> Expanded(recs[i])]
<1>1. /\ n \in Nat /\ DOMAIN runs = 1 .. n
      /\ \A k \in 1 .. n : Faithful(runs[k], V, F) /\ Ends(runs[k], V, F)
      /\ \A o \in 0 .. Len(F) - 1 : Differs(V, F, o) => \E k \in 1 .. n : Covers(runs[k], o)
  BY DiffRunsFacts
<1>2. Records(V, F) = recs
  BY DEF Records
<1> HIDE DEF runs, n
<1>3. \A k \in 1 .. n :
        /\ Len(E(k)) \in Nat /\ DOMAIN E(k) = 1 .. Len(E(k))
        /\ E(k) = [j \in 1 .. Len(E(k)) |-> E(k)[j]]
        /\ \A j \in 1 .. Len(E(k)) : /\ Faithful(Expanded(E(k)[j]), V, F)
                                     /\ Full(Expanded(E(k)[j]), V, F)
                                     /\ Expanded(E(k)[j]).offset = E(k)[j].offset
        /\ \A o \in 0 .. Len(F) - 1 :
             Covers(runs[k], o) => \E j \in 1 .. Len(E(k)) : Covers(Expanded(E(k)[j]), o)
  <2> TAKE k \in 1 .. n
  <2>1. PICK r : r = runs[k]
    OBVIOUS
  <2>2. Faithful(r, V, F) /\ Ends(r, V, F)
    BY <1>1, <2>1
  <2>3. /\ Len(EncodeRecord(r)) \in Nat /\ DOMAIN EncodeRecord(r) = 1 .. Len(EncodeRecord(r))
        /\ EncodeRecord(r) = [j \in 1 .. Len(EncodeRecord(r)) |-> EncodeRecord(r)[j]]
    BY <2>2, EncodeRecordFacts
  <2>4. \A j \in 1 .. Len(EncodeRecord(r)) :
          /\ Faithful(Expanded(EncodeRecord(r)[j]), V, F)
          /\ Full(Expanded(EncodeRecord(r)[j]), V, F)
          /\ Expanded(EncodeRecord(r)[j]).offset = EncodeRecord(r)[j].offset
    BY <2>2, EncodeRecordFacts
  <2>5. \A o \in 0 .. Len(F) - 1 :
          Covers(r, o) => \E j \in 1 .. Len(EncodeRecord(r)) : Covers(Expanded(EncodeRecord(r)[j]), o)
    BY <2>2, EncodeRecordFacts
  <2> QED  BY <2>1, <2>3, <2>4, <2>5, Zenon
<1> HIDE DEF E
<1>4. \A k \in 1 .. n : E(k) \in Seq(S)
  <2> TAKE k \in 1 .. n
  <2>1. \A j \in 1 .. Len(E(k)) : E(k)[j] \in S
    OBVIOUS
  <2> HIDE DEF S
  <2>2. [j \in 1 .. Len(E(k)) |-> E(k)[j]] \in [1 .. Len(E(k)) -> S] /\ Len(E(k)) \in Nat
    BY <1>3, <2>1
  <2>3. E(k) \in [1 .. Len(E(k)) -> S]
    BY <1>3, <2>2, Zenon
  <2> QED  BY <2>2, <2>3, SeqDef
<1> HIDE DEF S
<1>5. Len(ss) = n /\ DOMAIN ss = 1 .. n /\ \A k \in 1 .. n : ss[k] = E(k)
  BY <1>1
<1>6. CASE n = 0
  <2>1. recs = ss /\ Len(recs) = 0
    BY <1>5, <1>6 DEF FlattenSeq
  <2>2. recs \in Seq(S)
    <3>1. ss \in [1 .. 0 -> S]
      BY <1>5, <1>6
    <3>2. \E m \in Nat : ss \in [1 .. m -> S]
      BY <3>1
    <3> HIDE DEF recs, ss
    <3> QED  BY <2>1, <3>2, SeqDef
  <2>3. \A o \in 0 .. Len(F) - 1 : ~Differs(V, F, o)
    BY <1>1, <1>6
  <2>4. Len(rs) = 0 /\ DOMAIN rs = 1 .. 0
    <3> HIDE DEF recs
    <3> QED  BY <2>1
  <2>5. IsDiff(rs, V, F) /\ \A i \in 1 .. Len(recs) : Expanded(recs[i]).offset = recs[i].offset
    <3> HIDE DEF recs, rs
    <3> QED  BY <2>1, <2>3, <2>4 DEF IsDiff
  <2> HIDE DEF recs
  <2> QED  BY <1>2, <2>2, <2>5
<1>7. CASE n # 0
  <2> HIDE DEF ss
  <2>1. Len(ss) \in Nat \ {0} /\ \A k \in 1 .. Len(ss) : ss[k] \in Seq(S)
    BY <1>1, <1>4, <1>5, <1>7
  <2>2. PICK T : Packs(T, ss)
    BY <2>1, PackingExists
  <2>3. recs \in Seq(S) /\ Len(recs) = T[Len(ss)] /\ IsPacked(recs, T, ss)
    BY <2>1, <2>2, FlattenFacts
  <2> HIDE DEF recs
  <2>4. \A k \in 1 .. Len(ss) : \A i \in 1 .. Len(ss[k]) :
          T[k - 1] + i <= T[Len(ss)] /\ recs[T[k - 1] + i] = ss[k][i]
    BY <2>3 DEF IsPacked
  <2>5. \A p \in 1 .. T[Len(ss)] : \E k \in 1 .. Len(ss) : \E i \in 1 .. Len(ss[k]) : p = T[k - 1] + i
    BY <2>3 DEF IsPacked
  <2>6. Len(recs) \in Nat
    BY <2>3, LenProperties
  <2>7. \A k \in 1 .. n : T[k - 1] \in Nat
    BY <1>1, <1>5, <2>2 DEF Packs
  <2>8. Len(rs) = Len(recs) /\ DOMAIN rs = 1 .. Len(recs) /\ \A i \in 1 .. Len(recs) : rs[i] = Expanded(recs[i])
    BY <2>6
  <2> HIDE DEF rs
  <2>9. ASSUME NEW p \in 1 .. Len(recs)
        PROVE  /\ Faithful(Expanded(recs[p]), V, F) /\ Full(Expanded(recs[p]), V, F)
               /\ Expanded(recs[p]).offset = recs[p].offset
    <3>1. PICK k \in 1 .. n : \E i \in 1 .. Len(ss[k]) : p = T[k - 1] + i
      BY <1>5, <2>3, <2>5
    <3>2. PICK i \in 1 .. Len(ss[k]) : p = T[k - 1] + i
      BY <3>1
    <3>3. recs[p] = E(k)[i] /\ i \in 1 .. Len(E(k))
      BY <1>5, <2>4, <3>2
    <3> QED  BY <1>3, <3>3
  <2>10. ASSUME NEW o \in 0 .. Len(F) - 1, Differs(V, F, o)
         PROVE  \E p \in 1 .. Len(recs) : Covers(Expanded(recs[p]), o)
    <3>1. PICK k \in 1 .. n : Covers(runs[k], o)
      BY <1>1, <2>10
    <3>2. PICK j \in 1 .. Len(E(k)) : Covers(Expanded(E(k)[j]), o)
      BY <1>3, <3>1
    <3>3. T[k - 1] + j <= Len(recs) /\ recs[T[k - 1] + j] = E(k)[j]
      BY <1>5, <2>3, <2>4
    <3>4. T[k - 1] + j \in 1 .. Len(recs)
      BY <2>6, <2>7, <3>3
    <3> QED  BY <3>2, <3>3, <3>4
  <2>11. IsDiff(rs, V, F)
    BY <2>6, <2>8, <2>9, <2>10 DEF IsDiff
  <2> QED  BY <1>2, <2>3, <2>9, <2>11 DEF rs
<1> QED  BY <1>6, <1>7

\* Parsing what make_ips wrote gives the difference of the two ROMs.
LEMMA MakeIpsFacts ==
  ASSUME NEW V \in Bytes, NEW F \in Bytes, MakeIps(V, F) # Error
  PROVE  IsDiff(Parse(MakeIps(V, F)), V, F) /\ Len(V) <= Len(F)
<1>1. PICK recs : recs = Records(V, F)
  OBVIOUS
<1>2. PICK S : /\ recs \in Seq(S)
               /\ IsDiff([i \in 1 .. Len(recs) |-> Expanded(recs[i])], V, F)
               /\ \A i \in 1 .. Len(recs) : Expanded(recs[i]).offset = recs[i].offset
  BY <1>1, RecordsFacts
<1>3. MakeIps(V, F) = IF Len(F) < Len(V) \/ \E i \in DOMAIN recs : recs[i].offset = EofOffset
                      THEN Error ELSE Append(recs, Trailer)
  BY <1>1 DEF MakeIps, Records
<1>4. /\ ~(Len(F) < Len(V)) /\ MakeIps(V, F) = Append(recs, Trailer)
      /\ \A i \in DOMAIN recs : recs[i].offset # EofOffset
  BY <1>3
<1>5. PICK pt : pt = Append(recs, Trailer)
  OBVIOUS
<1>6. PICK n : n = Len(recs)
  OBVIOUS
<1>7. n \in Nat /\ DOMAIN recs = 1 .. n
  BY <1>2, <1>6, LenProperties
<1>8. DOMAIN pt = 1 .. n + 1 /\ pt[n + 1] = Trailer /\ \A i \in 1 .. n : pt[i] = recs[i]
  <2> DEFINE U == S \cup {Trailer}
  <2>1. recs \in Seq(U) /\ Trailer \in U
    BY <1>2, SeqMonotonic
  <2> HIDE DEF U
  <2>2. /\ pt \in Seq(U) /\ Len(pt) = n + 1 /\ pt[n + 1] = Trailer
        /\ \A i \in 1 .. n : pt[i] = recs[i]
    BY <1>5, <1>6, <2>1, AppendProperties
  <2> QED  BY <2>2, LenProperties
<1> DEFINE ends == {i \in DOMAIN pt : pt[i].offset = EofOffset}
<1>9. ends = {n + 1}
  <2>1. Trailer.offset = EofOffset
    BY DEF Trailer, Raw
  <2>2. n + 1 \in ends
    BY <1>7, <1>8, <2>1
  <2>3. \A i \in ends : i = n + 1
    BY <1>4, <1>7, <1>8
  <2> HIDE DEF ends
  <2> QED  BY <2>2, <2>3
<1>10. (CHOOSE e \in ends : \A f \in ends : e <= f) - 1 = n
  <2> HIDE DEF ends
  <2> QED  BY <1>7, <1>9
<1>11. Parse(pt) = [i \in 1 .. (CHOOSE e \in ends : \A f \in ends : e <= f) - 1 |-> Expanded(pt[i])]
  <2>1. ends # {}
    <3> HIDE DEF ends
    <3> QED  BY <1>9
  <2> QED  BY <2>1 DEF Parse, Expanded
<1> HIDE DEF ends
<1>12. Parse(pt) = [i \in 1 .. n |-> Expanded(recs[i])]
  BY <1>8, <1>10, <1>11
<1>13. Len(V) \in Nat /\ Len(F) \in Nat
  BY LenProperties DEF Bytes
<1> QED  BY <1>2, <1>4, <1>5, <1>6, <1>12, <1>13

-----------------------------------------------------------------------------
(* What apply and is_patched make of a patch from V to F *)

\* The offsets that such a patch changes.
DiffSites(V, F) == {o \in 0 .. Len(F) - 1 : Differs(V, F, o)}

\* Applied to a ROM that has all the patch sites, exactly those are changed.
LEMMA ApplyFacts ==
  ASSUME NEW V \in Bytes, NEW F \in Bytes, NEW rs, IsDiff(rs, V, F),
         NEW b \in Bytes, \A k \in 1 .. Len(rs) : Rec(rs[k], Len(b))
  PROVE  /\ Overlaid(b, rs) \in Bytes /\ Len(Overlaid(b, rs)) = Len(b)
         /\ \A o \in 0 .. Len(b) - 1 :
              Overlaid(b, rs)[o + 1] = IF o \in DiffSites(V, F) THEN F[o + 1] ELSE b[o + 1]
<1>1. PICK n : n = Len(rs)
  OBVIOUS
<1>2. n \in Nat /\ Len(b) \in Nat /\ Len(F) \in Nat
  BY <1>1, LenProperties DEF IsDiff, Bytes
<1>3. PICK out : out = Overlaid(b, rs)
  OBVIOUS
<1>4. out \in Bytes /\ Len(out) = Len(b) /\ LastWins(out, b, rs)
  BY <1>1, <1>2, <1>3, OverlaidFacts
<1>5. \A o \in 0 .. Len(b) - 1 : (\A k \in 1 .. n : ~Covers(rs[k], o)) => out[o + 1] = b[o + 1]
  BY <1>1, <1>4 DEF LastWins
<1>6. \A o \in 0 .. Len(b) - 1 : \A j \in 1 .. n :
        Covers(rs[j], o) /\ (\A k \in j + 1 .. n : ~Covers(rs[k], o)) =>
          out[o + 1] = rs[j].data[o - rs[j].offset + 1]
  BY <1>1, <1>4 DEF LastWins
<1>7. ASSUME NEW o \in 0 .. Len(b) - 1, o \in DiffSites(V, F)
      PROVE  out[o + 1] = F[o + 1]
  <2> DEFINE B == {k \in 1 .. n : Covers(rs[k], o)}
  <2>1. B # {} /\ B \in SUBSET (1 .. n)
    BY <1>1, <1>7 DEF IsDiff, DiffSites
  <2>2. PICK j \in B : \A k \in B : k <= j
    <3> HIDE DEF B
    <3> QED  BY <1>2, <2>1, Greatest
  <2>3. j \in 1 .. n /\ Covers(rs[j], o)
    BY <2>2
  <2>4. \A k \in j + 1 .. n : ~Covers(rs[k], o)
    <3> TAKE k \in j + 1 .. n
    <3>1. k \in 1 .. n /\ ~(k <= j)
      BY <1>2, <2>3
    <3> QED  BY <2>2, <3>1
  <2>5. out[o + 1] = rs[j].data[o - rs[j].offset + 1]
    BY <1>6, <2>3, <2>4
  <2>6. Faithful(rs[j], V, F)
    BY <1>1, <2>3 DEF IsDiff
  <2>7. o - rs[j].offset + 1 \in 1 .. rs[j].length /\ rs[j].offset + (o - rs[j].offset + 1) = o + 1
    <3>1. PICK w, l : w = rs[j].offset /\ l = rs[j].length
      OBVIOUS
    <3>2. w \in Nat /\ l \in Nat /\ w <= o /\ o < w + l
      BY <2>3, <2>6, <3>1 DEF Covers, Faithful, Rec
    <3>3. o \in Int
      BY <1>2
    <3>4. o - w + 1 \in 1 .. l /\ w + (o - w + 1) = o + 1
      BY <3>2, <3>3
    <3> QED  BY <3>1, <3>4
  <2> QED  BY <2>5, <2>6, <2>7 DEF Faithful
<1>8. ASSUME NEW o \in 0 .. Len(b) - 1, o \notin DiffSites(V, F)
      PROVE  out[o + 1] = b[o + 1]
  <2>1. ASSUME NEW k \in 1 .. n, Covers(rs[k], o)
        PROVE  FALSE
    <3>1. Faithful(rs[k], V, F)
      BY <1>1 DEF IsDiff
    <3>2. o \in 0 .. Len(F) - 1
      BY <1>2, <2>1, <3>1, SMTT(40) DEF Covers, Faithful, Rec
    <3> QED  BY <1>8, <2>1, <3>1, <3>2 DEF Faithful, DiffSites
  <2> QED  BY <1>5, <2>1
<1> QED  BY <1>3, <1>4, <1>7, <1>8

\* is_patched: the ROM has the bytes of F at every site.
LEMMA IsPatchedFacts ==
  ASSUME NEW V \in Bytes, NEW F \in Bytes, MakeIps(V, F) # Error, NEW b \in Bytes
  PROVE  IsPatched(b, MakeIps(V, F)) <=> Agrees(b, F, DiffSites(V, F))
<1>1. PICK rs : rs = Parse(MakeIps(V, F))
  OBVIOUS
<1>2. IsDiff(rs, V, F)
  BY <1>1, MakeIpsFacts
<1>3. PICK n : n = Len(rs)
  OBVIOUS
<1>4. n \in Nat /\ Len(b) \in Nat /\ Len(F) \in Nat
  BY <1>2, <1>3, LenProperties DEF IsDiff, Bytes
<1>5. IsPatched(b, MakeIps(V, F)) <=>
        \A k \in 1 .. n : rs[k].offset + rs[k].length <= Len(b) /\ Slice(b, rs[k].offset, rs[k].length) = rs[k].data
  <2>1. DOMAIN rs = 1 .. n
    BY <1>2, <1>3 DEF IsDiff
  <2> QED  BY <1>1, <2>1 DEF IsPatched, ToSet
<1>6. ASSUME NEW k \in 1 .. n, rs[k].offset + rs[k].length <= Len(b)
      PROVE  Slice(b, rs[k].offset, rs[k].length) = rs[k].data <=>
               \A i \in 1 .. rs[k].length : b[rs[k].offset + i] = F[rs[k].offset + i]
  <2>1. Faithful(rs[k], V, F)
    BY <1>2, <1>3 DEF IsDiff
  <2>2. PICK w, l, d : w = rs[k].offset /\ l = rs[k].length /\ d = rs[k].data
    OBVIOUS
  <2>3. w \in Nat /\ l \in Nat /\ d \in Bytes /\ Len(d) = l /\ w + l <= Len(b) /\ \A i \in 1 .. l : d[i] = F[w + i]
    BY <1>6, <2>1, <2>2 DEF Faithful, Rec
  <2>4. PICK sl : sl = Slice(b, w, l)
    OBVIOUS
  <2>5. sl \in Bytes /\ Len(sl) = l
    BY <2>3, <2>4, SliceFacts
  <2>6. \A i \in 1 .. l : sl[i] = b[w + i]
    <3>1. IsSlice(sl, b, w)
      BY <2>3, <2>4, SliceFacts
    <3> QED  BY <2>5, <3>1 DEF IsSlice
  <2>7. (\A i \in 1 .. l : sl[i] = d[i]) => sl = d
    BY <2>3, <2>5, SeqEqual DEF Bytes
  <2>8. sl = d <=> \A i \in 1 .. l : b[w + i] = F[w + i]
    BY <2>3, <2>6, <2>7
  <2> QED  BY <2>2, <2>4, <2>8
<1>7. ASSUME Agrees(b, F, DiffSites(V, F))
      PROVE  IsPatched(b, MakeIps(V, F))
  <2>1. SUFFICES ASSUME NEW k \in 1 .. n
                 PROVE  /\ rs[k].offset + rs[k].length <= Len(b)
                        /\ \A i \in 1 .. rs[k].length : b[rs[k].offset + i] = F[rs[k].offset + i]
    BY <1>5, <1>6
  <2>2. Faithful(rs[k], V, F)
    BY <1>2, <1>3 DEF IsDiff
  <2>3. PICK w, l : w = rs[k].offset /\ l = rs[k].length
    OBVIOUS
  <2>4. w \in Nat /\ l \in Nat /\ l # 0 /\ w + l <= Len(F)
    BY <2>2, <2>3 DEF Faithful, Rec
  <2>5. \A i \in 1 .. l : w + i - 1 < Len(b) /\ b[w + i] = F[w + i]
    <3> TAKE i \in 1 .. l
    <3>1. w + i - 1 \in 0 .. Len(F) - 1 /\ (w + i - 1) + 1 = w + i
      BY <1>4, <2>4
    <3>2. Covers(rs[k], w + i - 1)
      BY <2>3, <2>4, SMTT(40) DEF Covers
    <3>3. w + i - 1 \in DiffSites(V, F)
      BY <2>2, <3>1, <3>2 DEF Faithful, DiffSites
    <3>4. w + i - 1 < Len(b) /\ b[(w + i - 1) + 1] = F[(w + i - 1) + 1]
      BY <1>7, <3>3 DEF Agrees
    <3> QED  BY <3>1, <3>4
  <2>6. w + l - 1 < Len(b)
    <3>1. l \in 1 .. l
      BY <2>4
    <3> QED  BY <2>5, <3>1
  <2>7. w + l <= Len(b)
    BY <1>4, <2>4, <2>6
  <2> QED  BY <2>3, <2>5, <2>7
<1>8. ASSUME IsPatched(b, MakeIps(V, F)), NEW o \in DiffSites(V, F)
      PROVE  o < Len(b) /\ o < Len(F) /\ b[o + 1] = F[o + 1]
  <2>1. o \in 0 .. Len(F) - 1 /\ Differs(V, F, o)
    BY <1>8 DEF DiffSites
  <2>2. PICK k \in 1 .. n : Covers(rs[k], o)
    BY <1>2, <1>3, <2>1 DEF IsDiff
  <2>3. rs[k].offset + rs[k].length <= Len(b) /\ \A i \in 1 .. rs[k].length : b[rs[k].offset + i] = F[rs[k].offset + i]
    BY <1>5, <1>6, <1>8
  <2>4. PICK w, l : w = rs[k].offset /\ l = rs[k].length
    OBVIOUS
  <2>5. w \in Nat /\ l \in Nat /\ w <= o /\ o < w + l
    BY <1>2, <1>3, <2>2, <2>4 DEF IsDiff, Faithful, Rec, Covers
  <2>6. o + 1 - w \in 1 .. l /\ w + (o + 1 - w) = o + 1
    BY <2>1, <2>5
  <2>7. b[w + (o + 1 - w)] = F[w + (o + 1 - w)] /\ w + l <= Len(b)
    BY <2>3, <2>4, <2>6
  <2> QED  BY <1>4, <2>1, <2>5, <2>6, <2>7
<1> QED  BY <1>7, <1>8 DEF Agrees

\* A patch between two ROMs of one length turns the one into the other.
LEMMA RoundTripFacts ==
  ASSUME NEW V \in Bytes, NEW F \in Bytes, Len(F) = Len(V), MakeIps(V, F) # Error
  PROVE  Apply(V, MakeIps(V, F)) = F
<1>1. PICK rs : rs = Parse(MakeIps(V, F))
  OBVIOUS
<1>2. IsDiff(rs, V, F)
  BY <1>1, MakeIpsFacts
<1>3. \A k \in 1 .. Len(rs) : Rec(rs[k], Len(V))
  BY <1>2 DEF IsDiff, Faithful
<1>4. PICK out : out = Overlaid(V, rs)
  OBVIOUS
<1>5. out \in Bytes /\ Len(out) = Len(V)
  BY <1>2, <1>3, <1>4, ApplyFacts
<1>6. \A o \in 0 .. Len(V) - 1 : out[o + 1] = IF o \in DiffSites(V, F) THEN F[o + 1] ELSE V[o + 1]
  BY <1>2, <1>3, <1>4, ApplyFacts
<1>7. Len(V) \in Nat
  BY LenProperties DEF Bytes
<1>8. \A i \in 1 .. Len(V) : out[i] = F[i]
  <2> TAKE i \in 1 .. Len(V)
  <2>1. i - 1 \in 0 .. Len(V) - 1 /\ (i - 1) + 1 = i
    BY <1>7
  <2>2. i - 1 \notin DiffSites(V, F) => F[(i - 1) + 1] = V[(i - 1) + 1]
    BY <1>7, <2>1 DEF DiffSites, Differs
  <2> QED  BY <1>6, <2>1, <2>2
<1>9. out = F
  BY <1>5, <1>8, SeqEqual DEF Bytes
<1> QED  BY <1>1, <1>4, <1>9 DEF Apply

\* apply_validated with a sidecar that belongs to the patch, or with an empty one.
LEMMA ValidatedFacts ==
  ASSUME NEW V \in Bytes, NEW F \in Bytes, Len(F) = Len(V), MakeIps(V, F) # Error,
         NEW b \in Bytes, NEW ex, ex = {} \/ ex = ExpectedOf(V, MakeIps(V, F)),
         Mismatches(b, MakeIps(V, F), ex) = {}
  PROVE  /\ Agrees(b, V, DiffSites(V, F))
         /\ Apply(b, MakeIps(V, F)) \in Bytes /\ Len(Apply(b, MakeIps(V, F))) = Len(b)
         /\ \A o \in 0 .. Len(b) - 1 :
              Apply(b, MakeIps(V, F))[o + 1] = IF o \in DiffSites(V, F) THEN F[o + 1] ELSE b[o + 1]
<1>1. PICK rs : rs = Parse(MakeIps(V, F))
  OBVIOUS
<1>2. IsDiff(rs, V, F)
  BY <1>1, MakeIpsFacts
<1>3. PICK n : n = Len(rs)
  OBVIOUS
<1>4. n \in Nat /\ Len(b) \in Nat /\ Len(F) \in Nat /\ DOMAIN rs = 1 .. n
  BY <1>2, <1>3, LenProperties DEF IsDiff, Bytes
<1>5. ASSUME NEW k \in 1 .. n
      PROVE  /\ rs[k].offset + rs[k].length <= Len(b)
             /\ \A i \in 1 .. rs[k].length : b[rs[k].offset + i] = V[rs[k].offset + i]
  <2>1. \E e \in ex : e[1] = rs[k].offset /\ Slice(b, rs[k].offset, rs[k].length) = e[2]
    BY <1>1, <1>4 DEF Mismatches, ToSet
  <2>2. ex = {<<r.offset, Slice(V, r.offset, r.length)>> : r \in ToSet(rs)}
    BY <1>1, <2>1 DEF ExpectedOf
  <2>3. PICK j \in 1 .. n : /\ rs[j].offset = rs[k].offset
                            /\ Slice(b, rs[k].offset, rs[k].length) = Slice(V, rs[j].offset, rs[j].length)
    BY <1>4, <2>1, <2>2 DEF ToSet
  <2>4. PICK w, l, m : w = rs[k].offset /\ l = rs[k].length /\ m = rs[j].length
    OBVIOUS
  <2>5. /\ w \in Nat /\ l \in Nat /\ m \in Nat /\ l # 0 /\ m # 0 /\ w + l <= Len(F) /\ w + m <= Len(F)
        /\ Faithful(rs[k], V, F) /\ Faithful(rs[j], V, F)
        /\ l <= MaxLen /\ (l = MaxLen \/ w + l = Len(F) \/ ~Differs(V, F, w + l))
        /\ m <= MaxLen /\ (m = MaxLen \/ w + m = Len(F) \/ ~Differs(V, F, w + m))
    BY <1>2, <1>3, <2>3, <2>4 DEF IsDiff, Faithful, Rec, Full, Ends
  <2>6. MaxLen \in Nat
    BY IpsAssumption
  <2>7. ~(l < m)
    <3>1. SUFFICES ASSUME l < m PROVE FALSE
      OBVIOUS
    <3>2. Covers(rs[j], w + l) /\ w + l \in 0 .. Len(F) - 1
      <4>1. rs[j].offset = w /\ rs[j].length = m
        BY <2>3, <2>4
      <4>2. w \in Nat /\ l \in Nat /\ m \in Nat /\ w + m <= Len(F) /\ Len(F) \in Nat
        BY <1>4, <2>5
      <4> QED  BY <3>1, <4>1, <4>2 DEF Covers
    <3>3. Differs(V, F, w + l)
      BY <2>5, <3>2 DEF Faithful
    <3> QED  BY <1>4, <2>5, <2>6, <3>1, <3>3
  <2>8. ~(m < l)
    <3>1. SUFFICES ASSUME m < l PROVE FALSE
      OBVIOUS
    <3>2. Covers(rs[k], w + m) /\ w + m \in 0 .. Len(F) - 1
      <4>1. rs[k].offset = w /\ rs[k].length = l
        BY <2>4
      <4>2. w \in Nat /\ l \in Nat /\ m \in Nat /\ w + l <= Len(F) /\ Len(F) \in Nat
        BY <1>4, <2>5
      <4> QED  BY <3>1, <4>1, <4>2 DEF Covers
    <3>3. Differs(V, F, w + m)
      BY <2>5, <3>2 DEF Faithful
    <3> QED  BY <1>4, <2>5, <2>6, <3>1, <3>3
  <2>9. l = m /\ Slice(b, w, l) = Slice(V, w, l)
    BY <2>3, <2>4, <2>5, <2>7, <2>8
  <2>10. PICK sl : sl = Slice(V, w, l)
    OBVIOUS
  <2>11. Len(sl) = l
    BY <2>5, <2>10, SliceFacts
  <2>12. \A i \in 1 .. l : sl[i] = V[w + i]
    <3>1. IsSlice(sl, V, w)
      BY <2>5, <2>10, SliceFacts
    <3> QED  BY <2>11, <3>1 DEF IsSlice
  <2>13. \A i \in 1 .. l : sl[i] = b[w + i]
    <3>1. IsSlice(sl, b, w)
      BY <2>5, <2>9, <2>10, SliceFacts
    <3> QED  BY <2>11, <3>1 DEF IsSlice
  <2>14. w + l <= Len(b)
    <3>1. Len(Slice(b, w, l)) = l => w + l <= Len(b) \/ l = 0
      BY <2>5, SliceFacts
    <3> QED  BY <2>5, <2>9, <2>10, <2>11, <3>1
  <2> QED  BY <2>4, <2>12, <2>13, <2>14
<1>6. \A k \in 1 .. Len(rs) : Rec(rs[k], Len(b))
  BY <1>2, <1>3, <1>5 DEF IsDiff, Faithful, Rec
<1>7. ASSUME NEW o \in DiffSites(V, F)
      PROVE  o < Len(b) /\ o < Len(V) /\ b[o + 1] = V[o + 1]
  <2>1. o \in 0 .. Len(F) - 1 /\ Differs(V, F, o)
    BY <1>7 DEF DiffSites
  <2>2. PICK k \in 1 .. n : Covers(rs[k], o)
    BY <1>2, <1>3, <2>1 DEF IsDiff
  <2>3. PICK w, l : w = rs[k].offset /\ l = rs[k].length
    OBVIOUS
  <2>4. w \in Nat /\ l \in Nat /\ w <= o /\ o < w + l
    BY <1>2, <1>3, <2>2, <2>3 DEF IsDiff, Faithful, Rec, Covers
  <2>5. o + 1 - w \in 1 .. l /\ w + (o + 1 - w) = o + 1
    BY <2>1, <2>4
  <2>6. b[w + (o + 1 - w)] = V[w + (o + 1 - w)] /\ w + l <= Len(b)
    BY <1>5, <2>3, <2>5
  <2> QED  BY <1>4, <2>1, <2>4, <2>5, <2>6
<1>8. Agrees(b, V, DiffSites(V, F))
  BY <1>7 DEF Agrees
<1>9. PICK out : out = Overlaid(b, rs)
  OBVIOUS
<1>10. out \in Bytes /\ Len(out) = Len(b)
  BY <1>2, <1>6, <1>9, ApplyFacts
<1>11. \A o \in 0 .. Len(b) - 1 : out[o + 1] = IF o \in DiffSites(V, F) THEN F[o + 1] ELSE b[o + 1]
  BY <1>2, <1>6, <1>9, ApplyFacts
<1> QED  BY <1>1, <1>8, <1>9, <1>10, <1>11 DEF Apply

-----------------------------------------------------------------------------
(* The layout of the relocated code *)

\* The regions are typed.
LEMMA RegionFacts ==
  /\ Len(OldRegions) \in Nat \ {0} /\ DOMAIN OldRegions = 1 .. Len(OldRegions)
  /\ ToSet(OldRegions) = {OldRegions[k] : k \in 1 .. Len(OldRegions)}
  /\ \A k \in 1 .. Len(OldRegions) :
       /\ OldRegions[k].file \in Nat /\ OldRegions[k].cpu \in Nat /\ OldRegions[k].len \in Nat \ {0}
       /\ OldRegions[k].file + OldRegions[k].len <= Len(Vanilla)
<1> DEFINE R == [file : Nat, cpu : Nat, len : Nat \ {0}]
<1>1. OldRegions \in Seq(R) /\ OldRegions # <<>>
  BY LayoutAssumption
<1>2. Len(OldRegions) \in Nat \ {0} /\ DOMAIN OldRegions = 1 .. Len(OldRegions)
      /\ \A k \in 1 .. Len(OldRegions) : OldRegions[k] \in R
  <2> HIDE DEF R
  <2> QED  BY <1>1, LenProperties, EmptySeq, ElementOfSeq
<1>3. ToSet(OldRegions) = {OldRegions[k] : k \in 1 .. Len(OldRegions)}
  BY <1>2 DEF ToSet
<1>4. \A k \in 1 .. Len(OldRegions) : OldRegions[k].file + OldRegions[k].len <= Len(Vanilla)
  BY <1>3, VanillaAssumption
<1> QED  BY <1>2, <1>3, <1>4

\* build_mapping's running total.
LEMMA TotalFacts ==
  /\ Total \in [0 .. Len(OldRegions) -> Nat] /\ Total[0] = 0
  /\ \A k \in 1 .. Len(OldRegions) : Total[k] = Total[k - 1] + OldRegions[k].len
<1>1. PICK n : n = Len(OldRegions)
  OBVIOUS
<1>2. n \in Nat /\ \A k \in 1 .. n : OldRegions[k].len \in Nat
  BY <1>1, RegionFacts
<1> DEFINE G == [k \in 1 .. n |-> [x \in Nat |-> x + OldRegions[k].len]]
           IsTotal(g) == g = [k \in 0 .. n |-> IF k = 0 THEN 0 ELSE g[k - 1] + OldRegions[k].len]
<1>3. Steps(G, n, Nat)
  BY <1>2 DEF Steps
<1>4. PICK h : IsHistory(h, 0, G, n) /\ h \in [0 .. n -> Nat]
  <2> HIDE DEF G
  <2> QED  BY <1>2, <1>3, History
<1>5. \A k \in 1 .. n : h[k] = h[k - 1] + OldRegions[k].len
  <2> TAKE k \in 1 .. n
  <2>1. h[k - 1] \in Nat /\ h[k] = G[k][h[k - 1]]
    <3> HIDE DEF G
    <3>1. k - 1 \in 0 .. n
      BY <1>2
    <3> QED  BY <1>4, <3>1 DEF IsHistory
  <2> QED  BY <1>2, <2>1
<1>6. IsTotal(h)
  <2> HIDE DEF G
  <2>1. \A k \in 0 .. n : h[k] = IF k = 0 THEN 0 ELSE h[k - 1] + OldRegions[k].len
    BY <1>2, <1>4, <1>5 DEF IsHistory
  <2> QED  BY <1>4, <2>1
<1>7. IsTotal(Total)
  <2>1. Total = CHOOSE g : IsTotal(g)
    BY <1>1 DEF Total
  <2> QED  BY <1>6, <2>1
<1>8. Total[0] = 0 /\ \A k \in 1 .. n : Total[k] = Total[k - 1] + OldRegions[k].len
  BY <1>2, <1>7
<1> DEFINE T == {k \in 0 .. n : Total[k] \in Nat}
<1>9. \A k \in 0 .. n : k \in T
  <2>1. 0 \in T
    BY <1>2, <1>8
  <2>2. ASSUME NEW k \in 0 .. n - 1, k \in T
        PROVE  k + 1 \in T
    <3>1. k + 1 \in 1 .. n /\ (k + 1) - 1 = k /\ k + 1 \in 0 .. n
      BY <1>2
    <3> QED  BY <1>2, <1>8, <2>2, <3>1
  <2> HIDE DEF T
  <2> QED  BY <1>2, <2>1, <2>2, UpTo
<1>10. Total \in [0 .. n -> Nat]
  BY <1>7, <1>9
<1> QED  BY <1>1, <1>8, <1>10

\* Address t is in the k-th region.
In(t, k) == t \in OldRegions[k].cpu .. OldRegions[k].cpu + OldRegions[k].len - 1

\* An address is in one region at most, and is internal then.
LEMMA InFacts ==
  /\ \A t : \A j, k \in 1 .. Len(OldRegions) : In(t, j) /\ In(t, k) => j = k
  /\ \A t : \A k \in 1 .. Len(OldRegions) : In(t, k) => IsInternal(t)
<1>1. PICK n : n = Len(OldRegions)
  OBVIOUS
<1>2. /\ n \in Nat \ {0}
      /\ \A k \in 1 .. n : OldRegions[k].cpu \in Nat /\ OldRegions[k].len \in Nat \ {0}
      /\ ToSet(OldRegions) = {OldRegions[k] : k \in 1 .. n}
  BY <1>1, RegionFacts
<1>3. \A j, k \in 1 .. n : j < k => OldRegions[j].cpu + OldRegions[j].len <= OldRegions[k].cpu
  BY <1>1, RegionFacts, LayoutAssumption
<1>4. ASSUME NEW t, NEW j \in 1 .. n, NEW k \in 1 .. n, In(t, j), In(t, k)
      PROVE  ~(j < k)
  <2>1. PICK a, b, c : a = OldRegions[j].cpu /\ b = OldRegions[j].len /\ c = OldRegions[k].cpu
    OBVIOUS
  <2>2. a \in Nat /\ b \in Nat /\ c \in Nat
    BY <1>2, <2>1
  <2>3. t \in a .. a + b - 1 /\ c <= t
    BY <1>4, <2>1 DEF In
  <2>4. j < k => a + b <= c
    BY <1>3, <2>1
  <2> QED  BY <2>2, <2>3, <2>4
<1>5. \A t : \A j, k \in 1 .. n : In(t, j) /\ In(t, k) => j = k
  <2> TAKE t
  <2> TAKE j, k \in 1 .. n
  <2> HAVE In(t, j) /\ In(t, k)
  <2>1. ~(j < k) /\ ~(k < j)
    BY <1>4
  <2> QED  BY <1>2, <2>1
<1> DEFINE Q == {r.cpu + r.len - 1 : r \in ToSet(OldRegions)}
<1>6. \A k \in 1 .. n : OldRegions[k].cpu + OldRegions[k].len - 1 \in Q
  BY <1>2
<1>7. OldRangeEnd \in Q /\ \A x \in Q : x <= OldRangeEnd
  <2> DEFINE e == OldRegions[n].cpu + OldRegions[n].len - 1
  <2>1. n \in 1 .. n /\ e \in Q /\ e \in Nat
    BY <1>2, <1>6
  <2>2. ASSUME NEW x \in Q
        PROVE  x <= e
    <3>1. PICK k \in 1 .. n : x = OldRegions[k].cpu + OldRegions[k].len - 1
      BY <1>2, <2>2
    <3>2. k < n => OldRegions[k].cpu + OldRegions[k].len <= OldRegions[n].cpu
      BY <1>3, <2>1
    <3>3. PICK a, b, c, d : /\ a = OldRegions[k].cpu /\ b = OldRegions[k].len
                            /\ c = OldRegions[n].cpu /\ d = OldRegions[n].len
      OBVIOUS
    <3>4. a \in Nat /\ b \in Nat /\ c \in Nat /\ d \in Nat /\ d # 0 /\ x = a + b - 1 /\ (k < n => a + b <= c)
      BY <1>2, <2>1, <3>1, <3>2, <3>3
    <3>5. CASE k = n
      BY <3>1, <3>5
    <3>6. CASE k < n
      BY <3>3, <3>4, <3>6
    <3> QED  BY <1>2, <3>5, <3>6
  <2>3. \E y \in Q : \A x \in Q : y >= x
    <3>1. \A x \in Q : e >= x
      BY <1>2, <2>1, <2>2
    <3> HIDE DEF Q, e
    <3> QED  BY <2>1, <3>1
  <2>4. OldRangeEnd = CHOOSE y \in Q : \A x \in Q : y >= x
    BY DEF OldRangeEnd, Max
  <2>5. Q \subseteq Int
    BY <1>2
  <2> HIDE DEF Q
  <2>6. OldRangeEnd \in Q /\ \A x \in Q : OldRangeEnd >= x
    BY <2>3, <2>4
  <2> QED  BY <2>5, <2>6
<1>8. Q \subseteq Int
  BY <1>2
<1>9. ASSUME NEW t, NEW k \in 1 .. n, In(t, k)
      PROVE  IsInternal(t)
  <2>1. PICK a, b, c : a = OldRegions[k].cpu /\ b = OldRegions[k].len /\ c = OldRegions[1].cpu
    OBVIOUS
  <2>2. a \in Nat /\ b \in Nat /\ c \in Nat /\ 1 \in 1 .. n
    BY <1>2, <2>1
  <2>3. t \in a .. a + b - 1
    BY <1>9, <2>1 DEF In
  <2>4. c <= a
    <3>1. 1 < k => c + OldRegions[1].len <= a
      BY <1>3, <2>1, <2>2
    <3>2. OldRegions[1].len \in Nat
      BY <1>2, <2>2
    <3> QED  BY <1>2, <2>1, <2>2, <3>1, <3>2
  <2>5. a + b - 1 <= OldRangeEnd /\ OldRangeEnd \in Int
    <3> HIDE DEF Q
    <3> QED  BY <1>6, <1>7, <1>8, <2>1
  <2> QED  BY <2>1, <2>2, <2>3, <2>4, <2>5 DEF IsInternal
<1> QED  BY <1>1, <1>5, <1>9

\* build_mapping: every byte of a region goes to its place in the packed code.
LEMMA MappingFacts ==
  /\ \A t \in DOMAIN Mapping : \E k \in 1 .. Len(OldRegions) : In(t, k)
  /\ \A t : \A k \in 1 .. Len(OldRegions) :
       In(t, k) => /\ t \in DOMAIN Mapping /\ Mapping[t] \in Nat
                   /\ Mapping[t] = NewBaseCpu + Total[k - 1] + t - OldRegions[k].cpu
<1>1. PICK n : n = Len(OldRegions)
  OBVIOUS
<1>2. /\ n \in Nat /\ DOMAIN OldRegions = 1 .. n
      /\ \A k \in 1 .. n : OldRegions[k].cpu \in Nat /\ OldRegions[k].len \in Nat
      /\ ToSet(OldRegions) = {OldRegions[k] : k \in 1 .. n}
  BY <1>1, RegionFacts
<1> DEFINE D == UNION {r.cpu .. r.cpu + r.len - 1 : r \in ToSet(OldRegions)}
           K(t) == CHOOSE j \in DOMAIN OldRegions :
                     t \in OldRegions[j].cpu .. OldRegions[j].cpu + OldRegions[j].len - 1
<1>3. \A t : t \in D <=> \E k \in 1 .. n : In(t, k)
  BY <1>2 DEF In
<1>4. \A t : \A k \in 1 .. n : In(t, k) => K(t) = k
  <2> TAKE t
  <2> TAKE k \in 1 .. n
  <2> HAVE In(t, k)
  <2>1. K(t) = CHOOSE j \in 1 .. n : In(t, j)
    BY <1>2 DEF In
  <2>2. \A j \in 1 .. n : In(t, j) => j = k
    BY <1>1, InFacts
  <2> HIDE DEF K
  <2> QED  BY <2>1, <2>2
<1>5. Mapping = [t \in D |-> NewBaseCpu + Total[K(t) - 1] + t - OldRegions[K(t)].cpu]
  BY DEF Mapping
<1> HIDE DEF D, K
<1>6. ASSUME NEW t, NEW k \in 1 .. n, In(t, k)
      PROVE  /\ t \in DOMAIN Mapping /\ Mapping[t] \in Nat
             /\ Mapping[t] = NewBaseCpu + Total[k - 1] + t - OldRegions[k].cpu
  <2>1. t \in D /\ K(t) = k
    BY <1>3, <1>4, <1>6
  <2>2. t \in DOMAIN Mapping /\ Mapping[t] = NewBaseCpu + Total[k - 1] + t - OldRegions[k].cpu
    BY <1>5, <2>1
  <2>3. PICK a, b, c : a = OldRegions[k].cpu /\ b = OldRegions[k].len /\ c = Total[k - 1]
    OBVIOUS
  <2>4. a \in Nat /\ b \in Nat /\ c \in Nat /\ NewBaseCpu \in Nat
    <3>1. k - 1 \in 0 .. n
      BY <1>2
    <3> QED  BY <1>1, <1>2, <2>3, <3>1, TotalFacts, LayoutAssumption
  <2>5. t \in a .. a + b - 1
    BY <1>6, <2>3 DEF In
  <2>6. NewBaseCpu + c + t - a \in Nat
    BY <2>4, <2>5
  <2> QED  BY <2>2, <2>3, <2>6
<1>7. DOMAIN Mapping = D
  BY <1>5
<1> QED  BY <1>1, <1>3, <1>6, <1>7

\* A target inside a region is internal and mapped; others are not.
LEMMA TargetFacts ==
  /\ \A t : MapTarget(t) \in Int
  /\ \A t : MapTarget(t) # -1 => t \in DOMAIN Mapping
  /\ \A t \in DOMAIN Mapping : IsInternal(t) /\ MapTarget(t) = Mapping[t] /\ MapTarget(t) # -1
  /\ PreludeNewCpu \in Nat /\ CodeLen \in Nat
<1>1. \A t \in DOMAIN Mapping : IsInternal(t) /\ Mapping[t] \in Nat
  BY MappingFacts, InFacts
<1>2. \A t \in DOMAIN Mapping : IsInternal(t) /\ MapTarget(t) = Mapping[t] /\ MapTarget(t) # -1
  BY <1>1 DEF MapTarget
<1>3. \A t : MapTarget(t) \in Int
  BY <1>1 DEF MapTarget
<1>4. PreludeNewCpu \in Nat /\ CodeLen \in Nat
  <2>1. CodeLen \in Nat
    BY TotalFacts, RegionFacts DEF CodeLen
  <2>2. NewBaseCpu \in Nat
    BY LayoutAssumption
  <2> QED  BY <2>1, <2>2 DEF PreludeNewCpu
<1>5. \A t : MapTarget(t) # -1 => t \in DOMAIN Mapping
  BY DEF MapTarget
<1> QED  BY <1>2, <1>3, <1>4, <1>5

\* Cells, and a cell with another operand.
LEMMA CellFacts ==
  /\ Blank \in Cells /\ \A op \in Ops : \A v \in Int : Cell(op, v) \in Cells
  /\ \A c \in Cells : c.op \in Ops /\ c.v \in Int /\ c # Bad
  /\ \A c \in Cells : \A v \in Int :
       /\ [c EXCEPT !.v = v] \in Cells
       /\ [c EXCEPT !.v = v].op = c.op /\ [c EXCEPT !.v = v].v = v
<1>1. \A op \in Ops : \A v \in Int : Cell(op, v) \in Cells
  BY DEF Cells, Cell
<1>2. Blank \in Cells
  BY <1>1 DEF Blank, Ops
<1>3. ASSUME NEW c \in Cells, NEW v \in Int
      PROVE  /\ [c EXCEPT !.v = v] \in Cells
             /\ [c EXCEPT !.v = v].op = c.op /\ [c EXCEPT !.v = v].v = v
  BY DEF Cells
<1>4. ASSUME NEW c \in Cells
      PROVE  c.op \in Ops /\ c.v \in Int /\ c # Bad
  BY DEF Cells, Ops, Bad, Cell
<1> QED  BY <1>1, <1>2, <1>3, <1>4

\* The relocated cell c of old address a, at new address m, leads to the image
\* of what c led to.
Follows(n, c, a, m) ==
  /\ n.op = c.op
  /\ c.op \in {"abs", "rel", "ptr"} /\ (c.op = "rel" => Target(c, a) \in DOMAIN Mapping) =>
       Target(n, m) = Image(Target(c, a))

\* A pointer of the jump table.
LEMMA PointerFacts ==
  ASSUME NEW c \in Cells
  PROVE  /\ RelocatePointer(c) \in Cells \cup {Bad}
         /\ \A a, m : RelocatePointer(c) # Bad /\ c.op = "ptr" => Follows(RelocatePointer(c), c, a, m)
<1>1. c.op \in Ops /\ c.v \in Int /\ MapTarget(c.v) \in Int
  BY TargetFacts DEF Cells
<1>2. [c EXCEPT !.v = MapTarget(@)] \in Cells
  BY <1>1, CellFacts
<1>3. ASSUME RelocatePointer(c) # Bad, c.op = "ptr", NEW a, NEW m
      PROVE  Follows(RelocatePointer(c), c, a, m)
  <2>1. MapTarget(c.v) # -1 /\ RelocatePointer(c) = [c EXCEPT !.v = MapTarget(@)]
    BY <1>3 DEF RelocatePointer
  <2>2. c.v \in DOMAIN Mapping /\ MapTarget(c.v) = Mapping[c.v]
    BY <2>1, TargetFacts
  <2>3. RelocatePointer(c).op = "ptr" /\ RelocatePointer(c).v = Mapping[c.v]
    BY <1>3, <2>1, <2>2 DEF Cells
  <2> QED  BY <1>3, <2>2, <2>3 DEF Follows, Target, Image
<1> QED  BY <1>2, <1>3 DEF RelocatePointer

\* An instruction with an absolute address.
LEMMA AbsFacts ==
  ASSUME NEW c \in Cells
  PROVE  /\ RelocateAbs(c) \in Cells \cup {Bad}
         /\ \A a, m : RelocateAbs(c) # Bad /\ c.op = "abs" => Follows(RelocateAbs(c), c, a, m)
<1>1. c.op \in Ops /\ c.v \in Int /\ MapTarget(c.v) \in Int /\ PreludeNewCpu \in Int
  BY TargetFacts DEF Cells
<1>2. [c EXCEPT !.v = MapTarget(@)] \in Cells /\ [c EXCEPT !.v = PreludeNewCpu] \in Cells
  BY <1>1, CellFacts
<1>3. ASSUME RelocateAbs(c) # Bad, c.op = "abs", NEW a, NEW m
      PROVE  Follows(RelocateAbs(c), c, a, m)
  <2>1. CASE c.v \in DOMAIN Mapping
    <3>1. RelocateAbs(c) = [c EXCEPT !.v = MapTarget(@)] /\ MapTarget(c.v) = Mapping[c.v]
      BY <2>1, TargetFacts DEF RelocateAbs
    <3>2. RelocateAbs(c).op = "abs" /\ RelocateAbs(c).v = Mapping[c.v]
      BY <1>3, <3>1 DEF Cells
    <3> QED  BY <1>3, <2>1, <3>2 DEF Follows, Target, Image
  <2>2. CASE c.v \notin DOMAIN Mapping
    <3>1. ~IsInternal(c.v)
      BY <1>3, <2>2, TargetFacts DEF RelocateAbs
    <3>2. CASE c.v = PreludeOldCpu
      <4>1. RelocateAbs(c) = [c EXCEPT !.v = PreludeNewCpu]
        BY <3>1, <3>2 DEF RelocateAbs
      <4>2. RelocateAbs(c).op = "abs" /\ RelocateAbs(c).v = PreludeNewCpu
        BY <1>3, <4>1 DEF Cells
      <4> QED  BY <1>3, <2>2, <3>2, <4>2 DEF Follows, Target, Image
    <3>3. CASE c.v # PreludeOldCpu
      <4>1. RelocateAbs(c) = c
        BY <3>1, <3>3 DEF RelocateAbs
      <4> QED  BY <1>3, <2>2, <3>3, <4>1 DEF Follows, Target, Image
    <3> QED  BY <3>2, <3>3
  <2> QED  BY <2>1, <2>2
<1> QED  BY <1>2, <1>3 DEF RelocateAbs

\* A branch.
LEMMA RelFacts ==
  ASSUME NEW c \in Cells, NEW a \in Int, NEW m \in Int
  PROVE  /\ RelocateRel(c, a, m) \in Cells \cup {Bad}
         /\ RelocateRel(c, a, m) # Bad /\ c.op = "rel" => Follows(RelocateRel(c, a, m), c, a, m)
<1> DEFINE t == a + 2 + c.v
           d == MapTarget(t) - (m + 2)
<1>1. c.op \in Ops /\ c.v \in Int /\ MapTarget(t) \in Int
  BY TargetFacts DEF Cells
<1>2. d \in Int
  BY <1>1
<1>3. [c EXCEPT !.v = d] \in Cells
  <2> HIDE DEF d
  <2> QED  BY <1>1, <1>2, CellFacts
<1>4. RelocateRel(c, a, m) =
        IF ~IsInternal(t) THEN c
        ELSE IF MapTarget(t) = -1 \/ d \notin -Reach .. Reach - 1 THEN Bad
        ELSE [c EXCEPT !.v = d]
  BY DEF RelocateRel
<1>5. ASSUME RelocateRel(c, a, m) # Bad, c.op = "rel"
      PROVE  Follows(RelocateRel(c, a, m), c, a, m)
  <2>1. RelocateRel(c, a, m).op = "rel"
    <3> HIDE DEF t, d
    <3> QED  BY <1>4, <1>5 DEF Cells
  <2>2. ASSUME t \in DOMAIN Mapping
        PROVE  m + 2 + RelocateRel(c, a, m).v = Mapping[t]
    <3>1. IsInternal(t) /\ MapTarget(t) = Mapping[t]
      BY <2>2, TargetFacts
    <3>2. RelocateRel(c, a, m).v = d
      <4> HIDE DEF t, d
      <4> QED  BY <1>4, <1>5, <3>1 DEF Cells
    <3>3. PICK x, z : x = RelocateRel(c, a, m).v /\ z = MapTarget(t)
      OBVIOUS
    <3>4. x = z - (m + 2) /\ z \in Int
      BY <1>1, <3>2, <3>3
    <3> QED  BY <3>1, <3>3, <3>4
  <2>3. Target(c, a) = t
    BY <1>5 DEF Target
  <2>4. Target(RelocateRel(c, a, m), m) = m + 2 + RelocateRel(c, a, m).v
    BY <2>1 DEF Target
  <2> HIDE DEF t
  <2> QED  BY <1>5, <2>1, <2>2, <2>3, <2>4 DEF Follows, Image
<1> HIDE DEF t, d
<1> QED  BY <1>3, <1>4, <1>5

\* What relocate_region makes of the k-th region of the ROM P.
Moved(P, k) ==
  RelocateRegion(Slice(P, OldRegions[k].file, OldRegions[k].len), OldRegions[k].cpu,
                 NewBaseCpu + Total[k - 1])

\* R is the relocated k-th region of P.  If the jump table and only it holds
\* pointers, an instruction that is not cut off leads to the image of what it led
\* to; a pointer that leads out of the patch is refused.
IsMoved(R, P, k) ==
  \A i \in 1 .. OldRegions[k].len :
    /\ R[i] # Bad /\ (P[OldRegions[k].file + i].op = "ptr" <=> OldRegions[k].cpu = JumpTableCpu) =>
         /\ R[i].op = P[OldRegions[k].file + i].op
         /\ i + ModeLen(P[OldRegions[k].file + i]) - 1 <= OldRegions[k].len =>
              Follows(R[i], P[OldRegions[k].file + i], OldRegions[k].cpu + i - 1,
                      NewBaseCpu + Total[k - 1] + i - 1)
    /\ OldRegions[k].cpu = JumpTableCpu /\ ~IsInternal(P[OldRegions[k].file + i].v) => R[i] = Bad

\* relocate_region.
LEMMA MovedFacts ==
  ASSUME NEW P \in Bytes, Len(P) = Len(Vanilla), NEW k \in 1 .. Len(OldRegions)
  PROVE  /\ Moved(P, k) \in Seq(Cells \cup {Bad}) /\ Len(Moved(P, k)) = OldRegions[k].len
         /\ IsMoved(Moved(P, k), P, k)
<1>1. PICK f, u, l, b : /\ f = OldRegions[k].file /\ u = OldRegions[k].cpu /\ l = OldRegions[k].len
                        /\ b = NewBaseCpu + Total[k - 1]
  OBVIOUS
<1>2. f \in Nat /\ u \in Nat /\ l \in Nat /\ f + l <= Len(P)
  BY <1>1, RegionFacts
<1>3. b \in Nat
  <2>1. NewBaseCpu \in Nat /\ Total[k - 1] \in Nat
    <3>1. k - 1 \in 0 .. Len(OldRegions)
      BY RegionFacts
    <3> QED  BY <3>1, TotalFacts, LayoutAssumption
  <2> QED  BY <1>1, <2>1
<1>4. PICK cs : cs = Slice(P, f, l)
  OBVIOUS
<1>5. cs \in Seq(Cells) /\ Len(cs) = l /\ IsSlice(cs, P, f)
  BY <1>2, <1>4, SliceFacts DEF Bytes, Cells, Ops
<1>6. DOMAIN cs = 1 .. l /\ \A i \in 1 .. l : cs[i] \in Cells /\ cs[i] = P[f + i]
  BY <1>2, <1>5, LenProperties, ElementOfSeq DEF IsSlice
<1>7. PICK R : R = Moved(P, k)
  OBVIOUS
<1> DEFINE X(i) ==
     CASE u = JumpTableCpu -> RelocatePointer(cs[i])
       [] u # JumpTableCpu /\ i + ModeLen(cs[i]) - 1 > l -> cs[i]
       [] OTHER -> CASE cs[i].op = "abs" -> RelocateAbs(cs[i])
                     [] cs[i].op = "rel" -> RelocateRel(cs[i], u + i - 1, b + i - 1)
                     [] OTHER -> cs[i]
<1>8. R = [i \in 1 .. l |-> X(i)]
  BY <1>1, <1>4, <1>5, <1>6, <1>7 DEF Moved, RelocateRegion
<1>9. \A i \in 1 .. l : R[i] = X(i)
  <2> HIDE DEF X
  <2> QED  BY <1>8
<1>10. ASSUME NEW i \in 1 .. l
       PROVE  /\ u = JumpTableCpu => R[i] = RelocatePointer(cs[i])
              /\ u # JumpTableCpu /\ i + ModeLen(cs[i]) - 1 > l => R[i] = cs[i]
              /\ u # JumpTableCpu /\ ~(i + ModeLen(cs[i]) - 1 > l) =>
                   /\ cs[i].op = "abs" => R[i] = RelocateAbs(cs[i])
                   /\ cs[i].op = "rel" => R[i] = RelocateRel(cs[i], u + i - 1, b + i - 1)
                   /\ cs[i].op \notin {"abs", "rel"} => R[i] = cs[i]
  BY <1>9, <1>10
<1> HIDE DEF X
<1>11. ASSUME NEW i \in 1 .. l
       PROVE  /\ RelocatePointer(cs[i]) \in Cells \cup {Bad}
              /\ RelocateAbs(cs[i]) \in Cells \cup {Bad}
              /\ u + i - 1 \in Int /\ b + i - 1 \in Int
              /\ RelocateRel(cs[i], u + i - 1, b + i - 1) \in Cells \cup {Bad}
              /\ cs[i] \in Cells
  <2>1. cs[i] \in Cells /\ u + i - 1 \in Int /\ b + i - 1 \in Int
    BY <1>2, <1>3, <1>6
  <2> QED  BY <2>1, PointerFacts, AbsFacts, RelFacts
<1>12. \A i \in 1 .. l : R[i] \in Cells \cup {Bad}
  BY <1>10, <1>11
<1>13. R \in Seq(Cells \cup {Bad}) /\ Len(R) = l
  <2> DEFINE S == Cells \cup {Bad}
  <2>1. R \in [1 .. l -> S]
    BY <1>8, <1>12
  <2> HIDE DEF S
  <2>2. R \in Seq(S)
    BY <1>2, <2>1, SeqDef
  <2>3. Len(R) = l
    BY <1>2, <1>8
  <2> QED  BY <2>2, <2>3 DEF S
<1>14. ASSUME NEW i \in 1 .. l, R[i] # Bad, cs[i].op = "ptr" <=> u = JumpTableCpu
       PROVE  /\ R[i].op = cs[i].op
              /\ i + ModeLen(cs[i]) - 1 <= l => Follows(R[i], cs[i], u + i - 1, b + i - 1)
  <2>1. cs[i] \in Cells /\ u + i - 1 \in Int /\ b + i - 1 \in Int
    BY <1>11, <1>14
  <2>2. CASE u = JumpTableCpu
    BY <1>10, <1>14, <2>1, <2>2, PointerFacts DEF Follows
  <2>3. CASE u # JumpTableCpu /\ i + ModeLen(cs[i]) - 1 > l
    <3>1. i + ModeLen(cs[i]) - 1 \in Int
      BY <1>2 DEF ModeLen
    <3> QED  BY <1>2, <1>10, <1>14, <2>3, <3>1
  <2>4. CASE u # JumpTableCpu /\ ~(i + ModeLen(cs[i]) - 1 > l)
    <3>1. CASE cs[i].op = "abs"
      BY <1>10, <1>14, <2>1, <2>4, <3>1, AbsFacts, SMTT(40) DEF Follows
    <3>2. CASE cs[i].op = "rel"
      BY <1>10, <1>14, <2>1, <2>4, <3>2, RelFacts DEF Follows
    <3>3. CASE cs[i].op \notin {"abs", "rel"}
      <4>1. R[i] = cs[i]
        BY <1>10, <2>4, <3>3
      <4> QED  BY <1>14, <2>4, <3>3, <4>1 DEF Follows
    <3> QED  BY <3>1, <3>2, <3>3
  <2> QED  BY <2>2, <2>3, <2>4
<1>15. ASSUME NEW i \in 1 .. l, u = JumpTableCpu, ~IsInternal(cs[i].v)
       PROVE  R[i] = Bad
  BY <1>10, <1>15 DEF RelocatePointer
<1>16. IsMoved(R, P, k)
  <2>1. \A i \in 1 .. l : P[f + i] = cs[i]
    BY <1>6
  <2>2. b = NewBaseCpu + Total[k - 1]
    BY <1>1
  <2> QED  BY <1>1, <1>14, <1>15, <2>1, <2>2 DEF IsMoved
<1> QED  BY <1>1, <1>7, <1>13, <1>16

\* The packed block of main.
LEMMA NewBlockFacts ==
  ASSUME NEW P \in Bytes, Len(P) = Len(Vanilla)
  PROVE  /\ Len(NewBlock(P)) = CodeLen + Len(PreludeBytes)
         /\ NewBlock(P) \in Seq(Cells \cup {Bad})
         /\ \A k \in 1 .. Len(OldRegions) : \A i \in 1 .. OldRegions[k].len :
              /\ Total[k - 1] + i \in 1 .. Len(NewBlock(P))
              /\ NewBlock(P)[Total[k - 1] + i] = Moved(P, k)[i]
<1>1. PICK n : n = Len(OldRegions)
  OBVIOUS
<1> DEFINE ss == [k \in DOMAIN OldRegions |->
                    LET r == OldRegions[k]
                    IN RelocateRegion(Slice(P, r.file, r.len), r.cpu, NewBaseCpu + Total[k - 1])]
           S == Cells \cup {Bad}
<1>2. n \in Nat \ {0} /\ DOMAIN OldRegions = 1 .. n
  BY <1>1, RegionFacts
<1>3. ss = [k \in 1 .. n |-> Moved(P, k)]
  BY <1>2 DEF Moved
<1>4. PICK qs : qs = ss
  OBVIOUS
<1>5. NewBlock(P) = FlattenSeq(qs) \o PreludeBytes
  BY <1>4 DEF NewBlock
<1>6. qs = [k \in 1 .. n |-> Moved(P, k)]
  BY <1>3, <1>4
<1> HIDE DEF ss
<1>7. Len(qs) = n /\ \A k \in 1 .. n : qs[k] = Moved(P, k)
  BY <1>2, <1>6
<1>8. \A k \in 1 .. n : qs[k] \in Seq(S) /\ Len(qs[k]) = OldRegions[k].len
  BY <1>1, <1>7, MovedFacts
<1>9. Packs(Total, qs)
  BY <1>1, <1>7, <1>8, TotalFacts DEF Packs
<1>10. PICK fl : fl = FlattenSeq(qs)
  OBVIOUS
<1>11. fl \in Seq(S) /\ Len(fl) = Total[n] /\ IsPacked(fl, Total, qs)
  <2> HIDE DEF S
  <2>1. Len(qs) \in Nat \ {0} /\ \A k \in 1 .. Len(qs) : qs[k] \in Seq(S)
    BY <1>2, <1>7, <1>8
  <2>2. FlattenSeq(qs) \in Seq(S) /\ Len(FlattenSeq(qs)) = Total[Len(qs)]
    BY <1>9, <2>1, FlattenFacts
  <2>3. IsPacked(FlattenSeq(qs), Total, qs)
    BY <1>9, <2>1, FlattenFacts
  <2> QED  BY <1>7, <1>10, <2>2, <2>3
<1>12. PreludeBytes \in Seq(S)
  <2>1. PreludeBytes \in Seq(Cells)
    BY VanillaAssumption DEF Bytes, Cells, Ops
  <2>2. Cells \subseteq S
    OBVIOUS
  <2> HIDE DEF S
  <2>3. \A i \in 1 .. Len(PreludeBytes) : PreludeBytes[i] \in S
    BY <2>1, <2>2, ElementOfSeq
  <2>4. Len(PreludeBytes) \in Nat /\ PreludeBytes = [i \in 1 .. Len(PreludeBytes) |-> PreludeBytes[i]]
    BY <2>1
  <2>5. PreludeBytes \in [1 .. Len(PreludeBytes) -> S]
    BY <2>1, <2>3, LenProperties
  <2> QED  BY <2>4, <2>5, SeqDef
<1>13. PICK N : N = fl \o PreludeBytes
  OBVIOUS
<1>14. N = NewBlock(P)
  BY <1>5, <1>10, <1>13
<1>15. /\ N \in Seq(S) /\ Len(N) = Len(fl) + Len(PreludeBytes)
       /\ \A q \in 1 .. Len(fl) : N[q] = fl[q]
       /\ Len(fl) \in Nat /\ Len(PreludeBytes) \in Nat
  <2> HIDE DEF S
  <2> QED  BY <1>11, <1>12, <1>13, ConcatProperties, LenProperties, SMTT(40)
<1>16. Len(fl) = CodeLen
  BY <1>1, <1>11 DEF CodeLen
<1>17. ASSUME NEW k \in 1 .. n, NEW i \in 1 .. OldRegions[k].len
       PROVE  Total[k - 1] + i \in 1 .. Len(N) /\ N[Total[k - 1] + i] = Moved(P, k)[i]
  <2>1. Total[k - 1] + i <= Total[n] /\ fl[Total[k - 1] + i] = Moved(P, k)[i]
    BY <1>7, <1>8, <1>11, <1>17 DEF IsPacked
  <2>2. PICK x, y, l : x = Total[k - 1] /\ y = Total[n] /\ l = OldRegions[k].len
    OBVIOUS
  <2>3. x \in Nat /\ y \in Nat /\ l \in Nat
    <3>1. k - 1 \in 0 .. n /\ n \in 0 .. n
      BY <1>2
    <3> QED  BY <1>1, <2>2, <3>1, TotalFacts, RegionFacts
  <2>4. i \in 1 .. l /\ x + i <= y /\ y = Len(fl)
    BY <1>11, <1>17, <2>1, <2>2
  <2>5. x + i \in 1 .. Len(fl) /\ x + i \in 1 .. Len(N)
    BY <1>15, <2>3, <2>4
  <2>6. Total[k - 1] + i = x + i
    BY <2>2
  <2> QED  BY <1>15, <2>1, <2>5, <2>6
<1> QED  BY <1>1, <1>14, <1>15, <1>16, <1>17

-----------------------------------------------------------------------------
(* The ROM main builds *)

\* The records main writes into the ROM.
Writes(P) == <<Raw(NewBaseFile, NewBlock(P))>> \o HookPokes(P) \o FixedPokes
WriteRecs == [offset : Nat, length : Nat, count : {0}, data : Bytes]

\* Record r writes the offsets os.
WritesAt(r, os) == \A o \in Int : Covers(r, o) <=> o \in os

\* A raw record is a record.
LEMMA RawFacts ==
  ASSUME NEW o \in Nat, NEW d \in Bytes
  PROVE  /\ Raw(o, d) \in WriteRecs
         /\ Raw(o, d).offset = o /\ Raw(o, d).length = Len(d) /\ Raw(o, d).data = d
         /\ WritesAt(Raw(o, d), Span(o, Len(d)))
<1>1. Len(d) \in Nat
  BY LenProperties DEF Bytes
<1>2. Raw(o, d).offset = o /\ Raw(o, d).length = Len(d) /\ Raw(o, d).data = d
  BY DEF Raw
<1>3. Raw(o, d) \in WriteRecs
  BY <1>1 DEF Raw, WriteRecs
<1>4. WritesAt(Raw(o, d), Span(o, Len(d)))
  <2>1. PICK x, y : x = Raw(o, d).offset /\ y = Raw(o, d).length
    OBVIOUS
  <2> QED  BY <1>1, <1>2 DEF WritesAt, Covers, Span
<1> QED  BY <1>2, <1>3, <1>4

\* Seven elements, then others.
IsJoined(w, t, q) ==
  Len(w) = 7 + Len(q) /\ (\A i \in 1 .. 7 : w[i] = t[i]) /\ \A i \in 1 .. Len(q) : w[7 + i] = q[i]

\* Concatenation joins them.
LEMMA JoinFacts ==
  ASSUME NEW S, NEW t \in Seq(S), Len(t) = 7, NEW q \in Seq(S)
  PROVE  t \o q \in Seq(S) /\ IsJoined(t \o q, t, q)
<1>1. Len(q) \in Nat
  BY LenProperties
<1>2. PICK w : w = t \o q
  OBVIOUS
<1>3. w \in Seq(S) /\ Len(w) = Len(t) + Len(q)
      /\ \A i \in 1 .. Len(t) + Len(q) : w[i] = IF i <= Len(t) THEN t[i] ELSE q[i - Len(t)]
  BY <1>2, ConcatProperties
<1>4. \A i \in 1 .. 7 : w[i] = t[i]
  BY <1>1, <1>3
<1>5. \A i \in 1 .. Len(q) : w[7 + i] = q[i]
  BY <1>1, <1>3
<1> QED  BY <1>2, <1>3, <1>4, <1>5 DEF IsJoined

\* The fixed pokes.
LEMMA PokeFacts ==
  /\ FixedPokes \in Seq(WriteRecs) /\ Len(FixedPokes) \in Nat /\ DOMAIN FixedPokes = 1 .. Len(FixedPokes)
  /\ \A i \in 1 .. Len(FixedPokes) :
       /\ FixedPokes[i].offset \in Nat /\ FixedPokes[i].length \in Nat
       /\ FixedPokes[i].data \in Bytes /\ Len(FixedPokes[i].data) = FixedPokes[i].length
       /\ WritesAt(FixedPokes[i], Span(FixedPokes[i].offset, FixedPokes[i].length))
<1> DEFINE S == [offset : Nat, length : Nat \ {0}, count : {0}, data : Bytes]
<1>1. FixedPokes \in Seq(S)
  BY VanillaAssumption
<1>2. /\ Len(FixedPokes) \in Nat /\ DOMAIN FixedPokes = 1 .. Len(FixedPokes)
      /\ FixedPokes \in [1 .. Len(FixedPokes) -> S] /\ \A i \in 1 .. Len(FixedPokes) : FixedPokes[i] \in S
  <2> HIDE DEF S
  <2> QED  BY <1>1, LenProperties, ElementOfSeq
<1>3. S \subseteq WriteRecs
  BY DEF WriteRecs
<1>4. FixedPokes \in Seq(WriteRecs)
  <2> HIDE DEF S
  <2>1. FixedPokes \in [1 .. Len(FixedPokes) -> WriteRecs]
    BY <1>2, <1>3
  <2> QED  BY <1>2, <2>1, SeqDef
<1>5. \A i \in 1 .. Len(FixedPokes) :
        /\ FixedPokes[i].offset \in Nat /\ FixedPokes[i].length \in Nat
        /\ FixedPokes[i].data \in Bytes /\ Len(FixedPokes[i].data) = FixedPokes[i].length
  BY <1>2, VanillaAssumption
<1>6. ASSUME NEW i \in 1 .. Len(FixedPokes)
      PROVE  WritesAt(FixedPokes[i], Span(FixedPokes[i].offset, FixedPokes[i].length))
  <2>1. PICK x, y : x = FixedPokes[i].offset /\ y = FixedPokes[i].length
    OBVIOUS
  <2>2. x \in Nat /\ y \in Nat
    BY <1>5, <2>1
  <2>3. \A o \in Int : x <= o /\ o < x + y <=> o \in Span(x, y)
    BY <2>2 DEF Span
  <2> QED  BY <2>1, <2>3 DEF WritesAt, Covers
<1> QED  BY <1>2, <1>4, <1>5, <1>6

\* The offsets main writes, one by one.
LEMMA LayoutFacts ==
  /\ Len(Layout) = 7 + Len(FixedPokes) /\ DOMAIN Layout = 1 .. 7 + Len(FixedPokes)
  /\ Layout[1] = Span(NewBaseFile, CodeLen + Len(PreludeBytes))
  /\ Layout[2] = Span(SecondaryNewFile, SecondaryLen) /\ Layout[3] = Span(SecondaryOldFile, SecondaryLen)
  /\ Layout[4] = {NmiHookNewFile} /\ Layout[5] = {MainHookFile}
  /\ Layout[6] = {SecondaryHookFile} /\ Layout[7] = {NmiVectorFile}
  /\ \A i \in 1 .. Len(FixedPokes) :
       Layout[7 + i] = Span(FixedPokes[i].offset, FixedPokes[i].length)
<1>1. PICK a1, a2, a3, a4, a5, a6, a7 :
        /\ a1 = Span(NewBaseFile, CodeLen + Len(PreludeBytes))
        /\ a2 = Span(SecondaryNewFile, SecondaryLen) /\ a3 = Span(SecondaryOldFile, SecondaryLen)
        /\ a4 = {NmiHookNewFile} /\ a5 = {MainHookFile} /\ a6 = {SecondaryHookFile} /\ a7 = {NmiVectorFile}
  OBVIOUS
<1>2. PICK m : m = Len(FixedPokes)
  OBVIOUS
<1>3. PICK q : q = [i \in 1 .. m |-> Span(FixedPokes[i].offset, FixedPokes[i].length)]
  OBVIOUS
<1>4. PICK t : t = <<a1, a2, a3, a4, a5, a6, a7>>
  OBVIOUS
<1>5. Layout = t \o q
  BY <1>1, <1>2, <1>3, <1>4, PokeFacts DEF Layout
<1> DEFINE S == {a1, a2, a3, a4, a5, a6, a7} \cup {q[i] : i \in 1 .. m}
<1>6. m \in Nat
  BY <1>2, PokeFacts
<1>7. q \in Seq(S) /\ Len(q) = m /\ \A i \in 1 .. m : q[i] = Span(FixedPokes[i].offset, FixedPokes[i].length)
  <2>1. \A i \in 1 .. m : q[i] \in S
    OBVIOUS
  <2> HIDE DEF S
  <2>2. q \in [1 .. m -> S]
    BY <1>3, <2>1
  <2>3. q \in Seq(S)
    BY <1>6, <2>2, SeqDef
  <2> QED  BY <1>3, <1>6, <2>3
<1>8. /\ t \in Seq(S) /\ Len(t) = 7
      /\ t[1] = a1 /\ t[2] = a2 /\ t[3] = a3 /\ t[4] = a4 /\ t[5] = a5 /\ t[6] = a6 /\ t[7] = a7
  <2>1. a1 \in S /\ a2 \in S /\ a3 \in S /\ a4 \in S /\ a5 \in S /\ a6 \in S /\ a7 \in S
    OBVIOUS
  <2> HIDE DEF S
  <2> QED  BY <1>4, <2>1
<1>9. /\ Layout \in Seq(S) /\ Len(Layout) = 7 + m /\ \A i \in 1 .. 7 : Layout[i] = t[i]
      /\ \A i \in 1 .. m : Layout[7 + i] = q[i]
  <2> HIDE DEF S
  <2>1. q \in Seq(S) /\ t \in Seq(S) /\ Len(t) = 7
    BY <1>7, <1>8
  <2>2. Layout \in Seq(S)
    BY <1>5, <2>1, JoinFacts
  <2>3. IsJoined(Layout, t, q)
    BY <1>5, <2>1, JoinFacts
  <2> QED  BY <1>7, <2>2, <2>3 DEF IsJoined
<1>10. DOMAIN Layout = 1 .. 7 + m
  <2> HIDE DEF S
  <2> QED  BY <1>9, LenProperties
<1>11. \A i \in 1 .. m : Layout[7 + i] = Span(FixedPokes[i].offset, FixedPokes[i].length)
  BY <1>7, <1>9
<1>12. /\ Layout[1] = a1 /\ Layout[2] = a2 /\ Layout[3] = a3 /\ Layout[4] = a4 /\ Layout[5] = a5
       /\ Layout[6] = a6 /\ Layout[7] = a7
  <2> HIDE DEF S
  <2> QED  BY <1>8, <1>9
<1> QED  BY <1>1, <1>2, <1>9, <1>10, <1>11, <1>12

\* One cell as data.
LEMMA OneCell ==
  ASSUME NEW o \in Nat, NEW c \in Cells
  PROVE  /\ Raw(o, <<c>>) \in WriteRecs /\ WritesAt(Raw(o, <<c>>), {o})
         /\ Raw(o, <<c>>).data[1] = c /\ Len(Raw(o, <<c>>).data) = Raw(o, <<c>>).length
<1>1. <<c>> \in Seq(Cells) /\ Len(<<c>>) = 1 /\ <<c>>[1] = c
  OBVIOUS
<1>2. <<c>> \in Bytes
  BY <1>1 DEF Bytes, Cells, Ops
<1>3. Span(o, 1) = {o}
  BY DEF Span
<1>4. /\ Raw(o, <<c>>) \in WriteRecs /\ WritesAt(Raw(o, <<c>>), Span(o, Len(<<c>>)))
      /\ Raw(o, <<c>>).data = <<c>> /\ Raw(o, <<c>>).length = Len(<<c>>)
  BY <1>2, RawFacts
<1> QED  BY <1>1, <1>3, <1>4

\* The records of main: each writes its part of the layout, with data of its length.
LEMMA WritesFacts ==
  ASSUME NEW P \in Bytes, Len(P) = Len(Vanilla), NewBlock(P) \in Bytes
  PROVE  /\ Len(Writes(P)) = 7 + Len(FixedPokes)
         /\ \A j \in 1 .. 7 + Len(FixedPokes) :
              /\ Writes(P)[j] \in WriteRecs /\ WritesAt(Writes(P)[j], Layout[j])
              /\ Len(Writes(P)[j].data) = Writes(P)[j].length
         /\ Writes(P)[1] = Raw(NewBaseFile, NewBlock(P))
         /\ Writes(P)[4].data[1] = Cell("abs", MapTarget(NmiDrainCpu))
         /\ Writes(P)[4].offset = NmiHookNewFile
         /\ Writes(P)[5].data[1] = Cell("abs", MapTarget(MainHookCpu))
         /\ Writes(P)[5].offset = MainHookFile
<1>1. /\ NewBaseFile \in Nat /\ SecondaryOldFile \in Nat /\ SecondaryNewFile \in Nat
      /\ SecondaryNewCpu \in Nat /\ NmiHookNewFile \in Nat /\ NmiHookNewCpu \in Nat
      /\ NmiVectorFile \in Nat /\ MainHookFile \in Nat /\ SecondaryHookFile \in Nat
      /\ SecondaryLen \in Nat \ {0}
  BY LayoutAssumption
<1>2. /\ Cell("abs", MapTarget(NmiDrainCpu)) \in Cells /\ Cell("abs", MapTarget(MainHookCpu)) \in Cells
      /\ Cell("abs", SecondaryNewCpu) \in Cells /\ Cell("ptr", NmiHookNewCpu) \in Cells
  <2>1. "abs" \in Ops /\ "ptr" \in Ops
    BY DEF Ops
  <2>2. SecondaryNewCpu \in Int /\ NmiHookNewCpu \in Int
    BY <1>1
  <2> QED  BY <2>1, <2>2, CellFacts, TargetFacts
<1>3. PICK sl, bl, a1, a2, a3, a4, a5, a6, a7 :
        /\ sl = Slice(P, SecondaryOldFile, SecondaryLen) /\ bl = [i \in 1 .. SecondaryLen |-> Blank]
        /\ a1 = Raw(NewBaseFile, NewBlock(P)) /\ a2 = Raw(SecondaryNewFile, sl)
        /\ a3 = Raw(SecondaryOldFile, bl)
        /\ a4 = Raw(NmiHookNewFile, <<Cell("abs", MapTarget(NmiDrainCpu))>>)
        /\ a5 = Raw(MainHookFile, <<Cell("abs", MapTarget(MainHookCpu))>>)
        /\ a6 = Raw(SecondaryHookFile, <<Cell("abs", SecondaryNewCpu)>>)
        /\ a7 = Raw(NmiVectorFile, <<Cell("ptr", NmiHookNewCpu)>>)
  OBVIOUS
<1> DEFINE Good(r, os) == r \in WriteRecs /\ WritesAt(r, os) /\ Len(r.data) = r.length
<1>4. Good(a1, Layout[1])
  <2>1. Len(NewBlock(P)) = CodeLen + Len(PreludeBytes)
    BY NewBlockFacts
  <2>2. a1 \in WriteRecs /\ WritesAt(a1, Span(NewBaseFile, Len(NewBlock(P))))
        /\ a1.data = NewBlock(P) /\ a1.length = Len(NewBlock(P))
    BY <1>1, <1>3, RawFacts
  <2> QED  BY <2>1, <2>2, LayoutFacts
<1>5. Good(a2, Layout[2])
  <2>1. SecondaryOldFile + SecondaryLen <= Len(P)
    <3>1. Span(SecondaryOldFile, SecondaryLen) \subseteq 0 .. Len(Vanilla) - 1
      <4>1. 3 \in DOMAIN Layout
        BY LayoutFacts, PokeFacts
      <4>2. Layout[3] \subseteq 0 .. Len(Vanilla) - 1
        BY <4>1, VanillaAssumption
      <4> QED  BY <4>2, LayoutFacts
    <3>2. SecondaryOldFile + SecondaryLen - 1 \in Span(SecondaryOldFile, SecondaryLen)
      BY <1>1 DEF Span
    <3>3. Len(P) \in Nat
      BY LenProperties DEF Bytes
    <3> QED  BY <1>1, <3>1, <3>2, <3>3
  <2>2. sl \in Bytes /\ Len(sl) = SecondaryLen
    <3>1. SecondaryLen \in Nat
      BY <1>1
    <3> QED  BY <1>1, <1>3, <2>1, <3>1, SliceFacts
  <2>3. a2 \in WriteRecs /\ WritesAt(a2, Span(SecondaryNewFile, Len(sl)))
        /\ a2.data = sl /\ a2.length = Len(sl)
    BY <1>1, <1>3, <2>2, RawFacts
  <2> QED  BY <2>2, <2>3, LayoutFacts
<1>6. Good(a3, Layout[3])
  <2>1. bl \in Seq(Cells) /\ Len(bl) = SecondaryLen
    <3>1. bl \in [1 .. SecondaryLen -> Cells]
      BY <1>3, CellFacts
    <3>2. bl \in Seq(Cells)
      BY <1>1, <3>1, SeqDef
    <3> QED  BY <1>1, <1>3, <3>2
  <2>2. bl \in Bytes
    BY <2>1 DEF Bytes, Cells, Ops
  <2>3. a3 \in WriteRecs /\ WritesAt(a3, Span(SecondaryOldFile, Len(bl)))
        /\ a3.data = bl /\ a3.length = Len(bl)
    BY <1>1, <1>3, <2>2, RawFacts
  <2> QED  BY <2>1, <2>3, LayoutFacts
<1>7. Good(a4, Layout[4]) /\ a4.data[1] = Cell("abs", MapTarget(NmiDrainCpu))
  <2>1. PICK c : c = Cell("abs", MapTarget(NmiDrainCpu))
    OBVIOUS
  <2>2. a4 = Raw(NmiHookNewFile, <<c>>) /\ c \in Cells /\ NmiHookNewFile \in Nat
    BY <1>1, <1>2, <1>3, <2>1
  <2>3. /\ Raw(NmiHookNewFile, <<c>>) \in WriteRecs /\ WritesAt(Raw(NmiHookNewFile, <<c>>), {NmiHookNewFile})
        /\ Raw(NmiHookNewFile, <<c>>).data[1] = c
        /\ Len(Raw(NmiHookNewFile, <<c>>).data) = Raw(NmiHookNewFile, <<c>>).length
    BY <2>2, OneCell
  <2>4. Layout[4] = {NmiHookNewFile}
    BY LayoutFacts
  <2> QED  BY <2>1, <2>2, <2>3, <2>4
<1>8. Good(a5, Layout[5]) /\ a5.data[1] = Cell("abs", MapTarget(MainHookCpu))
  <2>1. PICK c : c = Cell("abs", MapTarget(MainHookCpu))
    OBVIOUS
  <2>2. a5 = Raw(MainHookFile, <<c>>) /\ c \in Cells /\ MainHookFile \in Nat
    BY <1>1, <1>2, <1>3, <2>1
  <2>3. /\ Raw(MainHookFile, <<c>>) \in WriteRecs /\ WritesAt(Raw(MainHookFile, <<c>>), {MainHookFile})
        /\ Raw(MainHookFile, <<c>>).data[1] = c
        /\ Len(Raw(MainHookFile, <<c>>).data) = Raw(MainHookFile, <<c>>).length
    BY <2>2, OneCell
  <2>4. Layout[5] = {MainHookFile}
    BY LayoutFacts
  <2> QED  BY <2>1, <2>2, <2>3, <2>4
<1>9. Good(a6, Layout[6])
  <2>1. PICK c : c = Cell("abs", SecondaryNewCpu)
    OBVIOUS
  <2>2. a6 = Raw(SecondaryHookFile, <<c>>) /\ c \in Cells /\ SecondaryHookFile \in Nat
    BY <1>1, <1>2, <1>3, <2>1
  <2>3. /\ Raw(SecondaryHookFile, <<c>>) \in WriteRecs /\ WritesAt(Raw(SecondaryHookFile, <<c>>), {SecondaryHookFile})
        /\ Raw(SecondaryHookFile, <<c>>).data[1] = c
        /\ Len(Raw(SecondaryHookFile, <<c>>).data) = Raw(SecondaryHookFile, <<c>>).length
    BY <2>2, OneCell
  <2>4. Layout[6] = {SecondaryHookFile}
    BY LayoutFacts
  <2> QED  BY <2>1, <2>2, <2>3, <2>4
<1>10. Good(a7, Layout[7])
  <2>1. PICK c : c = Cell("ptr", NmiHookNewCpu)
    OBVIOUS
  <2>2. a7 = Raw(NmiVectorFile, <<c>>) /\ c \in Cells /\ NmiVectorFile \in Nat
    BY <1>1, <1>2, <1>3, <2>1
  <2>3. /\ Raw(NmiVectorFile, <<c>>) \in WriteRecs /\ WritesAt(Raw(NmiVectorFile, <<c>>), {NmiVectorFile})
        /\ Raw(NmiVectorFile, <<c>>).data[1] = c
        /\ Len(Raw(NmiVectorFile, <<c>>).data) = Raw(NmiVectorFile, <<c>>).length
    BY <2>2, OneCell
  <2>4. Layout[7] = {NmiVectorFile}
    BY LayoutFacts
  <2> QED  BY <2>1, <2>2, <2>3, <2>4
<1>11. a4.offset = NmiHookNewFile /\ a5.offset = MainHookFile
  BY <1>3 DEF Raw
<1>12. PICK hp, t, m : hp = <<a2, a3, a4, a5, a6, a7>> /\ t = <<a1>> \o hp /\ m = Len(FixedPokes)
  OBVIOUS
<1>13. Writes(P) = t \o FixedPokes
  BY <1>3, <1>12 DEF Writes, HookPokes
<1>14. /\ a1 \in WriteRecs /\ a2 \in WriteRecs /\ a3 \in WriteRecs /\ a4 \in WriteRecs /\ a5 \in WriteRecs
       /\ a6 \in WriteRecs /\ a7 \in WriteRecs
  BY <1>4, <1>5, <1>6, <1>7, <1>8, <1>9, <1>10
<1>15. /\ t \in Seq(WriteRecs) /\ Len(t) = 7
       /\ t[1] = a1 /\ t[2] = a2 /\ t[3] = a3 /\ t[4] = a4 /\ t[5] = a5 /\ t[6] = a6 /\ t[7] = a7
  <2>1. <<a1>> \in Seq(WriteRecs) /\ Len(<<a1>>) = 1 /\ <<a1>>[1] = a1
    BY <1>14
  <2>2. /\ hp \in Seq(WriteRecs) /\ Len(hp) = 6
        /\ hp[1] = a2 /\ hp[2] = a3 /\ hp[3] = a4 /\ hp[4] = a5 /\ hp[5] = a6 /\ hp[6] = a7
    BY <1>12, <1>14
  <2>3. /\ t \in Seq(WriteRecs) /\ Len(t) = Len(<<a1>>) + Len(hp)
        /\ \A i \in 1 .. Len(<<a1>>) + Len(hp) :
             t[i] = IF i <= Len(<<a1>>) THEN <<a1>>[i] ELSE hp[i - Len(<<a1>>)]
    BY <1>12, <2>1, <2>2, ConcatProperties
  <2>4. Len(t) = 7 /\ \A i \in 1 .. 7 : t[i] = IF i <= 1 THEN a1 ELSE hp[i - 1]
    BY <2>1, <2>2, <2>3
  <2> QED  BY <2>2, <2>3, <2>4
<1>16. IsJoined(Writes(P), t, FixedPokes)
  BY <1>13, <1>15, PokeFacts, JoinFacts
<1>17. /\ Len(Writes(P)) = 7 + m
       /\ Writes(P)[1] = a1 /\ Writes(P)[2] = a2 /\ Writes(P)[3] = a3 /\ Writes(P)[4] = a4
       /\ Writes(P)[5] = a5 /\ Writes(P)[6] = a6 /\ Writes(P)[7] = a7
       /\ \A i \in 1 .. m : Writes(P)[7 + i] = FixedPokes[i]
  BY <1>12, <1>15, <1>16 DEF IsJoined
<1>18. \A i \in 1 .. m : Good(FixedPokes[i], Layout[7 + i])
  <2>1. \A i \in 1 .. m : FixedPokes[i] \in WriteRecs
    BY <1>12, PokeFacts, ElementOfSeq
  <2>2. \A i \in 1 .. m : WritesAt(FixedPokes[i], Layout[7 + i])
                          /\ Len(FixedPokes[i].data) = FixedPokes[i].length
    BY <1>12, PokeFacts, LayoutFacts
  <2> QED  BY <2>1, <2>2
<1>19. ASSUME NEW j \in 1 .. 7 + m
       PROVE  Good(Writes(P)[j], Layout[j])
  <2> HIDE DEF Good
  <2>1. m \in Nat
    BY <1>12, PokeFacts
  <2>2. CASE j \in 8 .. 7 + m
    <3>1. PICK i \in 1 .. m : j = 7 + i
      <4>1. j - 7 \in 1 .. m /\ j = 7 + (j - 7)
        BY <2>1, <2>2
      <4> QED  BY <4>1
    <3> QED  BY <1>17, <1>18, <3>1
  <2>3. CASE j \in {1, 2, 3, 4, 5, 6, 7}
    BY <1>4, <1>5, <1>6, <1>7, <1>8, <1>9, <1>10, <1>17, <2>3
  <2>4. j \in 8 .. 7 + m \/ j \in {1, 2, 3, 4, 5, 6, 7}
    BY <2>1
  <2> QED  BY <2>2, <2>3, <2>4
<1> QED  BY <1>3, <1>7, <1>8, <1>11, <1>12, <1>17, <1>19

\* Every write of main writes something.
LEMMA LayoutNonEmpty ==
  \A j \in 1 .. 7 + Len(FixedPokes) : \E o \in Nat : o \in Layout[j]
<1>1. PICK m : m = Len(FixedPokes)
  OBVIOUS
<1>2. m \in Nat
  BY <1>1, PokeFacts
<1>3. \A a \in Nat : \A l \in Nat \ {0} : a \in Span(a, l)
  BY DEF Span
<1>4. /\ NewBaseFile \in Nat /\ SecondaryOldFile \in Nat /\ SecondaryNewFile \in Nat
      /\ NmiHookNewFile \in Nat /\ NmiVectorFile \in Nat /\ MainHookFile \in Nat
      /\ SecondaryHookFile \in Nat /\ SecondaryLen \in Nat \ {0}
  BY LayoutAssumption
<1>5. CodeLen + Len(PreludeBytes) \in Nat \ {0}
  <2>1. /\ Len(OldRegions) \in 1 .. Len(OldRegions) /\ Len(OldRegions) - 1 \in 0 .. Len(OldRegions)
    BY RegionFacts
  <2>2. PICK x, l : x = Total[Len(OldRegions) - 1] /\ l = OldRegions[Len(OldRegions)].len
    OBVIOUS
  <2>3. x \in Nat /\ l \in Nat \ {0} /\ CodeLen = x + l
    BY <2>1, <2>2, RegionFacts, TotalFacts DEF CodeLen
  <2>4. Len(PreludeBytes) \in Nat
    BY VanillaAssumption, LenProperties DEF Bytes
  <2> QED  BY <2>3, <2>4
<1>6. /\ NewBaseFile \in Layout[1] /\ SecondaryNewFile \in Layout[2] /\ SecondaryOldFile \in Layout[3]
      /\ NmiHookNewFile \in Layout[4] /\ MainHookFile \in Layout[5] /\ SecondaryHookFile \in Layout[6]
      /\ NmiVectorFile \in Layout[7]
  BY <1>3, <1>4, <1>5, LayoutFacts
<1>7. \A i \in 1 .. m : FixedPokes[i].offset \in Layout[7 + i] /\ FixedPokes[i].offset \in Nat
  <2> TAKE i \in 1 .. m
  <2>1. FixedPokes[i].offset \in Nat /\ FixedPokes[i].length \in Nat \ {0}
    <3> DEFINE S == [offset : Nat, length : Nat \ {0}, count : {0}, data : Bytes]
    <3>1. FixedPokes \in Seq(S)
      BY VanillaAssumption
    <3>2. FixedPokes[i] \in S
      <4> HIDE DEF S
      <4> QED  BY <1>1, <3>1, ElementOfSeq
    <3> QED  BY <3>2
  <2> QED  BY <1>1, <1>3, <2>1, LayoutFacts
<1>8. ASSUME NEW j \in 1 .. 7 + m
      PROVE  \E o \in Nat : o \in Layout[j]
  <2>1. CASE j \in 8 .. 7 + m
    <3>1. j - 7 \in 1 .. m /\ j = 7 + (j - 7)
      BY <1>2, <2>1
    <3> QED  BY <1>7, <3>1
  <2>2. CASE j \in {1, 2, 3, 4, 5, 6, 7}
    BY <1>4, <1>6, <2>2
  <2>3. j \in 8 .. 7 + m \/ j \in {1, 2, 3, 4, 5, 6, 7}
    BY <1>2
  <2> QED  BY <2>1, <2>2, <2>3
<1> QED  BY <1>1, <1>8

\* The old patch without the sites that are not kept.
LEMMA KeptFacts ==
  ASSUME NEW P \in Bytes, Len(P) = Len(Vanilla)
  PROVE  /\ Kept(Vanilla, P) \in Bytes /\ Len(Kept(Vanilla, P)) = Len(Vanilla)
         /\ \A i \in 1 .. Len(Vanilla) : IsSkipped(i - 1) => Kept(Vanilla, P)[i] = Vanilla[i]
<1>1. PICK n, K : n = Len(Vanilla) /\ K = Kept(Vanilla, P)
  OBVIOUS
<1>2. /\ n \in Nat /\ DOMAIN Vanilla = 1 .. n /\ DOMAIN P = 1 .. n
      /\ \A i \in 1 .. n : Vanilla[i] \in Cells /\ P[i] \in Cells
  <2>1. Vanilla \in Seq(Cells) /\ P \in Seq(Cells)
    BY VanillaAssumption DEF Bytes, Cells, Ops
  <2> QED  BY <1>1, <2>1, LenProperties, ElementOfSeq
<1>3. K = [i \in 1 .. n |-> IF ~IsSkipped(i - 1) THEN P[i] ELSE Vanilla[i]]
  BY <1>1, <1>2 DEF Kept
<1>4. K \in [1 .. n -> Cells] /\ \A i \in 1 .. n : IsSkipped(i - 1) => K[i] = Vanilla[i]
  BY <1>2, <1>3
<1>5. K \in Seq(Cells) /\ Len(K) = n
  <2>1. K \in Seq(Cells)
    BY <1>2, <1>4, SeqDef
  <2> QED  BY <1>2, <1>3, <2>1
<1>6. K \in Bytes
  BY <1>5 DEF Bytes, Cells, Ops
<1> QED  BY <1>1, <1>4, <1>5, <1>6

\* The ROM main builds: the packed code and the hooks are in place, the old
\* regions are vanilla again.
LEMMA FinalRomFacts ==
  ASSUME NEW old, NEW P \in Bytes, P = Apply(Vanilla, old), Len(P) = Len(Vanilla),
         FinalRom(Vanilla, old) # Error
  PROVE  /\ FinalRom(Vanilla, old) \in Bytes /\ Len(FinalRom(Vanilla, old)) = Len(Vanilla)
         /\ \A i \in 1 .. Len(NewBlock(P)) :
              NewBlock(P)[i] # Bad /\ FinalRom(Vanilla, old)[NewBaseFile + i] = NewBlock(P)[i]
         /\ FinalRom(Vanilla, old)[NmiHookNewFile + 1] = Cell("abs", MapTarget(NmiDrainCpu))
         /\ FinalRom(Vanilla, old)[MainHookFile + 1] = Cell("abs", MapTarget(MainHookCpu))
         /\ \A k \in 1 .. Len(OldRegions) : \A i \in 1 .. OldRegions[k].len :
              FinalRom(Vanilla, old)[OldRegions[k].file + i] = Vanilla[OldRegions[k].file + i]
<1>1. PICK F, K, B, W, n, m :
        /\ F = FinalRom(Vanilla, old) /\ K = Kept(Vanilla, P) /\ B = NewBlock(P) /\ W = Writes(P)
        /\ n = Len(Vanilla) /\ m = 7 + Len(FixedPokes)
  OBVIOUS
<1>2. Bad \notin ToSet(B) /\ F = Overlaid(K, W)
  BY <1>1 DEF FinalRom, Writes
<1>3. B \in Seq(Cells \cup {Bad})
  BY <1>1, NewBlockFacts
<1>4. Len(B) \in Nat /\ \A i \in 1 .. Len(B) : B[i] \in Cells /\ B[i] # Bad
  <2> DEFINE S == Cells \cup {Bad}
  <2>1. DOMAIN B = 1 .. Len(B) /\ Len(B) \in Nat /\ \A i \in 1 .. Len(B) : B[i] \in S
    <3> HIDE DEF S
    <3>1. B \in Seq(S)
      BY <1>3 DEF S
    <3> QED  BY <3>1, LenProperties, ElementOfSeq
  <2>2. \A i \in 1 .. Len(B) : B[i] \in ToSet(B)
    BY <2>1 DEF ToSet
  <2>3. \A i \in 1 .. Len(B) : B[i] # Bad
    BY <1>2, <2>2
  <2> QED  BY <2>1, <2>3
<1>5. B \in Bytes
  <2>1. B \in [1 .. Len(B) -> Cells]
    <3> DEFINE S == Cells \cup {Bad}
    <3> HIDE DEF S
    <3>1. B \in Seq(S)
      BY <1>3 DEF S
    <3>2. B \in [1 .. Len(B) -> S]
      BY <3>1, LenProperties
    <3> QED  BY <1>4, <3>2
  <2>2. B \in Seq(Cells)
    BY <1>4, <2>1, SeqDef
  <2> QED  BY <2>2 DEF Bytes, Cells, Ops
<1>6. /\ Len(W) = m /\ m \in Nat /\ n \in Nat
      /\ \A j \in 1 .. m : /\ W[j] \in WriteRecs /\ WritesAt(W[j], Layout[j])
                           /\ Len(W[j].data) = W[j].length
  <2>1. n \in Nat /\ m \in Nat
    BY <1>1, VanillaAssumption, PokeFacts, LenProperties DEF Bytes
  <2> QED  BY <1>1, <1>5, <2>1, WritesFacts
<1>7. \A j \in 1 .. m : Layout[j] \subseteq 0 .. n - 1
  BY <1>1, LayoutFacts, VanillaAssumption
<1>8. \A j \in 1 .. m : W[j].offset \in Nat /\ W[j].length \in Nat /\ W[j].data \in Bytes
  BY <1>6 DEF WriteRecs
<1>9. ASSUME NEW j \in 1 .. m
      PROVE  Rec(W[j], n)
  <2>1. PICK x, y : x = W[j].offset /\ y = W[j].length
    OBVIOUS
  <2>2. PICK o \in Nat : o \in Layout[j]
    BY <1>1, LayoutNonEmpty
  <2>3. x \in Nat /\ y \in Nat /\ x <= o /\ o < x + y
    BY <1>6, <1>8, <2>1, <2>2 DEF WritesAt, Covers
  <2>4. Covers(W[j], x + y - 1) /\ x + y - 1 \in Int
    <3>1. x <= x + y - 1 /\ x + y - 1 < x + y /\ x + y - 1 \in Int
      BY <2>3
    <3> QED  BY <2>1, <3>1 DEF Covers
  <2>5. x + y - 1 \in Layout[j]
    BY <1>6, <2>4 DEF WritesAt
  <2>6. x + y - 1 < n
    BY <1>6, <1>7, <2>3, <2>5
  <2>7. x + y <= n
    BY <1>6, <2>3, <2>6
  <2> QED  BY <1>6, <1>8, <2>1, <2>7 DEF Rec
<1>10. K \in Bytes /\ Len(K) = n /\ \A i \in 1 .. n : IsSkipped(i - 1) => K[i] = Vanilla[i]
  BY <1>1, KeptFacts
<1>11. F \in Bytes /\ Len(F) = n
  BY <1>2, <1>6, <1>9, <1>10, OverlaidFacts
<1>12. LastWins(F, K, W)
  BY <1>2, <1>6, <1>9, <1>10, OverlaidFacts
<1>13. \A i, j \in 1 .. m : i # j => Layout[i] \cap Layout[j] = {}
  BY <1>1, LayoutFacts, LayoutAssumption
<1>14. ASSUME NEW j \in 1 .. m, NEW o \in Layout[j]
       PROVE  F[o + 1] = W[j].data[o - W[j].offset + 1]
  <2>1. o \in 0 .. n - 1
    BY <1>7
  <2>2. Covers(W[j], o)
    BY <1>6, <2>1 DEF WritesAt
  <2>3. \A k \in j + 1 .. m : ~Covers(W[k], o)
    <3> TAKE k \in j + 1 .. m
    <3>1. k \in 1 .. m /\ k # j
      BY <1>6
    <3>2. o \notin Layout[k]
      BY <1>13, <3>1
    <3> QED  BY <1>6, <2>1, <3>1, <3>2 DEF WritesAt
  <2> QED  BY <1>6, <1>10, <1>12, <2>1, <2>2, <2>3 DEF LastWins
<1>15. ASSUME NEW o \in 0 .. n - 1, \A j \in 1 .. m : o \notin Layout[j]
       PROVE  F[o + 1] = K[o + 1]
  <2>1. \A j \in 1 .. m : ~Covers(W[j], o)
    BY <1>6, <1>15 DEF WritesAt
  <2> QED  BY <1>6, <1>10, <1>12, <2>1 DEF LastWins
<1>16. \A i \in 1 .. Len(B) : F[NewBaseFile + i] = B[i]
  <2> TAKE i \in 1 .. Len(B)
  <2>1. NewBaseFile \in Nat
    BY LayoutAssumption
  <2>2. 1 \in 1 .. m /\ W[1] = Raw(NewBaseFile, B)
    BY <1>1, <1>5, PokeFacts, WritesFacts
  <2>3. W[1].offset = NewBaseFile /\ W[1].data = B /\ W[1].length = Len(B)
    BY <2>2 DEF Raw
  <2>4. PICK o : o = NewBaseFile + i - 1
    OBVIOUS
  <2>5. o \in Int /\ NewBaseFile <= o /\ o < NewBaseFile + Len(B) /\ o + 1 = NewBaseFile + i
        /\ o - NewBaseFile + 1 = i
    BY <1>4, <2>1, <2>4
  <2>6. o \in Layout[1]
    BY <1>6, <2>2, <2>3, <2>5 DEF WritesAt, Covers
  <2> QED  BY <1>14, <2>2, <2>3, <2>5, <2>6
<1>17. /\ F[NmiHookNewFile + 1] = Cell("abs", MapTarget(NmiDrainCpu))
       /\ F[MainHookFile + 1] = Cell("abs", MapTarget(MainHookCpu))
  <2>1. NmiHookNewFile \in Nat /\ MainHookFile \in Nat
    BY LayoutAssumption
  <2>2. 4 \in 1 .. m /\ 5 \in 1 .. m
    BY <1>1, PokeFacts
  <2>3. NmiHookNewFile \in Layout[4] /\ MainHookFile \in Layout[5]
    BY LayoutFacts
  <2>4. /\ W[4].data[1] = Cell("abs", MapTarget(NmiDrainCpu)) /\ W[4].offset = NmiHookNewFile
        /\ W[5].data[1] = Cell("abs", MapTarget(MainHookCpu)) /\ W[5].offset = MainHookFile
    BY <1>1, <1>5, WritesFacts
  <2>5. NmiHookNewFile - NmiHookNewFile + 1 = 1 /\ MainHookFile - MainHookFile + 1 = 1
    BY <2>1
  <2> QED  BY <1>14, <2>2, <2>3, <2>4, <2>5
<1>18. ASSUME NEW k \in 1 .. Len(OldRegions), NEW i \in 1 .. OldRegions[k].len
       PROVE  F[OldRegions[k].file + i] = Vanilla[OldRegions[k].file + i]
  <2>1. PICK f, l, o : f = OldRegions[k].file /\ l = OldRegions[k].len /\ o = f + i - 1
    OBVIOUS
  <2>2. f \in Nat /\ l \in Nat /\ f + l <= n /\ OldRegions[k] \in ToSet(OldRegions)
    BY <1>1, <2>1, RegionFacts
  <2>3. i \in 1 .. l /\ o = f + i - 1 /\ n \in Nat
    BY <1>6, <1>18, <2>1
  <2>4. /\ o \in 0 .. n - 1 /\ o + 1 = f + i /\ f <= o /\ o < f + l /\ o \in Span(f, l)
        /\ o + 1 \in 1 .. n /\ (o + 1) - 1 = o
    <3>1. f \in Nat /\ l \in Nat /\ f + l <= n
      BY <2>2
    <3>2. o \in 0 .. n - 1 /\ f <= o /\ o < f + l
      BY <2>3, <3>1
    <3> QED  BY <2>3, <3>1, <3>2 DEF Span
  <2>5. IsSkipped(o)
    BY <2>1, <2>2, <2>4 DEF IsSkipped
  <2>6. \A j \in 1 .. m : o \notin Layout[j]
    <3>1. \A j \in 1 .. m : Layout[j] \cap Span(OldRegions[k].file, OldRegions[k].len) = {}
      BY <1>1, <2>2, LayoutFacts, LayoutAssumption
    <3> QED  BY <2>1, <2>4, <3>1
  <2>7. F[o + 1] = K[o + 1] /\ K[o + 1] = Vanilla[o + 1]
    BY <1>10, <1>15, <2>4, <2>5, <2>6
  <2> QED  BY <2>1, <2>4, <2>7
<1> QED  BY <1>1, <1>4, <1>11, <1>16, <1>17, <1>18

\* Where build_mapping puts the code of the ROM R there is its relocated code;
\* the hooks enter it, and nothing is left at the old sites.
LEMMA BuildFacts ==
  ASSUME NEW R \in Bytes, Len(R) = Len(Vanilla), MakeIps(Vanilla, R) # Error,
         NEW F, F = FinalRom(Vanilla, MakeIps(Vanilla, R)), F # Error
  PROVE  /\ F \in Bytes /\ Len(F) = Len(Vanilla)
         /\ F[NmiHookNewFile + 1] = Cell("abs", MapTarget(NmiDrainCpu))
         /\ F[MainHookFile + 1] = Cell("abs", MapTarget(MainHookCpu))
         /\ \A k \in 1 .. Len(OldRegions) : \A i \in 1 .. OldRegions[k].len :
              /\ Moved(R, k)[i] # Bad
              /\ F[NewBaseFile + Total[k - 1] + i] = Moved(R, k)[i]
              /\ F[OldRegions[k].file + i] = Vanilla[OldRegions[k].file + i]
<1>1. R = Apply(Vanilla, MakeIps(Vanilla, R))
  BY RoundTripFacts, VanillaAssumption
<1>2. /\ F \in Bytes /\ Len(F) = Len(Vanilla)
      /\ F[NmiHookNewFile + 1] = Cell("abs", MapTarget(NmiDrainCpu))
      /\ F[MainHookFile + 1] = Cell("abs", MapTarget(MainHookCpu))
  BY <1>1, FinalRomFacts
<1>3. \A k \in 1 .. Len(OldRegions) : \A i \in 1 .. OldRegions[k].len :
        F[OldRegions[k].file + i] = Vanilla[OldRegions[k].file + i]
  BY <1>1, FinalRomFacts
<1>4. \A i \in 1 .. Len(NewBlock(R)) : NewBlock(R)[i] # Bad /\ F[NewBaseFile + i] = NewBlock(R)[i]
  BY <1>1, FinalRomFacts
<1>5. ASSUME NEW k \in 1 .. Len(OldRegions), NEW i \in 1 .. OldRegions[k].len
      PROVE  Moved(R, k)[i] # Bad /\ F[NewBaseFile + Total[k - 1] + i] = Moved(R, k)[i]
  <2>1. PICK x, l : x = Total[k - 1] /\ l = OldRegions[k].len
    OBVIOUS
  <2>2. x \in Nat /\ l \in Nat /\ NewBaseFile \in Nat
    <3>1. k - 1 \in 0 .. Len(OldRegions)
      BY RegionFacts
    <3> QED  BY <2>1, <3>1, TotalFacts, RegionFacts, LayoutAssumption
  <2>3. x + i \in 1 .. Len(NewBlock(R)) /\ NewBlock(R)[x + i] = Moved(R, k)[i]
    BY <1>5, <2>1, NewBlockFacts
  <2>4. i \in 1 .. l
    BY <1>5, <2>1
  <2>5. NewBaseFile + (x + i) = NewBaseFile + x + i
    BY <2>2, <2>4
  <2>6. NewBlock(R)[x + i] # Bad /\ F[NewBaseFile + (x + i)] = NewBlock(R)[x + i]
    BY <1>4, <2>3
  <2> QED  BY <2>1, <2>3, <2>5, <2>6
<1> QED  BY <1>2, <1>3, <1>5

\* Run on its own result, main refuses: there is no pointer of the patch where
\* the jump table was.
LEMMA SecondBuildFails ==
  ASSUME NEW R \in Bytes, Len(R) = Len(Vanilla), MakeIps(Vanilla, R) # Error,
         NEW F, F = FinalRom(Vanilla, MakeIps(Vanilla, R)), F # Error, MakeIps(Vanilla, F) # Error
  PROVE  FinalRom(Vanilla, MakeIps(Vanilla, F)) = Error
<1>1. F \in Bytes /\ Len(F) = Len(Vanilla)
  BY BuildFacts
<1>2. PICK r \in ToSet(OldRegions) : r.cpu = JumpTableCpu /\ ~IsInternal(Vanilla[r.file + 1].v)
  BY VanillaAssumption
<1>3. PICK k \in 1 .. Len(OldRegions) : r = OldRegions[k]
  BY RegionFacts
<1>4. 1 \in 1 .. OldRegions[k].len
  BY RegionFacts
<1>5. F[OldRegions[k].file + 1] = Vanilla[OldRegions[k].file + 1]
  BY <1>4, BuildFacts
<1>6. IsMoved(Moved(F, k), F, k)
  BY <1>1, MovedFacts
<1>7. Moved(F, k)[1] = Bad
  BY <1>2, <1>3, <1>4, <1>5, <1>6 DEF IsMoved
<1>8. Total[k - 1] + 1 \in 1 .. Len(NewBlock(F)) /\ NewBlock(F)[Total[k - 1] + 1] = Bad
  BY <1>1, <1>4, <1>7, NewBlockFacts
<1>9. Apply(Vanilla, MakeIps(Vanilla, F)) = F
  BY <1>1, RoundTripFacts, VanillaAssumption
<1>10. DOMAIN NewBlock(F) = 1 .. Len(NewBlock(F))
  <2> DEFINE S == Cells \cup {Bad}
  <2>1. NewBlock(F) \in Seq(S)
    BY <1>1, NewBlockFacts
  <2> HIDE DEF S
  <2> QED  BY <2>1, LenProperties
<1>11. Bad \in ToSet(NewBlock(F))
  BY <1>8, <1>10 DEF ToSet
<1> QED  BY <1>9, <1>11 DEF FinalRom

-----------------------------------------------------------------------------
(* The inductive invariant *)

\* The ROM the original patch leads to, relocated.
Final == FinalRom(Vanilla, MakeIps(Vanilla, oldRom))

\* The ROM of the original patch: as Init chose it.
OldInv ==
  /\ oldRom \in Bytes /\ Len(oldRom) = Len(Vanilla) /\ MakeIps(Vanilla, oldRom) # Error
  /\ \A k \in 1 .. Len(OldRegions) : \A i \in 1 .. OldRegions[k].len :
       oldRom[OldRegions[k].file + i].op = "ptr" <=> OldRegions[k].cpu = JumpTableCpu

\* The patch is the original one or the difference of Vanilla and Final; the
\* sidecar belongs to it, or is still empty.
PatchInv ==
  /\ build \in {"todo", "manifest", "built"}
  /\ build = "todo" => patch = MakeIps(Vanilla, oldRom)
  /\ build # "todo" => Final # Error /\ patch = MakeIps(Vanilla, Final) /\ patch # Error
  /\ build # "built" => expected = {}
  /\ expected = {} \/ expected = ExpectedOf(Vanilla, patch)

BuildInv == OldInv /\ PatchInv

\* A ROM with the whole patch.
Carries(b, F) == b \in Bytes /\ Agrees(b, F, DiffSites(Vanilla, F))

FilesInv == DOMAIN files = Paths /\ \A p \in Paths : files[p] = None \/ files[p] \in Bytes

\* What the screens remember: the files they think patched are, also after the
\* files have been written again.
GuiInv ==
  /\ rom \in Path /\ patched \in Path /\ stash \in Path
  /\ cont \in BOOLEAN /\ screen \in {"rom_setup", "relay_setup"}
  /\ build # "built" => cont = FALSE /\ patched = None /\ stash = None /\ screen = "rom_setup"
  /\ cont => rom \in Picks /\ files[rom] # None
  /\ patched # None => Carries(files[patched], Final)
  /\ stash # None => Carries(files[stash], Final)
  /\ screen = "relay_setup" => stash # None \/ (rom \in Picks /\ Carries(files[rom], Final))

CartInv ==
  /\ DOMAIN cart = {"copy", "run"}
  /\ build # "built" => \A f \in {"copy", "run"} : cart[f] = None
  /\ \A f \in {"copy", "run"} : cart[f] = None \/ Carries(cart[f], Final)

IInv == BuildInv /\ FilesInv /\ GuiInv /\ CartInv

\* What the proofs use of a finished relocation.
LEMMA FinalFacts ==
  ASSUME BuildInv, build # "todo"
  PROVE  /\ Vanilla \in Bytes /\ Final \in Bytes /\ Len(Final) = Len(Vanilla)
         /\ MakeIps(Vanilla, Final) # Error /\ patch = MakeIps(Vanilla, Final)
         /\ Built = Final /\ Sites = DiffSites(Vanilla, Final)
         /\ FinalRom(Vanilla, patch) = Error
<1>1. /\ oldRom \in Bytes /\ Len(oldRom) = Len(Vanilla) /\ MakeIps(Vanilla, oldRom) # Error
      /\ Final # Error /\ patch = MakeIps(Vanilla, Final) /\ patch # Error
  BY DEF BuildInv, OldInv, PatchInv
<1>2. Final = FinalRom(Vanilla, MakeIps(Vanilla, oldRom))
  BY DEF Final
<1>3. Vanilla \in Bytes
  BY VanillaAssumption
<1>4. Final \in Bytes /\ Len(Final) = Len(Vanilla)
  BY <1>1, <1>2, BuildFacts
<1>5. Built = Final
  BY <1>1, <1>3, <1>4, RoundTripFacts DEF Built
<1>6. Sites = DiffSites(Vanilla, Final)
  BY <1>5 DEF Sites, DiffSites
<1>7. FinalRom(Vanilla, patch) = Error
  BY <1>1, <1>2, SecondBuildFails
<1> QED  BY <1>1, <1>3, <1>4, <1>5, <1>6, <1>7

\* is_patched tells exactly the ROMs that carry the patch.
LEMMA PatchedFacts ==
  ASSUME BuildInv, build # "todo", NEW b \in Bytes
  PROVE  IsPatched(b, patch) <=> Carries(b, Final)
BY FinalFacts, IsPatchedFacts DEF Carries

\* apply_validated raises, or changes the patch sites of a ROM that is vanilla there.
LEMMA OverlayedFacts ==
  ASSUME BuildInv, build # "todo", NEW b \in Bytes, NEW out,
         out = ApplyValidated(b, patch, expected), out # Error
  PROVE  /\ Carries(out, Final) /\ Agrees(b, Vanilla, Sites) /\ Len(out) = Len(b)
         /\ \A o \in 0 .. Len(b) - 1 : out[o + 1] = IF o \in Sites THEN Built[o + 1] ELSE b[o + 1]
<1>1. Mismatches(b, patch, expected) = {} /\ out = Apply(b, patch)
  BY DEF ApplyValidated
<1>2. expected = {} \/ expected = ExpectedOf(Vanilla, patch)
  BY DEF BuildInv, PatchInv
<1>3. PICK F : F = Final
  OBVIOUS
<1>4. /\ Vanilla \in Bytes /\ F \in Bytes /\ Len(F) = Len(Vanilla) /\ MakeIps(Vanilla, F) # Error
      /\ patch = MakeIps(Vanilla, F) /\ Built = F /\ Sites = DiffSites(Vanilla, F)
  BY <1>3, FinalFacts
<1>5. expected = {} \/ expected = ExpectedOf(Vanilla, MakeIps(Vanilla, F))
  BY <1>2, <1>4
<1>6. Mismatches(b, MakeIps(Vanilla, F), expected) = {} /\ out = Apply(b, MakeIps(Vanilla, F))
  BY <1>1, <1>4
<1>7. /\ Agrees(b, Vanilla, DiffSites(Vanilla, F)) /\ out \in Bytes /\ Len(out) = Len(b)
      /\ \A o \in 0 .. Len(b) - 1 : out[o + 1] = IF o \in DiffSites(Vanilla, F) THEN F[o + 1] ELSE b[o + 1]
  BY <1>4, <1>5, <1>6, ValidatedFacts
<1>8. Agrees(out, F, DiffSites(Vanilla, F))
  <2> SUFFICES ASSUME NEW o \in DiffSites(Vanilla, F)
               PROVE  o < Len(out) /\ o < Len(F) /\ out[o + 1] = F[o + 1]
    BY DEF Agrees
  <2>1. o < Len(b) /\ o < Len(Vanilla)
    BY <1>7 DEF Agrees
  <2>2. o \in 0 .. Len(F) - 1 /\ Len(b) \in Nat /\ Len(F) \in Nat
    BY <1>4, LenProperties DEF DiffSites, Bytes
  <2>3. o \in 0 .. Len(b) - 1
    BY <2>1, <2>2
  <2> QED  BY <1>4, <1>7, <2>1, <2>3
<1> QED  BY <1>3, <1>4, <1>7, <1>8 DEF Carries

\* The build steps keep the invariant of the build; the others leave its variables.
LEMMA BuildStep ==
  ASSUME BuildInv, [Next]_vars
  PROVE  /\ BuildInv' /\ Final' = Final /\ (build = "built" => UNCHANGED buildVars)
         /\ (build # "todo" => UNCHANGED patch)
<1>1. CASE RelocatePatch
  <2>1. /\ FinalRom(Vanilla, patch) # Error /\ patch' = MakeIps(Vanilla, FinalRom(Vanilla, patch))
        /\ patch' # Error /\ build' = "manifest" /\ oldRom' = oldRom /\ expected' = expected
        /\ build # "manifest"
    BY <1>1 DEF RelocatePatch
  <2>2. build = "todo"
    BY <2>1, FinalFacts DEF BuildInv, PatchInv
  <2>3. Final' = Final /\ Final = FinalRom(Vanilla, patch) /\ expected = {}
    BY <2>1, <2>2 DEF BuildInv, PatchInv, Final
  <2>4. OldInv'
    BY <2>1 DEF BuildInv, OldInv
  <2>5. PatchInv'
    BY <2>1, <2>2, <2>3 DEF PatchInv
  <2> QED  BY <2>2, <2>3, <2>4, <2>5 DEF BuildInv
<1>2. CASE WriteManifest
  <2>1. /\ build = "manifest" /\ build' = "built" /\ oldRom' = oldRom /\ patch' = patch
        /\ expected' = ExpectedOf(Vanilla, patch) \/ expected' = expected
    BY <1>2 DEF WriteManifest
  <2>2. Final' = Final
    BY <2>1 DEF Final
  <2>3. OldInv'
    BY <2>1 DEF BuildInv, OldInv
  <2>4. PatchInv'
    BY <2>1, <2>2 DEF BuildInv, PatchInv
  <2> QED  BY <2>1, <2>2, <2>3, <2>4 DEF BuildInv
<1>3. CASE UNCHANGED buildVars
  <2>1. oldRom' = oldRom /\ patch' = patch /\ expected' = expected /\ build' = build
    BY <1>3 DEF buildVars
  <2>2. Final' = Final
    BY <2>1 DEF Final
  <2> QED  BY <1>3, <2>1, <2>2 DEF BuildInv, OldInv, PatchInv
<1>4. RelocatePatch \/ WriteManifest \/ UNCHANGED buildVars
  BY DEF Next, vars, Continue, Back, PickFile, CmdPatch
<1> QED  BY <1>1, <1>2, <1>3, <1>4

\* A file is written by `bridge patch` and by the ROM screen only, and carries the patch.
FileStep ==
  \/ UNCHANGED files
  \/ \E p \in Picks : \E q \in Paths :
       /\ files[p] # None /\ ApplyValidated(files[p], patch, expected) # Error
       /\ files' = [files EXCEPT ![q] = ApplyValidated(files[p], patch, expected)]
       /\ build = "built"

\* Every step writes files in this way.
LEMMA FileSteps ==
  ASSUME IInv, [Next]_vars
  PROVE  FileStep
<1>1. CASE Continue
  <2>1. build = "built" /\ cont
    BY <1>1 DEF Continue
  <2>2. rom \in Picks /\ files[rom] # None
    BY <2>1 DEF IInv, GuiInv
  <2>3. GuiOut[rom] \in Paths
    BY <2>2, RomAssumption
  <2>4. \/ files' = files
        \/ /\ ApplyValidated(files[rom], patch, expected) # Error
           /\ files' = [files EXCEPT ![GuiOut[rom]] = ApplyValidated(files[rom], patch, expected)]
    BY <1>1 DEF Continue, Proceed
  <2> QED  BY <2>1, <2>2, <2>3, <2>4 DEF FileStep
<1>2. ASSUME NEW p \in Picks, CmdPatch(p)
      PROVE  FileStep
  <2>1. CliOut[p] \in Paths
    BY RomAssumption
  <2> QED  BY <1>2, <2>1 DEF CmdPatch, FileStep
<1>3. CASE UNCHANGED files
  BY <1>3 DEF FileStep
<1>4. Continue \/ (\E p \in Picks : CmdPatch(p)) \/ UNCHANGED files
  BY DEF Next, vars, RelocatePatch, WriteManifest, Back, PickFile
<1> QED  BY <1>1, <1>2, <1>3, <1>4

\* What a step makes of a file.
LEMMA FileFacts ==
  ASSUME IInv, [Next]_vars, NEW q \in Paths
  PROVE  files'[q] = files[q] \/ (build = "built" /\ Carries(files'[q], Final))
<1>1. FileStep
  BY FileSteps
<1>2. CASE UNCHANGED files
  BY <1>2
<1>3. ASSUME NEW p \in Picks, NEW x \in Paths, files[p] # None, build = "built",
             ApplyValidated(files[p], patch, expected) # Error,
             files' = [files EXCEPT ![x] = ApplyValidated(files[p], patch, expected)]
      PROVE  files'[q] = files[q] \/ Carries(files'[q], Final)
  <2>1. DOMAIN files = Paths /\ files[p] \in Bytes
    BY <1>3, RomAssumption DEF IInv, FilesInv
  <2>2. Carries(ApplyValidated(files[p], patch, expected), Final)
    BY <1>3, <2>1, OverlayedFacts DEF IInv
  <2>3. CASE q = x
    BY <1>3, <2>1, <2>2, <2>3
  <2>4. CASE q # x
    BY <1>3, <2>1, <2>4
  <2> QED  BY <2>3, <2>4
<1> QED  BY <1>1, <1>2, <1>3 DEF FileStep

\* The files keep their types, a ROM that carries the patch goes on carrying it,
\* and no file is lost.
LEMMA FilesStep ==
  ASSUME IInv, [Next]_vars
  PROVE  /\ FilesInv'
         /\ \A q \in Paths : Carries(files[q], Final) => Carries(files'[q], Final)
         /\ \A q \in Paths : files[q] # None => files'[q] # None
<1>1. DOMAIN files' = Paths
  <2>1. DOMAIN files = Paths
    BY DEF IInv, FilesInv
  <2> QED  BY <2>1, FileSteps DEF FileStep
<1>2. \A q \in Paths : files[q] = None \/ files[q] \in Bytes
  BY DEF IInv, FilesInv
<1>3. \A q \in Paths : files'[q] = files[q] \/ Carries(files'[q], Final)
  BY FileFacts
<1>4. \A b : Carries(b, Final) => b \in Bytes /\ b # None
  BY RomAssumption DEF Carries
<1>5. FilesInv'
  BY <1>1, <1>2, <1>3, <1>4 DEF FilesInv
<1> QED  BY <1>3, <1>4, <1>5

\* A step leaves the screens alone, or is one of theirs.
LEMMA GuiStutter ==
  ASSUME IInv, [Next]_vars, UNCHANGED guiVars
  PROVE  GuiInv' /\ CartInv'
<1>1. rom' = rom /\ patched' = patched /\ cont' = cont /\ stash' = stash /\ screen' = screen /\ cart' = cart
  BY DEF guiVars
<1>2. Final' = Final /\ (build' # "built" => build # "built")
  BY BuildStep DEF IInv, buildVars
<1>3. /\ \A q \in Paths : Carries(files[q], Final) => Carries(files'[q], Final)
      /\ \A q \in Paths : files[q] # None => files'[q] # None
  BY FilesStep
<1>4. GuiInv'
  BY <1>1, <1>2, <1>3, RomAssumption DEF IInv, GuiInv, Path
<1>5. CartInv'
  BY <1>1, <1>2 DEF IInv, CartInv
<1> QED  BY <1>4, <1>5

\* _pick_file keeps what the screens remember true.
LEMMA PickStep ==
  ASSUME IInv, [Next]_vars, NEW p \in Picks, PickFile(p)
  PROVE  GuiInv' /\ CartInv'
<1>1. /\ build = "built" /\ screen = "rom_setup" /\ rom' = p /\ InspectRom(p)
      /\ oldRom' = oldRom /\ build' = build /\ files' = files
      /\ stash' = stash /\ screen' = screen /\ cart' = cart
  BY DEF PickFile, buildVars
<1>2. Final' = Final
  BY <1>1 DEF Final
<1>3. p \in Paths
  BY RomAssumption
<1>4. \/ cont' = FALSE /\ patched' = patched
      \/ /\ cont' = TRUE /\ files[p] # None /\ patched' = None
      \/ /\ cont' = TRUE /\ files[p] # None /\ patched' = p /\ IsPatched(files[p], patch)
  BY <1>1 DEF InspectRom
<1>5. files[p] # None /\ IsPatched(files[p], patch) => Carries(files[p], Final)
  <2>1. files[p] # None => files[p] \in Bytes
    BY <1>3 DEF IInv, FilesInv
  <2> QED  BY <1>1, <2>1, PatchedFacts DEF IInv
<1>6. GuiInv
  BY DEF IInv
<1>7. cont' \in BOOLEAN /\ (cont' => rom' \in Picks /\ files'[rom'] # None)
  BY <1>1, <1>4
<1>8. patched' \in Path /\ (patched' # None => Carries(files'[patched'], Final'))
  BY <1>1, <1>2, <1>3, <1>4, <1>5, <1>6 DEF GuiInv, Path
<1>9. /\ rom' \in Path /\ stash' \in Path /\ screen' = "rom_setup" /\ build' = "built"
      /\ stash' # None => Carries(files'[stash'], Final')
  BY <1>1, <1>2, <1>3, <1>6 DEF GuiInv, Path
<1>10. GuiInv'
  BY <1>7, <1>8, <1>9 DEF GuiInv
<1>11. CartInv'
  BY <1>1, <1>2 DEF IInv, CartInv
<1> QED  BY <1>10, <1>11

\* Back.
LEMMA BackStep ==
  ASSUME IInv, [Next]_vars, Back
  PROVE  GuiInv' /\ CartInv'
<1>1. /\ screen' = "rom_setup" /\ oldRom' = oldRom /\ build' = build /\ files' = files
      /\ rom' = rom /\ patched' = patched /\ cont' = cont /\ stash' = stash /\ cart' = cart
  BY DEF Back, buildVars
<1>2. Final' = Final
  BY <1>1 DEF Final
<1> QED  BY <1>1, <1>2 DEF IInv, GuiInv, CartInv

\* The way on, with a path that is None or a ROM that carries the patch.
LEMMA ProceedFacts ==
  ASSUME IInv, build = "built", build' = build, Final' = Final, rom' = rom, cont' = cont,
         cont => rom \in Picks /\ files'[rom] # None,
         NEW p \in Path, NEW written, Proceed(p, written),
         p # None => Carries(written[p], Final),
         p # None \/ (rom \in Picks /\ Carries(written[rom], Final))
  PROVE  GuiInv' /\ CartInv'
<1>1. patched' = p /\ stash' = p /\ screen' = "relay_setup" /\ files' = written
  BY DEF Proceed
<1>2. GuiInv'
  <2>1. rom \in Path /\ cont \in BOOLEAN
    BY DEF IInv, GuiInv
  <2> QED  BY <1>1, <2>1 DEF GuiInv
<1>3. CartInv
  BY DEF IInv
<1> DEFINE Good(b) == b = None \/ Carries(b, Final)
           Copied(b) == cart' = [cart EXCEPT !.copy = b]
           Run(b) == cart' = [copy |-> b, run |-> b]
<1>4. cart' = cart \/ \E b : Good(b) /\ (Copied(b) \/ Run(b))
  BY DEF Proceed, UploadToEdn8
<1>5. CartInv'
  <2>1. CASE cart' = cart
    BY <1>3, <2>1 DEF CartInv
  <2>2. ASSUME NEW b, Good(b), Copied(b) PROVE CartInv'
    <3>1. DOMAIN cart' = {"copy", "run"} /\ cart'["copy"] = b /\ cart'["run"] = cart["run"]
      BY <1>3, <2>2 DEF CartInv
    <3> QED  BY <1>3, <2>2, <3>1 DEF CartInv
  <2>3. ASSUME NEW b, Good(b), Run(b) PROVE CartInv'
    <3>1. DOMAIN cart' = {"copy", "run"} /\ cart'["copy"] = b /\ cart'["run"] = b
      BY <2>3
    <3> QED  BY <2>3, <3>1 DEF CartInv
  <2> HIDE DEF Good, Copied, Run
  <2> QED  BY <1>4, <2>1, <2>2, <2>3
<1> QED  BY <1>2, <1>5

\* _continue.
LEMMA ContinueStep ==
  ASSUME IInv, [Next]_vars, Continue
  PROVE  GuiInv' /\ CartInv'
<1>1. /\ build = "built" /\ cont /\ build' = build /\ oldRom' = oldRom /\ rom' = rom /\ cont' = cont
  BY DEF Continue, buildVars
<1>2. Final' = Final
  BY <1>1 DEF Final
<1>3. rom \in Picks /\ files[rom] # None /\ rom \in Paths
  BY <1>1, RomAssumption DEF IInv, GuiInv
<1>4. files[rom] \in Bytes
  BY <1>3 DEF IInv, FilesInv
<1>5. files'[rom] # None
  BY <1>3, FilesStep
<1>6. CASE IsPatched(files[rom], patch)
  <2>1. Proceed(patched, files)
    BY <1>6 DEF Continue
  <2>2. Carries(files[rom], Final)
    BY <1>1, <1>4, <1>6, PatchedFacts DEF IInv
  <2>3. patched \in Path /\ (patched # None => Carries(files[patched], Final))
    BY DEF IInv, GuiInv
  <2> QED  BY <1>1, <1>2, <1>3, <1>5, <2>1, <2>2, <2>3, ProceedFacts
<1>7. CASE ~IsPatched(files[rom], patch)
  <2>1. PICK out, q, w : /\ out = ApplyValidated(files[rom], patch, expected) /\ q = GuiOut[rom]
                         /\ w = [files EXCEPT ![q] = out]
    OBVIOUS
  <2>2. out # Error /\ Proceed(q, w)
    BY <1>7, <2>1 DEF Continue
  <2>3. q \in Paths /\ q # None /\ q \in Path
    BY <1>3, <2>1, RomAssumption DEF Path
  <2>4. Carries(out, Final)
    BY <1>1, <1>4, <2>1, <2>2, OverlayedFacts DEF IInv
  <2>5. w[q] = out
    BY <2>1, <2>3 DEF IInv, FilesInv
  <2> QED  BY <1>1, <1>2, <1>3, <1>5, <2>2, <2>3, <2>4, <2>5, ProceedFacts
<1> QED  BY <1>6, <1>7

\* The invariant holds at the start.
LEMMA InitFacts ==
  ASSUME Init
  PROVE  IInv
<1>1. PICK s \in Starts : oldRom = s[1] /\ files = s[2]
  BY DEF Init
<1>2. /\ patch = MakeIps(Vanilla, oldRom) /\ expected = {} /\ build = "todo" /\ rom = None
      /\ patched = None /\ cont = FALSE /\ stash = None /\ screen = "rom_setup"
      /\ cart = [copy |-> None, run |-> None]
  BY DEF Init
<1>3. OldInv
  <2>1. /\ s[1] \in Bytes /\ Len(s[1]) = Len(Vanilla) /\ MakeIps(Vanilla, s[1]) # Error
        /\ \A r \in ToSet(OldRegions) : \A i \in 1 .. r.len :
             s[1][r.file + i].op = "ptr" <=> r.cpu = JumpTableCpu
    BY StartsAssumption
  <2>2. \A k \in 1 .. Len(OldRegions) : OldRegions[k] \in ToSet(OldRegions)
    BY RegionFacts
  <2> QED  BY <1>1, <2>1, <2>2 DEF OldInv
<1>4. PatchInv
  BY <1>2 DEF PatchInv
<1>5. FilesInv
  BY <1>1, StartsAssumption DEF FilesInv
<1>6. GuiInv
  BY <1>2 DEF GuiInv, Path
<1>7. CartInv
  BY <1>2 DEF CartInv
<1> QED  BY <1>3, <1>4, <1>5, <1>6, <1>7 DEF IInv, BuildInv

\* The inductive invariant is one.
THEOREM Invariance == Spec => []IInv
<1>1. Init => IInv
  BY InitFacts
<1>2. IInv /\ [Next]_vars => IInv'
  <2> SUFFICES ASSUME IInv, [Next]_vars
               PROVE  IInv'
    OBVIOUS
  <2>1. BuildInv'
    BY BuildStep DEF IInv
  <2>2. FilesInv'
    BY FilesStep
  <2>3. GuiInv' /\ CartInv'
    <3>1. CASE UNCHANGED guiVars
      BY <3>1, GuiStutter
    <3>2. CASE Continue
      BY <3>2, ContinueStep
    <3>3. CASE Back
      BY <3>3, BackStep
    <3>4. ASSUME NEW p \in Picks, PickFile(p)
          PROVE  GuiInv' /\ CartInv'
      BY <3>4, PickStep
    <3>5. UNCHANGED guiVars \/ Continue \/ Back \/ \E p \in Picks : PickFile(p)
      BY DEF Next, vars, RelocatePatch, WriteManifest, CmdPatch
    <3> QED  BY <3>1, <3>2, <3>3, <3>4, <3>5
  <2> QED  BY <2>1, <2>2, <2>3 DEF IInv
<1> QED  BY <1>1, <1>2, PTL DEF Spec

-----------------------------------------------------------------------------
(* The theorems *)

\* make_ips and apply, for every two ROMs of one length: the patch that
\* relocate_patch.py writes makes of the vanilla ROM the ROM it was built from.
THEOREM RoundTrip ==
  \A original, modified \in Bytes :
    Len(modified) = Len(original) /\ MakeIps(original, modified) # Error =>
      Apply(original, MakeIps(original, modified)) = modified
BY RoundTripFacts

\* is_patched, for every patch make_ips writes and every ROM: it holds of the ROMs
\* with the new byte at every offset at which the patch changes the original.
THEOREM IsPatchedExact ==
  \A original, modified, bytes \in Bytes :
    MakeIps(original, modified) # Error =>
      (IsPatched(bytes, MakeIps(original, modified)) <=>
         Agrees(bytes, modified, {o \in 0 .. Len(modified) - 1 : Differs(original, modified, o)}))
BY IsPatchedFacts DEF DiffSites

\* Type correctness of the build, the screens and the files.
THEOREM TypeCorrect == Spec => []TypeOK
<1>1. IInv => TypeOK
  BY DEF IInv, BuildInv, OldInv, PatchInv, FilesInv, GuiInv, CartInv, Carries, TypeOK
<1> QED  BY <1>1, Invariance, PTL

\* Only a ROM with the whole patch is handed to the later screens or to the cart,
\* whatever the two programs write to the user's files in between.
THEOREM RomReady == Spec => []ReadyRomPatched
<1>1. IInv => ReadyRomPatched
  <2> SUFFICES ASSUME IInv
               PROVE  ReadyRomPatched
    OBVIOUS
  <2>1. build = "built" => Built = Final /\ Sites = DiffSites(Vanilla, Final)
    BY FinalFacts DEF IInv
  <2>2. ASSUME screen = "relay_setup"
        PROVE  Agrees(files[IF stash # None THEN stash ELSE rom], Built, Sites)
    <3>1. build = "built"
      BY <2>2 DEF IInv, GuiInv
    <3>2. Carries(files[IF stash # None THEN stash ELSE rom], Final)
      BY <2>2 DEF IInv, GuiInv
    <3> QED  BY <2>1, <3>1, <3>2 DEF Carries
  <2>3. ASSUME NEW f \in {"copy", "run"}, cart[f] # None
        PROVE  Agrees(cart[f], Built, Sites)
    BY <2>1, <2>3 DEF IInv, CartInv, Carries
  <2> QED  BY <2>2, <2>3 DEF ReadyRomPatched
<1> QED  BY <1>1, Invariance, PTL

\* A written file is one of the user's ROMs, vanilla at every patch site, with
\* exactly those changed; an empty sidecar refuses every ROM the patch changes.
THEOREM Overlays == Spec => WritesAreOverlays
<1> DEFINE A == \A f \in Paths : files'[f] # files[f] =>
       \E p \in Picks :
         /\ files[p] # None /\ Agrees(files[p], Vanilla, Sites)
         /\ Len(files'[f]) = Len(files[p])
         /\ \A o \in 0 .. Len(files[p]) - 1 :
              files'[f][o + 1] = IF o \in Sites THEN Built[o + 1] ELSE files[p][o + 1]
<1>1. IInv /\ [Next]_vars => [A]_vars
  <2> SUFFICES ASSUME IInv, [Next]_vars, NEW f \in Paths, files'[f] # files[f]
               PROVE  \E p \in Picks :
                        /\ files[p] # None /\ Agrees(files[p], Vanilla, Sites)
                        /\ Len(files'[f]) = Len(files[p])
                        /\ \A o \in 0 .. Len(files[p]) - 1 :
                             files'[f][o + 1] = IF o \in Sites THEN Built[o + 1] ELSE files[p][o + 1]
    OBVIOUS
  <2>1. PICK p \in Picks, q \in Paths :
          /\ files[p] # None /\ ApplyValidated(files[p], patch, expected) # Error
          /\ files' = [files EXCEPT ![q] = ApplyValidated(files[p], patch, expected)]
          /\ build = "built"
    BY FileSteps DEF FileStep
  <2>2. DOMAIN files = Paths /\ files[p] \in Bytes
    BY <2>1, RomAssumption DEF IInv, FilesInv
  <2>3. f = q
    BY <2>1, <2>2
  <2>4. files'[f] = ApplyValidated(files[p], patch, expected)
    BY <2>1, <2>2, <2>3
  <2>5. PICK b, out : b = files[p] /\ out = files'[f]
    OBVIOUS
  <2>6. BuildInv /\ build # "todo" /\ b \in Bytes /\ out = ApplyValidated(b, patch, expected) /\ out # Error
    BY <2>1, <2>2, <2>4, <2>5 DEF IInv
  <2>7. /\ Agrees(b, Vanilla, Sites) /\ Len(out) = Len(b)
        /\ \A o \in 0 .. Len(b) - 1 : out[o + 1] = IF o \in Sites THEN Built[o + 1] ELSE b[o + 1]
    BY <2>6, OverlayedFacts
  <2> QED  BY <2>1, <2>5, <2>7
<1>2. WritesAreOverlays <=> [][A]_vars
  BY PTL DEF WritesAreOverlays
<1> HIDE DEF A
<1> QED  BY <1>1, <1>2, Invariance, PTL DEF Spec

\* Started again on the patch it wrote, relocate_patch.py changes nothing.
THEOREM BuildOnce == Spec => BuiltOnce
<1>1. IInv /\ [Next]_vars => [build = "built" => UNCHANGED patch]_vars
  BY BuildStep DEF IInv
<1> QED  BY <1>1, Invariance, PTL DEF Spec, BuiltOnce

\* Every instruction and pointer of the packed code leads to the new place of what
\* its original led to.
LEMMA SameFlowFacts ==
  ASSUME BuildInv, build # "todo", NEW a \in DOMAIN Mapping, NEW o, o = OldCell(a),
         NEW c, c = NewCell(Final, Mapping[a])
  PROVE  c.op = o.op /\ (Whole(a) => Follows(c, o, a, Mapping[a]))
<1>1. PICK k \in 1 .. Len(OldRegions) : In(a, k)
  BY MappingFacts
<1>2. PICK f, u, l, x, i : /\ f = OldRegions[k].file /\ u = OldRegions[k].cpu /\ l = OldRegions[k].len
                           /\ x = Total[k - 1] /\ i = a - u + 1
  OBVIOUS
<1>3. f \in Nat /\ u \in Nat /\ l \in Nat /\ x \in Nat /\ NewBaseFile \in Nat /\ NewBaseCpu \in Nat
  <2>1. k - 1 \in 0 .. Len(OldRegions)
    BY RegionFacts
  <2> QED  BY <1>2, <2>1, RegionFacts, TotalFacts, LayoutAssumption
<1>4. a \in u .. u + l - 1 /\ i = a - u + 1
  BY <1>1, <1>2 DEF In
<1>5. i \in 1 .. l /\ a = u + i - 1 /\ f + a - u + 1 = f + i /\ a \in Int
  BY <1>3, <1>4
<1>6. Mapping[a] = NewBaseCpu + x + a - u
  BY <1>1, <1>2, MappingFacts
<1>7. Mapping[a] = NewBaseCpu + x + i - 1 /\ NewBaseFile + Mapping[a] - NewBaseCpu + 1 = NewBaseFile + x + i
  BY <1>3, <1>5, <1>6
<1>8. RegionOf(a) = OldRegions[k]
  <2>1. OldRegions[k] \in ToSet(OldRegions) /\ a \in OldRegions[k].cpu .. OldRegions[k].cpu + OldRegions[k].len - 1
    BY <1>1, RegionFacts DEF In
  <2>2. ASSUME NEW r \in ToSet(OldRegions), a \in r.cpu .. r.cpu + r.len - 1
        PROVE  r = OldRegions[k]
    <3>1. PICK j \in 1 .. Len(OldRegions) : r = OldRegions[j]
      BY RegionFacts
    <3>2. In(a, j)
      BY <2>2, <3>1 DEF In
    <3>3. j = k
      BY <1>1, <3>2, InFacts
    <3> QED  BY <3>1, <3>3
  <2> QED  BY <2>1, <2>2 DEF RegionOf
<1>9. o = oldRom[f + i]
  BY <1>2, <1>5, <1>8 DEF OldCell
<1>10. /\ oldRom \in Bytes /\ Len(oldRom) = Len(Vanilla) /\ MakeIps(Vanilla, oldRom) # Error
       /\ Final # Error /\ (oldRom[f + i].op = "ptr" <=> u = JumpTableCpu)
  BY <1>2, <1>5 DEF BuildInv, OldInv, PatchInv
<1>11. c = Final[NewBaseFile + x + i]
  BY <1>7 DEF NewCell
<1>12. PICK R : R = Moved(oldRom, k)
  OBVIOUS
<1>13. R[i] # Bad /\ Final[NewBaseFile + x + i] = R[i]
  <2>1. Final = FinalRom(Vanilla, MakeIps(Vanilla, oldRom))
    BY DEF Final
  <2>2. i \in 1 .. OldRegions[k].len
    BY <1>2, <1>5
  <2>3. Moved(oldRom, k)[i] # Bad /\ Final[NewBaseFile + Total[k - 1] + i] = Moved(oldRom, k)[i]
    BY <1>10, <2>1, <2>2, BuildFacts
  <2> QED  BY <1>2, <1>12, <2>3
<1>14. IsMoved(R, oldRom, k)
  BY <1>10, <1>12, MovedFacts
<1>15. /\ R[i].op = o.op
       /\ i + ModeLen(o) - 1 <= l => Follows(R[i], o, u + i - 1, NewBaseCpu + x + i - 1)
  BY <1>2, <1>5, <1>9, <1>10, <1>13, <1>14 DEF IsMoved
<1>16. ASSUME Whole(a)
       PROVE  i + ModeLen(o) - 1 <= l
  <2>1. PICK z : z = ModeLen(o)
    OBVIOUS
  <2>2. z \in Int
    BY <2>1 DEF ModeLen
  <2>3. a + z <= u + l
    BY <1>2, <1>8, <1>16, <2>1 DEF Whole
  <2> QED  BY <1>3, <1>5, <2>1, <2>2, <2>3
<1> QED  BY <1>5, <1>7, <1>11, <1>13, <1>15, <1>16

\* relocate_patch.py "behaves identically to the original", for every original
\* patch, every layout of the regions and every target.
THEOREM ControlFlow == Spec => []SameControlFlow
<1>1. IInv => SameControlFlow
  <2> SUFFICES ASSUME IInv, build # "todo"
               PROVE  SameControlFlow
    BY DEF SameControlFlow
  <2>1. BuildInv /\ Built = Final
    BY FinalFacts DEF IInv
  <2>2. /\ oldRom \in Bytes /\ Len(oldRom) = Len(Vanilla) /\ MakeIps(Vanilla, oldRom) # Error /\ Final # Error
    BY <2>1 DEF BuildInv, OldInv, PatchInv
  <2>3. Final = FinalRom(Vanilla, MakeIps(Vanilla, oldRom))
    BY DEF Final
  <2>4. ASSUME NEW a \in DOMAIN Mapping
        PROVE  LET o == OldCell(a)
                   n == NewCell(Final, Mapping[a])
               IN /\ n.op = o.op
                  /\ o.op \in {"abs", "rel", "ptr"} /\ Whole(a)
                     /\ (o.op = "rel" => Target(o, a) \in DOMAIN Mapping) =>
                       Target(n, Mapping[a]) = Image(Target(o, a))
    <3>1. PICK o, c : o = OldCell(a) /\ c = NewCell(Final, Mapping[a])
      OBVIOUS
    <3>2. c.op = o.op /\ (Whole(a) => Follows(c, o, a, Mapping[a]))
      BY <2>1, <3>1, SameFlowFacts
    <3> QED  BY <3>1, <3>2 DEF Follows
  <2>5. Final[MainHookFile + 1].v = Image(MainHookCpu) /\ Final[NmiHookNewFile + 1].v = Image(NmiDrainCpu)
    <3>1. /\ Final[NmiHookNewFile + 1] = Cell("abs", MapTarget(NmiDrainCpu))
          /\ Final[MainHookFile + 1] = Cell("abs", MapTarget(MainHookCpu))
      BY <2>2, <2>3, BuildFacts
    <3>2. NmiDrainCpu \in DOMAIN Mapping /\ MainHookCpu \in DOMAIN Mapping
      BY LayoutAssumption
    <3>3. MapTarget(NmiDrainCpu) = Image(NmiDrainCpu) /\ MapTarget(MainHookCpu) = Image(MainHookCpu)
      BY <3>2 DEF MapTarget, Image
    <3> QED  BY <3>1, <3>3 DEF Cell
  <2>6. ASSUME NEW r \in ToSet(OldRegions)
        PROVE  Slice(Final, r.file, r.len) = Slice(Vanilla, r.file, r.len)
    <3>1. PICK k \in 1 .. Len(OldRegions) : r = OldRegions[k]
      BY RegionFacts
    <3>2. PICK f, l, s, t : f = r.file /\ l = r.len /\ s = Slice(Final, f, l) /\ t = Slice(Vanilla, f, l)
      OBVIOUS
    <3>3. f \in Nat /\ l \in Nat /\ f + l <= Len(Vanilla)
      BY <3>1, <3>2, RegionFacts
    <3>4. Final \in Bytes /\ Len(Final) = Len(Vanilla) /\ Vanilla \in Bytes
      BY <2>1, FinalFacts
    <3>5. s \in Bytes /\ Len(s) = l /\ IsSlice(s, Final, f)
      BY <3>2, <3>3, <3>4, SliceFacts
    <3>6. t \in Bytes /\ Len(t) = l /\ IsSlice(t, Vanilla, f)
      BY <3>2, <3>3, <3>4, SliceFacts
    <3>7. \A i \in 1 .. l : Final[f + i] = Vanilla[f + i]
      BY <2>2, <2>3, <3>1, <3>2, BuildFacts
    <3>8. \A i \in 1 .. l : s[i] = t[i]
      BY <3>5, <3>6, <3>7 DEF IsSlice
    <3>9. s = t
      BY <3>5, <3>6, <3>8, SeqEqual DEF Bytes
    <3> QED  BY <3>2, <3>9
  <2> QED  BY <2>1, <2>4, <2>5, <2>6 DEF SameControlFlow
<1> QED  BY <1>1, Invariance, PTL
=============================================================================
