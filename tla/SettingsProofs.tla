---------------------------- MODULE SettingsProofs ----------------------------
(***************************************************************************)
(* Proofs about Settings, for all numbers of pins, layouts, passwords and  *)
(* types: counters count every rise of their pins once, a device that runs *)
(* can be reached, and the counts of an older firmware are moved to their  *)
(* new places, however often power is lost.                                *)
(*                                                                         *)
(* What a part of the start-up writes is a list, put together by recursive *)
(* functions (Of, FlattenSeq): first what such lists have in them, then the*)
(* addresses, then what each part writes.  The inductive invariant says of *)
(* every byte still to be written that it is none of those that some other *)
(* part relies on; the rest is about the order of the bytes.               *)
(*                                                                         *)
(* And about Forms, for all texts, numbers, limits and factory settings:   *)
(* what was typed is what is saved.  The functions that read an address    *)
(* character by character are followed from its end to its beginning, and  *)
(* an address is taken as what comes before a part, the part, and the rest.*)
(***************************************************************************)
EXTENDS Settings, Forms, SequenceTheorems, WellFoundedInduction, NaturalsInduction, TLAPS

(* Induction over numbers is done with a least counterexample. *)
LEMMA LeastNumber ==
  ASSUME NEW T, T \subseteq Nat, T # {}
  PROVE  \E m \in T : \A k \in T : m <= k
<1>1. PICK m \in T : \A y \in T : <<y, m>> \notin OpToRel(<, Nat)
  BY NatLessThanWellFounded, WFMin, Zenon
<1>2. ASSUME NEW k \in T PROVE ~(k < m)
  BY <1>1, <1>2, Zenon DEF OpToRel
<1>3. ASSUME NEW k \in T PROVE m <= k
  BY <1>2, <1>3
<1>4. QED
  BY <1>3

(* The function that Of folds its writes with, and that there is one. *)
Filters(f, q, n) ==
  f = [k \in 0 .. n |-> IF k = 0 THEN << >>
                        ELSE IF q[k].at \in Followed THEN Append(f[k - 1], q[k]) ELSE f[k - 1]]

LEMMA FilterExists ==
  ASSUME NEW q, NEW n \in Nat
  PROVE  \E f : Filters(f, q, n)
<1> DEFINE T == {m \in Nat : ~ \E f : Filters(f, q, m)}
<1>1. SUFFICES ASSUME T # {} PROVE FALSE
  OBVIOUS
<1>2. PICK m \in T : \A k \in T : m <= k
  BY <1>1, LeastNumber, Zenon
<1>3. CASE m = 0
  <2> DEFINE f == [k \in 0 .. 0 |-> << >>]
  <2>1. Filters(f, q, 0)
    BY DEF Filters
  <2> QED
    BY <1>2, <1>3, <2>1
<1>4. CASE m # 0
  <2>1. m \in Nat /\ m - 1 \in Nat /\ m - 1 \notin T
    BY <1>2, <1>4
  <2>2. PICK f : Filters(f, q, m - 1)
    BY <2>1
  <2> DEFINE g == [k \in 0 .. m |->
                     IF k <= m - 1 THEN f[k]
                     ELSE IF q[m].at \in Followed THEN Append(f[m - 1], q[m]) ELSE f[m - 1]]
             Next(h, k) == IF k = 0 THEN << >>
                           ELSE IF q[k].at \in Followed THEN Append(h[k - 1], q[k]) ELSE h[k - 1]
  <2>3. \A k \in 0 .. m : g[k] = Next(g, k)
    <3> SUFFICES ASSUME NEW k \in 0 .. m PROVE g[k] = Next(g, k)
      OBVIOUS
    <3>1. \A j \in 0 .. m - 1 : f[j] = Next(f, j)
      BY <2>1, <2>2 DEF Filters
    <3>2. CASE k = m
      BY <1>4, <2>1, <3>2
    <3>3. CASE k = 0
      BY <2>1, <3>1, <3>3
    <3>4. CASE k # 0 /\ k # m
      <4>1. k \in 0 .. m - 1 /\ k - 1 \in 0 .. m - 1 /\ k \in 0 .. m /\ k - 1 \in 0 .. m
        BY <2>1, <3>4
      <4>2. g[k] = f[k] /\ g[k - 1] = f[k - 1]
        BY <4>1
      <4> QED
        BY <3>1, <3>4, <4>1, <4>2
    <3> QED
      BY <3>2, <3>3, <3>4
  <2>4. Filters(g, q, m)
    BY <2>3 DEF Filters
  <2> QED
    BY <1>2, <2>4
<1> QED
  BY <1>3, <1>4

(* r has the followed ones of the first n of q, in their order; place[i] is *)
(* where r[i] is in q.                                                      *)
Picks(r, place, q, n) ==
  /\ r \in Seq(Range(q))
  /\ place \in [1 .. Len(r) -> 1 .. n]
  /\ \A i \in 1 .. Len(r) : r[i] = q[place[i]] /\ r[i].at \in Followed
  /\ \A i, j \in 1 .. Len(r) : i < j => place[i] < place[j]
  /\ \A k \in 1 .. n : q[k].at \in Followed => \E i \in 1 .. Len(r) : place[i] = k

(* Of picks the followed writes and keeps their order. *)
LEMMA OfPicks ==
  ASSUME NEW S, NEW q \in Seq(S)
  PROVE  \E place : Picks(Of(q), place, q, Len(q))
<1> DEFINE N == Len(q)
<1>1. N \in Nat /\ DOMAIN q = 1 .. N
  OBVIOUS
<1> DEFINE F == CHOOSE f : f = [k \in 0 .. N |->
                    IF k = 0 THEN << >>
                    ELSE IF q[k].at \in Followed THEN Append(f[k - 1], q[k]) ELSE f[k - 1]]
<1>2. Of(q) = F[N]
  BY DEF Of
<1>3. Filters(F, q, N)
  <2>1. \E f : Filters(f, q, N)
    BY <1>1, FilterExists
  <2>2. \E f : f = [k \in 0 .. N |->
                    IF k = 0 THEN << >>
                    ELSE IF q[k].at \in Followed THEN Append(f[k - 1], q[k]) ELSE f[k - 1]]
    BY <2>1, Zenon DEF Filters
  <2>3. F = [k \in 0 .. N |->
                    IF k = 0 THEN << >>
                    ELSE IF q[k].at \in Followed THEN Append(F[k - 1], q[k]) ELSE F[k - 1]]
    BY <2>2, Zenon
  <2> HIDE DEF F
  <2> QED
    BY <2>3, Zenon DEF Filters
<1> HIDE DEF F
<1>4. \A k \in 0 .. N : F[k] = IF k = 0 THEN << >>
                              ELSE IF q[k].at \in Followed THEN Append(F[k - 1], q[k]) ELSE F[k - 1]
  BY <1>3 DEF Filters
<1> DEFINE Good(k) == \E place : Picks(F[k], place, q, k)
           T == {k \in 0 .. N : ~Good(k)}
<1> HIDE DEF N
<1>5. Good(0)
  <2>1. F[0] = << >>
    BY <1>1, <1>4
  <2> DEFINE place == [i \in 1 .. 0 |-> 0]
  <2>2. Len(<< >>) = 0 /\ << >> \in Seq(Range(q))
    OBVIOUS
  <2>3. place \in [1 .. Len(<< >>) -> 1 .. 0]
    BY <2>2
  <2>4. Picks(<< >>, place, q, 0)
    BY <2>2, <2>3 DEF Picks
  <2> QED
    BY <2>1, <2>4
<1>6. ASSUME NEW k \in 1 .. N, Good(k - 1)
      PROVE  Good(k)
  <2> DEFINE s == F[k - 1]
  <2>1. PICK place : Picks(s, place, q, k - 1)
    BY <1>6
  <2>2. /\ s \in Seq(Range(q)) /\ Len(s) \in Nat
        /\ place \in [1 .. Len(s) -> 1 .. k - 1]
        /\ \A i \in 1 .. Len(s) : s[i] = q[place[i]] /\ s[i].at \in Followed
        /\ \A i, j \in 1 .. Len(s) : i < j => place[i] < place[j]
        /\ \A m \in 1 .. k - 1 : q[m].at \in Followed => \E i \in 1 .. Len(s) : place[i] = m
    BY <2>1 DEF Picks
  <2>3. /\ F[k] = IF q[k].at \in Followed THEN Append(s, q[k]) ELSE s
        /\ k \in Nat /\ k # 0 /\ k <= N
    BY <1>1, <1>4
  <2> HIDE DEF s
  <2>4. CASE q[k].at \in Followed
    <3> DEFINE L == Len(s) + 1
               more == [i \in 1 .. L |-> IF i = L THEN k ELSE place[i]]
    <3>1. q[k] \in Range(q)
      BY <1>1 DEF Range
    <3>2. /\ F[k] \in Seq(Range(q)) /\ Len(F[k]) = L /\ F[k][L] = q[k]
          /\ \A i \in 1 .. Len(s) : F[k][i] = s[i]
      BY <2>2, <2>3, <2>4, <3>1
    <3> DEFINE l == Len(s)
    <3>9. l \in Nat
      BY <2>2
    <3>10. L = l + 1
      OBVIOUS
    <3> HIDE DEF l
    <3>11. L \in 1 .. L /\ \A i \in 1 .. l : i \in 1 .. L
      BY <3>9, <3>10
    <3>3. \A i \in 1 .. L : i = L \/ i \in 1 .. Len(s)
      BY <2>2
    <3>4. /\ \A i \in 1 .. Len(s) : more[i] = place[i] /\ place[i] \in 1 .. k - 1
          /\ more[L] = k /\ DOMAIN more = 1 .. L
      BY <2>2
    <3> HIDE DEF more, L
    <3>5. more \in [1 .. L -> 1 .. k]
      <4>1. \A i \in 1 .. L : more[i] \in 1 .. k
        BY <2>3, <3>3, <3>4
      <4>2. more = [i \in 1 .. L |-> more[i]]
        BY DEF more
      <4> QED
        BY <4>1, <4>2
    <3>6. \A i \in 1 .. L : F[k][i] = q[more[i]] /\ F[k][i].at \in Followed
      BY <2>2, <2>4, <3>2, <3>3, <3>4
    <3>7. \A i, j \in 1 .. L : i < j => more[i] < more[j]
      <4> SUFFICES ASSUME NEW i \in 1 .. L, NEW j \in 1 .. L, i < j PROVE more[i] < more[j]
        OBVIOUS
      <4>1. i \in 1 .. Len(s) /\ (j = L \/ j \in 1 .. Len(s))
        BY <2>2, <3>3 DEF L
      <4>2. CASE j = L
        BY <2>3, <3>4, <4>1, <4>2
      <4>3. CASE j \in 1 .. Len(s)
        BY <2>2, <3>4, <4>1, <4>3
      <4> QED
        BY <4>1, <4>2, <4>3
    <3>8. \A m \in 1 .. k : q[m].at \in Followed => \E i \in 1 .. L : more[i] = m
      <4> SUFFICES ASSUME NEW m \in 1 .. k, q[m].at \in Followed PROVE \E i \in 1 .. L : more[i] = m
        OBVIOUS
      <4>1. CASE m = k
        BY <3>4, <3>11, <4>1
      <4>2. CASE m # k
        <5>3. m \in 1 .. k - 1
          BY <2>3, <4>2
        <5>1. PICK i \in 1 .. Len(s) : place[i] = m
          BY <2>2, <5>3, Zenon
        <5>2. i \in 1 .. L
          BY <3>11 DEF l
        <5> QED
          BY <3>4, <5>1, <5>2
      <4> QED
        BY <4>1, <4>2
    <3>12. Picks(F[k], more, q, k)
      BY <3>2, <3>5, <3>6, <3>7, <3>8 DEF Picks
    <3> QED
      BY <3>12
  <2>5. CASE q[k].at \notin Followed
    <3>1. place \in [1 .. Len(s) -> 1 .. k]
      BY <2>2, <2>3
    <3>2. \A m \in 1 .. k : q[m].at \in Followed => m \in 1 .. k - 1
      BY <2>3, <2>5
    <3>3. Picks(F[k], place, q, k)
      BY <2>2, <2>3, <2>5, <3>1, <3>2 DEF Picks
    <3> QED
      BY <3>3
  <2> QED
    BY <2>4, <2>5
<1>7. \A k \in 0 .. N : Good(k)
  <2> SUFFICES ASSUME T # {} PROVE FALSE
    OBVIOUS
  <2>1. PICK k \in T : \A j \in T : k <= j
    <3>1. T \subseteq Nat
      BY <1>1
    <3> QED
      BY <3>1, LeastNumber, Zenon
  <2>2. k \in 0 .. N /\ ~Good(k)
    OBVIOUS
  <2>3. k \in 1 .. N
    BY <1>1, <1>5, <2>2
  <2>4. k - 1 \in 0 .. N /\ ~(k <= k - 1)
    BY <1>1, <2>3
  <2>5. Good(k - 1)
    BY <2>1, <2>4
  <2> QED
    BY <1>6, <2>2, <2>3, <2>5
<1> QED
  <2>1. N \in 0 .. N
    BY <1>1
  <2>2. Good(N)
    BY <1>7, <2>1
  <2> QED
    BY <1>2, <2>2 DEF N

(* Induction up to N. *)
LEMMA UpTo ==
  ASSUME NEW N \in Nat, NEW T, 0 \in T, \A k \in 1 .. N : k - 1 \in T => k \in T
  PROVE  \A k \in 0 .. N : k \in T
<1> DEFINE U == {k \in 0 .. N : k \notin T}
<1>1. SUFFICES ASSUME U # {} PROVE FALSE
  OBVIOUS
<1>2. U \subseteq Nat
  OBVIOUS
<1>3. PICK m \in U : \A k \in U : m <= k
  BY <1>1, <1>2, LeastNumber, Zenon
<1>4. m \in 0 .. N /\ m \notin T
  OBVIOUS
<1>5. m \in 1 .. N
  BY <1>4
<1>6. m - 1 \in 0 .. N /\ ~(m <= m - 1)
  BY <1>5
<1>7. m - 1 \in T
  BY <1>3, <1>6
<1> QED
  BY <1>4, <1>5, <1>7

(* The function that FlattenSeq is the last value of, and that there is one. *)
Flattens(f, ss, n) == f = [i \in 1 .. n |-> IF i = 1 THEN ss[i] ELSE f[i - 1] \o ss[i]]

LEMMA FlattenExists ==
  ASSUME NEW ss, NEW N \in Nat
  PROVE  \E f : Flattens(f, ss, N)
<1> DEFINE T == {m \in Nat : \E f : Flattens(f, ss, m)}
<1>1. 0 \in T
  <2> DEFINE f == [i \in 1 .. 0 |-> << >>]
  <2>1. f = [i \in 1 .. 0 |-> IF i = 1 THEN ss[i] ELSE f[i - 1] \o ss[i]]
    OBVIOUS
  <2>2. Flattens(f, ss, 0)
    BY <2>1 DEF Flattens
  <2> QED
    BY <2>2
<1>2. ASSUME NEW k \in 1 .. N, k - 1 \in T
      PROVE  k \in T
  <2>1. PICK f : Flattens(f, ss, k - 1)
    BY <1>2
  <2> DEFINE g == [i \in 1 .. k |-> IF i <= k - 1 THEN f[i]
                                   ELSE IF i = 1 THEN ss[i] ELSE f[i - 1] \o ss[i]]
  <2>2. \A i \in 1 .. k : g[i] = IF i = 1 THEN ss[i] ELSE g[i - 1] \o ss[i]
    <3> SUFFICES ASSUME NEW i \in 1 .. k PROVE g[i] = IF i = 1 THEN ss[i] ELSE g[i - 1] \o ss[i]
      OBVIOUS
    <3>1. \A j \in 1 .. k - 1 : f[j] = IF j = 1 THEN ss[j] ELSE f[j - 1] \o ss[j]
      BY <2>1 DEF Flattens
    <3>2. CASE i = 1 /\ i = k
      BY <3>2
    <3>3. CASE i = 1 /\ i # k
      BY <3>1, <3>3
    <3>4. CASE i # 1
      <4>1. i \in 1 .. k /\ i - 1 \in 1 .. k /\ i - 1 <= k - 1
        BY <3>4
      <4>2. g[i - 1] = f[i - 1]
        BY <4>1
      <4>3. CASE i = k
        <5>1. ~(i <= k - 1)
          BY <4>3
        <5>2. g[i] = f[i - 1] \o ss[i]
          BY <3>4, <5>1
        <5> QED
          BY <3>4, <4>2, <5>2
      <4>4. CASE i # k
        <5>1. i \in 1 .. k - 1 /\ g[i] = f[i]
          BY <4>4
        <5> QED
          BY <3>1, <3>4, <4>2, <5>1
      <4> QED
        BY <4>3, <4>4
    <3> QED
      BY <3>2, <3>3, <3>4
  <2>3. Flattens(g, ss, k)
    BY <2>2 DEF Flattens
  <2> QED
    BY <2>3
<1>3. N \in T
  <2>1. \A k \in 1 .. N : k - 1 \in T => k \in T
    BY <1>2, Zenon
  <2> HIDE DEF T
  <2>2. \A k \in 0 .. N : k \in T
    BY <1>1, <2>1, UpTo
  <2> QED
    BY <2>2
<1> QED
  BY <1>3

(* What is in two lists, and in a list of lists. *)
LEMMA RangeOfTwo ==
  ASSUME NEW X, NEW s \in Seq(X), NEW t \in Seq(X)
  PROVE  s \o t \in Seq(X) /\ Range(s \o t) = Range(s) \cup Range(t)
<1>1. /\ s \o t \in Seq(X) /\ Len(s \o t) = Len(s) + Len(t) /\ Len(s) \in Nat /\ Len(t) \in Nat
      /\ DOMAIN s = 1 .. Len(s) /\ DOMAIN t = 1 .. Len(t) /\ DOMAIN (s \o t) = 1 .. Len(s) + Len(t)
      /\ \A i \in 1 .. Len(s) + Len(t) :
           (s \o t)[i] = IF i <= Len(s) THEN s[i] ELSE t[i - Len(s)]
  OBVIOUS
<1> DEFINE a == Len(s)
           b == Len(t)
           r == s \o t
<1>2. /\ a \in Nat /\ b \in Nat /\ DOMAIN s = 1 .. a /\ DOMAIN t = 1 .. b /\ DOMAIN r = 1 .. a + b
      /\ \A i \in 1 .. a + b : r[i] = IF i <= a THEN s[i] ELSE t[i - a]
  BY <1>1
<1>3. r \in Seq(X)
  BY <1>1
<1> HIDE DEF a, b, r
<1>4. ASSUME NEW x \in Range(r) PROVE x \in Range(s) \cup Range(t)
  <2>1. PICK i \in 1 .. a + b : x = r[i]
    BY <1>2 DEF Range
  <2>2. CASE i <= a
    <3>1. i \in 1 .. a /\ x = s[i]
      BY <1>2, <2>1, <2>2
    <3> QED
      BY <1>2, <3>1 DEF Range
  <2>3. CASE ~(i <= a)
    <3>1. i - a \in 1 .. b /\ x = t[i - a]
      BY <1>2, <2>1, <2>3
    <3> QED
      BY <1>2, <3>1 DEF Range
  <2> QED
    BY <2>2, <2>3
<1>5. ASSUME NEW x \in Range(s) PROVE x \in Range(r)
  <2>1. PICK i \in 1 .. a : x = s[i]
    BY <1>2 DEF Range
  <2>2. i \in 1 .. a + b /\ r[i] = s[i]
    BY <1>2
  <2> QED
    BY <1>2, <2>1, <2>2 DEF Range
<1>6. ASSUME NEW x \in Range(t) PROVE x \in Range(r)
  <2>1. PICK i \in 1 .. b : x = t[i]
    BY <1>2 DEF Range
  <2>2. a + i \in 1 .. a + b /\ ~(a + i <= a) /\ (a + i) - a = i
    BY <1>2
  <2>3. r[a + i] = t[i]
    BY <1>2, <2>2
  <2> QED
    BY <1>2, <2>1, <2>2, <2>3 DEF Range
<1> QED
  BY <1>3, <1>4, <1>5, <1>6 DEF r

LEMMA FlattenIs ==
  ASSUME NEW X, NEW ss \in Seq(Seq(X))
  PROVE  /\ FlattenSeq(ss) \in Seq(X)
         /\ Range(FlattenSeq(ss)) = UNION {Range(ss[i]) : i \in 1 .. Len(ss)}
<1> DEFINE N == Len(ss)
<1>1. N \in Nat /\ \A i \in 1 .. N : ss[i] \in Seq(X)
  OBVIOUS
<1>2. CASE N = 0
  <2>1. FlattenSeq(ss) = ss /\ ss = << >>
    BY <1>2, EmptySeq DEF FlattenSeq
  <2>2. Range(<< >>) = {}
    BY DEF Range
  <2> QED
    BY <1>2, <2>1, <2>2
<1>3. CASE N # 0
  <2> DEFINE F == CHOOSE f : f = [i \in 1 .. N |-> IF i = 1 THEN ss[i] ELSE f[i - 1] \o ss[i]]
  <2>1. FlattenSeq(ss) = F[N]
    BY <1>3 DEF FlattenSeq
  <2>2. F = [i \in 1 .. N |-> IF i = 1 THEN ss[i] ELSE F[i - 1] \o ss[i]]
    <3>1. \E f : Flattens(f, ss, N)
      BY <1>1, FlattenExists
    <3>2. \E f : f = [i \in 1 .. N |-> IF i = 1 THEN ss[i] ELSE f[i - 1] \o ss[i]]
      BY <3>1, Zenon DEF Flattens
    <3> QED
      BY <3>2, Zenon
  <2> HIDE DEF F, N
  <2>3. \A i \in 1 .. N : F[i] = IF i = 1 THEN ss[i] ELSE F[i - 1] \o ss[i]
    BY <2>2
  <2> DEFINE Good(k) == F[k] \in Seq(X) /\ Range(F[k]) = UNION {Range(ss[i]) : i \in 1 .. k}
             T == {k \in 0 .. N : k = 0 \/ Good(k)}
  <2>4. ASSUME NEW k \in 1 .. N, k - 1 \in T
        PROVE  k \in T
    <3>1. CASE k = 1
      <4>1. F[k] = ss[1] /\ 1 \in 1 .. N
        BY <1>1, <2>3, <3>1
      <4>2. UNION {Range(ss[i]) : i \in 1 .. 1} = Range(ss[1])
        <5>1. \A i : i \in 1 .. 1 <=> i = 1
          OBVIOUS
        <5> QED
          BY <5>1
      <4> QED
        BY <1>1, <3>1, <4>1, <4>2
    <3>2. CASE k # 1
      <4>1. k - 1 \in 1 .. N /\ k - 1 # 0 /\ k \in 0 .. N
        BY <1>1, <3>2
      <4>2. Good(k - 1)
        BY <2>4, <4>1
      <4>3. F[k] = F[k - 1] \o ss[k]
        BY <2>3, <3>2
      <4>4. F[k] \in Seq(X) /\ Range(F[k]) = Range(F[k - 1]) \cup Range(ss[k])
        BY <1>1, <4>2, <4>3, RangeOfTwo
      <4>5. \A i : i \in 1 .. k <=> i \in 1 .. k - 1 \/ i = k
        BY <4>1
      <4>6. UNION {Range(ss[i]) : i \in 1 .. k} = (UNION {Range(ss[i]) : i \in 1 .. k - 1}) \cup Range(ss[k])
        BY <4>5
      <4>7. Good(k)
        BY <4>2, <4>4, <4>6
      <4> QED
        BY <4>1, <4>7
    <3> QED
      BY <3>1, <3>2
  <2>5. 0 \in T
    BY <1>1
  <2>6. \A k \in 1 .. N : k - 1 \in T => k \in T
    BY <2>4, Zenon
  <2> HIDE DEF T
  <2>7. N \in T
    <3>1. \A k \in 0 .. N : k \in T
      BY <1>1, <2>5, <2>6, UpTo
    <3> QED
      BY <1>1, <3>1
  <2>8. Good(N)
    BY <1>3, <2>7 DEF T
  <2> QED
    BY <2>1, <2>8 DEF N
<1> QED
  BY <1>2, <1>3

-----------------------------------------------------------------------------
(* The addresses of the settings of a pin. Those of the save are eight bits *)
(* wide, so that it never comes to the counts.                              *)
LEMMA Places ==
  ASSUME NEW n \in Pin
  PROVE  /\ TypeAt(n) \in 100 .. 113
         /\ WordAt(n) \in 140 .. 167 /\ WordAt(n) + 1 \in 140 .. 167
         /\ CountAt(n) \in Nat
         /\ \A k \in 0 .. 3 : CountAt(n) + k \in 2000 .. 2515
         /\ \A k \in 0 .. 3 : (CountAt(n) % 256) + k \in 196 .. 239
         /\ SavePosition(n) \in Nat
<1>1. n \in Nat /\ n >= 1 /\ NumAnalog \in Nat /\ NumDigital \in Nat
      /\ NumAnalog <= 8 /\ NumDigital <= 4 /\ n <= NumAnalog + NumDigital
  BY SettingsAssumption DEF Pin
<1>2. CASE n <= NumAnalog
  <2>1. Index(n) \in 0 .. 7
    BY <1>1, <1>2 DEF Index, Analog
  <2>2. TypeAt(n) = 100 + Index(n) /\ WordAt(n) = 140 + 2 * Index(n) /\ CountAt(n) = 2000 + 4 * Index(n)
    BY <1>2 DEF TypeAt, WordAt, CountAt, Analog
  <2> QED
    BY <2>1, <2>2 DEF SavePosition
<1>3. CASE ~(n <= NumAnalog)
  <2>1. Index(n) \in 0 .. 3
    BY <1>1, <1>3 DEF Index, Analog
  <2>2. TypeAt(n) = 110 + Index(n) /\ WordAt(n) = 160 + 2 * Index(n) /\ CountAt(n) = 2500 + 4 * Index(n)
    BY <1>3 DEF TypeAt, WordAt, CountAt, Analog
  <2> QED
    BY <2>1, <2>2 DEF SavePosition
<1> QED
  BY <1>2, <1>3

(* No byte belongs to two counts. *)
LEMMA CountsApart ==
  ASSUME NEW n \in Pin, NEW m \in Pin, NEW k \in 0 .. 3, NEW j \in 0 .. 3, CountAt(n) + k = CountAt(m) + j
  PROVE  n = m /\ k = j
<1>1. /\ n \in Nat /\ n >= 1 /\ m \in Nat /\ m >= 1 /\ NumAnalog \in Nat /\ NumDigital \in Nat
      /\ NumAnalog <= 8 /\ NumDigital <= 4
      /\ n <= NumAnalog + NumDigital /\ m <= NumAnalog + NumDigital
  BY SettingsAssumption DEF Pin
<1>2. CASE n <= NumAnalog /\ m <= NumAnalog
  BY <1>1, <1>2 DEF CountAt, Index, Analog
<1>3. CASE n <= NumAnalog /\ ~(m <= NumAnalog)
  BY <1>1, <1>3 DEF CountAt, Index, Analog
<1>4. CASE ~(n <= NumAnalog) /\ m <= NumAnalog
  BY <1>1, <1>4 DEF CountAt, Index, Analog
<1>5. CASE ~(n <= NumAnalog) /\ ~(m <= NumAnalog)
  BY <1>1, <1>5 DEF CountAt, Index, Analog
<1> QED
  BY <1>2, <1>3, <1>4, <1>5

(* Where types, old counts and counts are. *)
LEMMA CellsApart ==
  /\ \A c \in TypeCells : c \in 100 .. 113
  /\ \A c \in WordCells : c \in 140 .. 167
  /\ \A c \in CountCells : c \in 2000 .. 2515
  /\ \A c : c \in CountCells <=> \E n \in Pin, k \in 0 .. 3 : c = CountAt(n) + k
<1>1. \A c \in TypeCells : c \in 100 .. 113
  BY Places DEF TypeCells
<1>2. \A c \in WordCells : c \in 140 .. 167
  BY Places DEF WordCells
<1>3. \A c : c \in CountCells <=> \E n \in Pin, k \in 0 .. 3 : c = CountAt(n) + k
  <2>1. ASSUME NEW n \in Pin, NEW c
        PROVE  c \in CountAt(n) .. CountAt(n) + 3 <=> \E k \in 0 .. 3 : c = CountAt(n) + k
    <3>1. CountAt(n) \in Nat
      BY Places
    <3> HIDE DEF CountAt
    <3>2. ASSUME c \in CountAt(n) .. CountAt(n) + 3 PROVE \E k \in 0 .. 3 : c = CountAt(n) + k
      <4>1. c - CountAt(n) \in 0 .. 3 /\ c = CountAt(n) + (c - CountAt(n))
        BY <3>1, <3>2
      <4> QED
        BY <4>1
    <3>3. ASSUME NEW k \in 0 .. 3, c = CountAt(n) + k PROVE c \in CountAt(n) .. CountAt(n) + 3
      BY <3>1, <3>3
    <3> QED
      BY <3>2, <3>3
  <2> QED
    BY <2>1 DEF CountCells
<1>4. \A c \in CountCells : c \in 2000 .. 2515
  BY <1>3, Places
<1> QED
  BY <1>1, <1>2, <1>3, <1>4

(* The four bytes of an old count. *)
LEMMA BytesAre ==
  ASSUME NEW a \in 0 .. Byte - 1, NEW b \in 0 .. Byte - 1
  PROVE  /\ ByteOf(a + Byte * b, 0) = a
         /\ ByteOf(a + Byte * b, 1) = b
         /\ ByteOf(a + Byte * b, 2) = 0
         /\ ByteOf(a + Byte * b, 3) = 0
<1> DEFINE v == a + Byte * b
<1>1. Byte \in Nat /\ Byte >= 2 /\ a \in Nat /\ b \in Nat /\ a < Byte /\ b < Byte
  BY SettingsAssumption
<1>2. v % Byte = a /\ v \div Byte = b
  BY <1>1
<1>3. b % Byte = b
  BY <1>1
<1>4. Byte * b \in Nat /\ Byte * b <= Byte * (Byte - 1) /\ Byte * (Byte - 1) = Byte * Byte - Byte /\ Byte * Byte \in Nat
  BY <1>1
<1>5. v \in Nat /\ v < Byte * Byte
  BY <1>1, <1>4
<1>6. Byte * Byte * Byte \in Nat /\ v < Byte * Byte * Byte
  <2>1. Byte * Byte * Byte \in Nat /\ Byte * Byte <= Byte * Byte * Byte
    BY <1>1
  <2> QED
    BY <1>4, <1>5, <2>1
<1> HIDE DEF v
<1>7. v \div (Byte * Byte) = 0 /\ v \div (Byte * Byte * Byte) = 0
  <2>1. ASSUME NEW d \in Nat, v < d PROVE v \div d = 0
    BY <1>5, <2>1
  <2> QED
    BY <1>4, <1>5, <1>6, <2>1
<1>8. 0 % Byte = 0
  BY <1>1
<1>9. ByteOf(v, 0) = a
  BY <1>2 DEF ByteOf
<1>10. ByteOf(v, 1) = b
  BY <1>2, <1>3 DEF ByteOf
<1>11. ByteOf(v, 2) = 0
  BY <1>7, <1>8 DEF ByteOf
<1>12. ByteOf(v, 3) = 0
  BY <1>7, <1>8 DEF ByteOf
<1> QED
  BY <1>9, <1>10, <1>11, <1>12 DEF v

(* A byte of a number is a byte. *)
LEMMA OneByte ==
  ASSUME NEW v \in Nat, NEW k \in 0 .. 3
  PROVE  ByteOf(v, k) \in 0 .. Byte - 1
<1>1. Byte \in Nat /\ Byte >= 2 /\ Byte * Byte \in Nat /\ Byte * Byte > 0
      /\ Byte * Byte * Byte \in Nat /\ Byte * Byte * Byte > 0
  <2>1. Byte \in Nat /\ Byte >= 2
    BY SettingsAssumption
  <2>2. Byte * Byte \in Nat /\ Byte * Byte > 0
    BY <2>1
  <2>3. Byte * Byte * Byte \in Nat /\ Byte * Byte * Byte > 0
    BY <2>1, <2>2
  <2> QED
    BY <2>1, <2>2, <2>3
<1>2. ASSUME NEW x \in Nat PROVE x % Byte \in 0 .. Byte - 1
  BY <1>1
<1>3. ASSUME NEW d \in Nat, d > 0 PROVE v \div d \in Nat
  BY <1>3
<1>4. k = 0 \/ k = 1 \/ k = 2 \/ k = 3
  OBVIOUS
<1>5. v \div Byte \in Nat /\ v \div (Byte * Byte) \in Nat /\ v \div (Byte * Byte * Byte) \in Nat
  BY <1>1, <1>3
<1> QED
  BY <1>2, <1>4, <1>5 DEF ByteOf

(* What four bytes make is below the modulus of the counters. *)
LEMMA CountIsBelow ==
  ASSUME NEW e, NEW n, \A k \in 0 .. 3 : e[CountAt(n) + k] \in 0 .. Byte - 1
  PROVE  ReadCount(e, n) \in Nat /\ ReadCount(e, n) < Modulus
<1> DEFINE b == [k \in 0 .. 3 |-> e[CountAt(n) + k]]
<1>1. b[0] \in 0 .. Byte - 1 /\ b[1] \in 0 .. Byte - 1 /\ b[2] \in 0 .. Byte - 1 /\ b[3] \in 0 .. Byte - 1
  OBVIOUS
<1>2. ReadCount(e, n) = b[0] + Byte * (b[1] + Byte * (b[2] + Byte * b[3]))
  BY DEF ReadCount, Number
<1> HIDE DEF b
<1>3. Byte \in Nat /\ Byte >= 2
  BY SettingsAssumption
<1>4. ASSUME NEW a \in 0 .. Byte - 1, NEW q \in Nat, NEW d \in Nat, q < d
      PROVE  a + Byte * q \in Nat /\ a + Byte * q < Byte * d
  <2>1. Byte * q \in Nat /\ Byte * d \in Nat /\ Byte * (q + 1) <= Byte * d /\ Byte * (q + 1) = Byte * q + Byte
    BY <1>3, <1>4
  <2> QED
    BY <1>3, <2>1
<1>5. Byte * Byte \in Nat /\ Byte * (Byte * Byte) \in Nat
  BY <1>3
<1>6. b[2] + Byte * b[3] \in Nat /\ b[2] + Byte * b[3] < Byte * Byte
  BY <1>1, <1>3, <1>4
<1> DEFINE q2 == b[2] + Byte * b[3]
           q1 == b[1] + Byte * q2
<1> HIDE DEF q2
<1>7. q1 \in Nat /\ q1 < Byte * (Byte * Byte)
  BY <1>1, <1>4, <1>5, <1>6 DEF q2
<1> HIDE DEF q1
<1>8. b[0] + Byte * q1 \in Nat /\ b[0] + Byte * q1 < Byte * (Byte * (Byte * Byte))
  BY <1>1, <1>4, <1>5, <1>7
<1>9. Byte * (Byte * (Byte * Byte)) = Modulus
  BY <1>3 DEF Modulus
<1> QED
  BY <1>2, <1>8, <1>9 DEF q1, q2

(* Writes whose address and value are numbers; what saves write. *)
Writes == [at : Nat, value : Nat]

LEMMA ListIs ==
  ASSUME NEW X, NEW N \in Nat, NEW f \in [1 .. N -> X]
  PROVE  f \in Seq(X) /\ Len(f) = N /\ DOMAIN f = 1 .. N
OBVIOUS

LEMMA SaveIs ==
  ASSUME NEW a \in Nat, NEW v \in Nat
  PROVE  Save(a, v) \in Seq(Writes) /\ Range(Save(a, v)) = {[at |-> a, value |-> v]}
<1> DEFINE w == [at |-> a, value |-> v]
<1>1. w \in Writes
  BY DEF Writes
<1>2. Save(a, v) = <<w>>
  BY DEF Save
<1> HIDE DEF w
<1>3. <<w>> \in Seq(Writes) /\ DOMAIN <<w>> = {1} /\ <<w>>[1] = w
  BY <1>1
<1>4. Range(<<w>>) = {w}
  BY <1>3 DEF Range
<1> QED
  BY <1>2, <1>3, <1>4 DEF w

LEMMA SaveDwordIs ==
  ASSUME NEW a \in Nat, NEW v \in Nat
  PROVE  /\ SaveDword(a, v) \in Seq(Writes)
         /\ Range(SaveDword(a, v)) = {[at |-> a + k, value |-> ByteOf(v, k)] : k \in 0 .. 3}
<1> DEFINE w(k) == [at |-> a + k, value |-> ByteOf(v, k)]
           s == [k \in 1 .. 4 |-> [at |-> a + k - 1, value |-> ByteOf(v, k - 1)]]
<1>1. SaveDword(a, v) = s
  BY DEF SaveDword
<1>2. \A k \in 1 .. 4 : s[k] = w(k - 1) /\ k - 1 \in 0 .. 3
  OBVIOUS
<1>3. \A k \in 0 .. 3 : w(k) \in Writes
  <2>1. \A x \in 0 .. Byte - 1 : x \in Nat
    BY SettingsAssumption
  <2>2. \A k \in 0 .. 3 : ByteOf(v, k) \in Nat /\ a + k \in Nat
    BY <2>1, OneByte
  <2> QED
    BY <2>2 DEF Writes
<1>4. s \in Seq(Writes)
  <2>1. \A k \in 1 .. 4 : s[k] \in Writes
    BY <1>2, <1>3
  <2>2. s \in [1 .. 4 -> Writes]
    BY <2>1
  <2> QED
    BY <2>2
<1>5. \A k \in 0 .. 3 : k + 1 \in 1 .. 4 /\ s[k + 1] = w(k)
  OBVIOUS
<1>6. DOMAIN s = 1 .. 4
  OBVIOUS
<1> HIDE DEF s, w
<1>7. Range(s) = {w(k) : k \in 0 .. 3}
  BY <1>2, <1>5, <1>6 DEF Range
<1> QED
  BY <1>1, <1>4, <1>7 DEF w

(* What is written for all pins is what is written for each of them. *)
LEMMA PinsAre ==
  ASSUME NEW X, NEW s, s = [n \in Pin |-> s[n]], \A n \in Pin : s[n] \in Seq(X)
  PROVE  FlattenSeq(s) \in Seq(X) /\ Range(FlattenSeq(s)) = UNION {Range(s[n]) : n \in Pin}
<1>1. NumAnalog + NumDigital \in Nat
  BY SettingsAssumption
<1>2. s \in Seq(Seq(X)) /\ 1 .. Len(s) = Pin
  BY <1>1 DEF Pin
<1> QED
  BY <1>2, FlattenIs

(* The defaults: the types, the counts, *)
LEMMA TypeDefaults ==
  LET s == [n \in Pin |-> Save(TypeAt(n), IF Analog(n) THEN TYPE_ADC ELSE TYPE_DIGOUT)]
  IN  FlattenSeq(s) \in Seq(Writes) /\ \A w \in Range(FlattenSeq(s)) : w.at \in TypeCells
<1> DEFINE t(n) == IF Analog(n) THEN TYPE_ADC ELSE TYPE_DIGOUT
           s == [n \in Pin |-> Save(TypeAt(n), t(n))]
<1>1. ASSUME NEW n \in Pin
      PROVE  s[n] \in Seq(Writes) /\ Range(s[n]) = {[at |-> TypeAt(n), value |-> t(n)]}
  <2>1. TypeAt(n) \in Nat /\ t(n) \in Nat
    BY Places DEF TYPE_ADC, TYPE_DIGOUT
  <2> HIDE DEF t
  <2> QED
    BY <2>1, SaveIs
<1> HIDE DEF t
<1>2. s = [n \in Pin |-> s[n]]
  OBVIOUS
<1> HIDE DEF s
<1>3. FlattenSeq(s) \in Seq(Writes) /\ Range(FlattenSeq(s)) = UNION {Range(s[n]) : n \in Pin}
  BY <1>1, <1>2, PinsAre
<1>4. ASSUME NEW w \in Range(FlattenSeq(s)) PROVE w.at \in TypeCells
  <2>1. PICK n \in Pin : w \in Range(s[n])
    BY <1>3
  <2>2. w.at = TypeAt(n)
    BY <1>1, <2>1
  <2> QED
    BY <2>2 DEF TypeCells
<1> QED
  BY <1>3, <1>4 DEF s, t

LEMMA CountSaves ==
  ASSUME NEW v, \A n \in Pin : v[n] \in Nat
  PROVE  LET s == [n \in Pin |-> SaveDword(CountAt(n), v[n])] IN
         /\ FlattenSeq(s) \in Seq(Writes)
         /\ Range(FlattenSeq(s)) =
              {[at |-> CountAt(n) + k, value |-> ByteOf(v[n], k)] : n \in Pin, k \in 0 .. 3}
<1> DEFINE s == [n \in Pin |-> SaveDword(CountAt(n), v[n])]
           w(n, k) == [at |-> CountAt(n) + k, value |-> ByteOf(v[n], k)]
<1>1. ASSUME NEW n \in Pin
      PROVE  s[n] \in Seq(Writes) /\ Range(s[n]) = {w(n, k) : k \in 0 .. 3}
  <2>1. CountAt(n) \in Nat /\ v[n] \in Nat
    BY Places
  <2>2. s[n] = SaveDword(CountAt(n), v[n])
    OBVIOUS
  <2> HIDE DEF s
  <2> QED
    BY <2>1, <2>2, SaveDwordIs
<1>2. s = [n \in Pin |-> s[n]]
  OBVIOUS
<1> HIDE DEF s
<1>3. FlattenSeq(s) \in Seq(Writes) /\ Range(FlattenSeq(s)) = UNION {Range(s[n]) : n \in Pin}
  BY <1>1, <1>2, PinsAre
<1> HIDE DEF w
<1>4. UNION {Range(s[n]) : n \in Pin} = {w(n, k) : n \in Pin, k \in 0 .. 3}
  <2> DEFINE A == UNION {Range(s[n]) : n \in Pin}
             B == {w(n, k) : n \in Pin, k \in 0 .. 3}
  <2>1. ASSUME NEW n \in Pin, NEW x \in Range(s[n]) PROVE x \in B
    <3>1. PICK k \in 0 .. 3 : x = w(n, k)
      BY <1>1, <2>1
    <3> QED
      BY <3>1
  <2>2. ASSUME NEW n \in Pin, NEW k \in 0 .. 3 PROVE w(n, k) \in A
    <3>1. w(n, k) \in Range(s[n])
      BY <1>1
    <3> QED
      BY <3>1
  <2>3. \A x \in A : x \in B
    <3> SUFFICES ASSUME NEW x \in A PROVE x \in B
      OBVIOUS
    <3>1. PICK n \in Pin : x \in Range(s[n])
      OBVIOUS
    <3> QED
      BY <2>1, <3>1
  <2>4. \A x \in B : x \in A
    <3> SUFFICES ASSUME NEW x \in B PROVE x \in A
      OBVIOUS
    <3>1. PICK n \in Pin, k \in 0 .. 3 : x = w(n, k)
      OBVIOUS
    <3> HIDE DEF A
    <3> QED
      BY <2>2, <3>1
  <2> HIDE DEF A, B
  <2>5. A = B
    BY <2>3, <2>4
  <2> QED
    BY <2>5 DEF A, B
<1> QED
  BY <1>3, <1>4 DEF s, w

(* everything after the first four, none of which is among the bytes that   *)
(* say how far the start-up is,                                             *)
Plain(w) ==
  \/ w.at \in 200 .. 203 \/ w.at \in {1200, 1500} \/ w.at \in TypeCells
  \/ w.at \in CountCells /\ w.value = 0

LEMMA RestIs == Rest \in Seq(Writes) /\ \A w \in Range(Rest) : Plain(w)
<1> DEFINE types == ForPins(LAMBDA n : Save(TypeAt(n), IF Analog(n) THEN TYPE_ADC ELSE TYPE_DIGOUT))
           counts == ForPins(LAMBDA n : SaveDword(CountAt(n), 0))
           a == SaveStr(200, SBNG)
<1>1. a \in Seq(Writes) /\ \A w \in Range(a) : Plain(w)
  <2>1. DOMAIN SBNG = 1 .. 4 /\ \A k \in 1 .. 4 : SBNG[k] \in Nat
    BY DEF SBNG
  <2>2. a = [k \in 1 .. 4 |-> [at |-> 200 + k - 1, value |-> SBNG[k]]]
    BY <2>1 DEF SaveStr
  <2>3. a \in [1 .. 4 -> Writes]
    BY <2>1, <2>2 DEF Writes
  <2>4. \A k \in 1 .. 4 : a[k].at \in 200 .. 203
    BY <2>2
  <2>5. DOMAIN a = 1 .. 4
    BY <2>2
  <2> HIDE DEF a
  <2>6. a \in Seq(Writes)
    BY <2>3, ListIs
  <2> QED
    BY <2>4, <2>5, <2>6 DEF Plain, Range
<1>2. types \in Seq(Writes) /\ \A w \in Range(types) : Plain(w)
  BY TypeDefaults DEF ForPins, Plain
<1>3. counts \in Seq(Writes) /\ \A w \in Range(counts) : Plain(w)
  <2> DEFINE v == [n \in Pin |-> 0]
             s == [n \in Pin |-> SaveDword(CountAt(n), v[n])]
  <2>1. counts = FlattenSeq(s)
    BY DEF ForPins
  <2>2. \A n \in Pin : v[n] = 0 /\ v[n] \in Nat
    OBVIOUS
  <2>3. /\ FlattenSeq(s) \in Seq(Writes)
        /\ Range(FlattenSeq(s)) = {[at |-> CountAt(n) + k, value |-> ByteOf(v[n], k)] : n \in Pin, k \in 0 .. 3}
    BY <2>2, CountSaves
  <2>4. \A k \in 0 .. 3 : ByteOf(0, k) = 0
    <3>1. 0 \in 0 .. Byte - 1 /\ 0 + Byte * 0 = 0
      BY SettingsAssumption
    <3>2. ByteOf(0, 0) = 0 /\ ByteOf(0, 1) = 0 /\ ByteOf(0, 2) = 0 /\ ByteOf(0, 3) = 0
      BY <3>1, BytesAre
    <3>3. \A k \in 0 .. 3 : k = 0 \/ k = 1 \/ k = 2 \/ k = 3
      OBVIOUS
    <3> QED
      BY <3>2, <3>3
  <2> HIDE DEF counts, s
  <2>5. ASSUME NEW w \in Range(counts) PROVE Plain(w)
    <3>1. PICK n \in Pin, k \in 0 .. 3 : w = [at |-> CountAt(n) + k, value |-> ByteOf(v[n], k)]
      BY <2>1, <2>3
    <3>2. w.at = CountAt(n) + k /\ w.value = 0
      BY <2>2, <2>4, <3>1
    <3> QED
      BY <3>2, CellsApart DEF Plain
  <2> QED
    BY <2>1, <2>3, <2>5
<1>4. /\ Save(1200, 3) \in Seq(Writes) /\ \A w \in Range(Save(1200, 3)) : Plain(w)
      /\ Save(1500, 1) \in Seq(Writes) /\ \A w \in Range(Save(1500, 1)) : Plain(w)
  <2>1. /\ Save(1200, 3) \in Seq(Writes) /\ Range(Save(1200, 3)) = {[at |-> 1200, value |-> 3]}
        /\ Save(1500, 1) \in Seq(Writes) /\ Range(Save(1500, 1)) = {[at |-> 1500, value |-> 1]}
    <3>1. \A at, v \in Nat : Save(at, v) \in Seq(Writes) /\ Range(Save(at, v)) = {[at |-> at, value |-> v]}
      BY SaveIs
    <3>2. /\ Save(1200, 3) \in Seq(Writes) /\ Range(Save(1200, 3)) = {[at |-> 1200, value |-> 3]}
      BY <3>1
    <3>3. /\ Save(1500, 1) \in Seq(Writes) /\ Range(Save(1500, 1)) = {[at |-> 1500, value |-> 1]}
      BY <3>1
    <3> QED
      BY <3>2, <3>3
  <2>2. /\ \A w \in Range(Save(1200, 3)) : w.at = 1200
        /\ \A w \in Range(Save(1500, 1)) : w.at = 1500
    BY <2>1
  <2> QED
    BY <2>1, <2>2 DEF Plain
<1> DEFINE b == Save(1200, 3)
           c == Save(1500, 1)
<1>5. Rest = a \o types \o b \o counts \o c
  BY DEF Rest
<1>10. /\ b \in Seq(Writes) /\ \A w \in Range(b) : Plain(w)
       /\ c \in Seq(Writes) /\ \A w \in Range(c) : Plain(w)
  BY <1>4
<1> HIDE DEF a, b, c, types, counts
<1>6. ASSUME NEW s \in Seq(Writes), NEW t \in Seq(Writes),
             \A w \in Range(s) : Plain(w), \A w \in Range(t) : Plain(w)
      PROVE  s \o t \in Seq(Writes) /\ \A w \in Range(s \o t) : Plain(w)
  <2>1. s \o t \in Seq(Writes) /\ Range(s \o t) = Range(s) \cup Range(t)
    BY RangeOfTwo
  <2> QED
    BY <1>6, <2>1, Zenon
<1> DEFINE p1 == a \o types
           p2 == p1 \o b
           p3 == p2 \o counts
           p4 == p3 \o c
<1>7. p1 \in Seq(Writes) /\ \A w \in Range(p1) : Plain(w)
  BY <1>1, <1>2, <1>6, Zenon
<1> HIDE DEF p1
<1>8. p2 \in Seq(Writes) /\ \A w \in Range(p2) : Plain(w)
  BY <1>10, <1>7, <1>6, Zenon
<1> HIDE DEF p2
<1>9. p3 \in Seq(Writes) /\ \A w \in Range(p3) : Plain(w)
  BY <1>3, <1>8, <1>6, Zenon
<1> HIDE DEF p3
<1>11. p4 \in Seq(Writes) /\ \A w \in Range(p4) : Plain(w)
  BY <1>10, <1>9, <1>6, Zenon
<1> QED
  BY <1>5, <1>11, Zenon DEF p1, p2, p3

(* and the first four, the address last. *)
LEMMA DefaultsAre ==
  /\ Defaults \in Seq(Writes) /\ Len(Defaults) >= 4
  /\ Defaults[1] = [at |-> 0, value |-> 0] /\ Defaults[2] = [at |-> 23, value |-> 80]
  /\ Defaults[3] = [at |-> 10, value |-> 1] /\ Defaults[4] = [at |-> 11, value |-> 192]
  /\ \A i \in 1 .. Len(Defaults) : i > 4 => Plain(Defaults[i])
<1> DEFINE w1 == [at |-> 0, value |-> 0]
           w2 == [at |-> 23, value |-> 80]
           w3 == [at |-> 10, value |-> 1]
           w4 == [at |-> 11, value |-> 192]
<1>1. w1 \in Writes /\ w2 \in Writes /\ w3 \in Writes /\ w4 \in Writes
  BY DEF Writes
<1>2. Save(0, 0) = <<w1>> /\ Save(23, 80) = <<w2>> /\ Save(10, 1) = <<w3>> /\ Save(11, 192) = <<w4>>
  BY DEF Save
<1> HIDE DEF w1, w2, w3, w4
<1>3. ASSUME NEW s \in Seq(Writes), NEW w \in Writes
      PROVE  /\ s \o <<w>> \in Seq(Writes) /\ Len(s \o <<w>>) = Len(s) + 1
             /\ (s \o <<w>>)[Len(s) + 1] = w /\ \A i \in 1 .. Len(s) : (s \o <<w>>)[i] = s[i]
  OBVIOUS
<1> DEFINE p2 == <<w1>> \o <<w2>>
           p3 == p2 \o <<w3>>
           q == p3 \o <<w4>>
<1>4. Defaults = q \o Rest
  BY <1>2, Zenon DEF Defaults
<1>5. <<w1>> \in Seq(Writes) /\ Len(<<w1>>) = 1 /\ <<w1>>[1] = w1
  BY <1>1
<1>6. p2 \in Seq(Writes) /\ Len(p2) = 2 /\ p2[1] = w1 /\ p2[2] = w2
  <2>1. /\ p2 \in Seq(Writes) /\ Len(p2) = 1 + 1
        /\ p2[1 + 1] = w2 /\ \A i \in 1 .. 1 : p2[i] = <<w1>>[i]
    BY <1>1, <1>3, <1>5
  <2> HIDE DEF p2
  <2> QED
    BY <1>5, <2>1
<1> HIDE DEF p2
<1>7. p3 \in Seq(Writes) /\ Len(p3) = 3 /\ p3[1] = w1 /\ p3[2] = w2 /\ p3[3] = w3
  <2>1. /\ p3 \in Seq(Writes) /\ Len(p3) = 2 + 1
        /\ p3[2 + 1] = w3 /\ \A i \in 1 .. 2 : p3[i] = p2[i]
    <3>1. p2 \in Seq(Writes) /\ w3 \in Writes /\ Len(p2) = 2
      BY <1>1, <1>6
    <3>2. /\ p3 \in Seq(Writes) /\ Len(p3) = Len(p2) + 1
          /\ p3[Len(p2) + 1] = w3 /\ \A i \in 1 .. Len(p2) : p3[i] = p2[i]
      BY <1>3, <3>1, Zenon
    <3> HIDE DEF p3
    <3> QED
      BY <3>1, <3>2
  <2> HIDE DEF p3
  <2>2. p3[1] = p2[1] /\ p3[2] = p2[2]
    BY <2>1
  <2> QED
    BY <1>6, <2>1, <2>2
<1> HIDE DEF p3
<1>8. q \in Seq(Writes) /\ Len(q) = 4 /\ q[1] = w1 /\ q[2] = w2 /\ q[3] = w3 /\ q[4] = w4
  <2>1. /\ q \in Seq(Writes) /\ Len(q) = 3 + 1
        /\ q[3 + 1] = w4 /\ \A i \in 1 .. 3 : q[i] = p3[i]
    <3>1. p3 \in Seq(Writes) /\ w4 \in Writes /\ Len(p3) = 3
      BY <1>1, <1>7
    <3>2. /\ q \in Seq(Writes) /\ Len(q) = Len(p3) + 1
          /\ q[Len(p3) + 1] = w4 /\ \A i \in 1 .. Len(p3) : q[i] = p3[i]
      BY <1>3, <3>1, Zenon
    <3> HIDE DEF q
    <3> QED
      BY <3>1, <3>2
  <2> HIDE DEF q
  <2>2. q[1] = p3[1] /\ q[2] = p3[2] /\ q[3] = p3[3]
    BY <2>1
  <2> QED
    BY <1>7, <2>1, <2>2
<1>9. Rest \in Seq(Writes) /\ \A w \in Range(Rest) : Plain(w)
  BY RestIs
<1> HIDE DEF q, Plain
<1>10. /\ q \o Rest \in Seq(Writes) /\ Len(q \o Rest) = 4 + Len(Rest) /\ Len(Rest) \in Nat
       /\ \A i \in 1 .. 4 : (q \o Rest)[i] = q[i]
       /\ \A i \in 1 .. Len(Rest) : (q \o Rest)[4 + i] = Rest[i]
  <2>1. ASSUME NEW s \in Seq(Writes), NEW t \in Seq(Writes), Len(s) = 4
        PROVE  /\ s \o t \in Seq(Writes) /\ Len(s \o t) = 4 + Len(t) /\ Len(t) \in Nat
               /\ \A i \in 1 .. 4 : (s \o t)[i] = s[i]
               /\ \A i \in 1 .. Len(t) : (s \o t)[4 + i] = t[i]
    <3>1. /\ s \o t \in Seq(Writes) /\ Len(s \o t) = Len(s) + Len(t) /\ Len(t) \in Nat
          /\ \A i \in 1 .. Len(s) + Len(t) : (s \o t)[i] = IF i <= Len(s) THEN s[i] ELSE t[i - Len(s)]
      OBVIOUS
    <3> DEFINE b == Len(t)
    <3>2. /\ s \o t \in Seq(Writes) /\ Len(s \o t) = 4 + b /\ b \in Nat
          /\ \A i \in 1 .. 4 + b : (s \o t)[i] = IF i <= 4 THEN s[i] ELSE t[i - 4]
      BY <2>1, <3>1
    <3> HIDE DEF b
    <3>3. ASSUME NEW i \in 1 .. 4 PROVE (s \o t)[i] = s[i]
      BY <3>2
    <3>4. ASSUME NEW i \in 1 .. b PROVE (s \o t)[4 + i] = t[i]
      <4>1. 4 + i \in 1 .. 4 + b /\ ~(4 + i <= 4) /\ (4 + i) - 4 = i
        BY <3>2
      <4> QED
        BY <3>2, <4>1
    <3> QED
      BY <3>2, <3>3, <3>4 DEF b
  <2>2. q \in Seq(Writes) /\ Rest \in Seq(Writes) /\ Len(q) = 4
    BY <1>8, <1>9
  <2> QED
    BY <2>1, <2>2
<1>11. ASSUME NEW i \in 1 .. 4 + Len(Rest), i > 4 PROVE Plain((q \o Rest)[i])
  <2>1. i - 4 \in 1 .. Len(Rest) /\ 4 + (i - 4) = i
    BY <1>10, <1>11
  <2>2. (q \o Rest)[i] = Rest[i - 4]
    BY <1>10, <2>1
  <2>3. Rest[i - 4] \in Range(Rest)
    BY <1>9, <2>1 DEF Range
  <2> QED
    BY <1>9, <2>2, <2>3
<1>12. (q \o Rest)[1] = w1 /\ (q \o Rest)[2] = w2 /\ (q \o Rest)[3] = w3 /\ (q \o Rest)[4] = w4
  BY <1>8, <1>10
<1> QED
  BY <1>4, <1>10, <1>11, <1>12 DEF w1, w2, w3, w4

(* Addresses that belong to no pin. *)
LEMMA Elsewhere ==
  ASSUME NEW c \in Nat
  PROVE  /\ c < 100 \/ (c >= 168 /\ c < 2000) => c \notin TypeCells /\ c \notin WordCells /\ c \notin CountCells
         /\ c \in TypeCells => c >= 100 /\ c < 168 /\ c \notin WordCells /\ c \notin CountCells
         /\ c \in CountCells => c >= 2000 /\ c \notin WordCells /\ c \notin TypeCells
<1>1. c \in TypeCells => c \in 100 .. 113
  BY CellsApart
<1>2. c \in WordCells => c \in 140 .. 167
  BY CellsApart
<1>3. c \in CountCells => c \in 2000 .. 2515
  BY CellsApart
<1>4. c \in TypeCells => c >= 100 /\ c < 114
  BY <1>1
<1>5. c \in WordCells => c >= 140 /\ c < 168
  BY <1>2
<1>6. c \in CountCells => c >= 2000
  BY <1>3
<1> QED
  BY <1>4, <1>5, <1>6

-----------------------------------------------------------------------------
(* The inductive invariant. The EEPROM has what the layout has. *)
CellsHold ==
  /\ {0, 1, 10, 11, 23} \cup TypeCells \cup CountCells \cup WordCells \subseteq Followed
  /\ eeprom[1] \in Nat
  /\ \A c \in CountCells \cup WordCells : eeprom[c] \in 0 .. Byte - 1

(* What a write may be while part b of the start-up runs, or later, in a    *)
(* device that is to restart if d.                                          *)
Allowed(w, b, d) ==
  /\ w.at \notin WordCells
  /\ w.at = 1 => b = 5 /\ w.value = EEPROM_VERSION
  /\ w.at \in {0, 11, 23} => w.value # Erased
  /\ w.at = 10 => w.value \in {0, 1}
  /\ w.at \in CountCells => b \in {1, 3} /\ w.value \in 0 .. Byte - 1
  /\ w.at \in TypeCells => b = 1 \/ d

(* All bytes still to be written are allowed ones. *)
TodoInv ==
  /\ todo \in Seq(Range(todo))
  /\ \A w \in Range(todo) : w.at \in Followed /\ Allowed(w, block, dying)

(* The types in use are those of the EEPROM, unless a page has changed them *)
(* and the device is about to restart; counters are what was loaded and     *)
(* counted.                                                                 *)
PinsInv ==
  /\ block \in 1 .. Running /\ saving \in 0 .. NumAnalog + NumDigital /\ dying \in BOOLEAN
  /\ saving # 0 \/ dying => block = Running
  /\ \A n \in Pin :
       /\ block # Running => simpleSensorTypes[n] = 0
       /\ block = Running /\ ~dying => simpleSensorTypes[n] = eeprom[TypeAt(n)]
       /\ simpleSensorTypes[n] = TYPE_COUNTER =>
            /\ loaded[n] \in Nat /\ edges[n] \in Nat
            /\ simpleSensorValues[n] = (loaded[n] + edges[n]) % Modulus
            /\ simpleSensorDebounce[n] = IF seen[n] THEN 1 ELSE 0

(* As long as the address is missing it is still to be written, and         *)
(* whatever a device needs that is reached is written, or is to be written  *)
(* before it.                                                               *)
Ready(c) ==
  IF c = 10 THEN eeprom[10] \in {0, 1} ELSE eeprom[c] # Erased \/ (c = 23 /\ ~ported)

ReachInv ==
  /\ block # 1 => eeprom[11] # Erased
  /\ eeprom[11] # Erased => \A c \in {0, 10, 23} : Ready(c)
  /\ block = 1 /\ eeprom[11] = Erased => \E k \in 1 .. Len(todo) : todo[k].at = 11
  /\ \A k \in 1 .. Len(todo) :
       todo[k].at = 11 =>
         \A c \in {0, 10, 23} : Ready(c) \/ \E j \in 1 .. k - 1 : todo[j].at = c

(* An old count is either in its place, or the version still says that it   *)
(* is to be copied: no part writes to its place but the one that copies it. *)
MigrateInv ==
  \A n \in Pin :
    meant[n] # -1 =>
      /\ eeprom[0] # Erased /\ eeprom[11] # Erased
      /\ block = 1 => todo = << >>
      /\ eeprom[1] < 4 => ReadWord(eeprom, n) = meant[n]
      /\ eeprom[1] >= 4 \/ block > 3 => ReadCount(eeprom, n) = meant[n]
      /\ \A w \in Range(todo), k \in 0 .. 3 :
           w.at = CountAt(n) + k => block = 3 /\ eeprom[1] < 4 /\ w.value = ByteOf(meant[n], k)
      /\ block = 3 /\ eeprom[1] < 4 =>
           \A k \in 0 .. 3 : \/ eeprom[CountAt(n) + k] = ByteOf(meant[n], k)
                             \/ \E w \in Range(todo) : w.at = CountAt(n) + k

SettingsInv == CellsHold /\ TodoInv /\ PinsInv /\ ReachInv /\ MigrateInv

(* The writes that are followed, as a list. *)
LEMMA OfIs ==
  ASSUME NEW S, NEW q \in Seq(S)
  PROVE  /\ Of(q) \in Seq(Range(Of(q)))
         /\ Range(Of(q)) = {w \in Range(q) : w.at \in Followed}
<1>1. PICK place : Picks(Of(q), place, q, Len(q))
  BY OfPicks
<1> DEFINE r == Of(q)
<1>2. /\ r \in Seq(Range(q)) /\ Len(r) \in Nat /\ DOMAIN r = 1 .. Len(r)
      /\ DOMAIN q = 1 .. Len(q)
      /\ \A i \in 1 .. Len(r) : r[i] = q[place[i]] /\ r[i].at \in Followed /\ place[i] \in 1 .. Len(q)
      /\ \A k \in 1 .. Len(q) : q[k].at \in Followed => \E i \in 1 .. Len(r) : place[i] = k
  BY <1>1 DEF Picks
<1> HIDE DEF r
<1>3. r \in Seq(Range(r))
  <2>1. r \in [1 .. Len(r) -> Range(r)]
    <3>1. \A i \in 1 .. Len(r) : r[i] \in Range(r)
      BY <1>2 DEF Range
    <3>2. r = [i \in 1 .. Len(r) |-> r[i]]
      BY <1>2
    <3> QED
      BY <3>1, <3>2
  <2> QED
    BY <1>2, <2>1, ListIs
<1>4. ASSUME NEW w \in Range(r) PROVE w \in Range(q) /\ w.at \in Followed
  <2>1. PICK i \in 1 .. Len(r) : w = r[i]
    BY <1>2 DEF Range
  <2> QED
    BY <1>2, <2>1 DEF Range
<1>5. ASSUME NEW w \in Range(q), w.at \in Followed PROVE w \in Range(r)
  <2>1. PICK k \in 1 .. Len(q) : w = q[k]
    BY <1>2 DEF Range
  <2>2. PICK i \in 1 .. Len(r) : place[i] = k
    BY <1>2, <1>5, <2>1
  <2>3. r[i] = w
    BY <1>2, <2>1, <2>2
  <2> QED
    BY <1>2, <2>3 DEF Range
<1> QED
  BY <1>3, <1>4, <1>5 DEF r

LEMMA OfNone == Of(<< >>) = << >>
<1>1. << >> \in Seq({})
  OBVIOUS
<1>2. PICK place : Picks(Of(<< >>), place, << >>, Len(<< >>))
  BY <1>1, OfPicks
<1>3. Of(<< >>) \in Seq(Range(<< >>)) /\ Range(<< >>) = {}
  BY <1>2 DEF Picks, Range
<1> DEFINE r == Of(<< >>)
<1> HIDE DEF r
<1>4. r \in Seq({})
  BY <1>3 DEF r
<1>5. Len(r) = 0
  <2>1. Len(r) \in Nat /\ \A i \in 1 .. Len(r) : r[i] \in {}
    BY <1>4
  <2>2. Len(r) # 0 => 1 \in 1 .. Len(r)
    BY <2>1
  <2> QED
    BY <2>1, <2>2
<1> QED
  BY <1>4, <1>5, EmptySeq DEF r

(* The defaults are allowed in the first part of the start-up. *)
LEMMA PlainAllowed ==
  ASSUME NEW w \in Writes, Plain(w)
  PROVE  Allowed(w, 1, FALSE) /\ w.at \notin {0, 1, 10, 11, 23}
<1> DEFINE c == w.at
<1>1. c \in Nat /\ w.at = c
  BY DEF Writes
<1> HIDE DEF c
<1>2. CASE c \in 200 .. 203 \/ c \in {1200, 1500}
  <2>1. c >= 168 /\ c < 2000
    BY <1>2
  <2>2. c \notin {0, 1, 10, 11, 23} /\ c \notin TypeCells /\ c \notin WordCells /\ c \notin CountCells
    BY <1>1, <2>1, Elsewhere
  <2> QED
    BY <1>1, <2>2 DEF Allowed
<1>3. CASE c \in TypeCells
  <2>1. c >= 100 /\ c \notin WordCells /\ c \notin CountCells
    BY <1>1, <1>3, Elsewhere
  <2>2. c \notin {0, 1, 10, 11, 23}
    BY <2>1
  <2> QED
    BY <1>1, <1>3, <2>1, <2>2 DEF Allowed
<1>4. CASE c \in CountCells /\ w.value = 0
  <2>1. c >= 2000 /\ c \notin WordCells /\ c \notin TypeCells
    BY <1>1, <1>4, Elsewhere
  <2>2. c \notin {0, 1, 10, 11, 23}
    BY <2>1
  <2>3. 0 \in 0 .. Byte - 1
    BY SettingsAssumption
  <2> QED
    BY <1>1, <1>4, <2>1, <2>2, <2>3 DEF Allowed
<1>5. (c \in 200 .. 203 \/ c \in {1200, 1500}) \/ c \in TypeCells \/ (c \in CountCells /\ w.value = 0)
  <2>1. \/ c \in 200 .. 203 \/ c \in {1200, 1500} \/ c \in TypeCells
        \/ c \in CountCells /\ w.value = 0
    BY Zenon DEF Plain, c
  <2> QED
    BY <2>1
<1> DEFINE A == Allowed(w, 1, FALSE) /\ w.at \notin {0, 1, 10, 11, 23}
           P == c \in 200 .. 203 \/ c \in {1200, 1500}
<1>6. P => A
  BY <1>1, <1>2
<1>7. c \in TypeCells => A
  BY <1>3
<1>8. c \in CountCells /\ w.value = 0 => A
  BY <1>4
<1>9. P \/ c \in TypeCells \/ (c \in CountCells /\ w.value = 0)
  BY <1>5
<1> HIDE DEF A, P
<1>10. A
  BY <1>6, <1>7, <1>8, <1>9, Zenon
<1> QED
  BY <1>10 DEF A

LEMMA DefaultsAllowed ==
  ASSUME NEW w \in Range(Defaults)
  PROVE  Allowed(w, 1, FALSE)
<1>1. PICK i \in 1 .. Len(Defaults) : w = Defaults[i]
  BY DefaultsAre DEF Range
<1>2. w \in Writes
  BY <1>1, DefaultsAre
<1>3. CASE i > 4
  BY <1>1, <1>2, <1>3, DefaultsAre, PlainAllowed
<1>4. CASE i \in {1, 2, 3, 4}
  <2>1. \/ w = [at |-> 0, value |-> 0] \/ w = [at |-> 23, value |-> 80]
        \/ w = [at |-> 10, value |-> 1] \/ w = [at |-> 11, value |-> 192]
    <3>1. i = 1 \/ i = 2 \/ i = 3 \/ i = 4
      BY <1>4
    <3>2. /\ Defaults[1] = [at |-> 0, value |-> 0] /\ Defaults[2] = [at |-> 23, value |-> 80]
          /\ Defaults[3] = [at |-> 10, value |-> 1] /\ Defaults[4] = [at |-> 11, value |-> 192]
      BY DefaultsAre, Zenon
    <3>3. CASE i = 1
      BY <1>1, <3>2, <3>3
    <3>4. CASE i = 2
      BY <1>1, <3>2, <3>4
    <3>5. CASE i = 3
      BY <1>1, <3>2, <3>5
    <3>6. CASE i = 4
      BY <1>1, <3>2, <3>6
    <3> QED
      BY <3>1, <3>3, <3>4, <3>5, <3>6
  <2>2. \A c \in {0, 10, 11, 23} : c \notin WordCells /\ c \notin CountCells /\ c \notin TypeCells
    BY Elsewhere
  <2> QED
    BY <2>1, <2>2 DEF Allowed, Erased
<1>5. i > 4 \/ i \in {1, 2, 3, 4}
  OBVIOUS
<1> QED
  BY <1>3, <1>4, <1>5

(* An old count is the number of its two bytes. *)
LEMMA OldCount ==
  ASSUME CellsHold, NEW n \in Pin
  PROVE  /\ eeprom[WordAt(n)] \in 0 .. Byte - 1 /\ eeprom[WordAt(n) + 1] \in 0 .. Byte - 1
         /\ ReadWord(eeprom, n) = eeprom[WordAt(n)] + Byte * eeprom[WordAt(n) + 1]
         /\ ReadWord(eeprom, n) \in Nat
<1>1. WordAt(n) \in WordCells /\ WordAt(n) + 1 \in WordCells
  BY DEF WordCells
<1>2. eeprom[WordAt(n)] \in 0 .. Byte - 1 /\ eeprom[WordAt(n) + 1] \in 0 .. Byte - 1
  BY <1>1 DEF CellsHold
<1>3. ASSUME NEW a \in 0 .. Byte - 1, NEW b \in 0 .. Byte - 1 PROVE a + Byte * b \in Nat
  BY SettingsAssumption
<1> QED
  BY <1>2, <1>3 DEF ReadWord

(* The writes of the part that copies. *)
Copy == ForPins(LAMBDA n : SaveDword(CountAt(n), ReadWord(eeprom, n)))

CopyOf == {[at |-> CountAt(n) + k, value |-> ByteOf(ReadWord(eeprom, n), k)] : n \in Pin, k \in 0 .. 3}

LEMMA CopyIs ==
  ASSUME CellsHold
  PROVE  Copy \in Seq(Writes) /\ Range(Copy) = CopyOf
<1> DEFINE v == [n \in Pin |-> ReadWord(eeprom, n)]
           s == [n \in Pin |-> SaveDword(CountAt(n), v[n])]
           q == ForPins(LAMBDA n : SaveDword(CountAt(n), ReadWord(eeprom, n)))
           A == {[at |-> CountAt(n) + k, value |-> ByteOf(v[n], k)] : n \in Pin, k \in 0 .. 3}
           B == {[at |-> CountAt(n) + k, value |-> ByteOf(ReadWord(eeprom, n), k)] : n \in Pin, k \in 0 .. 3}
<1>1. q = FlattenSeq(s)
  BY DEF ForPins
<1>2. \A n \in Pin : v[n] = ReadWord(eeprom, n) /\ v[n] \in Nat
  BY OldCount
<1> HIDE DEF v
<1>3. FlattenSeq(s) \in Seq(Writes) /\ Range(FlattenSeq(s)) = A
  BY <1>2, CountSaves
<1>4. A = B
  <2>1. \A x \in A : x \in B
    <3> SUFFICES ASSUME NEW x \in A PROVE x \in B
      OBVIOUS
    <3>1. PICK n \in Pin, k \in 0 .. 3 : x = [at |-> CountAt(n) + k, value |-> ByteOf(v[n], k)]
      OBVIOUS
    <3>2. x = [at |-> CountAt(n) + k, value |-> ByteOf(ReadWord(eeprom, n), k)]
      BY <1>2, <3>1
    <3> QED
      BY <3>2
  <2>2. \A x \in B : x \in A
    <3> SUFFICES ASSUME NEW x \in B PROVE x \in A
      OBVIOUS
    <3>1. PICK n \in Pin, k \in 0 .. 3 : x = [at |-> CountAt(n) + k, value |-> ByteOf(ReadWord(eeprom, n), k)]
      OBVIOUS
    <3>2. x = [at |-> CountAt(n) + k, value |-> ByteOf(v[n], k)]
      BY <1>2, <3>1
    <3> QED
      BY <3>2
  <2> HIDE DEF A, B
  <2> QED
    BY <2>1, <2>2
<1> HIDE DEF s, q, A, B
<1>5. q \in Seq(Writes) /\ Range(q) = B
  BY <1>1, <1>3, <1>4
<1>6. Copy = q /\ CopyOf = B
  BY DEF Copy, CopyOf, q, B
<1> QED
  BY <1>5, <1>6

(* A save of one byte. *)
LEMMA OneWrite ==
  ASSUME NEW a \in Nat, NEW v \in Nat, NEW b, Allowed([at |-> a, value |-> v], b, FALSE)
  PROVE  Save(a, v) \in Seq(Writes) /\ \A w \in Range(Save(a, v)) : Allowed(w, b, FALSE)
<1>1. Save(a, v) \in Seq(Writes) /\ Range(Save(a, v)) = {[at |-> a, value |-> v]}
  BY SaveIs
<1>2. ASSUME NEW w \in Range(Save(a, v)) PROVE w = [at |-> a, value |-> v]
  BY <1>1
<1> QED
  BY <1>1, <1>2

(* Every part of the start-up writes what is allowed in it. *)
LEMMA BlockIs ==
  ASSUME CellsHold, NEW b \in 1 .. 6
  PROVE  Block(b) \in Seq(Writes) /\ \A w \in Range(Block(b)) : Allowed(w, b, FALSE)
<1>1. << >> \in Seq(Writes) /\ \A w \in Range(<< >>) : Allowed(w, b, FALSE)
  BY DEF Range
<1>2. CASE b = 1
  <2>1. Block(b) = Defaults \/ Block(b) = << >>
    BY <1>2 DEF Block
  <2>2. Defaults \in Seq(Writes) /\ \A w \in Range(Defaults) : Allowed(w, b, FALSE)
    BY <1>2, DefaultsAre, DefaultsAllowed
  <2> QED
    BY <1>1, <2>1, <2>2, Zenon
<1>4. CASE b = 2
  <2> DEFINE s == Save(29, 80)
             t == Save(1200, 3)
  <2>1. s \in Seq(Writes) /\ \A w \in Range(s) : Allowed(w, b, FALSE)
    <3>1. 29 \notin WordCells /\ 29 \notin CountCells /\ 29 \notin TypeCells
      BY Elsewhere
    <3>2. Allowed([at |-> 29, value |-> 80], b, FALSE)
      BY <3>1 DEF Allowed
    <3> QED
      BY <3>2, OneWrite
  <2>2. t \in Seq(Writes) /\ \A w \in Range(t) : Allowed(w, b, FALSE)
    <3> DEFINE a == 1200
    <3>1. a \notin WordCells /\ a \notin CountCells /\ a \notin TypeCells
      BY Elsewhere
    <3>2. Allowed([at |-> a, value |-> 3], b, FALSE) /\ a \in Nat /\ 3 \in Nat
      BY <3>1 DEF Allowed
    <3> HIDE DEF a
    <3>3. Save(a, 3) \in Seq(Writes) /\ \A w \in Range(Save(a, 3)) : Allowed(w, b, FALSE)
      BY <3>2, OneWrite, Zenon
    <3> QED
      BY <3>3 DEF a
  <2>3. Block(b) = s \o t \/ Block(b) = << >>
    BY <1>4 DEF Block
  <2> HIDE DEF s, t
  <2>4. s \o t \in Seq(Writes) /\ Range(s \o t) = Range(s) \cup Range(t)
    BY <2>1, <2>2, RangeOfTwo
  <2> QED
    BY <1>1, <2>1, <2>2, <2>3, <2>4, Zenon
<1>5. CASE b = 3
  <2> DEFINE C == CopyOf
  <2>1. Copy \in Seq(Writes) /\ Range(Copy) = C
    BY CopyIs, Zenon
  <2>2. Block(b) = Copy \/ Block(b) = << >>
    BY <1>5 DEF Block, Copy
  <2>3. ASSUME NEW w \in C PROVE Allowed(w, b, FALSE)
    <3>1. PICK n \in Pin, k \in 0 .. 3 : w = [at |-> CountAt(n) + k, value |-> ByteOf(ReadWord(eeprom, n), k)]
      BY DEF CopyOf
    <3> DEFINE c == CountAt(n) + k
    <3>2. w.at = c /\ w.value \in 0 .. Byte - 1
      BY <3>1, OldCount, OneByte
    <3>3. c \in CountCells /\ c \in Nat
      BY CellsApart, Places
    <3> HIDE DEF c, C
    <3>4. c >= 2000 /\ c \notin WordCells /\ c \notin TypeCells
      BY <3>3, Elsewhere
    <3>5. c \notin {0, 1, 10, 11, 23}
      BY <3>4
    <3> QED
      BY <1>5, <3>2, <3>3, <3>4, <3>5 DEF Allowed
  <2> HIDE DEF C
  <2> QED
    BY <1>1, <2>1, <2>2, <2>3, Zenon
<1>6. CASE b = 4
  <2>1. Block(b) = Save(1500, 1) \/ Block(b) = << >>
    BY <1>6 DEF Block
  <2>2. Save(1500, 1) \in Seq(Writes) /\ \A w \in Range(Save(1500, 1)) : Allowed(w, b, FALSE)
    <3> DEFINE a == 1500
    <3>1. a \notin WordCells /\ a \notin CountCells /\ a \notin TypeCells
      BY Elsewhere
    <3>2. Allowed([at |-> a, value |-> 1], b, FALSE) /\ a \in Nat /\ 1 \in Nat
      BY <3>1 DEF Allowed
    <3> HIDE DEF a
    <3>3. Save(a, 1) \in Seq(Writes) /\ \A w \in Range(Save(a, 1)) : Allowed(w, b, FALSE)
      BY <3>2, OneWrite, Zenon
    <3> QED
      BY <3>3 DEF a
  <2> DEFINE s == Save(1500, 1)
  <2> HIDE DEF s
  <2>3. s \in Seq(Writes) /\ \A w \in Range(s) : Allowed(w, b, FALSE)
    BY <2>2 DEF s
  <2>4. Block(b) = s \/ Block(b) = << >>
    BY <2>1 DEF s
  <2> QED
    BY <1>1, <2>3, <2>4, Zenon
<1>7. CASE b = 5
  <2>1. Block(b) = Save(1, 5)
    BY <1>7 DEF Block, EEPROM_VERSION
  <2>2. 1 \notin WordCells /\ 1 \notin CountCells /\ 1 \notin TypeCells
    BY Elsewhere
  <2>3. Allowed([at |-> 1, value |-> 5], b, FALSE)
    BY <1>7, <2>2 DEF Allowed, EEPROM_VERSION
  <2> QED
    BY <2>1, <2>3, OneWrite
<1>8. CASE b = 6
  <2>1. Block(b) = Save(11, 10) \/ Block(b) = << >>
    BY <1>8 DEF Block, save_ip_addresses
  <2>2. 11 \notin WordCells /\ 11 \notin CountCells /\ 11 \notin TypeCells
    BY Elsewhere
  <2>3. Allowed([at |-> 11, value |-> 10], b, FALSE)
    BY <2>2 DEF Allowed, Erased
  <2>4. Save(11, 10) \in Seq(Writes) /\ \A w \in Range(Save(11, 10)) : Allowed(w, b, FALSE)
    BY <2>3, OneWrite
  <2> QED
    BY <1>1, <2>1, <2>4, Zenon
<1>9. b = 1 \/ b = 2 \/ b = 3 \/ b = 4 \/ b = 5 \/ b = 6
  OBVIOUS
<1> QED
  BY <1>2, <1>4, <1>5, <1>6, <1>7, <1>8, <1>9

-----------------------------------------------------------------------------
(* A step of WriteByte, which writes w. *)
Wrote(w) ==
  /\ w = todo[1] /\ w \in Range(todo) /\ w.at \in Followed /\ Allowed(w, block, dying)
  /\ Len(todo) \in Nat /\ Len(todo) >= 1
  /\ Followed' = Followed
  /\ \A c \in Followed : eeprom'[c] = IF c = w.at THEN w.value ELSE eeprom[c]
  /\ todo' \in Seq(Range(todo')) /\ Len(todo') = Len(todo) - 1
  /\ \A k \in 1 .. Len(todo') : todo'[k] = todo[k + 1]
  /\ Range(todo') \subseteq Range(todo)
  /\ \A x \in Range(todo) : x = w \/ x \in Range(todo')
  /\ block' = block /\ saving' = saving /\ dying' = dying /\ ram' = ram
  /\ meant' = meant /\ ported' = ported /\ loaded' = loaded /\ seen' = seen /\ edges' = edges

(* A list and what is in it. *)
LEMMA RangeIs ==
  ASSUME NEW S, NEW q \in Seq(S)
  PROVE  /\ q \in Seq(Range(q)) /\ Len(q) \in Nat
         /\ \A x \in Range(q) : \E k \in 1 .. Len(q) : x = q[k]
         /\ \A k \in 1 .. Len(q) : q[k] \in Range(q)
<1>1. DOMAIN q = 1 .. Len(q) /\ Len(q) \in Nat /\ q = [k \in 1 .. Len(q) |-> q[k]]
  OBVIOUS
<1>2. /\ \A x \in Range(q) : \E k \in 1 .. Len(q) : x = q[k]
      /\ \A k \in 1 .. Len(q) : q[k] \in Range(q)
  BY <1>1 DEF Range
<1>3. q \in [1 .. Len(q) -> Range(q)]
  BY <1>1, <1>2
<1>4. q \in Seq(Range(q))
  BY <1>1, <1>3, ListIs
<1> QED
  BY <1>1, <1>2, <1>4

LEMMA WriteIs ==
  ASSUME TodoInv, WriteByte
  PROVE  Wrote(todo[1])
<1> DEFINE S == Range(todo)
           w == todo[1]
           t == Tail(todo)
<1>1. todo \in Seq(S) /\ todo # << >>
  BY DEF TodoInv, WriteByte
<1>2. todo' = t /\ w = Head(todo)
  BY <1>1 DEF WriteByte
<1>3. Len(todo) \in Nat /\ Len(todo) >= 1
  <2>1. Len(todo) \in Nat
    BY <1>1
  <2>2. Len(todo) # 0
    BY <1>1, EmptySeq
  <2> QED
    BY <2>1, <2>2
<1>4. w \in S
  BY <1>1, <1>3, RangeIs
<1>5. w.at \in Followed /\ Allowed(w, block, dying)
  BY <1>4 DEF TodoInv
<1>6. eeprom' = [eeprom EXCEPT ![w.at] = w.value]
  BY <1>2 DEF WriteByte
<1>7. Followed' = Followed /\ \A c \in Followed : eeprom'[c] = IF c = w.at THEN w.value ELSE eeprom[c]
  <2> DEFINE a == w.at
             v == w.value
  <2>1. eeprom' = [eeprom EXCEPT ![a] = v] /\ a \in DOMAIN eeprom
    BY <1>5, <1>6 DEF Followed
  <2> HIDE DEF a, v
  <2>2. DOMAIN eeprom' = DOMAIN eeprom /\ \A c \in DOMAIN eeprom : eeprom'[c] = IF c = a THEN v ELSE eeprom[c]
    BY <2>1
  <2> QED
    BY <2>2 DEF Followed, a, v
<1> HIDE DEF S
<1>8. t \in Seq(S) /\ Len(t) = Len(todo) - 1 /\ \A k \in 1 .. Len(t) : t[k] = todo[k + 1]
  BY <1>1, <1>3
<1> HIDE DEF t, w
<1>9. /\ t \in Seq(Range(t)) /\ Len(t) \in Nat
      /\ \A x \in Range(t) : \E k \in 1 .. Len(t) : x = t[k]
      /\ \A k \in 1 .. Len(t) : t[k] \in Range(t)
  BY <1>8, RangeIs
<1>10. /\ \A x \in Range(todo) : \E k \in 1 .. Len(todo) : x = todo[k]
       /\ \A k \in 1 .. Len(todo) : todo[k] \in Range(todo)
  BY <1>1, RangeIs
<1>11. ASSUME NEW x \in Range(t) PROVE x \in Range(todo)
  <2>1. PICK k \in 1 .. Len(t) : x = t[k]
    BY <1>9
  <2>2. x = todo[k + 1] /\ k + 1 \in 1 .. Len(todo)
    BY <1>3, <1>8, <2>1
  <2> QED
    BY <1>10, <2>2
<1>12. ASSUME NEW x \in Range(todo) PROVE x = w \/ x \in Range(t)
  <2>1. PICK k \in 1 .. Len(todo) : x = todo[k]
    BY <1>10
  <2>2. CASE k = 1
    BY <2>1, <2>2 DEF w
  <2>3. CASE k # 1
    <3>1. k - 1 \in 1 .. Len(t) /\ (k - 1) + 1 = k
      BY <1>3, <1>8, <2>3
    <3>2. t[k - 1] = x
      BY <1>8, <2>1, <3>1
    <3> QED
      BY <1>9, <3>1, <3>2
  <2> QED
    BY <2>2, <2>3
<1>13. /\ block' = block /\ saving' = saving /\ dying' = dying /\ ram' = ram
       /\ meant' = meant /\ ported' = ported /\ loaded' = loaded /\ seen' = seen /\ edges' = edges
  BY DEF WriteByte, ram
<1>14. Wrote(w)
  BY <1>2, <1>3, <1>4, <1>5, <1>7, <1>8, <1>9, <1>11, <1>12, <1>13 DEF Wrote, S, w
<1> QED
  BY <1>14 DEF w

(* The invariant, part by part, after a byte was written. *)
LEMMA WriteKeepsCells ==
  ASSUME SettingsInv, NEW w, Wrote(w)
  PROVE  CellsHold'
<1>1. CellsHold /\ w.at \in Followed /\ Allowed(w, block, dying)
  BY DEF SettingsInv, Wrote
<1>2. /\ Followed' = Followed
      /\ \A c \in Followed : eeprom'[c] = IF c = w.at THEN w.value ELSE eeprom[c]
  BY DEF Wrote
<1>3. {0, 1, 10, 11, 23} \cup TypeCells \cup CountCells \cup WordCells \subseteq Followed
  BY <1>1 DEF CellsHold
<1>4. eeprom'[1] \in Nat
  <2>1. 1 \in Followed /\ eeprom[1] \in Nat
    BY <1>1, <1>3 DEF CellsHold
  <2>2. w.at = 1 => w.value = 5
    BY <1>1 DEF Allowed, EEPROM_VERSION
  <2> QED
    BY <1>2, <2>1, <2>2
<1>5. ASSUME NEW c \in CountCells \cup WordCells PROVE eeprom'[c] \in 0 .. Byte - 1
  <2>1. c \in Followed /\ eeprom[c] \in 0 .. Byte - 1
    BY <1>1, <1>3 DEF CellsHold
  <2>2. w.at = c => w.value \in 0 .. Byte - 1
    BY <1>1 DEF Allowed
  <2> QED
    BY <1>2, <2>1, <2>2
<1> QED
  BY <1>2, <1>3, <1>4, <1>5 DEF CellsHold

LEMMA WriteKeepsTodo ==
  ASSUME SettingsInv, NEW w, Wrote(w)
  PROVE  TodoInv'
<1>1. /\ Followed' = Followed /\ block' = block /\ dying' = dying
      /\ todo' \in Seq(Range(todo')) /\ Range(todo') \subseteq Range(todo)
  BY DEF Wrote
<1>2. \A x \in Range(todo) : x.at \in Followed /\ Allowed(x, block, dying)
  BY DEF SettingsInv, TodoInv
<1> QED
  BY <1>1, <1>2 DEF TodoInv

LEMMA WriteKeepsPins ==
  ASSUME SettingsInv, NEW w, Wrote(w)
  PROVE  PinsInv'
<1>1. /\ block' = block /\ saving' = saving /\ dying' = dying
      /\ simpleSensorTypes' = simpleSensorTypes /\ simpleSensorValues' = simpleSensorValues
      /\ simpleSensorDebounce' = simpleSensorDebounce
      /\ loaded' = loaded /\ seen' = seen /\ edges' = edges
  BY DEF Wrote, ram
<1>2. PinsInv
  BY DEF SettingsInv
<1>3. ASSUME NEW n \in Pin, block = Running, ~dying
      PROVE  simpleSensorTypes[n] = eeprom'[TypeAt(n)]
  <2>1. TypeAt(n) \in TypeCells /\ TypeAt(n) \in Followed
    BY DEF SettingsInv, CellsHold, TypeCells
  <2>2. Allowed(w, block, dying) /\ (w.at \in TypeCells => block = 1 \/ dying)
    BY DEF Wrote, Allowed
  <2>3. w.at # TypeAt(n)
    BY <1>3, <2>1, <2>2 DEF Running
  <2>4. eeprom'[TypeAt(n)] = eeprom[TypeAt(n)]
    BY <2>1, <2>3 DEF Wrote
  <2> QED
    BY <1>2, <1>3, <2>4 DEF PinsInv
<1>4. block' \in 1 .. Running /\ saving' \in 0 .. NumAnalog + NumDigital /\ dying' \in BOOLEAN
      /\ (saving' # 0 \/ dying' => block' = Running)
  BY <1>1, <1>2 DEF PinsInv
<1>5. ASSUME NEW n \in Pin
      PROVE  /\ block' # Running => simpleSensorTypes'[n] = 0
             /\ simpleSensorTypes'[n] = TYPE_COUNTER =>
                  /\ loaded'[n] \in Nat /\ edges'[n] \in Nat
                  /\ simpleSensorValues'[n] = (loaded'[n] + edges'[n]) % Modulus
                  /\ simpleSensorDebounce'[n] = IF seen'[n] THEN 1 ELSE 0
  BY <1>1, <1>2 DEF PinsInv
<1> QED
  BY <1>1, <1>3, <1>4, <1>5 DEF PinsInv

LEMMA WriteKeepsReach ==
  ASSUME SettingsInv, NEW w, Wrote(w)
  PROVE  ReachInv'
<1>1. /\ w = todo[1] /\ Allowed(w, block, dying) /\ Len(todo) \in Nat /\ Len(todo) >= 1
      /\ Len(todo') = Len(todo) - 1 /\ \A k \in 1 .. Len(todo') : todo'[k] = todo[k + 1]
      /\ block' = block /\ ported' = ported
  BY DEF Wrote
<1>2. {0, 10, 11, 23} \subseteq Followed
  BY DEF SettingsInv, CellsHold
<1>3. \A c \in {0, 10, 11, 23} : eeprom'[c] = IF c = w.at THEN w.value ELSE eeprom[c]
  BY <1>2 DEF Wrote
<1>4. /\ w.at \in {0, 11, 23} => w.value # Erased
      /\ w.at = 10 => w.value \in {0, 1}
  BY <1>1 DEF Allowed
<1>5. /\ block # 1 => eeprom[11] # Erased
      /\ eeprom[11] # Erased => \A c \in {0, 10, 23} : Ready(c)
      /\ block = 1 /\ eeprom[11] = Erased => \E k \in 1 .. Len(todo) : todo[k].at = 11
      /\ \A k \in 1 .. Len(todo) :
           todo[k].at = 11 =>
             \A c \in {0, 10, 23} : Ready(c) \/ \E j \in 1 .. k - 1 : todo[j].at = c
  BY DEF SettingsInv, ReachInv
<1>6. ASSUME NEW c \in {0, 10, 23}, Ready(c) \/ w.at = c PROVE Ready(c)'
  BY <1>1, <1>3, <1>4, <1>6 DEF Ready
<1>7. eeprom[11] # Erased => eeprom'[11] # Erased
  BY <1>3, <1>4
<1>8. ASSUME eeprom'[11] # Erased, NEW c \in {0, 10, 23} PROVE Ready(c)'
  <2>1. CASE eeprom[11] # Erased
    BY <1>5, <1>6, <2>1
  <2>2. CASE eeprom[11] = Erased
    <3>1. w.at = 11
      BY <1>3, <1>8, <2>2
    <3>2. 1 \in 1 .. Len(todo) /\ todo[1].at = 11
      BY <1>1, <3>1
    <3>3. Ready(c) \/ \E j \in 1 .. 1 - 1 : todo[j].at = c
      BY <1>5, <3>2
    <3>4. Ready(c)
      BY <3>3
    <3> QED
      BY <1>6, <3>4
  <2> QED
    BY <2>1, <2>2
<1>9. ASSUME block' = 1, eeprom'[11] = Erased
      PROVE  \E k \in 1 .. Len(todo') : todo'[k].at = 11
  <2>1. eeprom[11] = Erased /\ block = 1
    BY <1>1, <1>7, <1>9
  <2>2. PICK k \in 1 .. Len(todo) : todo[k].at = 11
    BY <1>5, <2>1
  <2>3. k # 1
    <3>1. w.at # 11
      BY <1>3, <1>4, <1>9
    <3> QED
      BY <1>1, <2>2, <3>1
  <2>4. k - 1 \in 1 .. Len(todo') /\ (k - 1) + 1 = k
    BY <1>1, <2>3
  <2>5. todo'[k - 1] = todo[k]
    BY <1>1, <2>4
  <2> QED
    BY <2>2, <2>4, <2>5
<1>10. ASSUME NEW k \in 1 .. Len(todo'), todo'[k].at = 11, NEW c \in {0, 10, 23}
       PROVE  Ready(c)' \/ \E j \in 1 .. k - 1 : todo'[j].at = c
  <2>1. k + 1 \in 1 .. Len(todo) /\ todo[k + 1].at = 11 /\ (k + 1) - 1 = k
    BY <1>1, <1>10
  <2>2. Ready(c) \/ \E j \in 1 .. (k + 1) - 1 : todo[j].at = c
    BY <1>5, <2>1
  <2>3. CASE Ready(c)
    BY <1>6, <2>3
  <2>4. CASE \E j \in 1 .. (k + 1) - 1 : todo[j].at = c
    <3>1. PICK j \in 1 .. (k + 1) - 1 : todo[j].at = c
      BY <2>4
    <3>2. CASE j = 1
      BY <1>1, <1>6, <3>1, <3>2
    <3>3. CASE j # 1
      <4>1. j - 1 \in 1 .. k - 1 /\ j - 1 \in 1 .. Len(todo') /\ (j - 1) + 1 = j
        BY <1>1, <3>3
      <4>2. todo'[j - 1] = todo[j]
        BY <1>1, <4>1
      <4> QED
        BY <3>1, <4>1, <4>2
    <3> QED
      BY <3>2, <3>3
  <2> QED
    BY <2>2, <2>3, <2>4
<1>11. block' # 1 => eeprom'[11] # Erased
  BY <1>1, <1>5, <1>7
<1> QED
  BY <1>8, <1>9, <1>10, <1>11 DEF ReachInv

(* The bytes of a count, all in the same state. *)
LEMMA SameCount ==
  ASSUME NEW n, NEW e, NEW f, \A k \in 0 .. 3 : e[CountAt(n) + k] = f[CountAt(n) + k]
  PROVE  ReadCount(e, n) = ReadCount(f, n)
<1>1. [k \in 0 .. 3 |-> e[CountAt(n) + k]] = [k \in 0 .. 3 |-> f[CountAt(n) + k]]
  OBVIOUS
<1> QED
  BY <1>1 DEF ReadCount

LEMMA PinCells ==
  ASSUME CellsHold, NEW n \in Pin
  PROVE  /\ \A k \in 0 .. 3 : CountAt(n) + k \in CountCells /\ CountAt(n) + k \in Followed
         /\ {WordAt(n), WordAt(n) + 1} \subseteq WordCells
         /\ {WordAt(n), WordAt(n) + 1} \subseteq Followed
         /\ TypeAt(n) \in TypeCells /\ TypeAt(n) \in Followed
<1>1. TypeAt(n) \in TypeCells /\ {WordAt(n), WordAt(n) + 1} \subseteq WordCells
  BY DEF TypeCells, WordCells
<1>2. \A k \in 0 .. 3 : CountAt(n) + k \in CountCells
  BY CellsApart
<1>3. TypeCells \subseteq Followed /\ CountCells \subseteq Followed /\ WordCells \subseteq Followed
  BY DEF CellsHold
<1> QED
  BY <1>1, <1>2, <1>3

LEMMA WriteKeepsMigrate ==
  ASSUME SettingsInv, NEW w, Wrote(w)
  PROVE  MigrateInv'
<1>1. /\ w = todo[1] /\ w \in Range(todo) /\ Allowed(w, block, dying) /\ Len(todo) >= 1
      /\ Range(todo') \subseteq Range(todo)
      /\ \A x \in Range(todo) : x = w \/ x \in Range(todo')
      /\ block' = block /\ meant' = meant /\ ported' = ported
  BY DEF Wrote
<1>2. {0, 1, 11} \subseteq Followed /\ eeprom[1] \in Nat /\ CellsHold
  BY DEF SettingsInv, CellsHold
<1>3. \A c \in Followed : eeprom'[c] = IF c = w.at THEN w.value ELSE eeprom[c]
  BY DEF Wrote
<1>4. /\ w.at \notin WordCells
      /\ w.at = 1 => block = 5 /\ w.value = 5
      /\ w.at \in {0, 11} => w.value # Erased
  BY <1>1 DEF Allowed, EEPROM_VERSION
<1>5. \/ eeprom'[1] = eeprom[1]
      \/ w.at = 1 /\ block = 5 /\ eeprom'[1] = 5
  BY <1>2, <1>3, <1>4
<1> SUFFICES ASSUME NEW n \in Pin, meant[n] # -1
    PROVE  /\ eeprom'[0] # Erased /\ eeprom'[11] # Erased
           /\ block = 1 => todo' = << >>
           /\ eeprom'[1] < 4 => ReadWord(eeprom', n) = meant[n]
           /\ eeprom'[1] >= 4 \/ block > 3 => ReadCount(eeprom', n) = meant[n]
           /\ \A x \in Range(todo'), k \in 0 .. 3 :
                x.at = CountAt(n) + k => block = 3 /\ eeprom'[1] < 4 /\ x.value = ByteOf(meant[n], k)
           /\ block = 3 /\ eeprom'[1] < 4 =>
                \A k \in 0 .. 3 : \/ eeprom'[CountAt(n) + k] = ByteOf(meant[n], k)
                                  \/ \E x \in Range(todo') : x.at = CountAt(n) + k
  BY <1>1 DEF MigrateInv
<1>6. /\ eeprom[0] # Erased /\ eeprom[11] # Erased
      /\ block = 1 => todo = << >>
      /\ eeprom[1] < 4 => ReadWord(eeprom, n) = meant[n]
      /\ eeprom[1] >= 4 \/ block > 3 => ReadCount(eeprom, n) = meant[n]
      /\ \A x \in Range(todo), k \in 0 .. 3 :
           x.at = CountAt(n) + k => block = 3 /\ eeprom[1] < 4 /\ x.value = ByteOf(meant[n], k)
      /\ block = 3 /\ eeprom[1] < 4 =>
           \A k \in 0 .. 3 : \/ eeprom[CountAt(n) + k] = ByteOf(meant[n], k)
                             \/ \E x \in Range(todo) : x.at = CountAt(n) + k
  BY DEF SettingsInv, MigrateInv
<1>7. eeprom'[0] # Erased /\ eeprom'[11] # Erased
  BY <1>2, <1>3, <1>4, <1>6
<1>8. block # 1
  <2>1. Len(<< >>) = 0
    OBVIOUS
  <2> QED
    BY <1>1, <1>6, <2>1
<1>9. /\ \A k \in 0 .. 3 : CountAt(n) + k \in CountCells /\ CountAt(n) + k \in Followed
      /\ {WordAt(n), WordAt(n) + 1} \subseteq WordCells
      /\ {WordAt(n), WordAt(n) + 1} \subseteq Followed
  BY <1>2, PinCells
<1>10. ReadWord(eeprom', n) = ReadWord(eeprom, n)
  <2>1. eeprom'[WordAt(n)] = eeprom[WordAt(n)] /\ eeprom'[WordAt(n) + 1] = eeprom[WordAt(n) + 1]
    BY <1>3, <1>4, <1>9
  <2> QED
    BY <2>1 DEF ReadWord
<1>11. eeprom'[1] < 4 => ReadWord(eeprom', n) = meant[n]
  BY <1>5, <1>6, <1>10
<1>12. ASSUME eeprom'[1] >= 4 \/ block > 3 PROVE ReadCount(eeprom', n) = meant[n]
  <2>1. eeprom[1] >= 4 \/ block > 3
    BY <1>5, <1>12
  <2>2. ~(block = 3 /\ eeprom[1] < 4)
    BY <1>2, <2>1
  <2>3. \A k \in 0 .. 3 : w.at # CountAt(n) + k
    BY <1>1, <1>6, <2>2
  <2>4. \A k \in 0 .. 3 : eeprom'[CountAt(n) + k] = eeprom[CountAt(n) + k]
    BY <1>3, <1>9, <2>3
  <2> QED
    BY <1>6, <2>1, <2>4, SameCount
<1>13. block = 3 => eeprom'[1] = eeprom[1]
  BY <1>5
<1>14. ASSUME NEW x \in Range(todo'), NEW k \in 0 .. 3, x.at = CountAt(n) + k
       PROVE  block = 3 /\ eeprom'[1] < 4 /\ x.value = ByteOf(meant[n], k)
  BY <1>1, <1>6, <1>13, <1>14
<1>15. ASSUME block = 3, eeprom'[1] < 4, NEW k \in 0 .. 3
       PROVE  \/ eeprom'[CountAt(n) + k] = ByteOf(meant[n], k)
              \/ \E x \in Range(todo') : x.at = CountAt(n) + k
  <2> DEFINE c == CountAt(n) + k
             v == ByteOf(meant[n], k)
  <2>1. eeprom'[c] = (IF c = w.at THEN w.value ELSE eeprom[c])
    BY <1>3, <1>9
  <2>2. w.at = c => w.value = v
    BY <1>1, <1>6
  <2>3. eeprom[c] = v \/ \E x \in Range(todo) : x.at = c
    BY <1>6, <1>13, <1>15
  <2> HIDE DEF c, v
  <2>4. eeprom'[c] = v \/ \E x \in Range(todo') : x.at = c
    BY <1>1, <2>1, <2>2, <2>3
  <2> QED
    BY <2>4 DEF c, v
<1> QED
  BY <1>7, <1>8, <1>11, <1>12, <1>14, <1>15

(* New writes, if they are allowed ones. *)
LEMMA NewTodo ==
  ASSUME NEW S, NEW q \in Seq(S), NEW b, NEW d, \A w \in Range(q) : Allowed(w, b, d)
  PROVE  /\ Of(q) \in Seq(Range(Of(q)))
         /\ \A w \in Range(Of(q)) : w \in Range(q) /\ w.at \in Followed /\ Allowed(w, b, d)
<1> DEFINE r == Of(q)
<1>1. r \in Seq(Range(r)) /\ Range(r) = {w \in Range(q) : w.at \in Followed}
  BY OfIs
<1> HIDE DEF r
<1>2. \A w \in Range(r) : w \in Range(q) /\ w.at \in Followed
  BY <1>1
<1>3. \A w \in Range(r) : w \in Range(q) /\ w.at \in Followed /\ Allowed(w, b, d)
  BY <1>2, Zenon
<1> QED
  BY <1>1, <1>3 DEF r

(* Steps that write nothing. *)
LEMMA CellsStay ==
  ASSUME CellsHold, eeprom' = eeprom
  PROVE  CellsHold' /\ Followed' = Followed
BY DEF CellsHold, Followed

LEMMA ReachStays ==
  ASSUME ReachInv, eeprom' = eeprom, ported' = ported, eeprom[11] # Erased
  PROVE  ReachInv'
<1>1. \A c \in {0, 10, 23} : Ready(c)
  BY DEF ReachInv
<1>2. \A c \in {0, 10, 23} : Ready(c)'
  BY <1>1 DEF Ready
<1> QED
  BY <1>2 DEF ReachInv

(* Steps of a device that runs and writes nothing yet. *)
LEMMA RunningKeeps ==
  ASSUME SettingsInv, eeprom' = eeprom, meant' = meant /\ ported' = ported, block = Running, block' = block, TodoInv'
  PROVE  CellsHold' /\ ReachInv' /\ MigrateInv'
<1>1. CellsHold' /\ CellsHold
  BY CellsStay DEF SettingsInv
<1>2. ReachInv'
  <2>1. ReachInv /\ eeprom[11] # Erased
    BY DEF SettingsInv, ReachInv, Running
  <2> QED
    BY <2>1, ReachStays
<1>3. MigrateInv'
  <2> SUFFICES ASSUME NEW n \in Pin, meant[n] # -1
      PROVE  /\ eeprom[0] # Erased /\ eeprom[11] # Erased
             /\ eeprom[1] < 4 => ReadWord(eeprom, n) = meant[n]
             /\ ReadCount(eeprom, n) = meant[n]
             /\ \A x \in Range(todo'), k \in 0 .. 3 : x.at # CountAt(n) + k
    BY DEF MigrateInv, Running
  <2>1. /\ eeprom[0] # Erased /\ eeprom[11] # Erased
        /\ eeprom[1] < 4 => ReadWord(eeprom, n) = meant[n]
        /\ ReadCount(eeprom, n) = meant[n]
    BY DEF SettingsInv, MigrateInv, Running
  <2>2. ASSUME NEW x \in Range(todo'), NEW k \in 0 .. 3 PROVE x.at # CountAt(n) + k
    <3>1. Allowed(x, Running, dying')
      BY DEF TodoInv
    <3>2. x.at \notin CountCells
      BY <3>1 DEF Allowed, Running
    <3> QED
      BY <1>1, <3>2, PinCells
  <2> QED
    BY <2>1, <2>2
<1> QED
  BY <1>1, <1>2, <1>3

(* The next part of the start-up: when the one that copies has nothing left *)
(* to write, all bytes of the old counts are in their places.               *)
LEMMA BlockKeeps ==
  ASSUME SettingsInv, NextBlock
  PROVE  SettingsInv'
<1> DEFINE b == block'
<1>1. /\ b = block + 1 /\ b # 7 /\ block # 7 /\ block \in 1 .. 7 /\ todo = << >>
      /\ todo' = Of(Block(b))
      /\ saving' = saving /\ dying' = dying /\ eeprom' = eeprom /\ meant' = meant /\ ported' = ported
      /\ loaded' = loaded /\ seen' = seen /\ edges' = edges
      /\ simpleSensorTypes' = simpleSensorTypes /\ simpleSensorValues' = simpleSensorValues
      /\ simpleSensorDebounce' = simpleSensorDebounce
  BY DEF NextBlock, Following, Running, ram, history, SettingsInv, PinsInv
<1> HIDE DEF b
<1>2. b \in 2 .. 6 /\ b \in 1 .. 6
  BY <1>1
<1>3. saving = 0 /\ dying = FALSE
  BY <1>1 DEF SettingsInv, PinsInv, Running
<1>4. CellsHold /\ CellsHold' /\ Followed' = Followed
  BY <1>1, CellsStay DEF SettingsInv
<1>5. Block(b) \in Seq(Writes) /\ \A w \in Range(Block(b)) : Allowed(w, b, FALSE)
  BY <1>2, <1>4, BlockIs
<1>6. /\ todo' \in Seq(Range(todo'))
      /\ \A w \in Range(todo') : w \in Range(Block(b)) /\ w.at \in Followed /\ Allowed(w, b, FALSE)
  <2> DEFINE q == Block(b)
  <2> HIDE DEF q
  <2>1. q \in Seq(Writes) /\ \A w \in Range(q) : Allowed(w, b, FALSE)
    BY <1>5 DEF q
  <2>2. /\ Of(q) \in Seq(Range(Of(q)))
        /\ \A w \in Range(Of(q)) : w \in Range(q) /\ w.at \in Followed /\ Allowed(w, b, FALSE)
    BY <2>1, NewTodo, Zenon
  <2> QED
    BY <1>1, <2>2, Zenon DEF q
<1>7. TodoInv'
  <2>1. block' = b /\ dying' = FALSE
    BY <1>1, <1>3 DEF b
  <2>2. \A w \in Range(todo') : w.at \in Followed' /\ Allowed(w, block', dying')
    BY <1>4, <1>6, <2>1
  <2> QED
    BY <1>6, <2>2 DEF TodoInv
<1>8. PinsInv'
  BY <1>1, <1>2, <1>3 DEF PinsInv, SettingsInv, b, Running
<1>9. eeprom[11] # Erased
  <2>1. CASE block # 1
    BY <2>1 DEF SettingsInv, ReachInv
  <2>2. CASE block = 1 /\ eeprom[11] = Erased
    <3>1. \E k \in 1 .. Len(todo) : todo[k].at = 11
      BY <2>2 DEF SettingsInv, ReachInv
    <3>2. Len(todo) = 0
      BY <1>1
    <3> QED
      BY <3>1, <3>2
  <2> QED
    BY <2>1, <2>2
<1>10. ReachInv'
  BY <1>1, <1>9, ReachStays DEF SettingsInv
<1>11. MigrateInv'
  <2> SUFFICES ASSUME NEW n \in Pin, meant[n] # -1
      PROVE  /\ eeprom[0] # Erased /\ eeprom[11] # Erased
             /\ b # 1
             /\ eeprom[1] < 4 => ReadWord(eeprom, n) = meant[n]
             /\ eeprom[1] >= 4 \/ b > 3 => ReadCount(eeprom, n) = meant[n]
             /\ \A x \in Range(todo'), k \in 0 .. 3 :
                  x.at = CountAt(n) + k => b = 3 /\ eeprom[1] < 4 /\ x.value = ByteOf(meant[n], k)
             /\ b = 3 /\ eeprom[1] < 4 =>
                  \A k \in 0 .. 3 : \E x \in Range(todo') : x.at = CountAt(n) + k
    BY <1>1 DEF MigrateInv, b
  <2>1. /\ eeprom[0] # Erased /\ eeprom[11] # Erased
        /\ eeprom[1] < 4 => ReadWord(eeprom, n) = meant[n]
        /\ eeprom[1] >= 4 \/ block > 3 => ReadCount(eeprom, n) = meant[n]
        /\ block = 3 /\ eeprom[1] < 4 =>
             \A k \in 0 .. 3 : \/ eeprom[CountAt(n) + k] = ByteOf(meant[n], k)
                               \/ \E x \in Range(todo) : x.at = CountAt(n) + k
    BY DEF SettingsInv, MigrateInv
  <2>2. eeprom[1] \in Nat
    BY <1>4 DEF CellsHold
  <2>3. /\ eeprom[WordAt(n)] \in 0 .. Byte - 1 /\ eeprom[WordAt(n) + 1] \in 0 .. Byte - 1
        /\ ReadWord(eeprom, n) = eeprom[WordAt(n)] + Byte * eeprom[WordAt(n) + 1]
    BY <1>4, OldCount
  <2>4. ASSUME block = 3, eeprom[1] < 4 PROVE ReadCount(eeprom, n) = meant[n]
    <3> DEFINE lo == eeprom[WordAt(n)]
               hi == eeprom[WordAt(n) + 1]
    <3>1. Range(todo) = {}
      BY <1>1 DEF Range
    <3>2. \A k \in 0 .. 3 : eeprom[CountAt(n) + k] = ByteOf(meant[n], k)
      BY <2>1, <2>4, <3>1
    <3>3. meant[n] = lo + Byte * hi /\ lo \in 0 .. Byte - 1 /\ hi \in 0 .. Byte - 1
      BY <2>1, <2>3, <2>4
    <3> HIDE DEF lo, hi
    <3>4. /\ ByteOf(lo + Byte * hi, 0) = lo /\ ByteOf(lo + Byte * hi, 1) = hi
          /\ ByteOf(lo + Byte * hi, 2) = 0 /\ ByteOf(lo + Byte * hi, 3) = 0
      BY <3>3, BytesAre
    <3> DEFINE v == [k \in 0 .. 3 |-> eeprom[CountAt(n) + k]]
    <3>5. v[0] = lo /\ v[1] = hi /\ v[2] = 0 /\ v[3] = 0
      BY <3>2, <3>3, <3>4
    <3>6. ReadCount(eeprom, n) = v[0] + Byte * (v[1] + Byte * (v[2] + Byte * v[3]))
      BY DEF ReadCount, Number
    <3> HIDE DEF v
    <3>7. Byte * 0 = 0 /\ 0 + 0 = 0
      BY SettingsAssumption
    <3>8. v[2] + Byte * v[3] = 0
      BY <3>5, <3>7
    <3>9. v[1] + Byte * (v[2] + Byte * v[3]) = hi
      <4>1. hi \in Nat
        BY <3>3
      <4> QED
        BY <3>5, <3>7, <3>8, <4>1
    <3> QED
      BY <3>3, <3>5, <3>6, <3>9
  <2>5. eeprom[1] >= 4 \/ b > 3 => ReadCount(eeprom, n) = meant[n]
    <3>1. eeprom[1] >= 4 \/ eeprom[1] < 4
      BY <2>2
    <3>2. b > 3 => block >= 3
      BY <1>1
    <3>3. block >= 3 => block = 3 \/ block > 3
      BY <1>1
    <3> QED
      BY <2>1, <2>4, <3>1, <3>2, <3>3
  <2>6. ASSUME NEW x \in Range(todo'), NEW k \in 0 .. 3, x.at = CountAt(n) + k
        PROVE  b = 3 /\ eeprom[1] < 4 /\ x.value = ByteOf(meant[n], k)
    <3>1. x \in Range(Block(b)) /\ Allowed(x, b, FALSE)
      BY <1>6
    <3>2. x.at \in CountCells
      BY <1>4, <2>6, PinCells
    <3>3. b = 3
      BY <1>2, <3>1, <3>2 DEF Allowed
    <3>4. eeprom[1] < 4 /\ Block(b) = Copy
      <4>1. eeprom[1] < 4 \/ Block(b) = << >>
        BY <3>3 DEF Block
      <4>2. Block(b) # << >>
        BY <3>1 DEF Range
      <4> QED
        BY <3>3, <4>1, <4>2 DEF Block, Copy
    <3>5. PICK m \in Pin, j \in 0 .. 3 :
            x = [at |-> CountAt(m) + j, value |-> ByteOf(ReadWord(eeprom, m), j)]
      <4>1. x \in CopyOf
        BY <1>4, <3>1, <3>4, CopyIs
      <4> QED
        BY <4>1 DEF CopyOf
    <3>6. x.at = CountAt(m) + j /\ x.value = ByteOf(ReadWord(eeprom, m), j)
      BY <3>5
    <3>7. m = n /\ j = k
      BY <2>6, <3>6, CountsApart
    <3> QED
      BY <2>1, <3>3, <3>4, <3>6, <3>7
  <2>7. ASSUME b = 3, eeprom[1] < 4, NEW k \in 0 .. 3
        PROVE  \E x \in Range(todo') : x.at = CountAt(n) + k
    <3> DEFINE x == [at |-> CountAt(n) + k, value |-> ByteOf(ReadWord(eeprom, n), k)]
    <3>1. x.at = CountAt(n) + k /\ x \in CopyOf
      BY DEF CopyOf
    <3>2. x.at \in Followed
      BY <1>4, <3>1, PinCells
    <3> HIDE DEF x
    <3>3. Block(b) = Copy
      BY <2>7 DEF Block, Copy
    <3>4. Copy \in Seq(Writes) /\ x \in Range(Copy)
      BY <1>4, <3>1, CopyIs
    <3>5. Range(Of(Copy)) = {y \in Range(Copy) : y.at \in Followed}
      BY <3>4, OfIs
    <3>6. x \in Range(todo')
      BY <1>1, <3>2, <3>3, <3>4, <3>5
    <3> QED
      BY <3>1, <3>6
  <2>8. b # 1
    BY <1>2
  <2> QED
    BY <2>1, <2>5, <2>6, <2>7, <2>8
<1> QED
  BY <1>4, <1>7, <1>8, <1>10, <1>11 DEF SettingsInv

(* Counting modulo M; the modulus of the counters. *)
LEMMA OneMore ==
  ASSUME NEW M \in Nat, M > 0, NEW x \in Nat
  PROVE  ((x % M) + 1) % M = (x + 1) % M
<1>1. x = M * (x \div M) + (x % M) /\ x \div M \in Int /\ x % M \in 0 .. M - 1
  OBVIOUS
<1>2. ASSUME NEW q \in Int, NEW r \in 0 .. M - 1 PROVE (M * q + r) % M = r
  OBVIOUS
<1> DEFINE q == x \div M
           r == x % M
<1>3. x = M * q + r /\ q \in Int /\ r \in 0 .. M - 1
  BY <1>1
<1> HIDE DEF q, r
<1>4. CASE r + 1 < M
  <2>1. x + 1 = M * q + (r + 1) /\ r + 1 \in 0 .. M - 1
    BY <1>3, <1>4
  <2>2. (x + 1) % M = r + 1
    BY <1>2, <1>3, <2>1
  <2>3. (r + 1) % M = r + 1
    BY <1>3, <1>4
  <2> QED
    BY <2>2, <2>3 DEF r
<1>5. CASE r + 1 = M
  <2>1. M * (q + 1) = M * q + M
    BY <1>3
  <2>2. x + 1 = M * (q + 1) + 0 /\ 0 \in 0 .. M - 1 /\ q + 1 \in Int
    BY <1>3, <1>5, <2>1
  <2>3. (x + 1) % M = 0
    BY <1>2, <2>2
  <2>4. (r + 1) % M = 0
    BY <1>5
  <2> QED
    BY <2>3, <2>4 DEF r
<1> QED
  BY <1>3, <1>4, <1>5

LEMMA ModulusIs == Modulus \in Nat /\ Modulus > 0
<1>1. Byte \in Nat /\ Byte >= 2
  BY SettingsAssumption
<1>2. ASSUME NEW a \in Nat, NEW b \in Nat, a > 0, b > 0 PROVE a * b \in Nat /\ a * b > 0
  BY <1>2
<1>3. Byte * Byte \in Nat /\ Byte * Byte > 0
  BY <1>1, <1>2
<1>4. Byte * Byte * Byte \in Nat /\ Byte * Byte * Byte > 0
  BY <1>1, <1>2, <1>3
<1> QED
  BY <1>1, <1>2, <1>4 DEF Modulus

(* loadSimpleSensorData. *)
LEMMA LoadKeeps ==
  ASSUME SettingsInv, Load
  PROVE  SettingsInv'
<1>1. /\ block = 6 /\ block' = 7 /\ todo = << >> /\ todo' = todo
      /\ saving' = saving /\ dying' = dying /\ eeprom' = eeprom /\ meant' = meant /\ ported' = ported
  BY DEF Load, Following, Running, SettingsInv, PinsInv
<1>2. /\ simpleSensorTypes' = [n \in Pin |-> eeprom[TypeAt(n)]]
      /\ simpleSensorValues' =
           [n \in Pin |-> IF eeprom[TypeAt(n)] = TYPE_COUNTER THEN ReadCount(eeprom, n) ELSE 0]
      /\ simpleSensorDebounce' = [n \in Pin |-> 0]
      /\ loaded' = simpleSensorValues'
      /\ seen' = [n \in Pin |-> FALSE] /\ edges' = [n \in Pin |-> 0]
  BY DEF Load
<1>3. saving = 0 /\ dying = FALSE
  BY <1>1 DEF SettingsInv, PinsInv, Running
<1>4. CellsHold /\ CellsHold' /\ Followed' = Followed
  BY <1>1, CellsStay DEF SettingsInv
<1>5. Range(todo) = {}
  BY <1>1 DEF Range
<1>6. TodoInv'
  BY <1>1, <1>5 DEF TodoInv
<1>7. PinsInv'
  <2>1. ASSUME NEW n \in Pin
        PROVE  /\ simpleSensorTypes'[n] = eeprom'[TypeAt(n)]
               /\ simpleSensorTypes'[n] = TYPE_COUNTER =>
                    /\ loaded'[n] \in Nat /\ edges'[n] \in Nat
                    /\ simpleSensorValues'[n] = (loaded'[n] + edges'[n]) % Modulus
                    /\ simpleSensorDebounce'[n] = IF seen'[n] THEN 1 ELSE 0
    <3> DEFINE v == ReadCount(eeprom, n)
    <3>1. \A k \in 0 .. 3 : eeprom[CountAt(n) + k] \in 0 .. Byte - 1
      BY <1>4, PinCells DEF CellsHold
    <3>2. v \in Nat /\ v < Modulus
      BY <3>1, CountIsBelow
    <3>3. eeprom[TypeAt(n)] = TYPE_COUNTER => simpleSensorValues'[n] = v /\ loaded'[n] = v
      BY <1>2
    <3> HIDE DEF v
    <3>4. (v + 0) % Modulus = v
      BY <3>2, ModulusIs
    <3>5. simpleSensorTypes'[n] = eeprom[TypeAt(n)] /\ simpleSensorDebounce'[n] = 0
          /\ seen'[n] = FALSE /\ edges'[n] = 0
      BY <1>2
    <3> QED
      BY <1>1, <3>2, <3>3, <3>4, <3>5
  <2> QED
    BY <1>1, <1>3, <2>1 DEF PinsInv, Running, SettingsInv
<1>8. ReachInv'
  <2>1. eeprom[11] # Erased
    BY <1>1 DEF SettingsInv, ReachInv
  <2> QED
    BY <1>1, <2>1, ReachStays DEF SettingsInv
<1>9. MigrateInv'
  <2> SUFFICES ASSUME NEW n \in Pin, meant[n] # -1
      PROVE  /\ eeprom[0] # Erased /\ eeprom[11] # Erased
             /\ eeprom[1] < 4 => ReadWord(eeprom, n) = meant[n]
             /\ ReadCount(eeprom, n) = meant[n]
    BY <1>1, <1>5 DEF MigrateInv
  <2> QED
    BY <1>1 DEF SettingsInv, MigrateInv
<1> QED
  BY <1>4, <1>6, <1>7, <1>8, <1>9 DEF SettingsInv

(* The interrupt counts a pin that rises, and no other. *)
LEMMA InterruptKeeps ==
  ASSUME SettingsInv, NEW levels \in [Pin -> BOOLEAN], Interrupt(levels), NEW n \in Pin,
         simpleSensorTypes[n] = TYPE_COUNTER
  PROVE  /\ loaded'[n] \in Nat /\ edges'[n] \in Nat
         /\ simpleSensorValues'[n] = (loaded'[n] + edges'[n]) % Modulus
         /\ simpleSensorDebounce'[n] = IF seen'[n] THEN 1 ELSE 0
<1> DEFINE v == simpleSensorValues[n]
           e == edges[n]
           l == loaded[n]
<1>1. /\ l \in Nat /\ e \in Nat
      /\ v = (l + e) % Modulus
      /\ simpleSensorDebounce[n] = IF seen[n] THEN 1 ELSE 0
  BY DEF SettingsInv, PinsInv
<1>2. /\ loaded'[n] = l /\ seen'[n] = levels[n]
      /\ simpleSensorDebounce'[n] = IF levels[n] THEN 1 ELSE 0
      /\ edges'[n] = IF levels[n] /\ ~seen[n] THEN e + 1 ELSE e
      /\ simpleSensorValues'[n] = IF levels[n] /\ simpleSensorDebounce[n] = 0 THEN (v + 1) % Modulus ELSE v
  BY DEF Interrupt, Counts
<1>3. CASE levels[n] /\ ~seen[n]
  <2>1. simpleSensorValues'[n] = (v + 1) % Modulus /\ edges'[n] = e + 1
    BY <1>1, <1>2, <1>3
  <2> HIDE DEF v, e, l
  <2>2. (v + 1) % Modulus = (l + e + 1) % Modulus
    <3>1. l + e \in Nat
      BY <1>1
    <3> QED
      BY <1>1, <3>1, ModulusIs, OneMore
  <2>3. l + (e + 1) = l + e + 1
    BY <1>1
  <2> QED
    BY <1>1, <1>2, <2>1, <2>2, <2>3
<1>4. CASE ~(levels[n] /\ ~seen[n])
  <2>1. simpleSensorValues'[n] = v /\ edges'[n] = e
    BY <1>1, <1>2, <1>4
  <2> QED
    BY <1>1, <1>2, <2>1
<1> QED
  BY <1>3, <1>4

(* Between the settings of the pins and their counts, everything is allowed. *)
LEMMA BetweenAllowed ==
  ASSUME NEW w, NEW b, NEW d, w.at \in Nat, w.at >= 168, w.at < 2000
  PROVE  Allowed(w, b, d)
<1> DEFINE c == w.at
<1>1. c \in Nat /\ c >= 168 /\ c < 2000
  OBVIOUS
<1> HIDE DEF c
<1>2. c \notin TypeCells /\ c \notin WordCells /\ c \notin CountCells /\ c \notin {0, 1, 10, 11, 23}
  BY <1>1, Elsewhere
<1> QED
  BY <1>2 DEF Allowed, c

(* The bytes of one save are none of the settings the invariant is about. *)
LEMMA SavedIs ==
  ASSUME SettingsInv, NEW v, Saved(v)
  PROVE  /\ TodoInv' /\ CellsHold' /\ block' = block /\ dying' = dying /\ eeprom' = eeprom
         /\ saving' \in 0 .. NumAnalog + NumDigital /\ block = Running
<1>1. /\ saving \in 0 .. NumAnalog + NumDigital /\ saving > 0
      /\ eeprom' = eeprom /\ block' = block /\ dying' = dying
      /\ saving' = IF saving = NumAnalog + NumDigital THEN 0 ELSE saving + 1
      /\ \/ todo' = Of(SaveDword(SavePosition(saving), v))
         \/ todo' = << >>
  BY DEF Saved, SettingsInv, PinsInv
<1>2. NumAnalog + NumDigital \in Nat
  BY SettingsAssumption
<1>3. saving \in Pin /\ saving' \in 0 .. NumAnalog + NumDigital
  BY <1>1, <1>2 DEF Pin
<1>4. block = Running
  BY <1>1 DEF SettingsInv, PinsInv
<1>5. CellsHold' /\ Followed' = Followed
  BY <1>1, CellsStay DEF SettingsInv
<1>6. CASE todo' = << >>
  <2>1. Range(todo') = {} /\ todo' \in Seq(Range(todo'))
    BY <1>6 DEF Range
  <2>2. TodoInv'
    BY <2>1 DEF TodoInv
  <2> QED
    BY <1>1, <1>3, <1>4, <1>5, <2>2
<1>7. CASE todo' = Of(SaveDword(SavePosition(saving), v))
  <2> DEFINE p == SavePosition(saving)
             q == SaveDword(p, v)
             X == {q[k] : k \in 1 .. 4}
  <2>1. /\ p \in Nat /\ \A k \in 0 .. 3 : p + k \in 196 .. 239
    BY <1>3, Places DEF SavePosition
  <2>2. q = [k \in 1 .. 4 |-> [at |-> p + k - 1, value |-> ByteOf(v, k - 1)]]
    BY DEF SaveDword
  <2> HIDE DEF p
  <2>3. \A k \in 1 .. 4 : q[k].at = p + (k - 1) /\ k - 1 \in 0 .. 3
    BY <2>1, <2>2
  <2>4. q \in [1 .. 4 -> X]
    BY <2>2
  <2> HIDE DEF q, X
  <2>5. q \in Seq(X)
    BY <2>4, ListIs
  <2>6. ASSUME NEW w \in Range(q) PROVE Allowed(w, block, dying)
    <3>1. DOMAIN q = 1 .. 4
      BY <2>4
    <3>2. PICK k \in 1 .. 4 : w = q[k]
      BY <3>1 DEF Range
    <3>3. w.at = p + (k - 1) /\ k - 1 \in 0 .. 3
      BY <2>3, <3>2
    <3>4. w.at \in 196 .. 239
      BY <2>1, <3>3
    <3>5. w.at \in Nat /\ w.at >= 168 /\ w.at < 2000
      BY <3>4
    <3> QED
      BY <3>5, BetweenAllowed
  <2>7. /\ Of(q) \in Seq(Range(Of(q)))
        /\ \A w \in Range(Of(q)) : w.at \in Followed /\ Allowed(w, block, dying)
    BY <2>5, <2>6, NewTodo
  <2>8. todo' = Of(q)
    BY <1>7 DEF q, p
  <2>9. TodoInv'
    BY <1>1, <1>5, <2>7, <2>8 DEF TodoInv
  <2> QED
    BY <1>1, <1>3, <1>4, <1>5, <2>9
<1> QED
  BY <1>1, <1>6, <1>7

LEMMA TodoStays ==
  ASSUME TodoInv, eeprom' = eeprom, todo' = todo, block' = block, dying' = dying
  PROVE  TodoInv'
<1>1. Followed' = Followed
  BY DEF Followed
<1>2. \A w \in Range(todo) : w.at \in Followed /\ Allowed(w, block, dying)
  BY DEF TodoInv
<1>3. \A w \in Range(todo') : w.at \in Followed' /\ Allowed(w, block', dying')
  BY <1>1, <1>2
<1>4. todo' \in Seq(Range(todo'))
  BY DEF TodoInv
<1> QED
  BY <1>3, <1>4 DEF TodoInv

(* The counters of the pins, as PinsInv has them. *)
CountersInv ==
  \A n \in Pin :
    simpleSensorTypes[n] = TYPE_COUNTER =>
      /\ loaded[n] \in Nat /\ edges[n] \in Nat
      /\ simpleSensorValues[n] = (loaded[n] + edges[n]) % Modulus
      /\ simpleSensorDebounce[n] = IF seen[n] THEN 1 ELSE 0

(* What a step of a device that runs has to keep. *)
LEMMA RunningStep ==
  ASSUME SettingsInv, block = Running, block' = block, eeprom' = eeprom, meant' = meant /\ ported' = ported,
         saving' \in 0 .. NumAnalog + NumDigital, dying' \in BOOLEAN, TodoInv',
         ~dying' => ~dying,
         \A n \in Pin : ~dying' => simpleSensorTypes'[n] = eeprom[TypeAt(n)],
         CountersInv'
  PROVE  SettingsInv'
<1>1. CellsHold' /\ ReachInv' /\ MigrateInv'
  BY RunningKeeps
<1>2. PinsInv'
  BY DEF PinsInv, CountersInv, Running
<1> QED
  BY <1>1, <1>2 DEF SettingsInv

LEMMA CountersAre ==
  ASSUME SettingsInv
  PROVE  /\ CountersInv /\ saving \in 0 .. NumAnalog + NumDigital /\ dying \in BOOLEAN
         /\ block = Running /\ ~dying => \A n \in Pin : simpleSensorTypes[n] = eeprom[TypeAt(n)]
BY DEF SettingsInv, PinsInv, CountersInv

LEMMA CountersStay ==
  ASSUME CountersInv, ram' = ram, loaded' = loaded, seen' = seen, edges' = edges
  PROVE  CountersInv'
BY DEF CountersInv, ram

LEMMA CountersCount ==
  ASSUME SettingsInv, NEW levels \in [Pin -> BOOLEAN], Interrupt(levels)
  PROVE  CountersInv' /\ simpleSensorTypes' = simpleSensorTypes /\ meant' = meant /\ ported' = ported /\ block = Running
<1>1. simpleSensorTypes' = simpleSensorTypes /\ meant' = meant /\ ported' = ported /\ block = Running
  BY DEF Interrupt
<1> QED
  BY <1>1, InterruptKeeps DEF CountersInv

(* The interrupt, the tasks that measure, and those that save. *)
LEMMA CountKeeps ==
  ASSUME SettingsInv, NEW levels \in [Pin -> BOOLEAN], updateCounters(levels)
  PROVE  SettingsInv'
<1>1. Interrupt(levels) /\ eeprom' = eeprom /\ block' = block /\ todo' = todo
      /\ saving' = saving /\ dying' = dying
  BY DEF updateCounters, doing
<1>2. TodoInv'
  BY <1>1, TodoStays DEF SettingsInv
<1>3. CountersInv' /\ simpleSensorTypes' = simpleSensorTypes /\ meant' = meant /\ ported' = ported /\ block = Running
  BY <1>1, CountersCount
<1> QED
  BY <1>1, <1>2, <1>3, CountersAre, RunningStep

LEMMA MeasureKeeps ==
  ASSUME SettingsInv, NEW pins, NEW takes, NEW readings, TYPE_COUNTER \notin takes,
         Measure(pins, takes, readings)
  PROVE  SettingsInv'
<1>1. /\ block = Running /\ dying = FALSE /\ eeprom' = eeprom
      /\ block' = block /\ todo' = todo /\ saving' = saving /\ dying' = dying
      /\ simpleSensorDebounce' = simpleSensorDebounce
      /\ meant' = meant /\ ported' = ported /\ loaded' = loaded /\ seen' = seen /\ edges' = edges
  BY CountersAre DEF Measure, Idle, doing, history
<1>2. \A n \in Pin : simpleSensorTypes[n] = eeprom[TypeAt(n)]
  BY <1>1, CountersAre
<1>3. \A n \in Pin : simpleSensorTypes'[n] = eeprom[TypeAt(n)]
  BY <1>2 DEF Measure
<1>4. PICK r \in [pins -> readings] :
        simpleSensorValues' = [n \in Pin |-> IF n \in pins /\ simpleSensorTypes'[n] \in takes
                                             THEN r[n] ELSE simpleSensorValues[n]]
  BY DEF Measure
<1>5. \A n \in Pin : simpleSensorTypes'[n] = TYPE_COUNTER => simpleSensorValues'[n] = simpleSensorValues[n]
  BY <1>4
<1>6. CountersInv
  BY CountersAre
<1>7. CountersInv'
  BY <1>1, <1>2, <1>3, <1>5, <1>6 DEF CountersInv
<1>8. TodoInv'
  BY <1>1, TodoStays DEF SettingsInv
<1> QED
  BY <1>1, <1>3, <1>7, <1>8, CountersAre, RunningStep

LEMMA StartSaveKeeps ==
  ASSUME SettingsInv, StartSave
  PROVE  SettingsInv'
<1>1. /\ block = Running /\ eeprom' = eeprom
      /\ block' = block /\ todo' = todo /\ dying' = dying /\ saving' = 1 /\ ram' = ram
      /\ meant' = meant /\ ported' = ported /\ loaded' = loaded /\ seen' = seen /\ edges' = edges
  BY DEF StartSave, Idle, history
<1>2. TodoInv' /\ CountersInv'
  BY <1>1, TodoStays, CountersAre, CountersStay DEF SettingsInv
<1>3. 1 \in 0 .. NumAnalog + NumDigital
  BY SettingsAssumption
<1>4. \A n \in Pin : ~dying' => simpleSensorTypes'[n] = eeprom[TypeAt(n)]
  BY <1>1, CountersAre DEF ram
<1> QED
  BY <1>1, <1>2, <1>3, <1>4, CountersAre, RunningStep

LEMMA SaveKeeps ==
  ASSUME SettingsInv, SavePin
  PROVE  SettingsInv'
<1>1. PICK v : Saved(v)
  BY DEF SavePin
<1>2. /\ ram' = ram /\ meant' = meant /\ ported' = ported /\ loaded' = loaded /\ seen' = seen /\ edges' = edges
  BY DEF SavePin, history
<1>3. /\ TodoInv' /\ block' = block /\ dying' = dying /\ eeprom' = eeprom
      /\ saving' \in 0 .. NumAnalog + NumDigital /\ block = Running
  BY <1>1, SavedIs
<1>4. CountersInv'
  BY <1>2, CountersAre, CountersStay
<1>5. \A n \in Pin : ~dying' => simpleSensorTypes'[n] = eeprom[TypeAt(n)]
  BY <1>2, <1>3, CountersAre DEF ram
<1> QED
  BY <1>2, <1>3, <1>4, <1>5, CountersAre, RunningStep

LEMMA TornSaveKeeps ==
  ASSUME SettingsInv, NEW levels \in [Pin -> BOOLEAN], NEW late, SavePinTorn(levels, late)
  PROVE  SettingsInv'
<1>1. Interrupt(levels) /\ \E v : Saved(v)
  BY DEF SavePinTorn
<1>2. PICK v : Saved(v)
  BY <1>1
<1>3. /\ TodoInv' /\ block' = block /\ dying' = dying /\ eeprom' = eeprom
      /\ saving' \in 0 .. NumAnalog + NumDigital /\ block = Running
  BY <1>2, SavedIs
<1>4. CountersInv' /\ simpleSensorTypes' = simpleSensorTypes /\ meant' = meant /\ ported' = ported
  BY <1>1, CountersCount
<1>5. \A n \in Pin : ~dying' => simpleSensorTypes'[n] = eeprom[TypeAt(n)]
  BY <1>3, <1>4, CountersAre
<1> QED
  BY <1>3, <1>4, <1>5, CountersAre, RunningStep

(* A page: what it writes, and whether it lets the device restart. *)
LEMMA PageKeeps ==
  ASSUME SettingsInv, NEW S, NEW q \in Seq(S), NEW d \in BOOLEAN,
         \A w \in Range(q) : Allowed(w, Running, d),
         Idle, todo' = Of(q), dying' = d, saving' \in {0, 1}, eeprom' = eeprom, block' = block, ram' = ram,
         meant' = meant /\ ported' = ported, loaded' = loaded, seen' = seen, edges' = edges
  PROVE  SettingsInv'
<1>1. block = Running /\ dying = FALSE
  BY CountersAre DEF Idle
<1>2. Followed' = Followed
  BY DEF Followed
<1>3. /\ Of(q) \in Seq(Range(Of(q)))
      /\ \A w \in Range(Of(q)) : w.at \in Followed /\ Allowed(w, Running, d)
  BY NewTodo
<1>4. TodoInv'
  BY <1>1, <1>2, <1>3 DEF TodoInv
<1>5. CountersInv'
  BY CountersAre, CountersStay
<1>6. \A n \in Pin : ~dying' => simpleSensorTypes'[n] = eeprom[TypeAt(n)]
  BY <1>1, CountersAre DEF ram
<1>7. saving' \in 0 .. NumAnalog + NumDigital
  BY SettingsAssumption
<1> QED
  BY <1>1, <1>4, <1>5, <1>6, <1>7, RunningStep

(* The three pages. *)
LEMMA GeneralKeeps ==
  ASSUME SettingsInv, NEW text \in Passwords, SaveGeneral(text)
  PROVE  SettingsInv'
<1> DEFINE q == SaveStr(200, text)
           X == {q[k] : k \in 1 .. Len(text)}
<1>1. text \in Seq(Nat) /\ Len(text) <= 9
  BY SettingsAssumption
<1>2. DOMAIN text = 1 .. Len(text) /\ Len(text) \in Nat
  BY <1>1
<1>3. q = [k \in 1 .. Len(text) |-> [at |-> 200 + k - 1, value |-> text[k]]]
  BY <1>2 DEF SaveStr
<1>4. \A k \in 1 .. Len(text) : q[k].at = 200 + k - 1
  BY <1>3
<1>5. q \in [1 .. Len(text) -> X]
  BY <1>3
<1> HIDE DEF q, X
<1>6. q \in Seq(X) /\ DOMAIN q = 1 .. Len(text)
  BY <1>2, <1>5, ListIs
<1>7. ASSUME NEW w \in Range(q) PROVE Allowed(w, Running, FALSE)
  <2>1. PICK k \in 1 .. Len(text) : w = q[k]
    BY <1>6 DEF Range
  <2>2. w.at = 200 + k - 1
    BY <1>4, <2>1
  <2>3. w.at \in Nat /\ w.at >= 168 /\ w.at < 2000
    BY <1>1, <1>2, <2>2
  <2>4. ASSUME NEW d PROVE Allowed(w, Running, d)
    BY <2>3, BetweenAllowed
  <2> QED
    BY <2>4
<1>8. /\ Idle /\ todo' = Of(q) /\ dying' = dying /\ saving' = saving /\ eeprom' = eeprom
      /\ block' = block /\ ram' = ram /\ meant' = meant /\ ported' = ported /\ loaded' = loaded /\ seen' = seen
      /\ edges' = edges
  BY DEF SaveGeneral, q
<1>9. dying' = FALSE /\ saving' \in {0, 1}
  BY <1>8, CountersAre DEF Idle
<1> QED
  BY <1>6, <1>7, <1>8, <1>9, PageKeeps

LEMMA IoKeeps ==
  ASSUME SettingsInv, NEW types \in [Pin -> FieldOf(Types)], SaveIo(types)
  PROVE  SettingsInv'
<1> DEFINE s == [n \in Pin |-> SaveFound(TypeAt(n), types[n])]
           q == ForPins(LAMBDA n : SaveFound(TypeAt(n), types[n]))
           X == {[at |-> TypeAt(n), value |-> types[n]] : n \in Pin}
<1>1. q = FlattenSeq(s)
  BY DEF ForPins
<1>2. ASSUME NEW n \in Pin PROVE s[n] \in Seq(X)
  <2> DEFINE w == [at |-> TypeAt(n), value |-> types[n]]
  <2>1. s[n] = << >> \/ s[n] = <<w>>
    BY DEF SaveFound, Save
  <2>2. w \in X
    OBVIOUS
  <2> HIDE DEF s, w, X
  <2>3. << >> \in Seq(X) /\ <<w>> \in Seq(X)
    BY <2>2
  <2> QED
    BY <2>1, <2>3
<1>3. s = [n \in Pin |-> s[n]]
  OBVIOUS
<1>4. ASSUME NEW w \in X PROVE Allowed(w, Running, TRUE)
  <2>1. PICK n \in Pin : w = [at |-> TypeAt(n), value |-> types[n]]
    OBVIOUS
  <2> DEFINE c == TypeAt(n)
  <2>2. w.at = c /\ c \in TypeCells /\ c \in Nat
    BY <2>1, Places DEF TypeCells
  <2> HIDE DEF c, X
  <2>3. c >= 100 /\ c \notin WordCells /\ c \notin CountCells
    BY <2>2, Elsewhere
  <2>4. c \notin {0, 1, 10, 11, 23}
    BY <2>3
  <2> QED
    BY <2>2, <2>3, <2>4 DEF Allowed
<1> HIDE DEF s, q, X
<1>5. q \in Seq(X)
  BY <1>1, <1>2, <1>3, PinsAre
<1>6. \A w \in Range(q) : w \in X
  BY <1>5 DEF Range
<1>7. \A w \in Range(q) : Allowed(w, Running, TRUE)
  BY <1>4, <1>6
<1>8. SaveAndDie(q)
  BY DEF SaveIo, q
<1> QED
  BY <1>5, <1>7, <1>8, PageKeeps DEF SaveAndDie, history

LEMMA NetKeeps ==
  ASSUME SettingsInv, NEW ip0 \in FieldOf({10}), NEW webport \in FieldOf({80}),
         NEW dhcp \in FieldOf({1}), NetSave(ip0, webport, dhcp)
  PROVE  SettingsInv'
<1> DEFINE u == [at |-> 11, value |-> 10]
           p == [at |-> 23, value |-> 80]
           v == [at |-> 10, value |-> IF dhcp = Absent THEN 0 ELSE dhcp]
           X == {u, p, v}
           q == SaveFound(11, ip0) \o SaveFound(23, webport) \o SaveBox(10, dhcp)
<1>1. SaveFound(11, ip0) = << >> \/ SaveFound(11, ip0) = <<u>>
  BY DEF SaveFound, FieldOf, Save
<1>10. SaveFound(23, webport) = << >> \/ SaveFound(23, webport) = <<p>>
  BY DEF SaveFound, FieldOf, Save
<1>2. SaveBox(10, dhcp) = <<v>>
  BY DEF SaveBox, Save
<1>3. \A c \in {10, 11, 23} : c \notin TypeCells /\ c \notin WordCells /\ c \notin CountCells
  BY Elsewhere
<1>4. Allowed(u, Running, TRUE)
  BY <1>3 DEF Allowed, Erased
<1>11. Allowed(p, Running, TRUE)
  BY <1>3 DEF Allowed, Erased
<1>5. Allowed(v, Running, TRUE)
  BY <1>3 DEF Allowed, FieldOf, Absent
<1> HIDE DEF u, p, v
<1>6. q \in Seq(X)
  <2>1. << >> \in Seq(X) /\ <<u>> \in Seq(X) /\ <<p>> \in Seq(X) /\ <<v>> \in Seq(X)
    OBVIOUS
  <2> HIDE DEF X
  <2>2. /\ SaveFound(11, ip0) \in Seq(X) /\ SaveFound(23, webport) \in Seq(X)
        /\ SaveBox(10, dhcp) \in Seq(X)
    BY <1>1, <1>2, <1>10, <2>1
  <2>3. \A s, t \in Seq(X) : s \o t \in Seq(X)
    OBVIOUS
  <2> QED
    BY <2>2, <2>3
<1>7. SaveAndDie(q)
  BY DEF NetSave
<1> HIDE DEF q
<1>8. \A w \in Range(q) : w = u \/ w = p \/ w = v
  BY <1>6 DEF Range
<1>9. \A w \in Range(q) : Allowed(w, Running, TRUE)
  BY <1>4, <1>5, <1>8, <1>11
<1> QED
  BY <1>6, <1>7, <1>9, PageKeeps DEF SaveAndDie, history

(* The defaults, as far as they are followed, have the address after the    *)
(* three settings a device needs that is reached.                           *)
LEMMA DefaultsInOrder ==
  ASSUME {0, 10, 11, 23} \subseteq Followed
  PROVE  /\ \E k \in 1 .. Len(Of(Defaults)) : Of(Defaults)[k].at = 11
         /\ \A k \in 1 .. Len(Of(Defaults)) :
              Of(Defaults)[k].at = 11 =>
                \A c \in {0, 10, 23} : \E j \in 1 .. k - 1 : Of(Defaults)[j].at = c
<1> DEFINE q == Defaults
           r == Of(Defaults)
           N == Len(Defaults)
<1>1. /\ q \in Seq(Writes) /\ N \in Nat /\ N >= 4
      /\ q[1].at = 0 /\ q[2].at = 23 /\ q[3].at = 10 /\ q[4].at = 11
  BY DefaultsAre
<1>2. \A i \in 1 .. N : q[i] \in Writes /\ (i > 4 => Plain(q[i]))
  BY DefaultsAre
<1>3. PICK place : Picks(r, place, q, N)
  BY <1>1, OfPicks
<1> HIDE DEF q, r, N
<1>4. /\ Len(r) \in Nat
      /\ \A i \in 1 .. Len(r) : r[i] = q[place[i]] /\ place[i] \in 1 .. N
      /\ \A i, j \in 1 .. Len(r) : i < j => place[i] < place[j]
      /\ \A k \in 1 .. N : q[k].at \in Followed => \E i \in 1 .. Len(r) : place[i] = k
  BY <1>3 DEF Picks
<1>5. ASSUME NEW k \in 1 .. N, q[k].at = 11 PROVE k = 4
  <2>1. ~(k > 4)
    <3>1. SUFFICES ASSUME k > 4 PROVE FALSE
      OBVIOUS
    <3>2. q[k].at \notin {0, 1, 10, 11, 23}
      BY <1>2, <3>1, PlainAllowed
    <3> QED
      BY <1>5, <3>2
  <2>2. k = 1 \/ k = 2 \/ k = 3 \/ k = 4
    BY <1>1, <2>1
  <2> QED
    BY <1>1, <1>5, <2>2
<1>6. PICK a \in 1 .. Len(r) : place[a] = 4
  BY <1>1, <1>4
<1>7. r[a].at = 11
  BY <1>1, <1>4, <1>6
<1>8. ASSUME NEW k \in 1 .. Len(r), r[k].at = 11, NEW c \in {0, 10, 23}
      PROVE  \E j \in 1 .. k - 1 : r[j].at = c
  <2>1. place[k] = 4
    BY <1>4, <1>5, <1>8
  <2>2. PICK i \in 1 .. 3 : q[i].at = c
    BY <1>1
  <2>3. PICK j \in 1 .. Len(r) : place[j] = i
    <3>1. i \in 1 .. N /\ q[i].at \in Followed
      BY <1>1, <2>2
    <3> QED
      BY <1>4, <3>1
  <2>4. r[j].at = c
    BY <1>4, <2>2, <2>3
  <2>5. j < k
    <3>1. ~(k < j) /\ k # j
      BY <1>4, <2>1, <2>3
    <3> QED
      BY <1>4, <3>1
  <2> QED
    BY <1>4, <2>4, <2>5
<1>9. /\ \E k \in 1 .. Len(r) : r[k].at = 11
      /\ \A k \in 1 .. Len(r) :
           r[k].at = 11 => \A c \in {0, 10, 23} : \E j \in 1 .. k - 1 : r[j].at = c
  BY <1>6, <1>7, <1>8
<1> QED
  BY <1>9 DEF r

LEMMA NoRange == Range(<< >>) = {} /\ << >> \in Seq(Range(<< >>))
<1>1. Range(<< >>) = {}
  BY DEF Range
<1>2. << >> \in Seq({})
  OBVIOUS
<1> QED
  BY <1>1, <1>2

LEMMA DefaultsTodo ==
  /\ Of(Defaults) \in Seq(Range(Of(Defaults)))
  /\ \A w \in Range(Of(Defaults)) : w.at \in Followed /\ Allowed(w, 1, FALSE)
<1> DEFINE q == Defaults
<1>1. q \in Seq(Writes) /\ \A w \in Range(q) : Allowed(w, 1, FALSE)
  BY DefaultsAre, DefaultsAllowed
<1> HIDE DEF q
<1>2. /\ Of(q) \in Seq(Range(Of(q)))
      /\ \A w \in Range(Of(q)) : w.at \in Followed /\ Allowed(w, 1, FALSE)
  BY <1>1, NewTodo
<1> QED
  BY <1>2 DEF q

(* A restart, at any time. *)
LEMMA RestartKeeps ==
  ASSUME SettingsInv, Restart
  PROVE  SettingsInv'
<1>1. /\ block' = 1 /\ saving' = 0 /\ dying' = FALSE /\ eeprom' = eeprom /\ meant' = meant /\ ported' = ported
      /\ simpleSensorTypes' = [n \in Pin |-> 0]
  BY DEF Restart
<1>2. /\ todo' = Of(IF eeprom[0] = Erased \/ eeprom[11] = Erased THEN Defaults ELSE << >>)
  BY DEF Restart, Block
<1>3. CellsHold /\ CellsHold' /\ Followed' = Followed
  BY <1>1, CellsStay DEF SettingsInv
<1>4. eeprom[11] # Erased => eeprom[0] # Erased
  BY DEF SettingsInv, ReachInv, Ready
<1>5. eeprom[11] # Erased => todo' = << >>
  BY <1>2, <1>4, OfNone
<1>6. eeprom[11] = Erased => todo' = Of(Defaults)
  BY <1>2
<1>7. TodoInv'
  <2>1. CASE eeprom[11] # Erased
    <3>1. Range(todo') = {} /\ todo' \in Seq(Range(todo'))
      BY <1>5, <2>1, NoRange
    <3> QED
      BY <3>1 DEF TodoInv
  <2>2. CASE eeprom[11] = Erased
    BY <1>1, <1>3, <1>6, <2>2, DefaultsTodo DEF TodoInv
  <2> QED
    BY <2>1, <2>2
<1>8. PinsInv'
  <2>1. 0 \in 0 .. NumAnalog + NumDigital
    BY SettingsAssumption
  <2>2. \A n \in Pin : simpleSensorTypes'[n] = 0
    BY <1>1
  <2>3. /\ block' \in 1 .. 7 /\ block' # 7 /\ dying' = FALSE
        /\ saving' = 0 /\ saving' \in 0 .. NumAnalog + NumDigital
    BY <1>1, <2>1
  <2>4. dying' \in BOOLEAN
    BY <2>3
  <2>5. \A n \in Pin : simpleSensorTypes'[n] # 3
    BY <2>2
  <2> QED
    BY <2>2, <2>3, <2>4, <2>5 DEF PinsInv, Running, TYPE_COUNTER
<1>9. ReachInv'
  <2>1. CASE eeprom[11] # Erased
    BY <1>1, <2>1, ReachStays DEF SettingsInv
  <2>2. CASE eeprom[11] = Erased
    <3>1. {0, 10, 11, 23} \subseteq Followed
      BY <1>3 DEF CellsHold
    <3>2. /\ \E k \in 1 .. Len(todo') : todo'[k].at = 11
          /\ \A k \in 1 .. Len(todo') :
               todo'[k].at = 11 => \A c \in {0, 10, 23} : \E j \in 1 .. k - 1 : todo'[j].at = c
      BY <1>6, <2>2, <3>1, DefaultsInOrder
    <3> QED
      BY <1>1, <2>2, <3>2 DEF ReachInv
  <2> QED
    BY <2>1, <2>2
<1>10. MigrateInv'
  <2> SUFFICES ASSUME NEW n \in Pin, meant[n] # -1
      PROVE  /\ eeprom[0] # Erased /\ eeprom[11] # Erased
             /\ todo' = << >>
             /\ eeprom[1] < 4 => ReadWord(eeprom, n) = meant[n]
             /\ eeprom[1] >= 4 => ReadCount(eeprom, n) = meant[n]
             /\ \A x \in Range(todo'), k \in 0 .. 3 : x.at # CountAt(n) + k
    BY <1>1 DEF MigrateInv
  <2>1. /\ eeprom[0] # Erased /\ eeprom[11] # Erased
        /\ eeprom[1] < 4 => ReadWord(eeprom, n) = meant[n]
        /\ eeprom[1] >= 4 => ReadCount(eeprom, n) = meant[n]
    BY DEF SettingsInv, MigrateInv
  <2>2. todo' = << >> /\ Range(todo') = {}
    BY <1>5, <2>1 DEF Range
  <2> QED
    BY <2>1, <2>2
<1> QED
  BY <1>3, <1>7, <1>8, <1>9, <1>10 DEF SettingsInv

-----------------------------------------------------------------------------
(* The layouts an EEPROM may have. *)
LEMMA StartHolds ==
  ASSUME SettingsInit
  PROVE  SettingsInv
<1>1. PICK layout \in Layouts : Initially(layout)
  BY DEF SettingsInit
<1>2. /\ eeprom = layout /\ block = 1 /\ saving = 0 /\ dying = FALSE
      /\ todo = IF eeprom[0] = Erased \/ eeprom[11] = Erased THEN Of(Defaults) ELSE << >>
      /\ simpleSensorTypes = [n \in Pin |-> 0]
      /\ meant = [n \in Pin |-> IF eeprom[0] = Erased THEN -1
                  ELSE IF eeprom[1] < 4 THEN ReadWord(eeprom, n) ELSE ReadCount(eeprom, n)]
  BY <1>1 DEF Initially
<1>3. /\ {0, 1, 10, 11, 23} \cup TypeCells \cup CountCells \cup WordCells \subseteq DOMAIN eeprom
      /\ eeprom[1] \in Nat
      /\ \A c \in CountCells \cup WordCells : eeprom[c] \in 0 .. Byte - 1
      /\ \/ eeprom[0] = Erased /\ eeprom[11] = Erased
         \/ Erased \notin {eeprom[0], eeprom[11]} /\ eeprom[10] \in {0, 1}
      /\ ported = (eeprom[0] = Erased \/ eeprom[23] # Erased)
  BY <1>1, <1>2, LayoutAssumption DEF Initially
<1>4. CellsHold
  BY <1>3 DEF CellsHold, Followed
<1>5. eeprom[11] # Erased => todo = << >> /\ eeprom[0] # Erased
  BY <1>2, <1>3
<1>6. eeprom[11] = Erased => todo = Of(Defaults) /\ eeprom[0] = Erased
  BY <1>2, <1>3
<1>7. TodoInv
  <2>1. CASE eeprom[11] # Erased
    <3>1. Range(todo) = {} /\ todo \in Seq(Range(todo))
      BY <1>5, <2>1, NoRange
    <3> QED
      BY <3>1 DEF TodoInv
  <2>2. CASE eeprom[11] = Erased
    BY <1>2, <1>6, <2>2, DefaultsTodo DEF TodoInv
  <2> QED
    BY <2>1, <2>2
<1>8. PinsInv
  <2>1. 0 \in 0 .. NumAnalog + NumDigital
    BY SettingsAssumption
  <2>2. \A n \in Pin : simpleSensorTypes[n] = 0
    BY <1>2
  <2>3. /\ block \in 1 .. 7 /\ block # 7 /\ dying = FALSE
        /\ saving = 0 /\ saving \in 0 .. NumAnalog + NumDigital
    BY <1>2, <2>1
  <2>4. dying \in BOOLEAN
    BY <2>3
  <2>5. \A n \in Pin : simpleSensorTypes[n] # 3
    BY <2>2
  <2> QED
    BY <2>2, <2>3, <2>4, <2>5 DEF PinsInv, Running, TYPE_COUNTER
<1>9. ReachInv
  <2>1. CASE eeprom[11] # Erased
    <3>1. Len(todo) = 0
      BY <1>5, <2>1
    <3>2. \A c \in {0, 10, 23} : Ready(c)
      BY <1>3, <2>1 DEF Ready
    <3> QED
      BY <1>2, <2>1, <3>1, <3>2 DEF ReachInv
  <2>2. CASE eeprom[11] = Erased
    <3>1. {0, 10, 11, 23} \subseteq Followed
      BY <1>4 DEF CellsHold
    <3> QED
      BY <1>2, <1>6, <2>2, <3>1, DefaultsInOrder DEF ReachInv
  <2> QED
    BY <2>1, <2>2
<1>10. MigrateInv
  <2> SUFFICES ASSUME NEW n \in Pin, meant[n] # -1
      PROVE  /\ eeprom[0] # Erased /\ eeprom[11] # Erased
             /\ todo = << >>
             /\ eeprom[1] < 4 => ReadWord(eeprom, n) = meant[n]
             /\ eeprom[1] >= 4 => ReadCount(eeprom, n) = meant[n]
             /\ \A x \in Range(todo), k \in 0 .. 3 : x.at # CountAt(n) + k
    BY <1>2 DEF MigrateInv
  <2>1. /\ eeprom[0] # Erased
        /\ eeprom[1] < 4 => ReadWord(eeprom, n) = meant[n]
        /\ eeprom[1] >= 4 => ReadCount(eeprom, n) = meant[n]
    BY <1>2, <1>3
  <2>2. eeprom[11] # Erased
    BY <1>6, <2>1
  <2>3. todo = << >> /\ Range(todo) = {}
    BY <1>5, <2>2 DEF Range
  <2> QED
    BY <2>1, <2>2, <2>3
<1> QED
  BY <1>4, <1>7, <1>8, <1>9, <1>10 DEF SettingsInv

LEMMA NextKeeps == SettingsInv /\ [SettingsNext]_settingsVars => SettingsInv'
<1> SUFFICES ASSUME SettingsInv, [SettingsNext]_settingsVars PROVE SettingsInv'
  OBVIOUS
<1>1. CASE WriteByte
  <2>1. Wrote(todo[1])
    BY <1>1, WriteIs DEF SettingsInv
  <2> QED
    BY <2>1, WriteKeepsCells, WriteKeepsTodo, WriteKeepsPins, WriteKeepsReach, WriteKeepsMigrate
       DEF SettingsInv
<1>2. CASE NextBlock
  BY <1>2, BlockKeeps
<1>3. CASE Load
  BY <1>3, LoadKeeps
<1>4. ASSUME NEW levels \in [Pin -> BOOLEAN], updateCounters(levels) PROVE SettingsInv'
  BY <1>4, CountKeeps
<1>5. CASE updateAnalogSensors \/ updateSimpleSensors \/ DhtTypes
  <2>1. TYPE_COUNTER \notin {TYPE_ADC, TYPE_DIGIN} /\ TYPE_COUNTER \notin {TYPE_DIGIN, TYPE_DIGOUT}
        /\ TYPE_COUNTER \notin {}
    BY DEF TYPE_COUNTER, TYPE_ADC, TYPE_DIGIN, TYPE_DIGOUT
  <2> QED
    BY <1>5, <2>1, MeasureKeeps DEF updateAnalogSensors, updateSimpleSensors, DhtTypes
<1>6. CASE StartSave
  BY <1>6, StartSaveKeeps
<1>7. CASE SavePin
  BY <1>7, SaveKeeps
<1>8. ASSUME NEW levels \in [Pin -> BOOLEAN], NEW from \in 1 .. 3, SavePinTorn(levels, from .. 3)
      PROVE  SettingsInv'
  BY <1>8, TornSaveKeeps
<1>9. ASSUME NEW text \in Passwords, SaveGeneral(text) PROVE SettingsInv'
  BY <1>9, GeneralKeeps
<1>10. ASSUME NEW types \in [Pin -> FieldOf(Types)], SaveIo(types) PROVE SettingsInv'
  BY <1>10, IoKeeps
<1>11. ASSUME NEW ip0 \in FieldOf({10}), NEW webport \in FieldOf({80}),
         NEW dhcp \in FieldOf({1}), NetSave(ip0, webport, dhcp)
       PROVE  SettingsInv'
  BY <1>11, NetKeeps
<1>12. CASE Restart
  BY <1>12, RestartKeeps
<1>13. CASE UNCHANGED settingsVars
  <2>1. /\ eeprom' = eeprom /\ block' = block /\ todo' = todo /\ saving' = saving /\ dying' = dying
        /\ simpleSensorTypes' = simpleSensorTypes /\ simpleSensorValues' = simpleSensorValues
        /\ simpleSensorDebounce' = simpleSensorDebounce
        /\ meant' = meant /\ ported' = ported /\ loaded' = loaded /\ seen' = seen /\ edges' = edges
    BY <1>13 DEF settingsVars, doing, ram, history
  <2>2. CellsHold' /\ TodoInv'
    BY <2>1, CellsStay, TodoStays DEF SettingsInv
  <2>3. PinsInv'
    BY <2>1 DEF SettingsInv, PinsInv
  <2>4. ReachInv'
    BY <2>1 DEF SettingsInv, ReachInv, Ready
  <2>5. MigrateInv'
    BY <2>1 DEF SettingsInv, MigrateInv
  <2> QED
    BY <2>2, <2>3, <2>4, <2>5 DEF SettingsInv
<1> QED
  BY <1>1, <1>2, <1>3, <1>4, <1>5, <1>6, <1>7, <1>8, <1>9, <1>10, <1>11, <1>12, <1>13 DEF SettingsNext

LEMMA SettingsAlways == SettingsSpec => []SettingsInv
BY StartHolds, NextKeeps, PTL DEF SettingsSpec

(* A counter is what was loaded plus the rises of its pin, modulo its width *)
(* (updateCounters, loadSimpleSensorData), for all numbers of pins and      *)
(* layouts.                                                                 *)
THEOREM CountsAreEdges == SettingsSpec => []CountsEdges
<1>1. SettingsInv => CountsEdges
  BY DEF SettingsInv, PinsInv, CountsEdges
<1> QED
  BY <1>1, SettingsAlways, PTL

(* A device that runs asks DHCP or not as it was told, and has a web port   *)
(* unless it comes from a firmware that left none, wherever power was lost  *)
(* while the defaults were written (main).                                  *)
THEOREM DeviceIsReached == SettingsSpec => []CanBeReached
<1>1. SettingsInv => CanBeReached
  BY DEF SettingsInv, ReachInv, CanBeReached, Ready, Running
<1> QED
  BY <1>1, SettingsAlways, PTL

(* The counts of an older firmware are in their new places when the start-  *)
(* up is over, wherever power was lost (main, version before 4).            *)
THEOREM OldCountsAreMoved == SettingsSpec => []CountsMigrated
<1>1. SettingsInv => CountsMigrated
  BY DEF SettingsInv, MigrateInv, CountsMigrated, Running
<1> QED
  BY <1>1, SettingsAlways, PTL
-----------------------------------------------------------------------------
(* Forms.  First the functions of Forms that call themselves: that there are  *)
(* such functions, and what they give when a name is found or is not.         *)

(* The characters, those that the code names among them; a 0 is "nul".       *)
Char == STRING \cup {"/", "general", "webclient", "blank", "?", "&", "=", "+", "%"}
               \cup {"P", "L", "d", "a", "i", "h", "u", "c", "2", "3", "5", "6", "B", "D"}
               \cup {"0", "1", "4", "7", "8", "9"}

(* Induction from the end of a sequence to its beginning. *)
LEMMA FromTheEnd ==
  ASSUME NEW n \in Nat, NEW T,
         \A i \in 0 .. n : (\A j \in i + 1 .. n : j \in T) => i \in T
  PROVE  \A i \in 0 .. n : i \in T
<1> DEFINE D == {d \in 0 .. n : n - d \notin T}
<1>1. SUFFICES ASSUME D # {} PROVE FALSE
  <2>1. ASSUME NEW i \in 0 .. n, i \notin T PROVE n - i \in D
    BY <2>1
  <2> QED
    BY <1>1, <2>1
<1>2. PICK d \in D : \A e \in D : d <= e
  <2>1. D \subseteq Nat
    OBVIOUS
  <2> QED
    BY <1>1, <2>1, LeastNumber, Zenon
<1>3. d \in 0 .. n /\ n - d \in 0 .. n /\ n - d \notin T
  OBVIOUS
<1>4. ASSUME NEW j \in n - d + 1 .. n PROVE j \in T
  <2>1. n - j \in 0 .. n /\ n - (n - j) = j /\ ~(d <= n - j)
    BY <1>3
  <2> QED
    BY <1>2, <2>1
<1> QED
  BY <1>3, <1>4

(* A function whose values are told by those at greater numbers exists: G is *)
(* the rule, at every number a function of the functions.                    *)
Closed(G, n, V) == \A i \in 1 .. n : \A f \in [1 .. n -> V] : G[i][f] \in V

Ahead(G, n, V) ==
  \A i \in 1 .. n : \A f \in [1 .. n -> V] : \A g \in [1 .. n -> V] :
    (\A j \in i + 1 .. n : f[j] = g[j]) => G[i][f] = G[i][g]

Recursive(G, n, V) == \E f \in [1 .. n -> V] : \A i \in 1 .. n : f[i] = G[i][f]

LEMMA RecursionExists ==
  ASSUME NEW n \in Nat, NEW V, V # {}, NEW G, Closed(G, n, V), Ahead(G, n, V)
  PROVE  Recursive(G, n, V)
<1> DEFINE Fits(i) == \E f \in [1 .. n -> V] : \A j \in i + 1 .. n : f[j] = G[j][f]
           T == {i \in 0 .. n : Fits(i)}
<1>1. ASSUME NEW i \in 0 .. n, \A j \in i + 1 .. n : j \in T
      PROVE  i \in T
  <2>1. CASE i = n
    <3>1. PICK v : v \in V
      OBVIOUS
    <3>2. [j \in 1 .. n |-> v] \in [1 .. n -> V]
      BY <3>1
    <3>3. \A j : j \notin n + 1 .. n
      OBVIOUS
    <3> QED
      BY <2>1, <3>2, <3>3
  <2>2. CASE i # n
    <3>1. i + 1 \in i + 1 .. n /\ i + 1 \in 1 .. n
      BY <2>2
    <3>2. PICK f \in [1 .. n -> V] : \A j \in i + 1 + 1 .. n : f[j] = G[j][f]
      BY <1>1, <3>1
    <3> DEFINE g == [f EXCEPT ![i + 1] = G[i + 1][f]]
    <3>3. G[i + 1][f] \in V
      BY <3>1, Zenon DEF Closed
    <3>4. g \in [1 .. n -> V]
      BY <3>3
    <3>5. g[i + 1] = G[i + 1][f]
      BY <3>1, Zenon
    <3>6. \A j \in i + 1 + 1 .. n : f[j] = g[j]
      OBVIOUS
    <3> HIDE DEF g
    <3>7. ASSUME NEW j \in i + 1 .. n PROVE g[j] = G[j][g]
      <4>1. j \in 1 .. n /\ \A k \in j + 1 .. n : f[k] = g[k]
        BY <3>6
      <4>2. G[j][f] = G[j][g]
        BY <3>4, <4>1, Zenon DEF Ahead
      <4>3. CASE j = i + 1
        BY <3>5, <4>2, <4>3
      <4>4. CASE j # i + 1
        <5>1. j \in i + 1 + 1 .. n
          BY <4>4
        <5> QED
          BY <3>2, <3>6, <4>2, <5>1
      <4> QED
        BY <4>3, <4>4
    <3> QED
      BY <3>4, <3>7
  <2> QED
    BY <2>1, <2>2
<1> HIDE DEF T
<1>2. 0 \in T
  <2>1. \A i \in 0 .. n : (\A j \in i + 1 .. n : j \in T) => i \in T
    BY <1>1, Zenon
  <2>2. \A i \in 0 .. n : i \in T
    BY <2>1, FromTheEnd, Zenon
  <2> QED
    BY <2>2
<1> QED
  <2>1. Fits(0)
    BY <1>2 DEF T
  <2> QED
    BY <2>1 DEF Recursive

(* The walk through an address for a key of one letter.                      *)
Marks == {"?", "&"}

Walk(str, c, a, i) ==
  IF i > Len(str) \/ str[i] = "blank" THEN 0
  ELSE IF str[i] # c \/ str[i - 1] \notin Marks THEN a[i + 1]
  ELSE IF str[i + 1] = "=" THEN i + 2
  ELSE a[i + 2]

LEMMA WalkIs ==
  ASSUME NEW str \in Seq(Char), NEW c
  PROVE  \E a : /\ \A i \in 1 .. Len(str) + 2 : a[i] = Walk(str, c, a, i)
                /\ ValueStart(str, <<c>>) = a[1]
<1> DEFINE n == Len(str) + 2
           key == <<c>>
           begins(i) == str[i - 1] \in {"?", "&"}
           Step(i, f) == [k \in 1 .. Len(key) |->
             IF i > Len(str) \/ str[i] = "blank" THEN 0
             ELSE IF str[i] # key[k] \/ (k = 1 /\ ~begins(i)) THEN f[i + 1][1]
             ELSE IF k < Len(key) THEN f[i + 1][k + 1]
             ELSE IF str[i + 1] = "=" THEN i + 2
             ELSE f[i + 2][1]]
           F == CHOOSE f : f = [i \in 1 .. n |-> Step(i, f)]
           V == [1 .. 1 -> Nat]
           G == [i \in 1 .. n |-> [f \in [1 .. n -> V] |-> Step(i, f)]]
<1>1. n \in Nat /\ Len(str) \in Nat /\ Len(key) = 1 /\ key[1] = c
  OBVIOUS
<1>2. \E f : f = [i \in 1 .. n |-> Step(i, f)]
  <2>1. ASSUME NEW i \in 1 .. n, NEW f \in [1 .. n -> V] PROVE Step(i, f) \in V
    <3>1. ASSUME i + 1 \in 1 .. n PROVE f[i + 1][1] \in Nat
      BY <3>1
    <3>2. ASSUME i + 2 \in 1 .. n PROVE f[i + 2][1] \in Nat
      BY <3>2
    <3>3. i > Len(str) \/ (i + 1 \in 1 .. n /\ i + 2 \in 1 .. n)
      BY <1>1
    <3>4. ASSUME NEW k \in 1 .. 1
          PROVE  (IF i > Len(str) \/ str[i] = "blank" THEN 0
                  ELSE IF str[i] # key[k] \/ (k = 1 /\ ~begins(i)) THEN f[i + 1][1]
                  ELSE IF k < Len(key) THEN f[i + 1][k + 1]
                  ELSE IF str[i + 1] = "=" THEN i + 2
                  ELSE f[i + 2][1]) \in Nat
      <4> HIDE DEF V, begins, key
      <4>1. ~(k < Len(key)) /\ i + 2 \in Nat
        BY <1>1
      <4> QED
        BY <3>1, <3>2, <3>3, <4>1
    <3> QED
      BY <1>1, <3>4
  <2>2. ASSUME NEW i \in 1 .. n, NEW f \in [1 .. n -> V], NEW g \in [1 .. n -> V],
               \A j \in i + 1 .. n : f[j] = g[j]
        PROVE  Step(i, f) = Step(i, g)
    <3>1. i > Len(str) \/ (f[i + 1] = g[i + 1] /\ f[i + 2] = g[i + 2])
      BY <1>1, <2>2
    <3> HIDE DEF V, begins, key
    <3>2. CASE i > Len(str)
      BY <3>2
    <3>3. CASE f[i + 1] = g[i + 1] /\ f[i + 2] = g[i + 2]
      BY <3>3
    <3> QED
      BY <3>1, <3>2, <3>3
  <2>3. V # {}
    <3>1. [k \in 1 .. 1 |-> 0] \in V
      OBVIOUS
    <3> QED
      BY <3>1
  <2> HIDE DEF V, Step, n
  <2>4. \A i \in 1 .. n, f \in [1 .. n -> V] : G[i][f] = Step(i, f)
    OBVIOUS
  <2> HIDE DEF G
  <2>5. \E f \in [1 .. n -> V] : \A i \in 1 .. n : f[i] = G[i][f]
    <3>1. Closed(G, n, V)
      BY <2>1, <2>4, Zenon DEF Closed
    <3>2. Ahead(G, n, V)
      <4> SUFFICES ASSUME NEW i \in 1 .. n, NEW f \in [1 .. n -> V], NEW g \in [1 .. n -> V],
                          \A j \in i + 1 .. n : f[j] = g[j]
                   PROVE  G[i][f] = G[i][g]
        BY Zenon DEF Ahead
      <4>1. Step(i, f) = Step(i, g)
        BY <2>2, Zenon
      <4> QED
        BY <2>4, <4>1, Zenon
    <3>3. n \in Nat
      BY <1>1
    <3>4. V # {}
      BY <2>3
    <3>5. Recursive(G, n, V)
      BY <3>1, <3>2, <3>3, <3>4, RecursionExists, Zenon
    <3> QED
      BY <3>5, Zenon DEF Recursive
  <2>6. PICK f \in [1 .. n -> V] : \A i \in 1 .. n : f[i] = Step(i, f)
    BY <2>4, <2>5, Zenon
  <2>7. f = [i \in 1 .. n |-> Step(i, f)]
    BY <2>6
  <2> QED
    BY <2>7
<1>3. F = [i \in 1 .. n |-> Step(i, F)]
  <2> HIDE DEF Step, n
  <2> QED
    BY <1>2, Zenon
<1>4. ValueStart(str, key) = F[1][1]
  BY Zenon DEF ValueStart
<1> HIDE DEF F
<1> DEFINE a == [i \in 1 .. n |-> F[i][1]]
<1>5. ASSUME NEW i \in 1 .. n PROVE a[i] = Walk(str, c, a, i)
  <2>1. F[i] = Step(i, F)
    <3> HIDE DEF Step, n
    <3> QED
      BY <1>3, Zenon
  <2>2. F[i][1] = IF i > Len(str) \/ str[i] = "blank" THEN 0
                  ELSE IF str[i] # c \/ str[i - 1] \notin Marks THEN F[i + 1][1]
                  ELSE IF str[i + 1] = "=" THEN i + 2
                  ELSE F[i + 2][1]
    <3> HIDE DEF key, F
    <3>1. 1 \in 1 .. Len(key) /\ ~(1 < Len(key))
      BY <1>1
    <3> QED
      BY <1>1, <2>1, <3>1 DEF Marks
  <2>3. i > Len(str) \/ (a[i + 1] = F[i + 1][1] /\ a[i + 2] = F[i + 2][1])
    BY <1>1
  <2>4. a[i] = F[i][1]
    OBVIOUS
  <2> HIDE DEF a
  <2> QED
    BY <2>2, <2>3, <2>4 DEF Walk
<1>6. a[1] = F[1][1]
  BY <1>1
<1> QED
  BY <1>4, <1>5, <1>6

(* What is written before a name that is not the one looked for.             *)
Letters == {"P", "L", "a", "i", "h", "u", "c"}

Quiet(s, c, i) ==
  s[i] # "blank" /\ (s[i] = "=" => i >= 3 /\ ~(s[i - 1] = c /\ s[i - 2] \in Marks))

LEMMA FoundAt ==
  ASSUME NEW str \in Seq(Char), NEW c \in Letters, NEW j \in 2 .. Len(str),
         j + 1 <= Len(str), str[1] = "/", str[j - 1] \in Marks, str[j] = c, str[j + 1] = "=",
         \A i \in 1 .. j : Quiet(str, c, i)
  PROVE  ValueStart(str, <<c>>) = j + 2
<1>1. PICK a : /\ \A i \in 1 .. Len(str) + 2 : a[i] = Walk(str, c, a, i)
               /\ ValueStart(str, <<c>>) = a[1]
  BY WalkIs
<1>2. Len(str) \in Nat /\ c # "blank" /\ c # "/" /\ c \notin Marks
  BY DEF Letters, Marks
<1> DEFINE T == {i \in 0 .. j - 1 : a[i + 1] = j + 2}
<1>3. ASSUME NEW i \in 0 .. j - 1, \A k \in i + 1 .. j - 1 : k \in T
      PROVE  i \in T
  <2>1. /\ i + 1 \in 1 .. Len(str) + 2 /\ i + 1 \in 1 .. j /\ i + 1 <= Len(str)
        /\ (i + 1) - 1 = i /\ (i + 1) + 1 = i + 2 /\ (i + 1) + 2 = i + 3
    BY <1>2
  <2>2. a[i + 1] = IF str[i + 1] # c \/ str[i] \notin Marks THEN a[i + 2]
                   ELSE IF str[i + 2] = "=" THEN i + 3 ELSE a[i + 3]
    <3>1. a[i + 1] = Walk(str, c, a, i + 1) /\ str[i + 1] # "blank" /\ ~(i + 1 > Len(str))
      BY <1>1, <1>2, <2>1 DEF Quiet
    <3> QED
      BY <2>1, <3>1 DEF Walk
  <2>3. CASE i = j - 1
    <3>1. str[i + 1] = c /\ str[i] \in Marks /\ str[i + 2] = "=" /\ i + 3 = j + 2
      BY <2>3
    <3> QED
      BY <2>2, <3>1
  <2>4. CASE i # j - 1
    <3>1. a[i + 2] = j + 2
      <4>1. i + 1 \in i + 1 .. j - 1
        BY <2>4
      <4>2. i + 1 \in T
        BY <1>3, <4>1
      <4> QED
        BY <4>2
    <3>2. CASE str[i + 1] # c \/ str[i] \notin Marks
      BY <2>2, <3>1, <3>2
    <3>3. CASE str[i + 1] = c /\ str[i] \in Marks
      <4>1. i # 0 /\ i + 1 # j - 1
        <5>1. CASE i = 0
          BY <1>2, <3>3, <5>1
        <5>2. CASE i + 1 = j - 1
          BY <1>2, <3>3, <5>2
        <5> QED
          BY <5>1, <5>2
      <4>2. i + 2 \in 1 .. j /\ (i + 2) - 1 = i + 1 /\ (i + 2) - 2 = i
        BY <2>4
      <4>3. str[i + 2] # "="
        BY <3>3, <4>2 DEF Quiet
      <4>4. i + 2 \in T
        BY <1>3, <2>4, <4>1
      <4>5. a[i + 3] = j + 2
        BY <4>4
      <4> QED
        BY <2>2, <3>3, <4>3, <4>5
    <3> QED
      BY <3>2, <3>3
  <2> QED
    BY <2>3, <2>4
<1> HIDE DEF T
<1>4. 0 \in T
  <2>1. \A i \in 0 .. j - 1 : (\A k \in i + 1 .. j - 1 : k \in T) => i \in T
    BY <1>3, Zenon
  <2>2. j - 1 \in Nat
    OBVIOUS
  <2>3. \A i \in 0 .. j - 1 : i \in T
    BY <2>1, <2>2, FromTheEnd, Zenon
  <2> QED
    BY <2>2, <2>3
<1> QED
  BY <1>1, <1>4 DEF T

LEMMA NotFound ==
  ASSUME NEW str \in Seq(Char), NEW c \in Letters, Len(str) >= 1, str[1] = "/",
         str[Len(str)] = "blank", \A i \in 1 .. Len(str) - 1 : Quiet(str, c, i)
  PROVE  ValueStart(str, <<c>>) = 0
<1>1. PICK a : /\ \A i \in 1 .. Len(str) + 2 : a[i] = Walk(str, c, a, i)
               /\ ValueStart(str, <<c>>) = a[1]
  BY WalkIs
<1> DEFINE n == Len(str)
<1>2. n \in Nat /\ n >= 1 /\ c # "blank" /\ c # "/" /\ c \notin Marks /\ str[n] = "blank" /\ n + 1 \in Nat
  BY DEF Letters, Marks
<1> DEFINE T == {i \in 0 .. n + 1 : a[i + 1] = 0}
<1>3. ASSUME NEW i \in 0 .. n + 1, \A k \in i + 1 .. n + 1 : k \in T
      PROVE  i \in T
  <2>1. /\ i + 1 \in 1 .. n + 2 /\ (i + 1) - 1 = i /\ (i + 1) + 1 = i + 2 /\ (i + 1) + 2 = i + 3
    BY <1>2
  <2>2. a[i + 1] = IF i + 1 > n \/ str[i + 1] = "blank" THEN 0
                   ELSE IF str[i + 1] # c \/ str[i] \notin Marks THEN a[i + 2]
                   ELSE IF str[i + 2] = "=" THEN i + 3 ELSE a[i + 3]
    <3>1. a[i + 1] = Walk(str, c, a, i + 1)
      BY <1>1, <2>1
    <3> QED
      BY <2>1, <3>1 DEF Walk
  <2>3. CASE i + 1 > n \/ str[i + 1] = "blank"
    BY <2>2, <2>3
  <2>4. CASE i + 1 <= n /\ str[i + 1] # "blank"
    <3>1. i + 1 # n /\ i + 2 <= n /\ i + 2 \in 1 .. n
      BY <1>2, <2>4
    <3>2. i + 1 \in T /\ i + 2 \in T
      BY <1>2, <1>3, <3>1
    <3>3. a[i + 2] = 0 /\ a[i + 3] = 0
      BY <3>2
    <3>4. ASSUME str[i + 1] = c, str[i] \in Marks, str[i + 2] = "=" PROVE FALSE
      <4>1. i + 2 # n /\ i + 2 \in 1 .. n - 1 /\ (i + 2) - 1 = i + 1 /\ (i + 2) - 2 = i
        BY <1>2, <3>1, <3>4
      <4> QED
        BY <3>4, <4>1 DEF Quiet
    <3>5. ~(i + 1 > n)
      BY <2>4, <1>2
    <3> QED
      BY <2>2, <2>4, <3>3, <3>4, <3>5
  <2> QED
    BY <1>2, <2>3, <2>4
<1> HIDE DEF T
<1>4. 0 \in T
  <2>1. \A i \in 0 .. n + 1 : (\A k \in i + 1 .. n + 1 : k \in T) => i \in T
    BY <1>3, Zenon
  <2>2. \A i \in 0 .. n + 1 : i \in T
    <3> HIDE DEF n
    <3> QED
      BY <1>2, <2>1, FromTheEnd, Zenon
  <2> QED
    BY <1>2, <2>2
<1> QED
  BY <1>1, <1>4 DEF T

(* A text without its first k characters. *)
After(w, k) == [i \in 1 .. Len(w) - k |-> w[k + i]]

LEMMA AfterIs ==
  ASSUME NEW w \in Seq(Char)
  PROVE  /\ After(w, 0) = w /\ After(w, Len(w)) = << >>
         /\ \A k \in 0 .. Len(w) - 1 : <<w[k + 1]>> \o After(w, k + 1) = After(w, k)
<1>1. Len(w) \in Nat /\ w = [i \in 1 .. Len(w) |-> w[i]]
  OBVIOUS
<1>2. After(w, 0) = w
  <2>1. \A i \in 1 .. Len(w) : 0 + i = i
    OBVIOUS
  <2> QED
    BY <1>1, <2>1 DEF After
<1>3. After(w, Len(w)) = << >>
  BY <1>1 DEF After
<1>4. ASSUME NEW k \in 0 .. Len(w) - 1
      PROVE  <<w[k + 1]>> \o After(w, k + 1) = After(w, k)
  <2> DEFINE s == After(w, k + 1)
             m == Len(w) - (k + 1)
  <2>1. m \in Nat /\ w[k + 1] \in Char /\ \A i \in 1 .. m : k + 1 + i \in 1 .. Len(w)
    OBVIOUS
  <2>2. s \in Seq(Char) /\ Len(s) = m /\ \A i \in 1 .. m : s[i] = w[k + 1 + i]
    <3>1. s = [i \in 1 .. m |-> w[k + 1 + i]]
      BY DEF After
    <3>2. \A i \in 1 .. m : w[k + 1 + i] \in Char
      BY <2>1
    <3> HIDE DEF s, m
    <3> QED
      BY <2>1, <3>1, <3>2
  <2>3. m + 1 = Len(w) - k
    OBVIOUS
  <2> HIDE DEF s, m
  <2>4. /\ Len(<<w[k + 1]>> \o s) = m + 1 /\ <<w[k + 1]>> \o s \in Seq(Char)
        /\ \A i \in 1 .. m + 1 : (<<w[k + 1]>> \o s)[i] = IF i = 1 THEN w[k + 1] ELSE s[i - 1]
    BY <2>1, <2>2
  <2>5. <<w[k + 1]>> \o s = [i \in 1 .. m + 1 |-> IF i = 1 THEN w[k + 1] ELSE s[i - 1]]
    BY <2>4
  <2>6. \A i \in 1 .. m + 1 : (IF i = 1 THEN w[k + 1] ELSE s[i - 1]) = w[k + i]
    <3> SUFFICES ASSUME NEW i \in 1 .. m + 1 PROVE (IF i = 1 THEN w[k + 1] ELSE s[i - 1]) = w[k + i]
      OBVIOUS
    <3>1. CASE i = 1
      BY <3>1
    <3>2. CASE i # 1
      <4>1. i - 1 \in 1 .. m /\ k + 1 + (i - 1) = k + i
        BY <2>1, <3>2
      <4> QED
        BY <2>2, <3>2, <4>1
    <3> QED
      BY <3>1, <3>2
  <2>7. After(w, k) = [i \in 1 .. m + 1 |-> w[k + i]]
    BY <2>3 DEF After
  <2> QED
    BY <2>5, <2>6, <2>7 DEF s
<1> QED
  BY <1>2, <1>3, <1>4

(* The characters that a value ends with. *)
Ends == {"blank", "&"}

LEMMA CopiedIs ==
  ASSUME NEW str \in Seq(Char), NEW maxlen \in Nat, NEW key, NEW w \in Seq(Char),
         NEW first \in 1 .. Len(str), ValueStart(str, key) = first,
         first + Len(w) <= Len(str), Len(w) < maxlen, str[first + Len(w)] \in Ends,
         \A k \in 1 .. Len(w) : str[first + k - 1] = w[k] /\ w[k] \notin Ends
  PROVE  find_key_val(str, maxlen, key) = w
<1> DEFINE n == Len(str) + 1
           Step(i, f) == IF i > Len(str) \/ str[i] \in {"blank", "&"} \/ i - first >= maxlen - 1 THEN << >>
                         ELSE <<str[i]>> \o f[i + 1]
           F == CHOOSE f : f = [i \in 1 .. n |-> Step(i, f)]
           V == Seq(Char)
           G == [i \in 1 .. n |-> [f \in [1 .. n -> V] |-> Step(i, f)]]
<1>1. n \in Nat /\ Len(str) \in Nat /\ Len(w) \in Nat
  OBVIOUS
<1>2. \E f : f = [i \in 1 .. n |-> Step(i, f)]
  <2>1. ASSUME NEW i \in 1 .. n, NEW f \in [1 .. n -> V] PROVE Step(i, f) \in V
    <3>1. CASE i > Len(str)
      BY <3>1
    <3>2. CASE i <= Len(str)
      <4>1. i + 1 \in 1 .. n /\ str[i] \in Char
        BY <1>1, <3>2
      <4>2. f[i + 1] \in V
        BY <4>1
      <4>3. <<str[i]>> \o f[i + 1] \in V
        BY <4>1, <4>2
      <4> HIDE DEF V
      <4>4. << >> \in V
        BY DEF V
      <4> QED
        BY <4>3, <4>4
    <3> QED
      BY <1>1, <3>1, <3>2
  <2>2. ASSUME NEW i \in 1 .. n, NEW f \in [1 .. n -> V], NEW g \in [1 .. n -> V],
               \A j \in i + 1 .. n : f[j] = g[j]
        PROVE  Step(i, f) = Step(i, g)
    <3> HIDE DEF V
    <3>1. CASE i > Len(str)
      BY <3>1
    <3>2. CASE i <= Len(str)
      <4>1. i + 1 \in i + 1 .. n
        BY <1>1, <3>2
      <4>2. f[i + 1] = g[i + 1]
        BY <2>2, <4>1, Zenon
      <4> QED
        BY <4>2, Zenon
    <3> QED
      BY <1>1, <3>1, <3>2
  <2>3. V # {}
    <3>1. << >> \in V
      OBVIOUS
    <3> QED
      BY <3>1
  <2> HIDE DEF V, Step, n
  <2>4. \A i \in 1 .. n, f \in [1 .. n -> V] : G[i][f] = Step(i, f)
    OBVIOUS
  <2> HIDE DEF G
  <2>5. Recursive(G, n, V)
    <3>1. Closed(G, n, V)
      BY <2>1, <2>4, Zenon DEF Closed
    <3>2. Ahead(G, n, V)
      <4> SUFFICES ASSUME NEW i \in 1 .. n, NEW f \in [1 .. n -> V], NEW g \in [1 .. n -> V],
                          \A j \in i + 1 .. n : f[j] = g[j]
                   PROVE  G[i][f] = G[i][g]
        BY Zenon DEF Ahead
      <4>1. Step(i, f) = Step(i, g)
        BY <2>2, Zenon
      <4> QED
        BY <2>4, <4>1, Zenon
    <3>3. n \in Nat
      BY <1>1
    <3> QED
      BY <2>3, <3>1, <3>2, <3>3, RecursionExists, Zenon
  <2>6. PICK f \in [1 .. n -> V] : \A i \in 1 .. n : f[i] = Step(i, f)
    BY <2>4, <2>5, Zenon DEF Recursive
  <2>7. f = [i \in 1 .. n |-> Step(i, f)]
    BY <2>6
  <2> QED
    BY <2>7
<1>3. F = [i \in 1 .. n |-> Step(i, F)]
  <2> HIDE DEF Step, n
  <2> QED
    BY <1>2, Zenon
<1>4. find_key_val(str, maxlen, key) = F[first]
  <2>1. first # 0
    OBVIOUS
  <2> QED
    BY <2>1, Zenon DEF find_key_val
<1> HIDE DEF F
<1>5. \A i \in 1 .. n : F[i] = Step(i, F)
  <2> HIDE DEF Step, n
  <2> QED
    BY <1>3
<1> DEFINE T == {k \in 0 .. Len(w) : F[first + k] = After(w, k)}
<1>6. ASSUME NEW k \in 0 .. Len(w), \A j \in k + 1 .. Len(w) : j \in T
      PROVE  k \in T
  <2>1. first + k \in 1 .. n /\ ~(first + k > Len(str))
    BY <1>1
  <2>2. F[first + k] = IF str[first + k] \in Ends \/ first + k - first >= maxlen - 1 THEN << >>
                       ELSE <<str[first + k]>> \o F[first + k + 1]
    BY <1>5, <2>1 DEF Ends
  <2>3. CASE k = Len(w)
    BY <2>2, <2>3, AfterIs
  <2>4. CASE k # Len(w)
    <3>1. k + 1 \in 1 .. Len(w) /\ first + (k + 1) - 1 = first + k /\ k + 1 \in k + 1 .. Len(w)
      BY <1>1, <2>4
    <3>2. str[first + k] = w[k + 1] /\ w[k + 1] \notin Ends
      BY <3>1
    <3>3. ~(first + k - first >= maxlen - 1)
      BY <1>1, <2>4
    <3>4. F[first + k + 1] = After(w, k + 1)
      <4>1. k + 1 \in T
        BY <1>6, <3>1
      <4> QED
        BY <4>1
    <3>5. <<w[k + 1]>> \o After(w, k + 1) = After(w, k)
      BY <1>1, <2>4, AfterIs
    <3>6. F[first + k] = <<str[first + k]>> \o F[first + k + 1]
      BY <2>2, <3>2, <3>3, Zenon
    <3> QED
      BY <3>2, <3>4, <3>5, <3>6
  <2> QED
    BY <2>3, <2>4
<1> HIDE DEF T
<1>7. 0 \in T
  <2>1. \A k \in 0 .. Len(w) : (\A j \in k + 1 .. Len(w) : j \in T) => k \in T
    BY <1>6, Zenon
  <2>2. \A k \in 0 .. Len(w) : k \in T
    BY <1>1, <2>1, FromTheEnd, Zenon
  <2> QED
    BY <1>1, <2>2
<1>8. F[first] = After(w, 0)
  <2>1. first + 0 = first
    OBVIOUS
  <2> QED
    BY <1>7, <2>1 DEF T
<1> QED
  BY <1>4, <1>8, AfterIs

(* What the browser writes for a character, and for a text.                  *)
Mild(x) == x \in Char /\ x \notin {"blank", "&", "="}

Clean(s) == s \in Seq(Char) /\ \A i \in 1 .. Len(s) : s[i] \notin {"blank", "&", "="}

LEMMA EncodedIs ==
  ASSUME NEW c \in Char
  PROVE  \/ /\ c = "blank" /\ Encoded(c) = <<"+">>
         \/ /\ \E a, b :
                 Mild(a) /\ Mild(b) /\ Encoded(c) = <<"%", a, b>> /\ Unhex(a, b) = c
         \/ /\ c \notin {"blank", "&", "=", "%", "+"} /\ Encoded(c) = <<c>>
<1> DEFINE Codes == {"&", "=", "%", "+"}
<1>1. DOMAIN Hex = Codes
  BY DEF Hex
<1>2. /\ Hex["&"] = <<"2", "6">> /\ Hex["="] = <<"3", "D">>
      /\ Hex["%"] = <<"2", "5">> /\ Hex["+"] = <<"2", "B">>
  BY DEF Hex
<1>3. ASSUME NEW a \in {"2", "3"}, NEW b \in {"6", "D", "5", "B"}, c \in Codes, Hex[c] = <<a, b>>
      PROVE  Encoded(c) = <<"%", a, b>> /\ Unhex(a, b) = c
  <2>1. Hex[c][1] = a /\ Hex[c][2] = b
    BY <1>3
  <2>2. Encoded(c) = <<"%", Hex[c][1], Hex[c][2]>>
    BY <1>1, <1>3, Zenon DEF Encoded
  <2>3. \A d \in Codes : Hex[d] = <<a, b>> => d = c
    <3>1. \A d \in Codes, e \in Codes : Hex[d] = Hex[e] => d = e
      BY <1>2
    <3> QED
      BY <1>3, <3>1, Zenon
  <2>4. Unhex(a, b) = c
    <3> HIDE DEF Codes
    <3> QED
      BY <1>1, <1>3, <2>3, Zenon DEF Unhex
  <2> QED
    BY <1>3, <2>1, <2>2, <2>4
<1>4. CASE c \in Codes
  <2>1. PICK a \in {"2", "3"}, b \in {"6", "D", "5", "B"} : Hex[c] = <<a, b>>
    BY <1>2, <1>4
  <2>2. Encoded(c) = <<"%", a, b>> /\ Unhex(a, b) = c
    BY <1>3, <1>4, <2>1
  <2>3. Mild(a) /\ Mild(b)
    BY <2>1 DEF Mild, Char
  <2> QED
    BY <2>2, <2>3, Zenon
<1>5. CASE c = "blank"
  <2>1. c \notin DOMAIN Hex
    BY <1>1, <1>5
  <2> QED
    BY <1>5, <2>1 DEF Encoded
<1>6. CASE c \notin Codes /\ c # "blank"
  <2>1. Encoded(c) = <<c>>
    BY <1>1, <1>6, Zenon DEF Encoded
  <2> QED
    BY <1>6, <2>1
<1> QED
  BY <1>4, <1>5, <1>6

LEMMA CleanOne ==
  ASSUME NEW x, Mild(x)
  PROVE  Clean(<<x>>) /\ Len(<<x>>) = 1
<1> DEFINE s == <<x>>
<1>1. s \in Seq(Char) /\ Len(s) = 1 /\ s[1] = x
  BY DEF Mild, Char
<1> HIDE DEF s
<1>2. Clean(s)
  BY <1>1 DEF Clean, Mild
<1> QED
  BY <1>1, <1>2 DEF s

LEMMA CleanThree ==
  ASSUME NEW x, NEW y, NEW z, Mild(x), Mild(y), Mild(z)
  PROVE  Clean(<<x, y, z>>) /\ Len(<<x, y, z>>) = 3
<1> DEFINE s == <<x, y, z>>
<1>1. s \in Seq(Char) /\ Len(s) = 3 /\ s[1] = x /\ s[2] = y /\ s[3] = z
  BY DEF Mild, Char
<1> HIDE DEF s
<1>2. Clean(s)
  BY <1>1 DEF Clean, Mild
<1> QED
  BY <1>1, <1>2 DEF s

LEMMA EncodedClean ==
  ASSUME NEW c \in Char
  PROVE  Clean(Encoded(c)) /\ Len(Encoded(c)) \in 1 .. 3
<1>1. CASE c = "blank" /\ Encoded(c) = <<"+">>
  <2>1. Mild("+")
    BY DEF Mild, Char
  <2>2. Clean(<<"+">>) /\ Len(<<"+">>) = 1
    BY <2>1, CleanOne, Zenon
  <2>3. Clean(Encoded(c)) /\ Len(Encoded(c)) = 1
    BY <1>1, <2>2, Zenon
  <2> QED
    BY <2>3
<1>2. ASSUME NEW a, NEW b, Mild(a), Mild(b), Encoded(c) = <<"%", a, b>>
      PROVE  Clean(Encoded(c)) /\ Len(Encoded(c)) \in 1 .. 3
  <2>1. Mild("%")
    BY DEF Mild, Char
  <2>2. Clean(<<"%", a, b>>) /\ Len(<<"%", a, b>>) = 3
    BY <1>2, <2>1, CleanThree, Zenon
  <2> QED
    BY <1>2, <2>2
<1>3. CASE c \notin {"blank", "&", "=", "%", "+"} /\ Encoded(c) = <<c>>
  <2>1. Mild(c)
    BY <1>3 DEF Mild, Char
  <2>2. Clean(<<c>>) /\ Len(<<c>>) = 1
    BY <2>1, CleanOne, Zenon
  <2>3. Clean(Encoded(c)) /\ Len(Encoded(c)) = 1
    BY <1>3, <2>2, Zenon
  <2> QED
    BY <2>3
<1>4. CASE \E a, b : Mild(a) /\ Mild(b) /\ Encoded(c) = <<"%", a, b>> /\ Unhex(a, b) = c
  BY <1>2, <1>4, Zenon
<1> QED
  BY <1>1, <1>3, <1>4, EncodedIs, Zenon

(* What is written for the first k characters of a text. *)
Begins(P, t) ==
  /\ P[0] = << >> /\ P[Len(t)] = Written(t)
  /\ \A k \in 1 .. Len(t) : P[k] = P[k - 1] \o Encoded(t[k])

LEMMA WrittenIs ==
  ASSUME NEW t \in Seq(Char)
  PROVE  \E P : Begins(P, t) /\ \A k \in 0 .. Len(t) : Clean(P[k]) /\ Len(P[k]) \in k .. 3 * k
<1> DEFINE n == Len(t)
           ss == [i \in DOMAIN t |-> Encoded(t[i])]
           F == CHOOSE f : f = [i \in 1 .. n |-> IF i = 1 THEN ss[i] ELSE f[i - 1] \o ss[i]]
           P == [k \in 0 .. n |-> IF k = 0 THEN << >> ELSE F[k]]
<1>1. n \in Nat /\ DOMAIN t = 1 .. n /\ Len(ss) = n
  OBVIOUS
<1>2. \A i \in 1 .. n : Clean(Encoded(t[i])) /\ Len(Encoded(t[i])) \in 1 .. 3
  <2>1. \A i \in 1 .. n : t[i] \in Char
    OBVIOUS
  <2> QED
    BY <2>1, EncodedClean, Zenon
<1>3. \A i \in 1 .. n : F[i] = IF i = 1 THEN ss[i] ELSE F[i - 1] \o ss[i]
  <2>1. \E f : Flattens(f, ss, n)
    BY <1>1, FlattenExists
  <2>2. \E f : f = [i \in 1 .. n |-> IF i = 1 THEN ss[i] ELSE f[i - 1] \o ss[i]]
    <3> HIDE DEF ss, n
    <3> QED
      BY <2>1, Zenon DEF Flattens
  <2>3. F = [i \in 1 .. n |-> IF i = 1 THEN ss[i] ELSE F[i - 1] \o ss[i]]
    <3> HIDE DEF ss, n
    <3> QED
      BY <2>2, Zenon
  <2> HIDE DEF F, ss, n
  <2> QED
    BY <2>3
<1>4. P[n] = Written(t)
  <2>1. Written(t) = FlattenSeq(ss)
    BY Zenon DEF Written
  <2>2. CASE n = 0
    <3>1. ss = << >>
      BY <1>1, <2>2
    <3> HIDE DEF ss
    <3> QED
      BY <1>1, <2>1, <2>2, <3>1 DEF FlattenSeq
  <2>3. CASE n # 0
    <3>1. FlattenSeq(ss) = F[n]
      <4> HIDE DEF ss, n
      <4>1. Len(ss) # 0
        BY <1>1, <2>3
      <4>2. FlattenSeq(ss) = LET flatten[i \in 1 .. Len(ss)] == IF i = 1 THEN ss[i] ELSE flatten[i - 1] \o ss[i]
                             IN  flatten[Len(ss)]
        BY <4>1, Zenon DEF FlattenSeq
      <4> QED
        BY <1>1, <4>2, Zenon
    <3> HIDE DEF F, ss
    <3> QED
      BY <1>1, <2>1, <2>3, <3>1
  <2> QED
    BY <2>2, <2>3
<1> HIDE DEF F
<1>5. \A k \in 1 .. n : P[k] = P[k - 1] \o Encoded(t[k])
  <2> SUFFICES ASSUME NEW k \in 1 .. n PROVE P[k] = P[k - 1] \o Encoded(t[k])
    OBVIOUS
  <2>1. ss[k] = Encoded(t[k])
    BY <1>1
  <2>2. Encoded(t[k]) \in Seq(Char)
    BY <1>2 DEF Clean
  <2> HIDE DEF ss
  <2>3. CASE k = 1
    BY <1>1, <1>3, <2>1, <2>2, <2>3
  <2>4. CASE k # 1
    <3>1. k - 1 \in 0 .. n /\ k - 1 # 0 /\ k \in 0 .. n /\ k # 0
      BY <1>1, <2>4
    <3> QED
      BY <1>3, <2>1, <2>4, <3>1
  <2> QED
    BY <2>3, <2>4
<1>6. P[0] = << >>
  BY <1>1
<1> HIDE DEF P, ss
<1> DEFINE T == {k \in 0 .. n : Clean(P[k]) /\ Len(P[k]) \in k .. 3 * k}
<1>7. ASSUME NEW k \in 1 .. n, k - 1 \in T
      PROVE  k \in T
  <2> DEFINE p == P[k - 1]
             e == Encoded(t[k])
  <2>1. P[k] = p \o e /\ Clean(p) /\ Len(p) \in k - 1 .. 3 * (k - 1) /\ Clean(e) /\ Len(e) \in 1 .. 3
    BY <1>2, <1>5, <1>7
  <2> HIDE DEF p, e
  <2>2. /\ p \o e \in Seq(Char) /\ Len(p \o e) = Len(p) + Len(e) /\ Len(p) \in Nat /\ Len(e) \in Nat
        /\ \A i \in 1 .. Len(p) + Len(e) : (p \o e)[i] = IF i <= Len(p) THEN p[i] ELSE e[i - Len(p)]
    BY <2>1 DEF Clean
  <2>3. ASSUME NEW i \in 1 .. Len(p) + Len(e) PROVE (p \o e)[i] \notin {"blank", "&", "="}
    <3>1. CASE i <= Len(p)
      BY <2>1, <2>2, <3>1 DEF Clean
    <3>2. CASE ~(i <= Len(p))
      <4>1. i - Len(p) \in 1 .. Len(e)
        BY <2>2, <3>2
      <4> QED
        BY <2>1, <2>2, <3>2, <4>1 DEF Clean
    <3> QED
      BY <3>1, <3>2
  <2>4. Clean(p \o e)
    BY <2>2, <2>3 DEF Clean
  <2>5. Len(p \o e) \in k .. 3 * k
    <3> DEFINE x == Len(p)
               y == Len(e)
    <3>1. k \in Nat /\ x \in k - 1 .. 3 * (k - 1) /\ y \in 1 .. 3 /\ Len(p \o e) = x + y
      BY <1>1, <2>1, <2>2
    <3> HIDE DEF x, y
    <3>2. x + y \in k .. 3 * k
      BY <3>1
    <3> QED
      BY <3>1, <3>2
  <2>6. Clean(P[k]) /\ Len(P[k]) \in k .. 3 * k
    BY <2>1, <2>4, <2>5, Zenon
  <2>7. k \in 0 .. n
    BY <1>1
  <2> QED
    BY <2>6, <2>7
<1>8. 0 \in T
  <2>1. Clean(<< >>) /\ Len(<< >>) = 0
    BY DEF Clean
  <2> QED
    BY <1>1, <1>6, <2>1
<1> HIDE DEF T
<1>9. \A k \in 0 .. n : k \in T
  <2>1. \A k \in 1 .. n : k - 1 \in T => k \in T
    BY <1>7, Zenon
  <2> QED
    BY <1>1, <1>8, <2>1, UpTo, Zenon
<1>10. \A k \in 0 .. n : Clean(P[k]) /\ Len(P[k]) \in k .. 3 * k
  BY <1>9 DEF T
<1> QED
  BY <1>4, <1>5, <1>6, <1>10 DEF Begins

(* What is written for the first characters stays at the beginning. *)
LEMMA BeginsStay ==
  ASSUME NEW t \in Seq(Char), NEW P, Begins(P, t), \A k \in 0 .. Len(t) : Clean(P[k])
  PROVE  \A k \in 0 .. Len(t) :
           Len(P[k]) <= Len(Written(t)) /\ \A i \in 1 .. Len(P[k]) : Written(t)[i] = P[k][i]
<1> DEFINE n == Len(t)
           W == Written(t)
           Good(k) == Len(P[k]) <= Len(W) /\ \A i \in 1 .. Len(P[k]) : W[i] = P[k][i]
           T == {k \in 0 .. n : Good(k)}
<1>1. n \in Nat /\ W = P[n] /\ \A k \in 0 .. n : P[k] \in Seq(Char) /\ Len(P[k]) \in Nat
  BY DEF Begins, Clean
<1> HIDE DEF W, n
<1>2. ASSUME NEW k \in 0 .. n, \A j \in k + 1 .. n : j \in T
      PROVE  k \in T
  <2>1. CASE k = n
    BY <1>1, <2>1
  <2>2. CASE k # n
    <3>1. k + 1 \in 1 .. n /\ k + 1 \in k + 1 .. n /\ k + 1 - 1 = k /\ k \in 0 .. n
      BY <1>1, <2>2
    <3>2. Good(k + 1)
      BY <1>2, <3>1
    <3> DEFINE p == P[k]
               e == Encoded(t[k + 1])
               q == P[k + 1]
    <3>3. q = p \o e
      <4>1. \A j \in 1 .. n : P[j] = P[j - 1] \o Encoded(t[j])
        BY Zenon DEF Begins, n
      <4>2. k + 1 \in 1 .. n /\ (k + 1) - 1 = k
        BY <3>1
      <4> QED
        BY <4>1, <4>2, Zenon
    <3>4. e \in Seq(Char)
      <4>1. t[k + 1] \in Char
        BY <3>1 DEF n
      <4> HIDE DEF p, q
      <4> DEFINE c == t[k + 1]
      <4>2. c \in Char
        BY <4>1
      <4> HIDE DEF c
      <4>3. Clean(Encoded(c))
        BY <4>2, EncodedClean
      <4> QED
        BY <4>3 DEF Clean, c
    <3>5. p \in Seq(Char) /\ q \in Seq(Char)
      BY <1>1, <3>1
    <3>6. Len(q) <= Len(W) /\ \A i \in 1 .. Len(q) : W[i] = q[i]
      BY <3>2
    <3> HIDE DEF p, e, q
    <3>7. /\ Len(q) = Len(p) + Len(e) /\ Len(p) \in Nat /\ Len(e) \in Nat
          /\ \A i \in 1 .. Len(p) : q[i] = p[i]
      BY <3>3, <3>4, <3>5
    <3>8. Len(p) <= Len(W) /\ \A i \in 1 .. Len(p) : W[i] = p[i]
      <4>1. Len(W) \in Nat
        BY <1>1
      <4> QED
        BY <3>6, <3>7, <4>1
    <3> QED
      BY <3>8 DEF p
  <2> QED
    BY <2>1, <2>2
<1> HIDE DEF T
<1>3. \A k \in 0 .. n : k \in T
  <2>1. \A k \in 0 .. n : (\A j \in k + 1 .. n : j \in T) => k \in T
    BY <1>2, Zenon
  <2> QED
    BY <1>1, <2>1, FromTheEnd, Zenon
<1> QED
  BY <1>3 DEF T, n, W

(* Where the next character of a text is written. *)
Piece(P, t, k) ==
  /\ Clean(Encoded(t[k + 1])) /\ Len(P[k]) \in Nat
  /\ Len(P[k + 1]) = Len(P[k]) + Len(Encoded(t[k + 1])) /\ Len(P[k + 1]) <= Len(Written(t))
  /\ \A d \in 1 .. Len(Encoded(t[k + 1])) : Written(t)[Len(P[k]) + d] = Encoded(t[k + 1])[d]

LEMMA PieceIs ==
  ASSUME NEW t \in Seq(Char), NEW P, Begins(P, t), \A k \in 0 .. Len(t) : Clean(P[k]),
         NEW k \in 0 .. Len(t) - 1
  PROVE  Piece(P, t, k)
<1> DEFINE p == P[k]
           e == Encoded(t[k + 1])
           q == P[k + 1]
           W == Written(t)
<1>1. k \in 0 .. Len(t) /\ k + 1 \in 0 .. Len(t) /\ k + 1 \in 1 .. Len(t) /\ t[k + 1] \in Char
  OBVIOUS
<1>2. Clean(e) /\ Len(e) \in 1 .. 3
  BY <1>1, EncodedClean, Zenon
<1>3. q = p \o e
  <2>1. \A j \in 1 .. Len(t) : P[j] = P[j - 1] \o Encoded(t[j])
    BY Zenon DEF Begins
  <2>2. k + 1 \in 1 .. Len(t) /\ (k + 1) - 1 = k
    OBVIOUS
  <2> QED
    BY <2>1, <2>2, Zenon
<1>4. Len(q) <= Len(W) /\ \A i \in 1 .. Len(q) : W[i] = q[i]
  BY <1>1, BeginsStay, Zenon
<1>5. p \in Seq(Char) /\ q \in Seq(Char) /\ e \in Seq(Char)
  BY <1>1, <1>2 DEF Clean
<1> HIDE DEF p, q, e, W
<1>6. /\ Len(q) = Len(p) + Len(e) /\ Len(p) \in Nat /\ Len(e) \in Nat
      /\ \A d \in 1 .. Len(e) : q[Len(p) + d] = e[d] /\ Len(p) + d \in 1 .. Len(q)
  <2>1. Len(q) = Len(p) + Len(e) /\ Len(p) \in Nat /\ Len(e) \in Nat
    BY <1>3, <1>5
  <2>2. \A i \in 1 .. Len(p) + Len(e) : q[i] = IF i <= Len(p) THEN p[i] ELSE e[i - Len(p)]
    BY <1>3, <1>5
  <2>3. ASSUME NEW d \in 1 .. Len(e) PROVE q[Len(p) + d] = e[d] /\ Len(p) + d \in 1 .. Len(q)
    <3>1. Len(p) + d \in 1 .. Len(p) + Len(e) /\ ~(Len(p) + d <= Len(p)) /\ (Len(p) + d) - Len(p) = d
      BY <2>1
    <3> QED
      BY <2>1, <2>2, <3>1
  <2> QED
    BY <2>1, <2>3
<1>7. \A d \in 1 .. Len(e) : W[Len(p) + d] = e[d]
  BY <1>4, <1>6
<1> QED
  BY <1>2, <1>4, <1>6, <1>7 DEF Piece, p, q, e, W

(* A text is read as it was typed. *)
LEMMA DecodedIs ==
  ASSUME NEW t \in Seq(Char)
  PROVE  urldecode(Written(t)) = t
<1> DEFINE text == Written(t)
           n == Len(text) + 3
           Step(i, f) == IF i > Len(text) THEN << >>
                         ELSE IF text[i] = "+" THEN <<"blank">> \o f[i + 1]
                         ELSE IF text[i] = "%" THEN <<Unhex(text[i + 1], text[i + 2])>> \o f[i + 3]
                         ELSE <<text[i]>> \o f[i + 1]
           F == CHOOSE f : f = [i \in 1 .. n |-> Step(i, f)]
           S == Char \cup {Unhex(text[i + 1], text[i + 2]) : i \in 1 .. Len(text)}
           V == Seq(S)
           G == [i \in 1 .. n |-> [f \in [1 .. n -> V] |-> Step(i, f)]]
<1>1. PICK P : Begins(P, t) /\ \A k \in 0 .. Len(t) : Clean(P[k]) /\ Len(P[k]) \in k .. 3 * k
  BY WrittenIs
<1>2. text \in Seq(Char) /\ text = P[Len(t)] /\ Len(t) \in Nat /\ Len(text) \in Nat
  BY <1>1 DEF Begins, Clean
<1>3. urldecode(Written(t)) = F[1]
  BY Zenon DEF urldecode, Decode
<1> HIDE DEF text
<1>4. n \in Nat
  BY <1>2
<1>5. \E f : f = [i \in 1 .. n |-> Step(i, f)]
  <2>1. ASSUME NEW i \in 1 .. n, NEW f \in [1 .. n -> V] PROVE Step(i, f) \in V
    <3>1. CASE i > Len(text)
      BY <3>1
    <3>2. CASE i <= Len(text)
      <4>1. i + 1 \in 1 .. n /\ i + 3 \in 1 .. n /\ i \in 1 .. Len(text)
        BY <1>2, <3>2
      <4>2. f[i + 1] \in V /\ f[i + 3] \in V
        BY <4>1
      <4>3. text[i] \in S /\ "blank" \in S /\ Unhex(text[i + 1], text[i + 2]) \in S
        <5>1. text[i] \in Char
          BY <1>2, <4>1
        <5>2. "blank" \in Char
          BY DEF Char
        <5> QED
          BY <4>1, <5>1, <5>2
      <4> HIDE DEF S
      <4>4. \A x \in S : \A v \in V : <<x>> \o v \in V
        OBVIOUS
      <4> HIDE DEF V
      <4>5. ~(i > Len(text))
        BY <1>2, <3>2
      <4> QED
        BY <4>2, <4>3, <4>4, <4>5, Zenon
    <3> QED
      BY <1>2, <3>1, <3>2
  <2>2. ASSUME NEW i \in 1 .. n, NEW f \in [1 .. n -> V], NEW g \in [1 .. n -> V],
               \A j \in i + 1 .. n : f[j] = g[j]
        PROVE  Step(i, f) = Step(i, g)
    <3> HIDE DEF V
    <3>1. CASE i > Len(text)
      BY <3>1
    <3>2. CASE i <= Len(text)
      <4>1. i + 1 \in i + 1 .. n /\ i + 3 \in i + 1 .. n
        BY <1>2, <3>2
      <4>2. f[i + 1] = g[i + 1] /\ f[i + 3] = g[i + 3]
        BY <2>2, <4>1, Zenon
      <4> QED
        BY <4>2, Zenon
    <3> QED
      BY <1>2, <3>1, <3>2
  <2>3. V # {}
    <3>1. << >> \in V
      OBVIOUS
    <3> QED
      BY <3>1
  <2> HIDE DEF V, Step, n
  <2>4. \A i \in 1 .. n, f \in [1 .. n -> V] : G[i][f] = Step(i, f)
    OBVIOUS
  <2> HIDE DEF G
  <2>5. Recursive(G, n, V)
    <3>1. Closed(G, n, V)
      BY <2>1, <2>4, Zenon DEF Closed
    <3>2. Ahead(G, n, V)
      <4> SUFFICES ASSUME NEW i \in 1 .. n, NEW f \in [1 .. n -> V], NEW g \in [1 .. n -> V],
                          \A j \in i + 1 .. n : f[j] = g[j]
                   PROVE  G[i][f] = G[i][g]
        BY Zenon DEF Ahead
      <4>1. Step(i, f) = Step(i, g)
        BY <2>2, Zenon
      <4> QED
        BY <2>4, <4>1, Zenon
    <3>3. n \in Nat
      BY <1>4
    <3> QED
      BY <2>3, <3>1, <3>2, <3>3, RecursionExists, Zenon
  <2>6. PICK f \in [1 .. n -> V] : \A i \in 1 .. n : f[i] = Step(i, f)
    BY <2>4, <2>5, Zenon DEF Recursive
  <2>7. f = [i \in 1 .. n |-> Step(i, f)]
    BY <2>6
  <2> QED
    BY <2>7
<1>6. F = [i \in 1 .. n |-> Step(i, F)]
  <2> HIDE DEF Step, n
  <2> QED
    BY <1>5, Zenon
<1> HIDE DEF F
<1>7. \A i \in 1 .. n : F[i] = Step(i, F)
  <2> HIDE DEF Step, n
  <2> QED
    BY <1>6
<1> DEFINE T == {k \in 0 .. Len(t) : F[Len(P[k]) + 1] = After(t, k)}
<1>8. ASSUME NEW k \in 0 .. Len(t), \A j \in k + 1 .. Len(t) : j \in T
      PROVE  k \in T
  <2> DEFINE i == Len(P[k]) + 1
  <2>1. CASE k = Len(t)
    <3>1. i > Len(text) /\ i \in 1 .. n
      BY <1>2, <2>1
    <3>2. F[i] = << >>
      BY <1>7, <3>1
    <3> QED
      BY <2>1, <3>2, AfterIs
  <2>2. CASE k # Len(t)
    <3>1. k + 1 \in 1 .. Len(t) /\ k \in 0 .. Len(t) - 1 /\ k + 1 \in k + 1 .. Len(t)
      BY <1>2, <2>2
    <3> DEFINE c == t[k + 1]
               e == Encoded(c)
    <3>2. Piece(P, t, k)
      <4>1. \A j \in 0 .. Len(t) : Clean(P[j])
        BY <1>1
      <4> QED
        BY <1>1, <3>1, <4>1, PieceIs, Zenon
    <3>3. c \in Char
      BY <3>1
    <3>4. F[Len(P[k + 1]) + 1] = After(t, k + 1)
      <4>1. k + 1 \in T
        BY <1>8, <3>1
      <4> QED
        BY <4>1
    <3>5. <<c>> \o After(t, k + 1) = After(t, k)
      BY <1>2, <2>2, AfterIs
    <3>6. /\ Len(P[k]) \in Nat /\ Len(P[k + 1]) = Len(P[k]) + Len(e) /\ Len(P[k + 1]) <= Len(text)
          /\ \A d \in 1 .. Len(e) : text[Len(P[k]) + d] = e[d]
      BY <3>2, Zenon DEF Piece, text
    <3> HIDE DEF e, c
    <3>7. ASSUME e = <<"+">>, c = "blank" PROVE F[i] = After(t, k)
      <4>1. Len(e) = 1 /\ e[1] = "+"
        BY <3>7
      <4>2. i \in 1 .. n /\ ~(i > Len(text)) /\ text[i] = "+" /\ Len(P[k + 1]) + 1 = i + 1
        BY <1>2, <3>6, <4>1
      <4>3. F[i] = <<"blank">> \o F[i + 1]
        BY <1>7, <4>2
      <4> QED
        BY <3>4, <3>5, <3>7, <4>2, <4>3
    <3>8. ASSUME e = <<c>>, c \notin {"blank", "&", "=", "%", "+"} PROVE F[i] = After(t, k)
      <4>1. Len(e) = 1 /\ e[1] = c
        BY <3>8
      <4>2. i \in 1 .. n /\ ~(i > Len(text)) /\ text[i] = c /\ Len(P[k + 1]) + 1 = i + 1
        BY <1>2, <3>6, <4>1
      <4>3. F[i] = <<c>> \o F[i + 1]
        BY <1>7, <3>8, <4>2
      <4> QED
        BY <3>4, <3>5, <4>2, <4>3
    <3>9. ASSUME NEW a, NEW b, e = <<"%", a, b>>, Unhex(a, b) = c PROVE F[i] = After(t, k)
      <4>1. Len(e) = 3 /\ e[1] = "%" /\ e[2] = a /\ e[3] = b
        BY <3>9
      <4>2. /\ i \in 1 .. n /\ ~(i > Len(text)) /\ text[i] = "%" /\ Len(P[k + 1]) + 1 = i + 3
            /\ text[i + 1] = a /\ text[i + 2] = b
        BY <1>2, <3>6, <4>1
      <4>3. F[i] = <<Unhex(text[i + 1], text[i + 2])>> \o F[i + 3]
        BY <1>7, <4>2
      <4> QED
        BY <3>4, <3>5, <3>9, <4>2, <4>3
    <3>10. F[i] = After(t, k)
      BY <3>3, <3>7, <3>8, <3>9, EncodedIs, Zenon DEF e
    <3> QED
      BY <3>10
  <2> QED
    BY <2>1, <2>2
<1> HIDE DEF T
<1>9. 0 \in T
  <2>1. \A k \in 0 .. Len(t) : (\A j \in k + 1 .. Len(t) : j \in T) => k \in T
    BY <1>8, Zenon
  <2>2. \A k \in 0 .. Len(t) : k \in T
    BY <1>2, <2>1, FromTheEnd, Zenon
  <2> QED
    BY <1>2, <2>2
<1>10. F[1] = After(t, 0)
  <2>1. Len(P[0]) + 1 = 1
    BY <1>1 DEF Begins
  <2> QED
    BY <1>9, <2>1 DEF T
<1> QED
  BY <1>3, <1>10, AfterIs

(* A number is written as it is. *)
LEMMA NumberWritten ==
  ASSUME NEW t \in Seq(Char), \A i \in 1 .. Len(t) : t[i] \notin {"blank", "&", "=", "%", "+"}
  PROVE  Written(t) = t
<1> DEFINE n == Len(t)
           W == Written(t)
<1>1. PICK P : Begins(P, t) /\ \A k \in 0 .. n : Clean(P[k]) /\ Len(P[k]) \in k .. 3 * k
  BY WrittenIs
<1>2. n \in Nat /\ W = P[n] /\ P[0] = << >>
  BY <1>1 DEF Begins
<1>3. W \in Seq(Char)
  BY <1>1, <1>2 DEF Clean
<1>4. ASSUME NEW k \in 0 .. n - 1
      PROVE  Len(P[k + 1]) = Len(P[k]) + 1 /\ W[Len(P[k]) + 1] = t[k + 1]
  <2>1. Piece(P, t, k)
    <3>1. \A j \in 0 .. Len(t) : Clean(P[j])
      BY <1>1
    <3> QED
      BY <1>1, <3>1, PieceIs, Zenon
  <2> DEFINE c == t[k + 1]
  <2>2. c \in Char /\ c \notin {"blank", "&", "=", "%", "+"}
    <3>1. k + 1 \in 1 .. Len(t)
      BY <1>2
    <3> QED
      BY <3>1
  <2>3. Encoded(c) = <<c>>
    <3> HIDE DEF c
    <3>1. c \notin DOMAIN Hex /\ c # "blank"
      BY <2>2 DEF Hex
    <3> QED
      BY <3>1, Zenon DEF Encoded
  <2>4. Len(<<c>>) = 1 /\ <<c>>[1] = c
    OBVIOUS
  <2>5. Len(Encoded(c)) = 1 /\ Encoded(c)[1] = c
    BY <2>3, <2>4, Zenon
  <2>6. /\ Len(P[k + 1]) = Len(P[k]) + Len(Encoded(c))
        /\ \A d \in 1 .. Len(Encoded(c)) : W[Len(P[k]) + d] = Encoded(c)[d]
    BY <2>1, Zenon DEF Piece
  <2> HIDE DEF c, W
  <2>7. Len(P[k + 1]) = Len(P[k]) + 1 /\ W[Len(P[k]) + 1] = c
    BY <2>5, <2>6
  <2> QED
    BY <2>7 DEF c
<1> HIDE DEF W
<1> DEFINE T == {k \in 0 .. n : Len(P[k]) = k}
<1>5. \A k \in 0 .. n : k \in T
  <2>1. 0 \in T
    BY <1>2
  <2>2. ASSUME NEW k \in 1 .. n, k - 1 \in T PROVE k \in T
    <3>1. k - 1 \in 0 .. n - 1 /\ (k - 1) + 1 = k
      BY <1>2
    <3>2. Len(P[k]) = Len(P[k - 1]) + 1
      <4>1. Len(P[(k - 1) + 1]) = Len(P[k - 1]) + 1
        BY <1>4, <3>1, Zenon
      <4> QED
        BY <3>1, <4>1, Zenon
    <3> QED
      BY <2>2, <3>1, <3>2
  <2>3. \A k \in 1 .. n : k - 1 \in T => k \in T
    BY <2>2, Zenon
  <2> HIDE DEF T
  <2> QED
    BY <1>2, <2>1, <2>3, UpTo, Zenon
<1>6. Len(W) = n
  <2>1. n \in T
    BY <1>2, <1>5
  <2> QED
    BY <1>2, <2>1
<1>7. ASSUME NEW i \in 1 .. n PROVE W[i] = t[i]
  <2>1. i - 1 \in 0 .. n - 1 /\ i - 1 \in 0 .. n
    BY <1>2
  <2>2. Len(P[i - 1]) = i - 1
    BY <1>5, <2>1
  <2>3. W[Len(P[i - 1]) + 1] = t[(i - 1) + 1]
    BY <1>4, <2>1, Zenon
  <2>4. (i - 1) + 1 = i
    OBVIOUS
  <2> QED
    BY <2>2, <2>3, <2>4, Zenon
<1>8. W = t
  BY <1>3, <1>6, <1>7
<1> QED
  BY <1>8 DEF W

(* Texts in which a name is not: put together, before a part, in a part.     *)
Silent(s, c) == s \in Seq(Char) /\ \A i \in 1 .. Len(s) : Quiet(s, c, i)

Joined(q, s, r) ==
  /\ q \in Seq(Char) /\ Len(q) = Len(s) + Len(r) /\ Len(s) \in Nat /\ Len(r) \in Nat
  /\ \A i \in 1 .. Len(s) : q[i] = s[i]
  /\ \A i \in 1 .. Len(r) : q[Len(s) + i] = r[i]

LEMMA TwoJoined ==
  ASSUME NEW s \in Seq(Char), NEW r \in Seq(Char)
  PROVE  Joined(s \o r, s, r)
<1> DEFINE q == s \o r
<1>1. q \in Seq(Char) /\ Len(q) = Len(s) + Len(r) /\ Len(s) \in Nat /\ Len(r) \in Nat
  OBVIOUS
<1>2. \A i \in 1 .. Len(s) + Len(r) : q[i] = IF i <= Len(s) THEN s[i] ELSE r[i - Len(s)]
  OBVIOUS
<1> HIDE DEF q
<1>3. \A i \in 1 .. Len(s) : q[i] = s[i]
  BY <1>1, <1>2
<1>4. ASSUME NEW i \in 1 .. Len(r) PROVE q[Len(s) + i] = r[i]
  <2>1. Len(s) + i \in 1 .. Len(s) + Len(r) /\ ~(Len(s) + i <= Len(s)) /\ (Len(s) + i) - Len(s) = i
    BY <1>1
  <2> QED
    BY <1>2, <2>1
<1>5. Joined(q, s, r)
  BY <1>1, <1>3, <1>4 DEF Joined
<1> QED
  BY <1>5 DEF q

LEMMA SilentTwo ==
  ASSUME NEW c, NEW s, NEW r, Silent(s, c), Silent(r, c)
  PROVE  Silent(s \o r, c)
<1> DEFINE q == s \o r
<1>1. s \in Seq(Char) /\ r \in Seq(Char)
  BY DEF Silent
<1>2. /\ q \in Seq(Char) /\ Len(q) = Len(s) + Len(r) /\ Len(s) \in Nat /\ Len(r) \in Nat
      /\ \A i \in 1 .. Len(s) : q[i] = s[i]
      /\ \A i \in 1 .. Len(r) : q[Len(s) + i] = r[i]
  BY <1>1, TwoJoined, Zenon DEF Joined
<1> HIDE DEF q
<1>3. ASSUME NEW i \in 1 .. Len(q) PROVE Quiet(q, c, i)
  <2>1. CASE i <= Len(s)
    <3>1. i \in 1 .. Len(s) /\ Quiet(s, c, i) /\ q[i] = s[i]
      BY <1>2, <2>1 DEF Silent
    <3>2. i >= 3 => q[i - 1] = s[i - 1] /\ q[i - 2] = s[i - 2]
      BY <1>2, <2>1
    <3> QED
      BY <3>1, <3>2 DEF Quiet
  <2>2. CASE ~(i <= Len(s))
    <3> DEFINE j == i - Len(s)
    <3>1. j \in 1 .. Len(r) /\ i = Len(s) + j
      BY <1>2, <2>2
    <3>2. Quiet(r, c, j) /\ q[i] = r[j]
      BY <1>2, <3>1 DEF Silent
    <3>3. ASSUME j >= 3 PROVE i >= 3 /\ q[i - 1] = r[j - 1] /\ q[i - 2] = r[j - 2]
      <4>1. /\ j - 1 \in 1 .. Len(r) /\ j - 2 \in 1 .. Len(r)
            /\ i - 1 = Len(s) + (j - 1) /\ i - 2 = Len(s) + (j - 2) /\ i >= 3
        BY <1>2, <3>1, <3>3
      <4>2. q[Len(s) + (j - 1)] = r[j - 1] /\ q[Len(s) + (j - 2)] = r[j - 2]
        BY <1>2, <4>1, Zenon
      <4> QED
        BY <4>1, <4>2, Zenon
    <3> HIDE DEF j
    <3> QED
      BY <3>2, <3>3 DEF Quiet
  <2> QED
    BY <2>1, <2>2
<1>4. Silent(q, c)
  BY <1>2, <1>3 DEF Silent
<1> QED
  BY <1>4 DEF q

LEMMA SilentNone == ASSUME NEW c PROVE Silent(<< >>, c)
<1>1. << >> \in Seq(Char) /\ Len(<< >>) = 0
  OBVIOUS
<1> QED
  BY <1>1 DEF Silent

LEMMA SilentClean ==
  ASSUME NEW c, NEW w, Clean(w)
  PROVE  Silent(w, c)
BY DEF Silent, Clean, Quiet

(* A mark, the letters of a name, the sign after it. *)
LEMMA NameIs ==
  ASSUME NEW m \in Char, NEW name \in Seq(Char)
  PROVE  LET s == <<m>> \o name \o <<"=">> IN
         /\ s \in Seq(Char) /\ Len(s) = Len(name) + 2 /\ s[1] = m /\ s[Len(name) + 2] = "="
         /\ \A i \in 1 .. Len(name) : s[i + 1] = name[i]
<1> DEFINE u == <<m>> \o name
           s == u \o <<"=">>
           n == Len(name)
<1>1. "=" \in Char /\ n \in Nat
  BY DEF Char
<1>2. u \in Seq(Char) /\ Len(u) = n + 1
  OBVIOUS
<1>3. u[1] = m /\ \A i \in 1 .. n : u[i + 1] = name[i]
  <2>1. \A i \in 1 .. n + 1 : u[i] = IF i = 1 THEN m ELSE name[i - 1]
    OBVIOUS
  <2>2. ASSUME NEW i \in 1 .. n PROVE u[i + 1] = name[i]
    <3>1. i + 1 \in 1 .. n + 1 /\ i + 1 # 1 /\ (i + 1) - 1 = i
      BY <1>1
    <3> QED
      BY <2>1, <3>1
  <2>3. u[1] = m
    BY <1>1, <2>1
  <2> QED
    BY <2>2, <2>3
<1> HIDE DEF u, n
<1>4. s \in Seq(Char) /\ Len(s) = n + 2
  BY <1>1, <1>2
<1>5. \A i \in 1 .. n + 2 : s[i] = IF i <= n + 1 THEN u[i] ELSE "="
  BY <1>1, <1>2
<1> HIDE DEF s
<1>6. s[1] = m /\ s[n + 2] = "=" /\ \A i \in 1 .. n : s[i + 1] = name[i]
  BY <1>1, <1>3, <1>5
<1> QED
  BY <1>4, <1>6 DEF s, u, n

Headed(s, m, d) == s \in Seq(Char) /\ Len(s) = 3 /\ s[1] = m /\ s[2] = d /\ s[3] = "="

LEMMA LetterIs ==
  ASSUME NEW m \in Char, NEW d \in Char
  PROVE  Headed(<<m>> \o <<d>> \o <<"=">>, m, d)
<1> DEFINE name == <<d>>
           s == <<m>> \o name \o <<"=">>
<1>1. name \in Seq(Char) /\ Len(name) = 1 /\ name[1] = d
  OBVIOUS
<1> HIDE DEF name
<1>2. /\ s \in Seq(Char) /\ Len(s) = Len(name) + 2 /\ s[1] = m /\ s[Len(name) + 2] = "="
      /\ \A i \in 1 .. Len(name) : s[i + 1] = name[i]
  BY <1>1, NameIs, Zenon
<1> HIDE DEF s
<1>3. s \in Seq(Char) /\ Len(s) = 3 /\ s[1] = m /\ s[2] = d /\ s[3] = "="
  BY <1>1, <1>2
<1> QED
  BY <1>3, Zenon DEF Headed, s, name

(* A part for another field says nothing of the name. *)
LEMMA NameSilent ==
  ASSUME NEW c \in Letters, NEW field \in DOMAIN Named, Named[field] # <<c>>, NEW m \in Marks
  PROVE  Silent(<<m>> \o Named[field] \o <<"=">>, c)
<1>1. m \in Char /\ c \in Char /\ "=" \in Char /\ m \notin {"blank", "="}
  BY DEF Char, Marks, Letters
<1>2. ASSUME NEW d \in Letters, Named[field] = <<d>>
      PROVE  Silent(<<m>> \o Named[field] \o <<"=">>, c)
  <2>1. d # c
    BY <1>2
  <2>2. d \in Char /\ d \notin {"blank", "="}
    BY DEF Char, Letters
  <2> DEFINE s == <<m>> \o <<d>> \o <<"=">>
  <2>3. /\ s \in Seq(Char) /\ Len(s) = 3 /\ s[1] = m /\ s[2] = d /\ s[3] = "="
    BY <1>1, <2>2, LetterIs, Zenon DEF Headed
  <2> HIDE DEF s
  <2>4. \A i \in 1 .. 3 : Quiet(s, c, i)
    <3>1. Quiet(s, c, 1)
      BY <1>1, <2>3 DEF Quiet
    <3>2. Quiet(s, c, 2)
      BY <2>2, <2>3 DEF Quiet
    <3>3. Quiet(s, c, 3)
      BY <2>1, <2>3 DEF Quiet
    <3>4. \A i \in 1 .. 3 : i = 1 \/ i = 2 \/ i = 3
      OBVIOUS
    <3> QED
      BY <3>1, <3>2, <3>3, <3>4, Zenon
  <2>5. Silent(s, c)
    BY <2>3, <2>4 DEF Silent
  <2> QED
    BY <1>2, <2>5, Zenon DEF s
<1>3. CASE Named[field] = <<"d", "a">>
  <2> DEFINE name == <<"d", "a">>
             s == <<m>> \o name \o <<"=">>
  <2>1. "d" \in Char /\ "a" \in Char
    BY DEF Char
  <2>2. name \in Seq(Char) /\ Len(name) = 2 /\ name[1] = "d" /\ name[2] = "a"
    BY <2>1
  <2> HIDE DEF name
  <2>3. s \in Seq(Char) /\ Len(s) = 4 /\ s[1] = m /\ s[2] = "d" /\ s[3] = "a" /\ s[4] = "="
    <3>1. /\ s \in Seq(Char) /\ Len(s) = Len(name) + 2 /\ s[1] = m /\ s[Len(name) + 2] = "="
          /\ \A i \in 1 .. Len(name) : s[i + 1] = name[i]
      BY <1>1, <2>2, NameIs, Zenon
    <3> HIDE DEF s
    <3> QED
      BY <2>2, <3>1
  <2> HIDE DEF s
  <2>4. \A i \in 1 .. 4 : Quiet(s, c, i)
    <3>1. Quiet(s, c, 1)
      BY <1>1, <2>3 DEF Quiet
    <3>2. Quiet(s, c, 2)
      BY <2>3 DEF Quiet
    <3>3. Quiet(s, c, 3)
      BY <2>3 DEF Quiet
    <3>4. Quiet(s, c, 4)
      BY <2>3 DEF Quiet, Marks
    <3>5. \A i \in 1 .. 4 : i = 1 \/ i = 2 \/ i = 3 \/ i = 4
      OBVIOUS
    <3> QED
      BY <3>1, <3>2, <3>3, <3>4, <3>5, Zenon
  <2>5. Silent(s, c)
    BY <2>3, <2>4 DEF Silent
  <2> QED
    BY <1>3, <2>5, Zenon DEF s, name
<1>4. Named[field] = <<"d", "a">> \/ \E d \in Letters : Named[field] = <<d>>
  BY DEF Named, Letters
<1> QED
  BY <1>2, <1>3, <1>4, Zenon

LEMMA PartSilent ==
  ASSUME NEW c \in Letters, NEW field \in DOMAIN Named, Named[field] # <<c>>, NEW m \in Marks,
         NEW value, Clean(Written(value))
  PROVE  Silent(Part(m, field, value), c)
<1> DEFINE named == <<m>> \o Named[field] \o <<"=">>
           w == Written(value)
<1>1. Silent(named, c)
  BY NameSilent, Zenon
<1>2. Silent(w, c)
  BY SilentClean, Zenon
<1>3. CASE field \in Boxes /\ value = << >>
  BY <1>3, SilentNone, Zenon DEF Part
<1>4. CASE ~(field \in Boxes /\ value = << >>)
  <2>1. Part(m, field, value) = named \o w
    BY <1>4, Zenon DEF Part
  <2> HIDE DEF named, w
  <2> QED
    BY <1>1, <1>2, <2>1, SilentTwo, Zenon
<1> QED
  BY <1>3, <1>4, Zenon

(* What may come after a value. *)
Opens(s) == s \in Seq(Char) /\ (s # << >> => s[1] = "&")

LEMMA OpensTwo ==
  ASSUME NEW s, NEW r, Opens(s), Opens(r)
  PROVE  Opens(s \o r)
<1>1. s \in Seq(Char) /\ r \in Seq(Char)
  BY DEF Opens
<1>2. s \o r \in Seq(Char) /\ Len(s) \in Nat /\ Len(r) \in Nat
  BY <1>1
<1>3. CASE s = << >>
  <2>1. << >> \o r = r
    BY <1>1
  <2> QED
    BY <1>3, <2>1, Zenon
<1>4. CASE s # << >>
  <2>1. Len(s) >= 1 /\ s[1] = "&"
    BY <1>1, <1>4 DEF Opens
  <2>2. (s \o r)[1] = s[1]
    BY <1>1, <2>1
  <2> QED
    BY <1>2, <2>1, <2>2 DEF Opens
<1> QED
  BY <1>3, <1>4

LEMMA OpensPart ==
  ASSUME NEW field \in DOMAIN Named, NEW value, Clean(Written(value))
  PROVE  Opens(Part("&", field, value))
<1> DEFINE w == Written(value)
           d == Named[field]
<1>1. w \in Seq(Char)
  BY DEF Clean
<1>2. d \in Seq(Char)
  <2>1. "P" \in Char /\ "L" \in Char /\ "d" \in Char /\ "a" \in Char /\ "i" \in Char /\ "h" \in Char
        /\ "u" \in Char /\ "c" \in Char
    BY DEF Char
  <2>2. d = <<"d", "a">> \/ \E x \in Letters : d = <<x>>
    BY DEF Named, Letters
  <2> HIDE DEF d
  <2>3. \A x \in Letters : x \in Char
    BY DEF Char, Letters
  <2>4. \A x \in Char : <<x>> \in Seq(Char)
    OBVIOUS
  <2>5. <<"d", "a">> \in Seq(Char)
    BY <2>1
  <2> QED
    BY <2>2, <2>3, <2>4, <2>5, Zenon
<1>3. "&" \in Char /\ "=" \in Char
  BY DEF Char
<1>4. CASE field \in Boxes /\ value = << >>
  <2>1. Part("&", field, value) = << >>
    BY <1>4, Zenon DEF Part
  <2>2. Opens(<< >>)
    BY DEF Opens
  <2> QED
    BY <2>1, <2>2, Zenon
<1>5. CASE ~(field \in Boxes /\ value = << >>)
  <2>1. Part("&", field, value) = <<"&">> \o d \o <<"=">> \o w
    BY <1>5, Zenon DEF Part
  <2> HIDE DEF d, w
  <2> DEFINE s == <<"&">> \o d \o <<"=">> \o w
  <2>2. s \in Seq(Char) /\ s[1] = "&"
    <3>1. <<"&">> \o d \in Seq(Char) /\ (<<"&">> \o d)[1] = "&" /\ Len(<<"&">> \o d) >= 1
      BY <1>2, <1>3
    <3> DEFINE a == <<"&">> \o d
    <3> HIDE DEF a
    <3>2. a \o <<"=">> \in Seq(Char) /\ (a \o <<"=">>)[1] = "&" /\ Len(a \o <<"=">>) >= 1
      BY <1>3, <3>1 DEF a
    <3> DEFINE b == a \o <<"=">>
    <3> HIDE DEF b
    <3>3. b \o w \in Seq(Char) /\ (b \o w)[1] = "&"
      BY <1>1, <3>2 DEF b
    <3> QED
      BY <3>3, Zenon DEF a, b
  <2> HIDE DEF s
  <2>3. Opens(s)
    BY <2>2 DEF Opens
  <2> QED
    BY <2>1, <2>3, Zenon DEF s
<1> QED
  BY <1>4, <1>5, Zenon

(* A value is found whatever comes before it that is silent of its name, and *)
(* whatever comes after it.                                                  *)
LEMMA FieldFound ==
  ASSUME NEW c \in Letters, NEW m \in Marks, NEW maxlen \in Nat, NEW a, NEW w, NEW b,
         Silent(a, c), Len(a) >= 1, a[1] = "/", Clean(w), Len(w) < maxlen, Opens(b)
  PROVE  find_key_val(a \o (<<m>> \o <<c>> \o <<"=">> \o w) \o b \o <<"blank">>, maxlen, <<c>>) = w
<1> DEFINE s == <<m>> \o <<c>> \o <<"=">>
           p == s \o w
           q == a \o p
           r == q \o b
           str == r \o <<"blank">>
<1>1. m \in Char /\ c \in Char /\ "blank" \in Char /\ m \notin {"blank", "="} /\ c \notin {"blank", "="}
  BY DEF Char, Marks, Letters
<1>2. a \in Seq(Char) /\ w \in Seq(Char) /\ b \in Seq(Char)
  BY DEF Silent, Clean, Opens
<1>3. s \in Seq(Char) /\ Len(s) = 3 /\ s[1] = m /\ s[2] = c /\ s[3] = "="
  <2>1. m \in Char /\ c \in Char
    BY <1>1
  <2>2. Headed(s, m, c)
    BY <2>1, LetterIs, Zenon
  <2> HIDE DEF s
  <2> QED
    BY <2>2 DEF Headed
<1> HIDE DEF s
<1> DEFINE na == Len(a)
           nw == Len(w)
           nb == Len(b)
<1>4. na \in Nat /\ nw \in Nat /\ nb \in Nat /\ na >= 1
  BY <1>2
<1>5. /\ p \in Seq(Char) /\ Len(p) = 3 + nw
      /\ \A i \in 1 .. 3 : p[i] = s[i]
      /\ \A i \in 1 .. nw : p[3 + i] = w[i]
  <2>1. Joined(p, s, w)
    BY <1>2, <1>3, TwoJoined, Zenon
  <2> HIDE DEF p
  <2> QED
    BY <1>3, <2>1 DEF Joined
<1> HIDE DEF p
<1>6. Joined(q, a, p)
  BY <1>2, <1>5, TwoJoined, Zenon
<1> HIDE DEF q
<1>7. Joined(r, q, b)
  BY <1>2, <1>6, TwoJoined, Zenon DEF Joined
<1> HIDE DEF r
<1>8. Joined(str, r, <<"blank">>)
  <2>1. <<"blank">> \in Seq(Char)
    BY <1>1
  <2> QED
    BY <1>7, <2>1, TwoJoined, Zenon DEF Joined
<1> HIDE DEF str, na, nw, nb
<1>9. str \in Seq(Char) /\ Len(str) = na + (3 + nw) + nb + 1 /\ str[Len(str)] = "blank"
      /\ Len(q) = na + (3 + nw) /\ Len(r) = na + (3 + nw) + nb
  <2>1. Len(<<"blank">>) = 1 /\ <<"blank">>[1] = "blank"
    OBVIOUS
  <2>2. Len(q) = na + (3 + nw) /\ Len(r) = Len(q) + nb
    BY <1>5, <1>6, <1>7 DEF Joined, na, nb
  <2>3. str \in Seq(Char) /\ Len(str) = Len(r) + 1 /\ str[Len(r) + 1] = "blank"
    <3> DEFINE e == <<"blank">>
    <3>1. Len(e) = 1 /\ e[1] = "blank" /\ Joined(str, r, e)
      BY <1>8, <2>1
    <3> HIDE DEF e
    <3> QED
      BY <3>1 DEF Joined
  <2> QED
    BY <1>4, <2>2, <2>3
<1>10. /\ \A i \in 1 .. na : str[i] = a[i]
       /\ \A i \in 1 .. 3 + nw : str[na + i] = p[i]
       /\ \A i \in 1 .. nb : str[na + (3 + nw) + i] = b[i]
  <2>1. \A i \in 1 .. na + (3 + nw) + nb : str[i] = r[i]
    BY <1>8, <1>9 DEF Joined
  <2>2. \A i \in 1 .. na + (3 + nw) : r[i] = q[i]
    BY <1>7, <1>9 DEF Joined
  <2>3. \A i \in 1 .. nb : r[na + (3 + nw) + i] = b[i]
    BY <1>7, <1>9 DEF Joined, nb
  <2>4. \A i \in 1 .. na : q[i] = a[i]
    BY <1>6 DEF Joined, na
  <2>5. \A i \in 1 .. 3 + nw : q[na + i] = p[i]
    BY <1>5, <1>6 DEF Joined, na
  <2>6. ASSUME NEW i \in 1 .. na PROVE str[i] = a[i]
    <3>1. i \in 1 .. na + (3 + nw) /\ i \in 1 .. na + (3 + nw) + nb
      BY <1>4
    <3> QED
      BY <2>1, <2>2, <2>4, <3>1
  <2>7. ASSUME NEW i \in 1 .. 3 + nw PROVE str[na + i] = p[i]
    <3>1. na + i \in 1 .. na + (3 + nw) /\ na + i \in 1 .. na + (3 + nw) + nb
      BY <1>4
    <3> QED
      BY <2>1, <2>2, <2>5, <3>1
  <2>8. ASSUME NEW i \in 1 .. nb PROVE str[na + (3 + nw) + i] = b[i]
    <3>1. na + (3 + nw) + i \in 1 .. na + (3 + nw) + nb
      BY <1>4
    <3> QED
      BY <2>1, <2>3, <3>1
  <2> QED
    BY <2>6, <2>7, <2>8
<1>11. str[na + 1] = m /\ str[na + 2] = c /\ str[na + 3] = "="
  <2>1. p[1] = m /\ p[2] = c /\ p[3] = "="
    BY <1>3, <1>5
  <2>2. 1 \in 1 .. 3 + nw /\ 2 \in 1 .. 3 + nw /\ 3 \in 1 .. 3 + nw
    BY <1>4
  <2> QED
    BY <1>10, <2>1, <2>2
<1>12. ASSUME NEW k \in 1 .. nw PROVE str[na + 4 + k - 1] = w[k] /\ w[k] \notin Ends
  <2>1. 3 + k \in 1 .. 3 + nw /\ na + 4 + k - 1 = na + (3 + k)
    BY <1>4
  <2>2. p[3 + k] = w[k]
    BY <1>5, <2>1
  <2>3. w[k] \notin Ends
    BY DEF Clean, Ends, nw
  <2> QED
    BY <1>10, <2>1, <2>2, <2>3
<1>13. na + 4 + nw \in 1 .. Len(str) /\ str[na + 4 + nw] \in Ends
  <2>1. na + 4 + nw = na + (3 + nw) + 1 /\ na + 4 + nw \in 1 .. Len(str)
    BY <1>4, <1>9
  <2>2. CASE nb = 0
    <3>1. str[na + 4 + nw] = "blank"
      BY <1>4, <1>9, <2>1, <2>2
    <3> QED
      BY <2>1, <3>1 DEF Ends
  <2>3. CASE nb # 0
    <3>1. b # << >>
      BY <1>2, <2>3 DEF nb
    <3>2. b[1] = "&"
      BY <3>1 DEF Opens
    <3>3. 1 \in 1 .. nb
      BY <1>4, <2>3
    <3>4. str[na + (3 + nw) + 1] = b[1]
      BY <1>10, <3>3
    <3> QED
      BY <2>1, <3>2, <3>4 DEF Ends
  <2> QED
    BY <2>2, <2>3
<1>14. ValueStart(str, <<c>>) = na + 4
  <2> DEFINE j == na + 2
  <2>1. /\ j \in 2 .. Len(str) /\ j + 1 <= Len(str) /\ str[1] = "/"
        /\ str[j - 1] \in Marks /\ str[j] = c /\ str[j + 1] = "="
    <3>1. j - 1 = na + 1 /\ j + 1 = na + 3 /\ j \in 2 .. Len(str) /\ j + 1 <= Len(str)
      BY <1>4, <1>9
    <3>2. str[1] = "/"
      BY <1>4, <1>10 DEF na
    <3> QED
      BY <1>11, <3>1, <3>2
  <2>2. ASSUME NEW i \in 1 .. j PROVE Quiet(str, c, i)
    <3>1. CASE i <= na
      <4>1. i \in 1 .. na /\ str[i] = a[i] /\ Quiet(a, c, i)
        BY <1>4, <1>10, <3>1 DEF Silent, na
      <4>2. ASSUME i >= 3 PROVE str[i - 1] = a[i - 1] /\ str[i - 2] = a[i - 2]
        <5>1. i - 1 \in 1 .. na /\ i - 2 \in 1 .. na
          BY <1>4, <3>1, <4>2
        <5> QED
          BY <1>10, <5>1
      <4> QED
        BY <4>1, <4>2 DEF Quiet
    <3>2. CASE i = na + 1
      BY <1>1, <1>11, <3>2 DEF Quiet
    <3>3. CASE i = na + 2
      BY <1>1, <1>11, <3>3 DEF Quiet
    <3> QED
      BY <1>4, <3>1, <3>2, <3>3
  <2>3. j + 2 = na + 4
    BY <1>4
  <2> HIDE DEF j
  <2>4. ValueStart(str, <<c>>) = j + 2
    BY <1>9, <2>1, <2>2, FoundAt, Zenon
  <2> QED
    BY <2>3, <2>4
<1>15. find_key_val(str, maxlen, <<c>>) = w
  <2> DEFINE first == na + 4
  <2>1. /\ first \in 1 .. Len(str) /\ ValueStart(str, <<c>>) = first /\ first + Len(w) <= Len(str)
        /\ str[first + Len(w)] \in Ends
    BY <1>4, <1>13, <1>14 DEF nw
  <2>2. \A k \in 1 .. Len(w) : str[first + k - 1] = w[k] /\ w[k] \notin Ends
    BY <1>12 DEF nw
  <2> HIDE DEF first
  <2> QED
    BY <1>2, <1>9, <2>1, <2>2, CopiedIs, Zenon
<1> QED
  BY <1>15, Zenon DEF str, r, q, p, s

LEMMA FieldMissing ==
  ASSUME NEW c \in Letters, NEW maxlen \in Nat, NEW a, Silent(a, c), Len(a) >= 1, a[1] = "/"
  PROVE  find_key_val(a \o <<"blank">>, maxlen, <<c>>) = << >>
<1> DEFINE e == <<"blank">>
           str == a \o e
<1>1. a \in Seq(Char) /\ e \in Seq(Char) /\ Len(e) = 1 /\ e[1] = "blank"
  BY DEF Silent, Char
<1> HIDE DEF e
<1>2. Joined(str, a, e)
  BY <1>1, TwoJoined, Zenon
<1> HIDE DEF str
<1>3. /\ str \in Seq(Char) /\ Len(str) = Len(a) + 1 /\ Len(a) \in Nat /\ str[Len(str)] = "blank"
      /\ \A i \in 1 .. Len(a) : str[i] = a[i]
  BY <1>1, <1>2 DEF Joined
<1>4. ASSUME NEW i \in 1 .. Len(str) - 1 PROVE Quiet(str, c, i)
  <2>1. i \in 1 .. Len(a) /\ str[i] = a[i] /\ Quiet(a, c, i)
    BY <1>3 DEF Silent
  <2>2. ASSUME i >= 3 PROVE str[i - 1] = a[i - 1] /\ str[i - 2] = a[i - 2]
    <3>1. i - 1 \in 1 .. Len(a) /\ i - 2 \in 1 .. Len(a)
      BY <1>3, <2>1, <2>2
    <3> QED
      BY <1>3, <3>1
  <2> QED
    BY <2>1, <2>2 DEF Quiet
<1>5. Len(str) >= 1 /\ str[1] = "/"
  BY <1>3
<1>6. ValueStart(str, <<c>>) = 0
  BY <1>3, <1>4, <1>5, NotFound, Zenon
<1>7. find_key_val(str, maxlen, <<c>>) = << >>
  BY <1>6, Zenon DEF find_key_val
<1> QED
  BY <1>7, Zenon DEF str, e

(* An address of four parts, cut before any of them. *)
LEMMA Associative ==
  \A x \in Seq(Char) : \A y \in Seq(Char) : \A z \in Seq(Char) : x \o y \o z = x \o (y \o z)
<1> SUFFICES ASSUME NEW x \in Seq(Char), NEW y \in Seq(Char), NEW z \in Seq(Char)
             PROVE  x \o y \o z = x \o (y \o z)
  BY Zenon
<1> QED
  BY ConcatAssociative

Cuts(h, p1, p2, p3, p4) ==
  /\ h \o (p1 \o p2 \o p3 \o p4) = h \o p1 \o (p2 \o p3 \o p4)
  /\ h \o (p1 \o p2 \o p3 \o p4) = h \o p1 \o p2 \o (p3 \o p4)
  /\ h \o (p1 \o p2 \o p3 \o p4) = h \o p1 \o p2 \o p3 \o p4
  /\ h \o (p1 \o p2 \o p3 \o p4) = h \o p1 \o p2 \o p3 \o p4 \o << >>

LEMMA Regrouped ==
  ASSUME NEW h \in Seq(Char), NEW p1 \in Seq(Char), NEW p2 \in Seq(Char),
         NEW p3 \in Seq(Char), NEW p4 \in Seq(Char)
  PROVE  Cuts(h, p1, p2, p3, p4)
<1> DEFINE S == Seq(Char)
           Cat(x, y) == x \o y
<1>1. \A x \in S : \A y \in S : Cat(x, y) \in S
  OBVIOUS
<1>2. \A x \in S : \A y \in S : \A z \in S : Cat(Cat(x, y), z) = Cat(x, Cat(y, z))
  BY Associative, Zenon
<1>3. \A x \in S : Cat(x, << >>) = x
  OBVIOUS
<1>4. h \in S /\ p1 \in S /\ p2 \in S /\ p3 \in S /\ p4 \in S
  OBVIOUS
<1> HIDE DEF S, Cat
<1> DEFINE all == Cat(h, Cat(Cat(Cat(p1, p2), p3), p4))
<1>5. all = Cat(Cat(h, p1), Cat(Cat(p2, p3), p4))
  BY <1>1, <1>2, <1>4
<1>6. all = Cat(Cat(Cat(h, p1), p2), Cat(p3, p4))
  BY <1>1, <1>2, <1>4
<1>7. all = Cat(Cat(Cat(Cat(h, p1), p2), p3), p4)
  <2>1. Cat(p3, p4) \in S /\ Cat(Cat(h, p1), p2) \in S
    BY <1>1, <1>4
  <2>2. Cat(Cat(Cat(Cat(h, p1), p2), p3), p4) = Cat(Cat(Cat(h, p1), p2), Cat(p3, p4))
    BY <1>2, <1>4, <2>1
  <2> QED
    BY <1>6, <2>2, Zenon
<1>8. all = Cat(Cat(Cat(Cat(Cat(h, p1), p2), p3), p4), << >>)
  BY <1>1, <1>3, <1>4, <1>7
<1> QED
  BY <1>5, <1>6, <1>7, <1>8, Zenon DEF Cat, Cuts

(* What can be typed fits, and is written without the signs that end it.     *)
Limit(field) == IF field \in TextFields THEN Room(field) ELSE 10

Fits(field, v) ==
  /\ v \in Seq(Char) /\ Clean(Written(v)) /\ Len(Written(v)) < Limit(field) /\ Limit(field) \in Nat
  /\ field \notin TextFields => Written(v) = v
  /\ Written(v) = << >> <=> v = << >>

LEMMA DigitIs == \A d \in ToSet(Digits) : d \in Char /\ d \notin {"blank", "&", "=", "%", "+"}
<1>1. ToSet(Digits) = {"0", "1", "2", "3", "4", "5", "6", "7", "8", "9"}
  <2> DEFINE D == Digits
  <2>1. /\ DOMAIN D = 1 .. 10
        /\ D[1] = "0" /\ D[2] = "1" /\ D[3] = "2" /\ D[4] = "3" /\ D[5] = "4"
        /\ D[6] = "5" /\ D[7] = "6" /\ D[8] = "7" /\ D[9] = "8" /\ D[10] = "9"
    BY DEF Digits
  <2> HIDE DEF D
  <2>2. \A i : i \in 1 .. 10 <=> \/ i = 1 \/ i = 2 \/ i = 3 \/ i = 4 \/ i = 5
                                 \/ i = 6 \/ i = 7 \/ i = 8 \/ i = 9 \/ i = 10
    BY SMT
  <2>3. ToSet(D) = {D[i] : i \in 1 .. 10}
    BY <2>1 DEF ToSet
  <2>4. ToSet(D) = {D[1], D[2], D[3], D[4], D[5], D[6], D[7], D[8], D[9], D[10]}
    BY <2>2, <2>3, SMT
  <2> QED
    BY <2>1, <2>4 DEF D
<1> QED
  BY <1>1 DEF Char

LEMMA ValueFits ==
  ASSUME NEW field \in DOMAIN Named, NEW v \in Values(field)
  PROVE  Fits(field, v)
<1>1. ASSUME v \in Seq(Char)
      PROVE  /\ Clean(Written(v)) /\ Len(v) \in Nat /\ Len(Written(v)) \in Len(v) .. 3 * Len(v)
             /\ Written(v) = << >> <=> v = << >>
  <2>1. PICK P : Begins(P, v) /\ \A k \in 0 .. Len(v) : Clean(P[k]) /\ Len(P[k]) \in k .. 3 * k
    BY <1>1, WrittenIs
  <2>2. Len(v) \in Nat /\ Len(v) \in 0 .. Len(v) /\ Written(v) = P[Len(v)]
    BY <1>1, <2>1 DEF Begins
  <2>3. Clean(Written(v)) /\ Len(Written(v)) \in Len(v) .. 3 * Len(v)
    BY <2>1, <2>2
  <2> DEFINE w == Written(v)
  <2>4. w \in Seq(Char)
    BY <2>3 DEF Clean
  <2>5. Len(w) \in Len(v) .. 3 * Len(v)
    BY <2>3
  <2> HIDE DEF w
  <2>6. w = << >> <=> v = << >>
    <3>1. w = << >> <=> Len(w) = 0
      BY <2>4
    <3>2. v = << >> <=> Len(v) = 0
      BY <1>1
    <3>3. Len(w) = 0 <=> Len(v) = 0
      BY <2>2, <2>5
    <3> QED
      BY <3>1, <3>2, <3>3
  <2> QED
    BY <2>2, <2>3, <2>6 DEF w
<1>2. CASE field \in TextFields
  <2>1. v \in Texts
    <3>1. field \notin NumberFields /\ field \notin Boxes
      BY <1>2 DEF TextFields, NumberFields, Boxes
    <3> QED
      BY <1>2, <3>1, Zenon DEF Values
  <2>2. v \in Seq(STRING) /\ 3 * Len(v) < PassLimit /\ 3 * Len(v) < TextLimit
    BY <2>1, FormsAssumption
  <2>3. v \in Seq(Char)
    BY <2>2 DEF Char
  <2>4. PassLimit \in Nat /\ TextLimit \in Nat
    BY FormsAssumption
  <2>5. Limit(field) \in {PassLimit, TextLimit}
    BY <1>2 DEF Limit, Room
  <2>6. Len(Written(v)) < Limit(field) /\ Limit(field) \in Nat
    BY <1>1, <2>2, <2>3, <2>4, <2>5
  <2> QED
    BY <1>1, <1>2, <2>3, <2>6, Zenon DEF Fits
<1>3. CASE field \notin TextFields
  <2>1. v \in Seq(Char) /\ Len(v) < 10 /\ Written(v) = v
    <3>1. v \in Numbers \/ v \in {<< >>, <<"1">>}
      <4>1. field \in NumberFields \/ field \in Boxes
        BY <1>3 DEF Named, TextFields, NumberFields, Boxes
      <4>2. CASE field \in NumberFields
        <5>1. field \notin Boxes
          BY <4>2 DEF Boxes, NumberFields
        <5>2. v \in Numbers
          BY <1>3, <4>2, <5>1, Zenon DEF Values
        <5> QED
          BY <5>2
      <4>3. CASE field \in Boxes
        <5>1. field \notin NumberFields
          BY <4>3 DEF Boxes, NumberFields
        <5>2. v \in {<< >>, <<"1">>}
          BY <1>3, <4>3, <5>1, Zenon DEF Values
        <5> QED
          BY <5>2
      <4> QED
        BY <4>1, <4>2, <4>3
    <3> DEFINE D == ToSet(Digits)
    <3>2. v \in Seq(D) /\ Len(v) < 10
      <4>1. CASE v \in Numbers
        BY <4>1, FormsAssumption
      <4>2. CASE v = << >>
        BY <4>2
      <4>3. CASE v = <<"1">>
        <5>1. Digits[2] = "1" /\ 2 \in DOMAIN Digits
          BY DEF Digits
        <5>2. "1" \in D
          BY <5>1, Zenon DEF ToSet
        <5> HIDE DEF D
        <5> QED
          BY <4>3, <5>2
      <4> QED
        BY <3>1, <4>1, <4>2, <4>3
    <3>3. \A d \in D : d \in Char /\ d \notin {"blank", "&", "=", "%", "+"}
      BY DigitIs
    <3> HIDE DEF D
    <3>4. v \in Seq(Char)
      BY <3>2, <3>3
    <3>5. \A i \in 1 .. Len(v) : v[i] \in D
      BY <3>2
    <3>6. \A i \in 1 .. Len(v) : v[i] \notin {"blank", "&", "=", "%", "+"}
      BY <3>3, <3>5, Zenon
    <3>7. Written(v) = v
      BY <3>4, <3>6, NumberWritten, Zenon
    <3> QED
      BY <3>2, <3>4, <3>7
  <2>2. Limit(field) = 10
    BY <1>3 DEF Limit
  <2>3. Len(Written(v)) < Limit(field) /\ Limit(field) \in Nat
    BY <2>1, <2>2
  <2> QED
    BY <1>1, <2>1, <2>3, Zenon DEF Fits
<1> QED
  BY <1>2, <1>3

(* What comes before a part and says nothing of the name that is looked for.  *)
Starts(a, c) == Silent(a, c) /\ Len(a) >= 1 /\ a[1] = "/"

LEMMA StartsMore ==
  ASSUME NEW c, NEW a, NEW s, Starts(a, c), Silent(s, c)
  PROVE  Starts(a \o s, c)
<1> DEFINE q == a \o s
<1>1. a \in Seq(Char) /\ s \in Seq(Char) /\ Silent(a, c) /\ Len(a) >= 1 /\ a[1] = "/"
  BY DEF Starts, Silent
<1>2. Silent(q, c)
  BY <1>1, SilentTwo, Zenon
<1>3. Joined(q, a, s)
  BY <1>1, TwoJoined, Zenon
<1> HIDE DEF q
<1>4. Len(q) >= 1 /\ q[1] = "/"
  <2>1. 1 \in 1 .. Len(a) /\ Len(q) = Len(a) + Len(s) /\ Len(a) \in Nat /\ Len(s) \in Nat
    BY <1>1, <1>3 DEF Joined
  <2> QED
    BY <1>1, <1>3, <2>1 DEF Joined
<1>5. Starts(q, c)
  BY <1>2, <1>4 DEF Starts
<1> QED
  BY <1>5, Zenon DEF q

Says(q, m, c, w) == q = <<m>> \o <<c>> \o <<"=">> \o w \/ (q = << >> /\ w = << >>)

LEMMA PartFound ==
  ASSUME NEW c \in Letters, NEW m \in Marks, NEW max \in Nat, NEW a, NEW q, NEW b, NEW w,
         Starts(a, c), Clean(w), Len(w) < max, Silent(b, c), Opens(b),
         Says(q, m, c, w)
  PROVE  find_key_val(a \o q \o b \o <<"blank">>, max, <<c>>) = w
<1>1. Silent(a, c) /\ Len(a) >= 1 /\ a[1] = "/"
  BY DEF Starts
<1>2. CASE q = <<m>> \o <<c>> \o <<"=">> \o w
  BY <1>1, <1>2, FieldFound, Zenon
<1>3. CASE q = << >> /\ w = << >>
  <2> DEFINE r == a \o q \o b
  <2>1. Silent(<< >>, c)
    BY SilentNone, Zenon
  <2>2. Starts(r, c)
    BY <1>3, <2>1, StartsMore, Zenon
  <2> HIDE DEF r
  <2>3. Silent(r, c) /\ Len(r) >= 1 /\ r[1] = "/"
    BY <2>2 DEF Starts
  <2>4. find_key_val(r \o <<"blank">>, max, <<c>>) = << >>
    BY <2>3, FieldMissing, Zenon
  <2> QED
    BY <1>3, <2>4, Zenon DEF r
<1> QED
  BY <1>2, <1>3, Zenon DEF Says

(* Every value that is looked for under its name is found as it was written. *)
LEMMA FieldIs ==
  ASSUME NEW page \in Pages, NEW form \in FormsOf[page], NEW k \in 1 .. 4, Order[page][k] # "digital"
  PROVE  LET field == Order[page][k] IN
         find_key_val(Asks(page, Query(page, form)), Limit(field), Sought[field]) = Written(form[field])
<1> DEFINE o == Order[page]
           mark(i) == IF i = 1 THEN "?" ELSE "&"
           p(i) == Part(mark(i), o[i], form[o[i]])
           h == <<"/", page>>
           all == p(1) \o p(2) \o p(3) \o p(4)
<1>1. page \in {"general", "webclient"} /\ 1 .. 4 = DOMAIN o
  BY DEF Pages, Order
<1>2. \A i \in 1 .. 4 : o[i] \in DOMAIN Named
  BY DEF Pages, Order, Named
<1>3. \A i \in 1 .. 4 : \A j \in 1 .. 4 : Named[o[i]] = Named[o[j]] => i = j
  BY DEF Pages, Order, Named
<1>4. \A i \in 1 .. 4 : Fits(o[i], form[o[i]])
  <2> SUFFICES ASSUME NEW i \in 1 .. 4 PROVE Fits(o[i], form[o[i]])
    OBVIOUS
  <2>1. o[i] \in ToSet(o)
    BY <1>1, Zenon DEF ToSet
  <2>2. \A f \in DOMAIN form : form[f] \in Values(f)
    BY DEF FormsOf
  <2>3. DOMAIN form = ToSet(o)
    BY DEF FormsOf
  <2> HIDE DEF o
  <2>4. form[o[i]] \in Values(o[i])
    BY <2>1, <2>2, <2>3, Zenon
  <2> QED
    BY <1>2, <2>4, ValueFits, Zenon
<1>5. Asks(page, Query(page, form)) = h \o all \o <<"blank">>
  BY Zenon DEF Asks, Query
<1>6. PICK c \in Letters : Named[o[k]] = <<c>> /\ Sought[o[k]] = <<c>>
  <2>1. o[k] \in DOMAIN Named \ {"digital"}
    BY <1>2
  <2>2. \A f \in DOMAIN Named \ {"digital"} : \E d \in Letters : Named[f] = <<d>> /\ Sought[f] = <<d>>
    BY DEF Named, Sought, Letters
  <2> QED
    BY <2>1, <2>2, Zenon
<1>7. \A i \in 1 .. 4 : i # k => Silent(p(i), c)
  <2> SUFFICES ASSUME NEW i \in 1 .. 4, i # k PROVE Silent(p(i), c)
    OBVIOUS
  <2>1. Named[o[i]] # <<c>>
    BY <1>3, <1>6
  <2>2. mark(i) \in Marks
    BY DEF Marks
  <2>3. Clean(Written(form[o[i]]))
    BY <1>4, Zenon DEF Fits
  <2> HIDE DEF mark, o
  <2> QED
    BY <1>2, <2>1, <2>2, <2>3, PartSilent, Zenon
<1>8. \A i \in 2 .. 4 : Opens(p(i))
  <2> SUFFICES ASSUME NEW i \in 2 .. 4 PROVE Opens(p(i))
    OBVIOUS
  <2>1. i \in 1 .. 4 /\ mark(i) = "&"
    OBVIOUS
  <2>2. Clean(Written(form[o[i]])) /\ o[i] \in DOMAIN Named
    BY <1>2, <1>4, <2>1, Zenon DEF Fits
  <2> HIDE DEF mark, o
  <2> QED
    BY <2>1, <2>2, OpensPart, Zenon
<1>9. h \in Seq(Char) /\ Len(h) = 2 /\ h[1] = "/" /\ Silent(h, c)
  <2>1. "/" \in Char /\ page \in Char /\ page \notin {"blank", "="}
    BY <1>1 DEF Char
  <2>2. h \in Seq(Char) /\ Len(h) = 2 /\ h[1] = "/" /\ h[2] = page
    BY <2>1
  <2> HIDE DEF h
  <2>3. \A i \in 1 .. 2 : Quiet(h, c, i)
    BY <2>1, <2>2 DEF Quiet
  <2> QED
    BY <2>2, <2>3 DEF Silent
<1> DEFINE field == o[k]
           v == form[field]
           w == Written(v)
           named == <<mark(k)>> \o <<c>> \o <<"=">> \o w
           max == Limit(field)
<1>10. Clean(w) /\ max \in Nat /\ Len(w) < max
  BY <1>4, Zenon DEF Fits
<1>11. p(k) = named \/ (p(k) = << >> /\ w = << >>)
  <2>1. CASE field \in Boxes /\ v = << >>
    <3>1. w = << >>
      BY <1>4, <2>1, Zenon DEF Fits
    <3> QED
      BY <2>1, <3>1, Zenon DEF Part
  <2>2. CASE ~(field \in Boxes /\ v = << >>)
    BY <1>6, <2>2, Zenon DEF Part
  <2> QED
    BY <2>1, <2>2
<1> DEFINE p1 == p(1)
           p2 == p(2)
           p3 == p(3)
           p4 == p(4)
           m == mark(k)
<1>12. m \in Marks
  BY DEF Marks
<1>13. p1 \in Seq(Char) /\ p2 \in Seq(Char) /\ p3 \in Seq(Char) /\ p4 \in Seq(Char)
  <2> SUFFICES ASSUME NEW i \in 1 .. 4 PROVE p(i) \in Seq(Char)
    BY Zenon, SMT
  <2>1. CASE i # k
    <3>1. Silent(p(i), c)
      BY <1>7, <2>1, Zenon
    <3> HIDE DEF p
    <3> QED
      BY <3>1 DEF Silent
  <2>2. CASE i = k /\ p(k) = << >>
    <3> HIDE DEF p
    <3> QED
      BY <2>2
  <2>3. CASE i = k /\ p(k) = named
    <3>1. <<m>> \o <<c>> \o <<"=">> \in Seq(Char) /\ w \in Seq(Char)
      <4>1. m \in Char /\ c \in Char
        BY <1>12 DEF Char, Marks, Letters
      <4>2. Headed(<<m>> \o <<c>> \o <<"=">>, m, c)
        BY <4>1, LetterIs, Zenon
      <4> QED
        BY <1>10, <4>2, Zenon DEF Headed, Clean
    <3> DEFINE s == <<m>> \o <<c>> \o <<"=">>
    <3>2. p(i) = s \o w
      BY <2>3, Zenon
    <3> HIDE DEF p, s, w
    <3> QED
      BY <3>1, <3>2 DEF s
  <2> QED
    BY <1>11, <2>1, <2>2, <2>3, Zenon
<1>14. m \in Marks /\ Starts(h, c)
  <2> HIDE DEF h, m
  <2> QED
    BY <1>9, <1>12 DEF Starts
<1> HIDE DEF mark, o, h, all, field, v, w, max
<1> QED
  <2>1. PICK str : str = h \o all \o <<"blank">> /\ str = Asks(page, Query(page, form))
    BY <1>5, Zenon
  <2> SUFFICES find_key_val(str, max, <<c>>) = w
    BY <1>6, <2>1, Zenon DEF max, field, w, v, o
  <2>2. h \in Seq(Char)
    BY <1>9, Zenon
  <2>3. /\ h \o all = h \o p1 \o (p2 \o p3 \o p4)
        /\ h \o all = h \o p1 \o p2 \o (p3 \o p4)
        /\ h \o all = h \o p1 \o p2 \o p3 \o p4
        /\ h \o all = h \o p1 \o p2 \o p3 \o p4 \o << >>
    <3>1. all = p1 \o p2 \o p3 \o p4
      BY Zenon DEF all
    <3> HIDE DEF p1, p2, p3, p4
    <3>2. Cuts(h, p1, p2, p3, p4)
      BY <1>13, <2>2, Regrouped, Zenon
    <3> QED
      BY <3>1, <3>2, Zenon DEF Cuts
  <2>4. CASE k = 1
    <3>1. Silent(p2, c) /\ Silent(p3, c) /\ Silent(p4, c) /\ Opens(p2) /\ Opens(p3) /\ Opens(p4)
      <4>1. 2 \in 2 .. 4 /\ 3 \in 2 .. 4 /\ 4 \in 2 .. 4 /\ 2 \in 1 .. 4 /\ 3 \in 1 .. 4 /\ 4 \in 1 .. 4
            /\ 2 # k /\ 3 # k /\ 4 # k
        BY <2>4
      <4> QED
        BY <1>7, <1>8, <4>1, Zenon
    <3>2. Says(p1, m, c, w)
      BY <1>11, <2>4, Zenon DEF Says
    <3> HIDE DEF p1, p2, p3, p4, m
    <3> DEFINE b == p2 \o p3 \o p4
    <3>3. Silent(b, c) /\ Opens(b)
      BY <3>1, SilentTwo, OpensTwo, Zenon
    <3>4. str = h \o p1 \o b \o <<"blank">>
      BY <2>1, <2>3, Zenon
    <3> HIDE DEF b
    <3> QED
      BY <1>10, <1>14, <3>2, <3>3, <3>4, PartFound, Zenon
  <2>5. CASE k = 2
    <3>1. Silent(p1, c) /\ Silent(p3, c) /\ Silent(p4, c) /\ Opens(p3) /\ Opens(p4)
      <4>1. 3 \in 2 .. 4 /\ 4 \in 2 .. 4 /\ 1 \in 1 .. 4 /\ 3 \in 1 .. 4 /\ 4 \in 1 .. 4
            /\ 1 # k /\ 3 # k /\ 4 # k
        BY <2>5
      <4> QED
        BY <1>7, <1>8, <4>1, Zenon
    <3>2. Says(p2, m, c, w)
      BY <1>11, <2>5, Zenon DEF Says
    <3> HIDE DEF p1, p2, p3, p4, m
    <3> DEFINE a == h \o p1
               b == p3 \o p4
    <3>3. Silent(b, c) /\ Opens(b) /\ Starts(a, c)
      BY <1>14, <3>1, SilentTwo, OpensTwo, StartsMore, Zenon
    <3>4. str = a \o p2 \o b \o <<"blank">>
      BY <2>1, <2>3, Zenon
    <3> HIDE DEF a, b
    <3> QED
      BY <1>10, <1>14, <3>2, <3>3, <3>4, PartFound, Zenon
  <2>6. CASE k = 3
    <3>1. Silent(p1, c) /\ Silent(p2, c) /\ Silent(p4, c) /\ Opens(p4)
      <4>1. 4 \in 2 .. 4 /\ 1 \in 1 .. 4 /\ 2 \in 1 .. 4 /\ 4 \in 1 .. 4
            /\ 1 # k /\ 2 # k /\ 4 # k
        BY <2>6
      <4> QED
        BY <1>7, <1>8, <4>1, Zenon
    <3>2. Says(p3, m, c, w)
      BY <1>11, <2>6, Zenon DEF Says
    <3> HIDE DEF p1, p2, p3, p4, m
    <3> DEFINE a == h \o p1 \o p2
    <3>3. Starts(a, c)
      BY <1>14, <3>1, StartsMore, Zenon
    <3>4. str = a \o p3 \o p4 \o <<"blank">>
      BY <2>1, <2>3, Zenon
    <3> HIDE DEF a
    <3> QED
      BY <1>10, <1>14, <3>1, <3>2, <3>3, <3>4, PartFound, Zenon
  <2>7. CASE k = 4
    <3>1. Silent(p1, c) /\ Silent(p2, c) /\ Silent(p3, c)
      <4>1. 3 \in 1 .. 4 /\ 1 \in 1 .. 4 /\ 2 \in 1 .. 4 /\ 1 # k /\ 2 # k /\ 3 # k
        BY <2>7
      <4> QED
        BY <1>7, <4>1, Zenon
    <3>2. Says(p4, m, c, w)
      BY <1>11, <2>7, Zenon DEF Says
    <3> HIDE DEF p1, p2, p3, p4, m
    <3> DEFINE a == h \o p1 \o p2 \o p3
               b == << >>
    <3>3. Starts(a, c) /\ Silent(b, c) /\ Opens(b)
      <4>1. << >> \in Seq(Char)
        OBVIOUS
      <4> QED
        BY <1>14, <3>1, <4>1, StartsMore, SilentNone, Zenon DEF Opens
    <3>4. str = a \o p4 \o b \o <<"blank">>
      BY <2>1, <2>3, Zenon
    <3> HIDE DEF a, b
    <3> QED
      BY <1>10, <1>14, <3>2, <3>3, <3>4, PartFound, Zenon
  <2> QED
    BY <2>4, <2>5, <2>6, <2>7

(* What a page gets of the address the browser asks for. *)
LEMMA PageIs ==
  ASSUME NEW page \in Pages, NEW q \in Seq(Char)
  PROVE  Asks(page, q) # << >> /\ Asks(page, q)[2] = page
<1> DEFINE h == <<"/", page>>
           e == <<"blank">>
           a == h \o q
           r == a \o e
<1>1. page \in Char /\ "/" \in Char /\ "blank" \in Char
  BY DEF Pages, Order, Char
<1>2. h \in Seq(Char) /\ Len(h) = 2 /\ h[2] = page /\ e \in Seq(Char) /\ Len(e) = 1
  BY <1>1
<1> HIDE DEF h, e
<1>3. Joined(a, h, q)
  BY <1>2, TwoJoined, Zenon
<1> HIDE DEF a
<1>4. a \in Seq(Char)
  BY <1>3 DEF Joined
<1>5. Joined(r, a, e)
  BY <1>2, <1>4, TwoJoined, Zenon
<1> HIDE DEF r
<1>6. Len(r) >= 2 /\ r[2] = page /\ r \in Seq(Char)
  <2>1. 2 \in 1 .. Len(h) /\ 2 \in 1 .. Len(a) /\ Len(a) >= 2 /\ Len(r) >= 2
    BY <1>2, <1>3, <1>5 DEF Joined
  <2> QED
    BY <1>2, <1>3, <1>5, <2>1 DEF Joined
<1>7. r # << >>
  BY <1>6
<1>8. Asks(page, q) = r
  BY Zenon DEF Asks, r, a, h, e
<1> QED
  BY <1>6, <1>7, <1>8, Zenon

LEMMA FormFits ==
  ASSUME NEW page \in Pages, NEW form \in FormsOf[page], NEW f \in ToSet(Order[page])
  PROVE  Fits(f, form[f]) /\ f \in DOMAIN Named /\ form[f] \in Values(f)
<1> DEFINE o == Order[page]
<1>1. f \in DOMAIN Named
  <2>1. \A i \in DOMAIN o : o[i] \in DOMAIN Named
    BY DEF Pages, Order, Named
  <2> HIDE DEF o
  <2>2. f \in ToSet(o)
    BY DEF o
  <2> QED
    BY <2>1, <2>2 DEF ToSet
<1>2. form[f] \in Values(f)
  <2>1. \A g \in DOMAIN form : form[g] \in Values(g)
    BY DEF FormsOf
  <2>2. DOMAIN form = ToSet(o)
    BY DEF FormsOf
  <2> QED
    BY <2>1, <2>2, Zenon
<1> QED
  BY <1>1, <1>2, ValueFits, Zenon

LEMMA PartIs ==
  ASSUME NEW m \in Marks, NEW field \in DOMAIN Named, NEW value, Clean(Written(value))
  PROVE  Part(m, field, value) \in Seq(Char)
<1>1. PICK c \in Letters : Named[field] # <<c>>
  <2>1. "P" \in Letters /\ "L" \in Letters
    BY DEF Letters
  <2>2. <<"P">> # <<"L">>
    OBVIOUS
  <2>3. Named[field] # <<"P">> \/ Named[field] # <<"L">>
    BY <2>2, Zenon
  <2> QED
    BY <2>1, <2>3, Zenon
<1>2. Silent(Part(m, field, value), c)
  BY <1>1, PartSilent, Zenon
<1> QED
  BY <1>2, Zenon DEF Silent

LEMMA QueryIs ==
  ASSUME NEW page \in Pages, NEW form \in FormsOf[page]
  PROVE  Query(page, form) \in Seq(Char)
<1> DEFINE o == Order[page]
           mark(i) == IF i = 1 THEN "?" ELSE "&"
           p(i) == Part(mark(i), o[i], form[o[i]])
<1>1. ASSUME NEW i \in 1 .. 4 PROVE p(i) \in Seq(Char)
  <2>1. i \in DOMAIN o
    BY DEF Pages, Order
  <2>2. o[i] \in ToSet(o)
    BY <2>1, Zenon DEF ToSet
  <2>3. Fits(o[i], form[o[i]]) /\ o[i] \in DOMAIN Named
    BY <2>2, FormFits, Zenon
  <2>4. mark(i) \in Marks
    BY DEF Marks
  <2> HIDE DEF o, mark
  <2> QED
    BY <2>3, <2>4, PartIs, Zenon DEF Fits
<1>2. Query(page, form) = p(1) \o p(2) \o p(3) \o p(4)
  BY Zenon DEF Query
<1>3. p(1) \in Seq(Char) /\ p(2) \in Seq(Char) /\ p(3) \in Seq(Char) /\ p(4) \in Seq(Char)
  <2>1. 1 \in 1 .. 4 /\ 2 \in 1 .. 4 /\ 3 \in 1 .. 4 /\ 4 \in 1 .. 4
    OBVIOUS
  <2> HIDE DEF p
  <2> QED
    BY <1>1, <2>1, Zenon
<1> HIDE DEF p
<1>4. p(1) \o p(2) \o p(3) \o p(4) \in Seq(Char)
  BY <1>3
<1> QED
  BY <1>2, <1>4, Zenon

(* The value of every field of the page whose form was sent ...               *)
LEMMA Sent ==
  ASSUME NEW page \in Pages, NEW form \in FormsOf[page], request = Asks(page, Query(page, form)),
         NEW f \in ToSet(Order[page]), f # "digital"
  PROVE  Value(f) = Written(form[f])
<1> DEFINE o == Order[page]
<1>1. DOMAIN o = 1 .. 4
  BY DEF Pages, Order
<1>2. PICK k \in 1 .. 4 : o[k] = f
  <2> HIDE DEF o
  <2>1. f \in ToSet(o)
    BY DEF o
  <2> QED
    BY <1>1, <2>1 DEF ToSet
<1>3. find_key_val(Asks(page, Query(page, form)), Limit(f), Sought[f]) = Written(form[f])
  BY <1>2, FieldIs, Zenon
<1> QED
  BY <1>3, Zenon DEF Value, Limit

(* ... and of none when the page is only looked at.                           *)
LEMMA Visited ==
  ASSUME NEW page \in Pages, request = Asks(page, << >>), NEW f \in DOMAIN Named, f # "digital"
  PROVE  Value(f) = << >>
<1>1. PICK c \in Letters : Sought[f] = <<c>>
  <2>1. \A g \in DOMAIN Named \ {"digital"} : \E d \in Letters : Sought[g] = <<d>>
    BY DEF Named, Sought, Letters
  <2> QED
    BY <2>1, Zenon
<1> DEFINE h == <<"/", page>>
           e == <<"blank">>
           max == Limit(f)
<1>2. h \in Seq(Char) /\ Len(h) = 2 /\ h[1] = "/" /\ h[2] = page /\ page \notin {"blank", "="}
  <2>1. "/" \in Char /\ page \in Char /\ page \notin {"blank", "="}
    BY DEF Pages, Order, Char
  <2> QED
    BY <2>1
<1>3. request = h \o e
  <2>1. h \o << >> = h
    BY <1>2
  <2> QED
    BY <2>1, Zenon DEF Asks
<1> HIDE DEF h
<1>4. Silent(h, c)
  <2>1. \A i \in 1 .. 2 : Quiet(h, c, i)
    BY <1>2 DEF Quiet
  <2> QED
    BY <1>2, <2>1 DEF Silent
<1>5. max \in Nat
  <2>1. PassLimit \in Nat /\ TextLimit \in Nat
    BY FormsAssumption
  <2> QED
    BY <2>1 DEF Limit, Room
<1>6. Len(h) >= 1
  BY <1>2
<1> HIDE DEF max
<1>7. find_key_val(h \o e, max, <<c>>) = << >>
  BY <1>2, <1>4, <1>5, <1>6, FieldMissing, Zenon
<1> QED
  BY <1>1, <1>3, <1>7, Zenon DEF Value, Limit, max

(* What a save leaves of the memory: all but the field it is for.             *)
Kept(memory) ==
  DOMAIN memory = DOMAIN Named /\ \A f \in {"host", "url"} : DOMAIN memory[f] = 1 .. TextLimit

Only(memory, after, field) == Kept(after) /\ \A f \in DOMAIN Named \ {field} : after[f] = memory[f]

LEMMA FieldSaved ==
  ASSUME NEW memory, Kept(memory), NEW field \in DOMAIN Named \ {"host", "url"}, NEW n
  PROVE  LET after == [memory EXCEPT ![field] = n] IN
         Only(memory, after, field) /\ after[field] = n
<1> DEFINE after == [memory EXCEPT ![field] = n]
<1>1. field \in DOMAIN memory /\ DOMAIN after = DOMAIN Named
  BY DEF Kept
<1>2. after[field] = n /\ \A f \in DOMAIN Named \ {field} : after[f] = memory[f]
  BY <1>1 DEF Kept
<1>3. "host" \in DOMAIN Named \ {field} /\ "url" \in DOMAIN Named \ {field}
  BY DEF Named
<1> HIDE DEF after
<1>4. Kept(after)
  BY <1>1, <1>2, <1>3 DEF Kept
<1> QED
  BY <1>2, <1>4, Zenon DEF Only, after

LEMMA CgiSaved ==
  ASSUME NEW memory, Kept(memory), NEW field \in DOMAIN Named \ {"host", "url"}
  PROVE  LET after == save_cgivalue_if_found(memory, field) IN
         /\ Only(memory, after, field)
         /\ Value(field) # << >> => after[field] = atoi(Value(field)) % CellValues
<1>1. CASE Value(field) = << >>
  <2>1. save_cgivalue_if_found(memory, field) = memory
    BY <1>1, Zenon DEF save_cgivalue_if_found
  <2>2. Only(memory, memory, field)
    BY Zenon DEF Only
  <2> QED
    BY <1>1, <2>1, <2>2, Zenon
<1>2. CASE Value(field) # << >>
  <2>1. save_cgivalue_if_found(memory, field) = [memory EXCEPT ![field] = atoi(Value(field)) % CellValues]
    BY <1>2, Zenon DEF save_cgivalue_if_found
  <2> DEFINE n == atoi(Value(field)) % CellValues
             after == [memory EXCEPT ![field] = n]
  <2>2. Only(memory, after, field) /\ after[field] = n
    <3> HIDE DEF n
    <3> QED
      BY FieldSaved, Zenon
  <2> HIDE DEF after
  <2> QED
    BY <2>1, <2>2, Zenon DEF after
<1> QED
  BY <1>1, <1>2, Zenon

LEMMA BoxSaved ==
  ASSUME NEW memory, Kept(memory), NEW field \in DOMAIN Named \ {"host", "url"}
  PROVE  LET after == save_checkbox_cgivalue(memory, field) IN
         Only(memory, after, field) /\ after[field] = atoi(Value(field)) % CellValues
BY FieldSaved, Zenon DEF save_checkbox_cgivalue

(* The first 0 in the cells is the one that was saved with the text.          *)
LEMMA TextInIs ==
  ASSUME NEW n \in Nat, NEW S, NEW cells \in [1 .. n -> S], NEW t \in Seq(S), Len(t) < n,
         "nul" \notin ToSet(t), cells[Len(t) + 1] = "nul", \A i \in 1 .. Len(t) : cells[i] = t[i]
  PROVE  TextIn(cells) = t
<1> DEFINE ends == {i \in DOMAIN cells : cells[i] = "nul"} \cup {Len(cells) + 1}
           k == Len(t)
<1>1. k \in Nat /\ DOMAIN cells = 1 .. n /\ cells \in Seq(S) /\ Len(cells) = n
  OBVIOUS
<1>2. \A i \in 1 .. k : t[i] # "nul"
  BY DEF ToSet
<1>3. k + 1 \in ends /\ \A i \in ends : i \in Int /\ k + 1 <= i
  <2>1. k + 1 \in 1 .. n
    BY <1>1
  <2>2. ASSUME NEW i \in 1 .. n, cells[i] = "nul" PROVE k + 1 <= i
    BY <1>1, <1>2, <2>2
  <2> QED
    BY <1>1, <2>1, <2>2
<1> HIDE DEF ends
<1>4. Min(ends) = k + 1
  <2>1. \E x \in ends : \A y \in ends : x <= y
    BY <1>3
  <2>2. Min(ends) \in ends /\ \A y \in ends : Min(ends) <= y
    BY <2>1, Zenon DEF Min
  <2> DEFINE x == Min(ends)
  <2> HIDE DEF x
  <2>3. x \in ends /\ \A y \in ends : x <= y
    BY <2>2 DEF x
  <2>4. x = k + 1
    BY <1>1, <1>3, <2>3
  <2> QED
    BY <2>4 DEF x
<1>5. TextIn(cells) = SubSeq(cells, 1, k)
  <2>1. TextIn(cells) = SubSeq(cells, 1, Min(ends) - 1)
    BY Zenon DEF TextIn, ends
  <2>2. (k + 1) - 1 = k
    BY <1>1
  <2> QED
    BY <1>4, <2>1, <2>2, Zenon
<1>6. SubSeq(cells, 1, k) = t
  <2> DEFINE s == SubSeq(cells, 1, k)
  <2>1. s \in Seq(S) /\ Len(s) = k /\ \A i \in 1 .. k : s[i] = cells[i]
    BY <1>1
  <2> HIDE DEF s
  <2>2. \A i \in 1 .. k : s[i] = t[i]
    BY <2>1
  <2>3. s = t
    BY <1>1, <2>1, <2>2
  <2> QED
    BY <2>3 DEF s
<1> QED
  BY <1>5, <1>6, Zenon

(* A host or an url, whatever comes of it, keeps its cells; one that was      *)
(* written from a text is that text.                                          *)
LEMMA CellsSaved ==
  ASSUME NEW memory, Kept(memory), NEW field \in {"host", "url"}, NEW text, NEW limit
  PROVE  Only(memory, eepromSaveStr(memory, field, text, limit), field)
<1> DEFINE cell(i) == IF i > limit THEN memory[field][i] ELSE IF i <= Len(text) THEN text[i] ELSE "nul"
           cells == [i \in DOMAIN memory[field] |-> cell(i)]
           after == [memory EXCEPT ![field] = cells]
<1>1. field \in DOMAIN Named /\ DOMAIN cells = 1 .. TextLimit
  BY DEF Named, Kept
<1>2. eepromSaveStr(memory, field, text, limit) = after
  BY Zenon DEF eepromSaveStr
<1> HIDE DEF cells
<1>3. /\ DOMAIN after = DOMAIN Named /\ after[field] = cells
      /\ \A f \in DOMAIN Named \ {field} : after[f] = memory[f]
  BY <1>1 DEF Kept
<1> HIDE DEF after
<1>4. Kept(after)
  <2>1. ASSUME NEW f \in {"host", "url"} PROVE DOMAIN after[f] = 1 .. TextLimit
    <3>1. CASE f = field
      BY <1>1, <1>3, <3>1
    <3>2. CASE f # field
      <4>1. f \in DOMAIN Named \ {field}
        BY <3>2 DEF Named
      <4> QED
        BY <1>3, <4>1 DEF Kept
    <3> QED
      BY <3>1, <3>2
  <2> QED
    BY <1>3, <2>1 DEF Kept
<1> QED
  BY <1>2, <1>3, <1>4, Zenon DEF Only

LEMMA TextSaved ==
  ASSUME NEW memory, Kept(memory), NEW field \in {"host", "url"}
  PROVE  LET after == SaveText(memory, field) IN
         /\ Only(memory, after, field)
         /\ \A t \in Texts : t # << >> /\ Value(field) = Written(t) => TextIn(after[field]) = t
<1> DEFINE text == urldecode(Value(field))
           limit == Len(text) + 1
           after == SaveText(memory, field)
<1>1. Only(memory, after, field)
  <2>1. CASE text = << >>
    <3>1. after = memory
      BY <2>1, Zenon DEF SaveText
    <3> QED
      BY <3>1, Zenon DEF Only
  <2>2. CASE text # << >>
    <3>1. after = eepromSaveStr(memory, field, text, limit)
      BY <2>2, Zenon DEF SaveText
    <3> QED
      BY <3>1, CellsSaved, Zenon
  <2> QED
    BY <2>1, <2>2, Zenon
<1>2. ASSUME NEW t \in Texts, t # << >>, Value(field) = Written(t) PROVE TextIn(after[field]) = t
  <2>1. t \in Seq(Char) /\ "nul" \notin ToSet(t) /\ Len(t) < TextLimit /\ TextLimit \in Nat
    <3>1. t \in Seq(STRING) /\ "nul" \notin ToSet(t) /\ 3 * Len(t) < TextLimit /\ TextLimit \in Nat
      BY FormsAssumption
    <3> QED
      BY <3>1 DEF Char
  <2>2. text = t
    BY <1>2, <2>1, DecodedIs, Zenon
  <2>3. after = eepromSaveStr(memory, field, t, Len(t) + 1)
    BY <1>2, <2>2, Zenon DEF SaveText
  <2> DEFINE cell(i) == IF i > Len(t) + 1 THEN memory[field][i] ELSE IF i <= Len(t) THEN t[i] ELSE "nul"
             cells == [i \in DOMAIN memory[field] |-> cell(i)]
  <2>4. after = [memory EXCEPT ![field] = cells]
    BY <2>3, Zenon DEF eepromSaveStr
  <2>5. field \in DOMAIN memory /\ DOMAIN memory[field] = 1 .. TextLimit
    BY DEF Kept, Named
  <2>6. after[field] = cells
    <3> HIDE DEF cells, after
    <3> QED
      BY <2>4, <2>5
  <2> DEFINE S == Char \cup {cell(i) : i \in 1 .. TextLimit}
  <2>7. cells \in [1 .. TextLimit -> S]
    BY <2>5
  <2>8. /\ Len(t) \in Nat /\ cells[Len(t) + 1] = "nul" /\ \A i \in 1 .. Len(t) : cells[i] = t[i]
    <3>1. Len(t) \in Nat /\ 1 .. Len(t) + 1 \subseteq 1 .. TextLimit
      BY <2>1
    <3>2. \A i \in 1 .. Len(t) + 1 : cells[i] = IF i <= Len(t) THEN t[i] ELSE "nul"
      BY <2>5, <3>1
    <3> HIDE DEF cells
    <3> QED
      BY <3>1, <3>2
  <2>9. t \in Seq(S)
    BY <2>1
  <2> HIDE DEF cells, S
  <2>10. TextIn(cells) = t
    BY <2>1, <2>7, <2>8, <2>9, TextInIs, Zenon
  <2> QED
    BY <2>6, <2>10, Zenon
<1> QED
  BY <1>1, <1>2, Zenon

(* What is saved of a form, in a memory.                                      *)
HeldIn(memory, field, text) ==
  IF field \in TextFields THEN TextIn(memory[field]) = text ELSE memory[field] = atoi(text) % CellValues

WebclientIs(form, memory) ==
  /\ \A f \in {"interval", "host", "url"} : form[f] # << >> => HeldIn(memory, f, form[f])
  /\ form["host"] # << >> => HeldIn(memory, "coap", form["coap"])

GeneralIs(form, memory) ==
  form["PASS"] # << >> =>
    /\ HeldIn(memory, "LCD", form["LCD"])
    /\ form["analog"] # << >> => HeldIn(memory, "analog", form["analog"])

WebclientFields == {"interval", "host", "url", "coap"}
GeneralFields == {"PASS", "LCD", "digital", "analog"}

Same(memory, after, fields) == Kept(after) /\ \A f \in fields : after[f] = memory[f]

LEMMA FieldsAre ==
  /\ ToSet(Order["webclient"]) = WebclientFields /\ ToSet(Order["general"]) = GeneralFields
  /\ DOMAIN Named = WebclientFields \cup GeneralFields
  /\ Pages = {"general", "webclient"}
<1>1. /\ ToSet(<<"interval", "host", "url", "coap">>) = WebclientFields
      /\ ToSet(<<"PASS", "LCD", "digital", "analog">>) = GeneralFields
  <2>1. \A i : i \in 1 .. 4 <=> i = 1 \/ i = 2 \/ i = 3 \/ i = 4
    BY SMT
  <2>2. ASSUME NEW a, NEW b, NEW c, NEW d PROVE ToSet(<<a, b, c, d>>) = {a, b, c, d}
    <3> DEFINE s == <<a, b, c, d>>
    <3>1. DOMAIN s = 1 .. 4 /\ s[1] = a /\ s[2] = b /\ s[3] = c /\ s[4] = d
      OBVIOUS
    <3> HIDE DEF s
    <3>2. ToSet(s) = {s[i] : i \in 1 .. 4}
      BY <3>1 DEF ToSet
    <3>3. ToSet(s) = {s[1], s[2], s[3], s[4]}
      BY <2>1, <3>2, SMT
    <3> QED
      BY <3>1, <3>3 DEF s
  <2>3. /\ ToSet(<<"interval", "host", "url", "coap">>) = {"interval", "host", "url", "coap"}
        /\ ToSet(<<"PASS", "LCD", "digital", "analog">>) = {"PASS", "LCD", "digital", "analog"}
    BY <2>2
  <2> QED
    BY <2>3 DEF WebclientFields, GeneralFields
<1>2. /\ Order["webclient"] = <<"interval", "host", "url", "coap">>
      /\ Order["general"] = <<"PASS", "LCD", "digital", "analog">>
  BY DEF Order
<1>3. DOMAIN Named = WebclientFields \cup GeneralFields /\ Pages = {"general", "webclient"}
  BY DEF Named, WebclientFields, GeneralFields, Pages, Order
<1> QED
  BY <1>1, <1>2, <1>3, Zenon

LEMMA WebclientSaves ==
  ASSUME Kept(saved), NEW form \in FormsOf["webclient"],
         request = Asks("webclient", Query("webclient", form))
  PROVE  Same(saved, Webclient, GeneralFields) /\ WebclientIs(form, Webclient)
<1> DEFINE m1 == save_cgivalue_if_found(saved, "interval")
           box == save_checkbox_cgivalue(m1, "coap")
           m2 == HostAndBox(m1)
           m3 == SaveText(m2, "url")
<1>1. \A f \in WebclientFields : Value(f) = Written(form[f]) /\ Fits(f, form[f]) /\ form[f] \in Values(f)
  <2> SUFFICES ASSUME NEW f \in WebclientFields
               PROVE  Value(f) = Written(form[f]) /\ Fits(f, form[f]) /\ form[f] \in Values(f)
    OBVIOUS
  <2>1. "webclient" \in Pages /\ f \in ToSet(Order["webclient"]) /\ f # "digital"
    <3>1. f # "digital"
      BY DEF WebclientFields
    <3> QED
      BY <3>1, FieldsAre
  <2> QED
    BY <2>1, Sent, FormFits, Zenon
<1>2. /\ "interval" \in DOMAIN Named \ {"host", "url"} /\ "coap" \in DOMAIN Named \ {"host", "url"}
      /\ "host" \in DOMAIN Named /\ "url" \in DOMAIN Named
  BY DEF Named
<1>3. /\ Only(saved, m1, "interval")
      /\ Value("interval") # << >> => m1["interval"] = atoi(Value("interval")) % CellValues
  BY <1>2, CgiSaved, Zenon
<1>4. Kept(m1)
  BY <1>3, Zenon DEF Only
<1> HIDE DEF m1
<1>5. /\ Kept(m2) /\ \A f \in DOMAIN Named \ {"host", "coap"} : m2[f] = m1[f]
      /\ form["host"] # << >> =>
           TextIn(m2["host"]) = form["host"] /\ m2["coap"] = atoi(Value("coap")) % CellValues
  <2>1. CASE Value("host") = << >>
    <3>1. m2 = m1
      BY <2>1, Zenon DEF HostAndBox
    <3>2. form["host"] = << >>
      <4>1. "host" \in WebclientFields
        BY DEF WebclientFields
      <4> QED
        BY <1>1, <2>1, <4>1, Zenon DEF Fits
    <3> HIDE DEF m2
    <3> QED
      BY <1>4, <3>1, <3>2
  <2>2. CASE Value("host") # << >>
    <3>1. Only(m1, box, "coap") /\ box["coap"] = atoi(Value("coap")) % CellValues
      BY <1>2, <1>4, BoxSaved, Zenon
    <3>2. Kept(box)
      BY <3>1, Zenon DEF Only
    <3> HIDE DEF box
    <3>3. m2 = SaveText(box, "host")
      BY <2>2, Zenon DEF HostAndBox, box
    <3>4. /\ Only(box, m2, "host")
          /\ \A t \in Texts : t # << >> /\ Value("host") = Written(t) => TextIn(m2["host"]) = t
      BY <3>2, <3>3, TextSaved, Zenon
    <3> HIDE DEF m2
    <3>5. form["host"] # << >> => TextIn(m2["host"]) = form["host"]
      <4>1. "host" \in WebclientFields /\ "host" \in TextFields
        BY DEF WebclientFields, TextFields
      <4>2. form["host"] \in Texts
        BY <1>1, <4>1, Zenon DEF Values, TextFields, NumberFields, Boxes
      <4> QED
        BY <1>1, <3>4, <4>1, <4>2, Zenon
    <3>6. m2["coap"] = box["coap"] /\ \A f \in DOMAIN Named \ {"host", "coap"} : m2[f] = m1[f]
      BY <1>2, <3>1, <3>4 DEF Only
    <3> QED
      BY <3>1, <3>4, <3>5, <3>6, Zenon DEF Only
  <2> QED
    BY <2>1, <2>2, Zenon
<1> HIDE DEF m2
<1>6. Only(m2, m3, "url") /\ \A t \in Texts : t # << >> /\ Value("url") = Written(t) => TextIn(m3["url"]) = t
  BY <1>5, TextSaved, Zenon
<1>7. Webclient = m3
  BY Zenon DEF Webclient, m3, m2, m1
<1> HIDE DEF m3
<1>8. Same(saved, m3, GeneralFields)
  <2>1. ASSUME NEW f \in GeneralFields PROVE m3[f] = saved[f]
    <3>1. f \in DOMAIN Named /\ f \notin {"url", "host", "coap", "interval"}
      BY FieldsAre DEF GeneralFields
    <3> QED
      BY <1>3, <1>5, <1>6, <3>1 DEF Only
  <2> QED
    BY <1>6, <2>1, Zenon DEF Same, Only
<1>9. m3["interval"] = m1["interval"] /\ m3["host"] = m2["host"] /\ m3["coap"] = m2["coap"]
  BY <1>2, <1>5, <1>6 DEF Only
<1>10. form["interval"] # << >> => HeldIn(m3, "interval", form["interval"])
  <2>1. "interval" \in WebclientFields /\ "interval" \notin TextFields
    BY DEF WebclientFields, TextFields
  <2>2. Value("interval") = form["interval"]
    BY <1>1, <2>1, Zenon DEF Fits
  <2> QED
    BY <1>3, <1>9, <2>1, <2>2, Zenon DEF HeldIn
<1>11. form["host"] # << >> => HeldIn(m3, "host", form["host"]) /\ HeldIn(m3, "coap", form["coap"])
  <2>1. "coap" \in WebclientFields /\ "coap" \notin TextFields /\ "host" \in TextFields
    BY DEF WebclientFields, TextFields
  <2>2. Value("coap") = form["coap"]
    BY <1>1, <2>1, Zenon DEF Fits
  <2> QED
    BY <1>5, <1>9, <2>1, <2>2, Zenon DEF HeldIn
<1>12. form["url"] # << >> => HeldIn(m3, "url", form["url"])
  <2>1. "url" \in WebclientFields /\ "url" \in TextFields
    BY DEF WebclientFields, TextFields
  <2>2. form["url"] \in Texts
    BY <1>1, <2>1, Zenon DEF Values, TextFields, NumberFields, Boxes
  <2> QED
    BY <1>1, <1>6, <2>1, <2>2, Zenon DEF HeldIn
<1> QED
  BY <1>7, <1>8, <1>10, <1>11, <1>12, Zenon DEF WebclientIs

LEMMA GeneralSaves ==
  ASSUME Kept(saved), NEW form \in FormsOf["general"],
         request = Asks("general", Query("general", form))
  PROVE  Same(saved, General, WebclientFields) /\ GeneralIs(form, General)
<1> DEFINE m1 == eepromSaveStr(saved, "PASS", Value("PASS"), Len(Value("PASS")))
           m2 == save_checkbox_cgivalue(m1, "LCD")
           m3 == save_cgivalue_if_found(m2, "digital")
           m4 == save_cgivalue_if_found(m3, "analog")
<1>1. \A f \in GeneralFields \ {"digital"} : Value(f) = Written(form[f]) /\ Fits(f, form[f])
  <2> SUFFICES ASSUME NEW f \in GeneralFields \ {"digital"}
               PROVE  Value(f) = Written(form[f]) /\ Fits(f, form[f])
    OBVIOUS
  <2>1. "general" \in Pages /\ f \in ToSet(Order["general"]) /\ f # "digital"
    BY FieldsAre
  <2> QED
    BY <2>1, Sent, FormFits, Zenon
<1>2. /\ "PASS" \in DOMAIN Named \ {"host", "url"} /\ "LCD" \in DOMAIN Named \ {"host", "url"}
      /\ "digital" \in DOMAIN Named \ {"host", "url"} /\ "analog" \in DOMAIN Named \ {"host", "url"}
  BY DEF Named
<1>3. CASE Value("PASS") = << >>
  <2>1. General = saved
    BY <1>3, Zenon DEF General
  <2>2. form["PASS"] = << >>
    <3>1. "PASS" \in GeneralFields \ {"digital"}
      BY DEF GeneralFields
    <3> QED
      BY <1>1, <1>3, <3>1, Zenon DEF Fits
  <2> QED
    BY <2>1, <2>2, Zenon DEF GeneralIs, Same
<1>4. CASE Value("PASS") # << >>
  <2>1. General = m4
    BY <1>4, Zenon DEF General
  <2>2. Only(saved, m1, "PASS")
    <3> DEFINE cells == [i \in DOMAIN saved["PASS"] |->
                 IF i > Len(Value("PASS")) THEN saved["PASS"][i]
                 ELSE IF i <= Len(Value("PASS")) THEN Value("PASS")[i] ELSE "nul"]
    <3>1. m1 = [saved EXCEPT !["PASS"] = cells]
      BY Zenon DEF eepromSaveStr
    <3> HIDE DEF cells, m1
    <3>2. Only(saved, [saved EXCEPT !["PASS"] = cells], "PASS")
      BY <1>2, FieldSaved, Zenon
    <3> QED
      BY <3>1, <3>2, Zenon
  <2>3. Kept(m1)
    BY <2>2, Zenon DEF Only
  <2> HIDE DEF m1
  <2>4. Only(m1, m2, "LCD") /\ m2["LCD"] = atoi(Value("LCD")) % CellValues
    BY <1>2, <2>3, BoxSaved, Zenon
  <2>5. Kept(m2)
    BY <2>4, Zenon DEF Only
  <2> HIDE DEF m2
  <2>6. Only(m2, m3, "digital")
    BY <1>2, <2>5, CgiSaved, Zenon
  <2>7. Kept(m3)
    BY <2>6, Zenon DEF Only
  <2> HIDE DEF m3
  <2>8. /\ Only(m3, m4, "analog")
        /\ Value("analog") # << >> => m4["analog"] = atoi(Value("analog")) % CellValues
    BY <1>2, <2>7, CgiSaved, Zenon
  <2> HIDE DEF m4
  <2>9. Same(saved, m4, WebclientFields)
    <3>1. ASSUME NEW f \in WebclientFields PROVE m4[f] = saved[f]
      <4>1. f \in DOMAIN Named /\ f \notin {"PASS", "LCD", "digital", "analog"}
        BY FieldsAre DEF WebclientFields
      <4> QED
        BY <2>2, <2>4, <2>6, <2>8, <4>1 DEF Only
    <3> QED
      BY <2>8, <3>1, Zenon DEF Same, Only
  <2>10. m4["LCD"] = m2["LCD"]
    BY <1>2, <2>6, <2>8 DEF Only
  <2>11. \A f \in {"LCD", "analog"} : Value(f) = form[f] /\ f \notin TextFields
    <3>1. \A f \in {"LCD", "analog"} : f \in GeneralFields \ {"digital"} /\ f \notin TextFields
      BY DEF GeneralFields, TextFields
    <3> QED
      BY <1>1, <3>1, Zenon DEF Fits
  <2>12. HeldIn(m4, "LCD", form["LCD"]) /\ (form["analog"] # << >> => HeldIn(m4, "analog", form["analog"]))
    BY <2>4, <2>8, <2>10, <2>11, Zenon DEF HeldIn
  <2> QED
    BY <2>1, <2>9, <2>12, Zenon DEF GeneralIs
<1> QED
  BY <1>3, <1>4

LEMMA VisitSaves ==
  ASSUME NEW page \in Pages, request = Asks(page, << >>)
  PROVE  General = saved /\ Webclient = saved
<1>1. \A f \in {"PASS", "interval", "host", "url"} : Value(f) = << >>
  <2>1. \A f \in {"PASS", "interval", "host", "url"} : f \in DOMAIN Named /\ f # "digital"
    BY DEF Named
  <2> QED
    BY <2>1, Visited, Zenon
<1>2. Value("PASS") = << >> /\ Value("interval") = << >> /\ Value("host") = << >> /\ Value("url") = << >>
  BY <1>1
<1>3. General = saved
  BY <1>2, Zenon DEF General
<1>4. save_cgivalue_if_found(saved, "interval") = saved
  BY <1>2, Zenon DEF save_cgivalue_if_found
<1>5. HostAndBox(saved) = saved
  BY <1>2, Zenon DEF HostAndBox
<1>6. urldecode(<< >>) = << >>
  <2> DEFINE t == << >>
  <2>1. t \in Seq(Char) /\ Written(t) = t
    <3>1. t \in Seq(Char) /\ Len(t) = 0
      OBVIOUS
    <3>2. \A i \in 1 .. Len(t) : t[i] \notin {"blank", "&", "=", "%", "+"}
      BY <3>1
    <3> QED
      BY <3>1, <3>2, NumberWritten, Zenon
  <2> QED
    BY <2>1, DecodedIs, Zenon
<1>7. SaveText(saved, "url") = saved
  BY <1>2, <1>6, Zenon DEF SaveText
<1> QED
  BY <1>3, <1>4, <1>5, <1>7, Zenon DEF Webclient

(* A page holds what was typed in its form, unless the address with that form *)
(* is still to be served.                                                     *)
Sending(page) == typed[page] \in FormsOf[page] /\ request = Asks(page, Query(page, typed[page]))

FormsInv ==
  /\ DOMAIN typed = {"general", "webclient"}
  /\ Kept(saved)
  /\ \/ request = << >>
     \/ \E page \in Pages : Sending(page) \/ request = Asks(page, << >>)
  /\ Sending("webclient") \/ WebclientIs(typed["webclient"], saved)
  /\ Sending("general") \/ GeneralIs(typed["general"], saved)

LEMMA SendingIs ==
  ASSUME NEW page \in Pages, Sending(page)
  PROVE  request # << >> /\ request[2] = page
<1>1. Query(page, typed[page]) \in Seq(Char)
  BY QueryIs, Zenon DEF Sending
<1> DEFINE q == Query(page, typed[page])
<1>2. request = Asks(page, q)
  BY Zenon DEF Sending
<1> HIDE DEF q
<1>3. Asks(page, q) # << >> /\ Asks(page, q)[2] = page
  BY <1>1, PageIs, Zenon DEF q
<1> QED
  BY <1>2, <1>3, Zenon

LEMMA SameWebclient ==
  ASSUME NEW form, NEW memory, NEW after, Same(memory, after, WebclientFields), WebclientIs(form, memory)
  PROVE  WebclientIs(form, after)
<1>1. \A f \in {"interval", "host", "url", "coap"} : after[f] = memory[f]
  BY DEF Same, WebclientFields
<1>2. ASSUME NEW f \in {"interval", "host", "url", "coap"}, NEW t, HeldIn(memory, f, t)
      PROVE  HeldIn(after, f, t)
  BY <1>1, <1>2, Zenon DEF HeldIn
<1>3. \A f \in {"interval", "host", "url"} : f \in {"interval", "host", "url", "coap"}
  OBVIOUS
<1>4. \A f \in {"interval", "host", "url"} : form[f] # << >> => HeldIn(after, f, form[f])
  BY <1>2, <1>3, Zenon DEF WebclientIs
<1>5. form["host"] # << >> => HeldIn(after, "coap", form["coap"])
  BY <1>2, Zenon DEF WebclientIs
<1> QED
  BY <1>4, <1>5, Zenon DEF WebclientIs

LEMMA SameGeneral ==
  ASSUME NEW form, NEW memory, NEW after, Same(memory, after, GeneralFields), GeneralIs(form, memory)
  PROVE  GeneralIs(form, after)
<1>1. after["LCD"] = memory["LCD"] /\ after["analog"] = memory["analog"]
  BY DEF Same, GeneralFields
<1>2. "LCD" \notin TextFields /\ "analog" \notin TextFields
  BY DEF TextFields
<1> QED
  BY <1>1, <1>2, Zenon DEF GeneralIs, HeldIn

LEMMA FormsInvInit == FormsInit => FormsInv
<1> SUFFICES ASSUME FormsInit PROVE FormsInv
  OBVIOUS
<1>1. DOMAIN typed = {"general", "webclient"}
  BY FieldsAre DEF FormsInit
<1>2. Kept(saved)
  <2>1. DOMAIN saved = DOMAIN Named
    BY DEF FormsInit
  <2>2. ASSUME NEW f \in {"host", "url"} PROVE DOMAIN saved[f] = 1 .. TextLimit
    <3>1. f \in DOMAIN Named /\ f \in TextFields /\ Room(f) = TextLimit
      BY DEF Named, TextFields, Room
    <3> DEFINE cells == [i \in 1 .. Room(f) |-> IF i <= Len(Factory[f]) THEN Factory[f][i] ELSE "nul"]
    <3>2. saved[f] = cells
      BY <3>1, Zenon DEF FormsInit
    <3> QED
      BY <3>1, <3>2
  <2> QED
    BY <2>1, <2>2, Zenon DEF Kept
<1>3. request = << >>
  BY DEF FormsInit
<1>4. \A page \in Pages : \A f \in ToSet(Order[page]) : typed[page][f] = << >>
  BY Zenon DEF FormsInit
<1>5. WebclientIs(typed["webclient"], saved)
  <2>1. \A f \in {"interval", "host", "url"} : typed["webclient"][f] = << >>
    <3>1. "webclient" \in Pages /\ \A f \in {"interval", "host", "url"} : f \in ToSet(Order["webclient"])
      BY FieldsAre DEF WebclientFields
    <3> QED
      BY <1>4, <3>1, Zenon
  <2>2. "host" \in {"interval", "host", "url"}
    OBVIOUS
  <2> QED
    BY <2>1, <2>2, Zenon DEF WebclientIs
<1>6. GeneralIs(typed["general"], saved)
  <2>1. "general" \in Pages /\ "PASS" \in ToSet(Order["general"])
    BY FieldsAre DEF GeneralFields
  <2> QED
    BY <1>4, <2>1, Zenon DEF GeneralIs
<1> QED
  BY <1>1, <1>2, <1>3, <1>5, <1>6, Zenon DEF FormsInv

LEMMA FormsInvNext == FormsInv /\ [FormsNext]_formVars => FormsInv'
<1> SUFFICES ASSUME FormsInv, [FormsNext]_formVars PROVE FormsInv'
  OBVIOUS
<1>1. /\ DOMAIN typed = {"general", "webclient"} /\ Kept(saved)
      /\ "general" \in Pages /\ "webclient" \in Pages
      /\ Sending("webclient") \/ WebclientIs(typed["webclient"], saved)
      /\ Sending("general") \/ GeneralIs(typed["general"], saved)
  BY FieldsAre, Zenon DEF FormsInv
<1>2. ASSUME request = << >>
      PROVE  WebclientIs(typed["webclient"], saved) /\ GeneralIs(typed["general"], saved)
  BY <1>1, <1>2, SendingIs, Zenon
<1>3. ASSUME NEW page \in Pages, NEW form \in FormsOf[page], Send(page, form) PROVE FormsInv'
  <2>1. /\ request = << >> /\ request' = Asks(page, Query(page, form))
        /\ typed' = [typed EXCEPT ![page] = form] /\ saved' = saved
    BY <1>3 DEF Send
  <2>2. page = "general" \/ page = "webclient"
    BY FieldsAre
  <2>3. /\ DOMAIN typed' = {"general", "webclient"} /\ typed'[page] = form
        /\ \A q \in {"general", "webclient"} : q # page => typed'[q] = typed[q]
    BY <1>1, <2>1, <2>2
  <2>4. Sending(page)'
    BY <2>1, <2>3, Zenon DEF Sending
  <2>5. Kept(saved)'
    BY <1>1, <2>1, Zenon
  <2>6. (Sending("webclient") \/ WebclientIs(typed["webclient"], saved))'
    <3>1. CASE page = "webclient"
      BY <2>4, <3>1, Zenon
    <3>2. CASE page # "webclient"
      <4>1. typed'["webclient"] = typed["webclient"]
        BY <2>3, <3>2
      <4> QED
        BY <1>2, <2>1, <4>1, Zenon
    <3> QED
      BY <3>1, <3>2
  <2>7. (Sending("general") \/ GeneralIs(typed["general"], saved))'
    <3>1. CASE page = "general"
      BY <2>4, <3>1, Zenon
    <3>2. CASE page # "general"
      <4>1. typed'["general"] = typed["general"]
        BY <2>3, <3>2
      <4> QED
        BY <1>2, <2>1, <4>1, Zenon
    <3> QED
      BY <3>1, <3>2
  <2>8. (\E p \in Pages : Sending(p) \/ request = Asks(p, << >>))'
    BY <2>4, Zenon
  <2> QED
    BY <2>3, <2>5, <2>6, <2>7, <2>8, Zenon DEF FormsInv
<1>4. ASSUME NEW page \in Pages, Visit(page) PROVE FormsInv'
  <2>1. request = << >> /\ request' = Asks(page, << >>) /\ typed' = typed /\ saved' = saved
    BY <1>4 DEF Visit
  <2>2. WebclientIs(typed["webclient"], saved)' /\ GeneralIs(typed["general"], saved)'
    BY <1>2, <2>1, Zenon
  <2>3. (\E p \in Pages : Sending(p) \/ request = Asks(p, << >>))'
    BY <2>1, Zenon
  <2> QED
    BY <1>1, <2>1, <2>2, <2>3, Zenon DEF FormsInv
<1>5. ASSUME Serve PROVE FormsInv'
  <2>1. /\ request # << >> /\ request' = << >> /\ typed' = typed
        /\ saved' = IF request[2] = "general" THEN General ELSE Webclient
    BY <1>5 DEF Serve
  <2>2. Kept(saved') /\ WebclientIs(typed["webclient"], saved') /\ GeneralIs(typed["general"], saved')
    <3>1. CASE Sending("webclient")
      <4> DEFINE form == typed["webclient"]
      <4>1. request[2] = "webclient"
        BY <1>1, <3>1, SendingIs, Zenon
      <4>2. ~Sending("general")
        <5>1. ASSUME Sending("general") PROVE FALSE
          <6>1. request[2] = "general"
            BY <1>1, <5>1, SendingIs, Zenon
          <6> QED
            BY <4>1, <6>1
        <5> QED
          BY <5>1
      <4>3. saved' = Webclient
        <5>1. request[2] # "general"
          BY <4>1
        <5> QED
          BY <2>1, <5>1, Zenon
      <4>4. form \in FormsOf["webclient"] /\ request = Asks("webclient", Query("webclient", form))
        BY <3>1, Zenon DEF Sending
      <4>5. Same(saved, Webclient, GeneralFields) /\ WebclientIs(form, Webclient)
        BY <1>1, <4>4, WebclientSaves, Zenon
      <4>6. GeneralIs(typed["general"], Webclient)
        BY <1>1, <4>2, <4>5, SameGeneral, Zenon
      <4> QED
        BY <4>3, <4>5, <4>6, Zenon DEF Same
    <3>2. CASE Sending("general")
      <4> DEFINE form == typed["general"]
      <4>1. request[2] = "general"
        BY <1>1, <3>2, SendingIs, Zenon
      <4>2. ~Sending("webclient")
        <5>1. ASSUME Sending("webclient") PROVE FALSE
          <6>1. request[2] = "webclient"
            BY <1>1, <5>1, SendingIs, Zenon
          <6> QED
            BY <4>1, <6>1
        <5> QED
          BY <5>1
      <4>3. saved' = General
        BY <2>1, <4>1, Zenon
      <4>4. form \in FormsOf["general"] /\ request = Asks("general", Query("general", form))
        BY <3>2, Zenon DEF Sending
      <4>5. Same(saved, General, WebclientFields) /\ GeneralIs(form, General)
        BY <1>1, <4>4, GeneralSaves, Zenon
      <4>6. WebclientIs(typed["webclient"], General)
        BY <1>1, <4>2, <4>5, SameWebclient, Zenon
      <4> QED
        BY <4>3, <4>5, <4>6, Zenon DEF Same
    <3>3. CASE ~Sending("webclient") /\ ~Sending("general")
      <4>1. PICK page \in Pages : request = Asks(page, << >>)
        BY <2>1, <3>3, FieldsAre DEF FormsInv
      <4>2. General = saved /\ Webclient = saved
        BY <4>1, VisitSaves, Zenon
      <4>3. saved' = saved
        BY <2>1, <4>2, Zenon
      <4> QED
        BY <1>1, <3>3, <4>3, Zenon
    <3> QED
      BY <3>1, <3>2, <3>3, Zenon
  <2>3. WebclientIs(typed["webclient"], saved)' /\ GeneralIs(typed["general"], saved)'
    BY <2>1, <2>2, Zenon
  <2> QED
    BY <1>1, <2>1, <2>2, <2>3, Zenon DEF FormsInv
<1>6. CASE UNCHANGED formVars
  <2>1. request' = request /\ typed' = typed /\ saved' = saved
    BY <1>6 DEF formVars
  <2>2. \A page : Sending(page)' <=> Sending(page)
    BY <2>1, Zenon DEF Sending
  <2> QED
    BY <2>1, <2>2, Zenon DEF FormsInv
<1> QED
  BY <1>3, <1>4, <1>5, <1>6, Zenon DEF FormsNext

LEMMA FormsInvSays == FormsInv => SavedAsTyped
<1> SUFFICES ASSUME FormsInv PROVE SavedAsTyped
  OBVIOUS
<1>1. ASSUME NEW f, NEW t, HeldIn(saved, f, t) PROVE Holds(f, t)
  <2>1. ASSUME NEW n \in 0 .. CellValues - 1 PROVE n % CellValues = n
    <3>1. CellValues \in Nat /\ CellValues > 0
      BY FormsAssumption
    <3>2. ASSUME NEW M \in Nat, M > 0, NEW q \in Int, NEW r \in 0 .. M - 1
          PROVE  (M * q + r) % M = r
      OBVIOUS
    <3>3. n = CellValues * 0 + n
      BY <3>1
    <3> QED
      BY <3>1, <3>2, <3>3
  <2>2. FitsByte(t) => atoi(t) % CellValues = atoi(t)
    BY <2>1, Zenon DEF FitsByte
  <2> QED
    BY <1>1, <2>2, Zenon DEF HeldIn, Holds
<1>2. "general" \in Pages /\ "webclient" \in Pages
  BY FieldsAre
<1>3. ASSUME Served("webclient") PROVE WebclientIs(typed["webclient"], saved)
  <2>1. ~Sending("webclient")
    BY <1>2, <1>3, SendingIs, Zenon DEF Served
  <2> QED
    BY <2>1, Zenon DEF FormsInv
<1>4. ASSUME Served("general") PROVE GeneralIs(typed["general"], saved)
  <2>1. ~Sending("general")
    BY <1>2, <1>4, SendingIs, Zenon DEF Served
  <2> QED
    BY <2>1, Zenon DEF FormsInv
<1> QED
  BY <1>1, <1>3, <1>4, Zenon DEF SavedAsTyped, WebclientIs, GeneralIs

(* What was typed is what is saved, whatever forms and visits there were      *)
(* before (find_key_val, urldecode and the handlers of the two pages), for    *)
(* all texts without a 0 that fit, all numbers that fit a byte, and all factory *)
(* settings.                                                                  *)
THEOREM FormsAreSaved == FormsSpec => []SavedAsTyped
<1>1. FormsSpec => []FormsInv
  <2>1. FormsInit => FormsInv
    BY FormsInvInit
  <2>2. FormsInv /\ [FormsNext]_formVars => FormsInv'
    BY FormsInvNext
  <2> QED
    BY <2>1, <2>2, PTL DEF FormsSpec
<1> QED
  BY <1>1, FormsInvSays, PTL
=============================================================================
