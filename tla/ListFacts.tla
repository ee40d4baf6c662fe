------------------------------ MODULE ListFacts ------------------------------
(***************************************************************************)
(* Lemmas the proofs about several components share: induction up to a     *)
(* bound, in a form the provers can use, and what the operators RemoveAt   *)
(* and InsertAt of SequencesExt return.                                    *)
(***************************************************************************)
EXTENDS Integers, SequencesExt, TLAPS, SequenceTheorems, WellFoundedInduction

\* A set of natural numbers that is not empty has a least element.
LEMMA LeastNat ==
  ASSUME NEW T, T \subseteq Nat, T # {}
  PROVE  \E n \in T : \A m \in T : n <= m
<1> DEFINE R == OpToRel(<, Nat)
<1>1. IsWellFoundedOn(R, Nat)
  BY NatLessThanWellFounded
<1>2. \A x, y \in Nat : y < x => <<y, x>> \in R
  BY DEF R, OpToRel
<1> HIDE DEF R
<1>3. PICK x \in T : \A y \in T : ~ (<<y, x>> \in R)
  BY <1>1, WFMin
<1>4. \A y \in T : ~(y < x)
  BY <1>2, <1>3
<1>5. \A y \in T : x <= y
  BY <1>4
<1> QED BY <1>5

\* What holds of 0, and of k when it holds of k - 1, holds up to N.
LEMMA UpTo ==
  ASSUME NEW N \in Nat, NEW T, 0 \in T, \A k \in 1..N : k - 1 \in T => k \in T
  PROVE  \A k \in 0..N : k \in T
<1> DEFINE F == {k \in 0..N : k \notin T}
<1>1. F = {}
  <2> SUFFICES ASSUME F # {} PROVE FALSE
    OBVIOUS
  <2> F \subseteq Nat
    OBVIOUS
  <2> HIDE DEF F
  <2>1. PICK m \in F : \A k \in F : m <= k
    BY LeastNat
  <2> USE DEF F
  <2>2. m \in 1..N /\ m - 1 \in 0..N /\ ~(m <= m - 1)
    BY <2>1
  <2> QED BY <2>1, <2>2
<1> QED BY <1>1

\* A sequence without its i-th element.
LEMMA RemoveAtFacts ==
  ASSUME NEW S, NEW q \in Seq(S), NEW i \in 1..Len(q)
  PROVE  /\ RemoveAt(q, i) \in Seq(S)
         /\ Len(RemoveAt(q, i)) = Len(q) - 1
         /\ \A k \in 1..(Len(q) - 1) : RemoveAt(q, i)[k] = IF k < i THEN q[k] ELSE q[k + 1]
<1> DEFINE h == SubSeq(q, 1, i - 1)
           t == SubSeq(q, i + 1, Len(q))
<1>1. Len(q) \in Nat /\ i \in Int /\ i - 1 \in Int /\ i + 1 \in Int /\ i >= 1 /\ i <= Len(q)
  BY LenProperties
<1>2. \A k \in 1..Len(q) : q[k] \in S
  BY ElementOfSeq
<1>3. h \in Seq(S) /\ Len(h) = i - 1 /\ \A k \in 1..(i - 1) : h[k] = q[k]
  <2>1. \A k \in 1..(i - 1) : q[k] \in S
    BY <1>1, <1>2
  <2>2. /\ h \in Seq(S)
        /\ Len(h) = IF 1 <= i - 1 THEN i - 1 - 1 + 1 ELSE 0
        /\ \A k \in 1..(i - 1 - 1 + 1) : h[k] = q[1 + k - 1]
    BY <1>1, <2>1, SubSeqProperties
  <2> HIDE DEF h
  <2>3. Len(h) = i - 1
    BY <1>1, <2>2
  <2>4. \A k \in 1..(i - 1) : h[k] = q[k]
    BY <1>1, <2>2
  <2> QED BY <2>2, <2>3, <2>4
<1>4. t \in Seq(S) /\ Len(t) = Len(q) - i /\ \A k \in 1..(Len(q) - i) : t[k] = q[i + k]
  <2>1. \A k \in (i + 1)..Len(q) : q[k] \in S
    BY <1>1, <1>2
  <2>2. /\ t \in Seq(S)
        /\ Len(t) = IF i + 1 <= Len(q) THEN Len(q) - (i + 1) + 1 ELSE 0
        /\ \A k \in 1..(Len(q) - (i + 1) + 1) : t[k] = q[(i + 1) + k - 1]
    BY <1>1, <2>1, SubSeqProperties
  <2> HIDE DEF t
  <2>3. Len(t) = Len(q) - i
    BY <1>1, <2>2
  <2>4. \A k \in 1..(Len(q) - i) : t[k] = q[i + k]
    BY <1>1, <2>2
  <2> QED BY <2>2, <2>3, <2>4
<1> HIDE DEF h, t
<1> DEFINE r == h \o t
<1>5. /\ r \in Seq(S) /\ Len(r) = Len(h) + Len(t)
      /\ \A k \in 1..(Len(h) + Len(t)) : r[k] = IF k <= Len(h) THEN h[k] ELSE t[k - Len(h)]
  BY <1>3, <1>4, ConcatProperties
<1>6. RemoveAt(q, i) = r
  BY DEF RemoveAt, h, t
<1> HIDE DEF r
<1>7. ASSUME NEW k \in 1..(Len(q) - 1) PROVE r[k] = IF k < i THEN q[k] ELSE q[k + 1]
  <2>1. r[k] = IF k <= i - 1 THEN h[k] ELSE t[k - (i - 1)]
    BY <1>1, <1>3, <1>4, <1>5
  <2>2. CASE k < i
    BY <1>1, <1>3, <2>1, <2>2
  <2>3. CASE ~(k < i)
    <3>1. k - (i - 1) \in 1..(Len(q) - i) /\ i + (k - (i - 1)) = k + 1 /\ ~(k <= i - 1)
      BY <1>1, <2>3
    <3>2. t[k - (i - 1)] = q[k + 1]
      BY <1>4, <3>1
    <3> QED BY <2>1, <2>3, <3>1, <3>2
  <2> QED BY <2>2, <2>3
<1>8. Len(r) = Len(q) - 1
  BY <1>1, <1>3, <1>4, <1>5
<1> QED BY <1>5, <1>6, <1>7, <1>8

\* A sequence with a new i-th element.
LEMMA InsertAtFacts ==
  ASSUME NEW S, NEW q \in Seq(S), NEW i \in 1..(Len(q) + 1), NEW e \in S
  PROVE  /\ InsertAt(q, i, e) \in Seq(S)
         /\ Len(InsertAt(q, i, e)) = Len(q) + 1
         /\ \A k \in 1..(Len(q) + 1) : /\ k < i => InsertAt(q, i, e)[k] = q[k]
                                       /\ k = i => InsertAt(q, i, e)[k] = e
                                       /\ k > i => InsertAt(q, i, e)[k] = q[k - 1]
<1> DEFINE h == SubSeq(q, 1, i - 1)
           t == SubSeq(q, i, Len(q))
<1>1. Len(q) \in Nat /\ i \in Int /\ i - 1 \in Int /\ i >= 1 /\ i <= Len(q) + 1
  BY LenProperties
<1>2. \A k \in 1..Len(q) : q[k] \in S
  BY ElementOfSeq
<1>3. h \in Seq(S) /\ Len(h) = i - 1 /\ \A k \in 1..(i - 1) : h[k] = q[k]
  <2>1. \A k \in 1..(i - 1) : q[k] \in S
    BY <1>1, <1>2
  <2>2. /\ h \in Seq(S)
        /\ Len(h) = IF 1 <= i - 1 THEN i - 1 - 1 + 1 ELSE 0
        /\ \A k \in 1..(i - 1 - 1 + 1) : h[k] = q[1 + k - 1]
    BY <1>1, <2>1, SubSeqProperties
  <2> HIDE DEF h
  <2>3. Len(h) = i - 1
    BY <1>1, <2>2
  <2>4. \A k \in 1..(i - 1) : h[k] = q[k]
    BY <1>1, <2>2
  <2> QED BY <2>2, <2>3, <2>4
<1>4. /\ t \in Seq(S) /\ Len(t) = Len(q) + 1 - i
      /\ \A k \in 1..(Len(q) + 1 - i) : t[k] = q[i + k - 1]
  <2>1. \A k \in i..Len(q) : q[k] \in S
    BY <1>1, <1>2
  <2>2. /\ t \in Seq(S)
        /\ Len(t) = IF i <= Len(q) THEN Len(q) - i + 1 ELSE 0
        /\ \A k \in 1..(Len(q) - i + 1) : t[k] = q[i + k - 1]
    BY <1>1, <2>1, SubSeqProperties
  <2> HIDE DEF t
  <2>3. Len(t) = Len(q) + 1 - i
    BY <1>1, <2>2
  <2>4. \A k \in 1..(Len(q) + 1 - i) : t[k] = q[i + k - 1]
    BY <1>1, <2>2
  <2> QED BY <2>2, <2>3, <2>4
<1> HIDE DEF h, t
<1> DEFINE g == h \o <<e>>
<1>5. g \in Seq(S) /\ Len(g) = i /\ \A k \in 1..i : g[k] = IF k < i THEN q[k] ELSE e
  <2>1. <<e>> \in Seq(S) /\ Len(<<e>>) = 1 /\ <<e>>[1] = e
    OBVIOUS
  <2>2. /\ g \in Seq(S) /\ Len(g) = Len(h) + 1
        /\ \A k \in 1..(Len(h) + 1) : g[k] = IF k <= Len(h) THEN h[k] ELSE <<e>>[k - Len(h)]
    BY <1>3, <2>1, ConcatProperties
  <2> HIDE DEF g
  <2>3. Len(g) = i
    BY <1>1, <1>3, <2>2
  <2>4. \A k \in 1..i : g[k] = IF k < i THEN q[k] ELSE e
    BY <1>1, <1>3, <2>1, <2>2
  <2> QED BY <2>2, <2>3, <2>4
<1> HIDE DEF g
<1> DEFINE r == g \o t
<1>6. /\ r \in Seq(S) /\ Len(r) = Len(g) + Len(t)
      /\ \A k \in 1..(Len(g) + Len(t)) : r[k] = IF k <= Len(g) THEN g[k] ELSE t[k - Len(g)]
  BY <1>4, <1>5, ConcatProperties
<1>7. InsertAt(q, i, e) = r
  BY DEF InsertAt, g, h, t
<1> HIDE DEF r
<1>8. ASSUME NEW k \in 1..(Len(q) + 1)
      PROVE  /\ k < i => r[k] = q[k]
             /\ k = i => r[k] = e
             /\ k > i => r[k] = q[k - 1]
  <2>1. r[k] = IF k <= i THEN g[k] ELSE t[k - i]
    BY <1>1, <1>4, <1>5, <1>6
  <2>2. CASE k <= i
    BY <1>1, <1>5, <2>1, <2>2
  <2>3. CASE ~(k <= i)
    <3>1. k - i \in 1..(Len(q) + 1 - i) /\ i + (k - i) - 1 = k - 1 /\ ~(k < i) /\ k # i
      BY <1>1, <2>3
    <3>2. t[k - i] = q[k - 1]
      BY <1>4, <3>1
    <3> QED BY <2>1, <2>3, <3>1, <3>2
  <2> QED BY <2>2, <2>3
<1>9. Len(r) = Len(q) + 1
  BY <1>1, <1>4, <1>5, <1>6
<1> QED BY <1>6, <1>7, <1>8, <1>9
=============================================================================
