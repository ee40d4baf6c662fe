-------------------------- MODULE BleExtAdv_proofs --------------------------
(***************************************************************************)
(* What is proved of BleExtAdv, for any number of advertising sets, any    *)
(* size of the queue and any bounds.                                       *)
(*                                                                         *)
(* A call works on a record of the manager and GAP (Now).  The lemmas say  *)
(* of each call and callback what it keeps true of the set it is about     *)
(* (Honest) and that it is OnlyAbout that set; OneSet and CallInv carry    *)
(* this over to the step.  The inductive invariant Inv adds to the         *)
(* properties what makes them last: the reports in the IO queue lead from  *)
(* the manager's copy of a set's state to the state in GAP (Course), and   *)
(* pending_action tells which command GAP or they are at (Follows), one    *)
(* set has one (Sound), and the last start or stop in the queue is what    *)
(* the application was told (Agrees).                                      *)
(***************************************************************************)
EXTENDS BleExtAdv, ListFacts, FiniteSetTheorems

-----------------------------------------------------------------------------
(* The queue.                                                              *)

Count(q, s) == Cardinality(Queued(q, s))

\* The last start or stop of a set in the queue.
EndsWith(q, s, act) ==
    \E i \in Queued(q, s) :
        q[i].act = act /\ \A j \in Queued(q, s) : j <= i

Counted(e, s) == e.set = s /\ e.act # "UPDATE"

\* The starts and stops of a set in the queue can be counted.
LEMMA QueuedFinite ==
    ASSUME NEW S, NEW q \in Seq(S), NEW s
    PROVE  IsFiniteSet(Queued(q, s)) /\ Count(q, s) \in Nat
           /\ (Count(q, s) = 0 <=> Queued(q, s) = {})
<1>1. IsFiniteSet(1..Len(q))
  BY FS_Interval, LenProperties
<1>2. Queued(q, s) \in SUBSET (1..Len(q))
  BY LenProperties DEF Queued
<1>3. IsFiniteSet(Queued(q, s))
  BY <1>1, <1>2, FS_Subset
<1> QED BY <1>3, FS_CardinalityType, FS_EmptySet DEF Count

\* Nothing is counted in the empty queue.
LEMMA QueuedEmpty == ASSUME NEW s PROVE Queued(<<>>, s) = {} /\ Count(<<>>, s) = 0
BY FS_EmptySet DEF Queued, Count

\* ble_ext_adv_mgr_send_msg puts an entry at the end.
LEMMA QueuedAppend ==
    ASSUME NEW q \in Seq(Entries), NEW e \in Entries, NEW s \in Sets
    PROVE  /\ Count(Append(q, e), s) = Count(q, s) + (IF Counted(e, s) THEN 1 ELSE 0)
           /\ \A act : EndsWith(Append(q, e), s, act) <=>
                          IF Counted(e, s) THEN act = e.act ELSE EndsWith(q, s, act)
<1> DEFINE p == Append(q, e)
           n == Len(q) + 1
<1>1. Len(q) \in Nat /\ DOMAIN q = 1..Len(q) /\ DOMAIN p = 1..n
      /\ p[n] = e /\ \A i \in 1..Len(q) : p[i] = q[i]
  BY AppendProperties, LenProperties
<1> HIDE DEF p
<1>2. CASE Counted(e, s)
  <2>1. Queued(p, s) = Queued(q, s) \cup {n} /\ n \notin Queued(q, s)
    BY <1>1, <1>2 DEF Queued, Counted
  <2>2. Count(p, s) = Count(q, s) + 1
    BY <2>1, QueuedFinite, FS_AddElement DEF Count
  <2>3. \A j \in Queued(p, s) : j <= n
    BY <1>1 DEF Queued
  <2>4. n \in Queued(p, s)
    BY <2>1
  <2>5. ASSUME NEW act PROVE EndsWith(p, s, act) <=> act = e.act
    <3>1. ASSUME NEW i \in Queued(p, s), \A j \in Queued(p, s) : j <= i PROVE i = n
      BY <3>1, <2>3, <2>4, <1>1 DEF Queued
    <3>2. EndsWith(p, s, act) => p[n].act = act
      BY <3>1 DEF EndsWith
    <3>3. p[n].act = act => EndsWith(p, s, act)
      BY <2>3, <2>4 DEF EndsWith
    <3> QED BY <3>2, <3>3, <1>1
  <2> QED BY <1>2, <2>2, <2>5 DEF p
<1>3. CASE ~Counted(e, s)
  <2>1. Queued(p, s) = Queued(q, s)
    BY <1>1, <1>3 DEF Queued, Counted
  <2>2. \A i \in Queued(q, s) : p[i] = q[i]
    BY <1>1 DEF Queued
  <2>3. \A act : EndsWith(p, s, act) <=> EndsWith(q, s, act)
    BY <2>1, <2>2 DEF EndsWith
  <2>4. Count(p, s) = Count(q, s) + 0
    BY <2>1, QueuedFinite DEF Count
  <2> QED BY <1>3, <2>3, <2>4 DEF p
<1> QED BY <1>2, <1>3

\* ble_ext_adv_mgr_check_next_step takes the first entry.
LEMMA QueuedTail ==
    ASSUME NEW q \in Seq(Entries), q # <<>>, NEW s \in Sets
    PROVE  /\ Head(q) \in Entries /\ Tail(q) \in Seq(Entries)
           /\ Count(q, s) = Count(Tail(q), s) + (IF Counted(Head(q), s) THEN 1 ELSE 0)
           /\ \A act : EndsWith(Tail(q), s, act) => EndsWith(q, s, act)
           /\ ~Counted(Head(q), s) => \A act : EndsWith(q, s, act) => EndsWith(Tail(q), s, act)
           /\ Counted(Head(q), s) /\ Count(Tail(q), s) = 0 => EndsWith(q, s, Head(q).act)
<1> DEFINE p == Tail(q)
           h == Head(q)
<1>1. h \in Entries /\ p \in Seq(Entries)
  BY HeadTailProperties
<1>2. /\ Len(q) \in Nat /\ Len(q) > 0 /\ DOMAIN q = 1..Len(q) /\ DOMAIN p = 1..(Len(q) - 1)
      /\ h = q[1] /\ \A i \in 1..(Len(q) - 1) : p[i] = q[i + 1]
  <2>1. Len(q) \in Nat /\ DOMAIN q = 1..Len(q) /\ Len(q) # 0
    BY LenProperties, EmptySeq
  <2>2. Len(p) = Len(q) - 1 /\ DOMAIN p = 1..Len(p) /\ h = q[1]
    BY <1>1, HeadTailProperties, LenProperties
  <2>3. \A i \in 1..(Len(q) - 1) : p[i] = q[i + 1]
    BY <2>1, <2>2, HeadTailProperties
  <2> QED BY <2>1, <2>2, <2>3
<1> HIDE DEF p, h
<1> DEFINE rest == Queued(q, s) \ {1}
           f == [i \in Queued(p, s) |-> i + 1]
<1>3. Queued(p, s) = {i \in 1..(Len(q) - 1) : i + 1 \in Queued(q, s)}
  BY <1>2 DEF Queued
<1>4. Queued(q, s) \subseteq 1..Len(q)
  BY <1>2 DEF Queued
<1>5. f \in Bijection(Queued(p, s), rest)
  <2>1. f \in [Queued(p, s) -> rest]
    BY <1>3
  <2>2. \A i, j \in Queued(p, s) : f[i] = f[j] => i = j
    BY <1>3
  <2>3. \A k \in rest : \E i \in Queued(p, s) : f[i] = k
    <3>1. TAKE k \in rest
    <3>2. k \in 1..Len(q) /\ k # 1
      BY <1>4
    <3>3. k - 1 \in 1..(Len(q) - 1) /\ (k - 1) + 1 = k
      BY <3>2, <1>2
    <3>4. k - 1 \in Queued(p, s)
      BY <3>3, <1>3
    <3>5. f[k - 1] = k
      BY <3>3, <3>4
    <3> QED BY <3>4, <3>5
  <2> HIDE DEF f, rest
  <2>4. f \in Injection(Queued(p, s), rest)
    BY <2>1, <2>2 DEF Injection, IsInjective
  <2>5. f \in Surjection(Queued(p, s), rest)
    BY <2>1, <2>3 DEF Surjection
  <2> QED BY <2>4, <2>5 DEF Bijection
<1>6. IsFiniteSet(Queued(p, s)) /\ IsFiniteSet(Queued(q, s))
  BY <1>1, QueuedFinite DEF p
<1>7. Cardinality(rest) = Count(p, s)
  BY <1>5, <1>6, FS_Bijection DEF ExistsBijection, Count
<1>8. 1 \in Queued(q, s) <=> Counted(h, s)
  BY <1>2 DEF Queued, Counted
<1>9. Cardinality(rest) = IF 1 \in Queued(q, s) THEN Count(q, s) - 1 ELSE Count(q, s)
  BY <1>6, FS_RemoveElement DEF Count
<1>10. Count(q, s) = Count(p, s) + (IF Counted(h, s) THEN 1 ELSE 0)
  BY <1>7, <1>8, <1>9, QueuedFinite
<1>11. \A act : EndsWith(p, s, act) => EndsWith(q, s, act)
  <2>1. SUFFICES ASSUME NEW act, EndsWith(p, s, act) PROVE EndsWith(q, s, act)
    OBVIOUS
  <2>2. PICK i \in Queued(p, s) : p[i].act = act /\ \A j \in Queued(p, s) : j <= i
    BY <2>1 DEF EndsWith
  <2>3. i \in 1..(Len(q) - 1) /\ i + 1 \in Queued(q, s) /\ q[i + 1].act = act
    BY <2>2, <1>2, <1>3
  <2>4. \A k \in Queued(q, s) : k <= i + 1
    <3>1. TAKE k \in Queued(q, s)
    <3>2. CASE k = 1
      BY <3>2, <2>3
    <3>3. CASE k # 1
      <4>1. k \in 1..Len(q) /\ k - 1 \in 1..(Len(q) - 1) /\ (k - 1) + 1 = k
        BY <3>3, <1>2, <1>4
      <4>2. k - 1 \in Queued(p, s)
        BY <4>1, <1>3
      <4>3. k - 1 <= i
        BY <4>2, <2>2
      <4> QED BY <4>1, <4>3, <2>3
    <3> QED BY <3>2, <3>3
  <2> QED BY <2>3, <2>4 DEF EndsWith
<1>12. Counted(h, s) /\ Count(p, s) = 0 => EndsWith(q, s, h.act)
  <2>1. SUFFICES ASSUME Counted(h, s), Count(p, s) = 0 PROVE EndsWith(q, s, h.act)
    OBVIOUS
  <2>2. 1 \in Queued(q, s) /\ q[1].act = h.act
    BY <2>1, <1>2, <1>8
  <2>3. rest = {}
    BY <2>1, <1>6, <1>7, FS_RemoveElement, FS_EmptySet
  <2> QED BY <2>2, <2>3 DEF EndsWith
<1>13. ~Counted(h, s) => \A act : EndsWith(q, s, act) => EndsWith(p, s, act)
  <2>1. SUFFICES ASSUME ~Counted(h, s), NEW act, EndsWith(q, s, act) PROVE EndsWith(p, s, act)
    OBVIOUS
  <2>2. PICK i \in Queued(q, s) : q[i].act = act /\ \A j \in Queued(q, s) : j <= i
    BY <2>1 DEF EndsWith
  <2>3. i \in 1..Len(q) /\ i # 1
    BY <1>4, <1>8, <2>1
  <2>4. i - 1 \in 1..(Len(q) - 1) /\ (i - 1) + 1 = i
    BY <1>2, <2>3
  <2>5. i - 1 \in Queued(p, s) /\ p[i - 1].act = act
    BY <1>2, <1>3, <2>2, <2>4
  <2>6. \A j \in Queued(p, s) : j <= i - 1
    <3>1. TAKE j \in Queued(p, s)
    <3>2. j \in Nat /\ j + 1 <= i
      BY <1>2, <1>3, <2>2
    <3> QED BY <2>3, <3>2
  <2> QED BY <2>5, <2>6 DEF EndsWith
<1> QED BY <1>1, <1>10, <1>11, <1>12, <1>13 DEF p, h

\* Deleting the entries of a set leaves those of the others, in their order.
LEMMA OthersKept ==
    ASSUME NEW q \in Seq(Entries), NEW s \in Sets
    PROVE  /\ Others(q, s) \in Seq(Entries)
           /\ Count(Others(q, s), s) = 0
           /\ \A r \in Sets \ {s} :
                 /\ Count(Others(q, s), r) = Count(q, r)
                 /\ \A act : EndsWith(Others(q, s), r, act) <=> EndsWith(q, r, act)
<1> DEFINE N == Len(q)
           Turn(k, n) == IF n = 0 THEN <<>>
                         ELSE IF q[n].set = s THEN k[n - 1] ELSE Append(k[n - 1], q[n])
           IsKept(k, m) == k \in [0..m -> Seq(Entries)] /\ \A n \in 0..m : k[n] = Turn(k, n)
           kept == CHOOSE k : k = [n \in 0..N |-> Turn(k, n)]
<1>1. N \in Nat /\ \A n \in 1..N : q[n] \in Entries
  BY LenProperties, ElementOfSeq
<1>2. \A m \in 0..N : \E k : IsKept(k, m)
  <2> DEFINE Bad == {m \in 0..N : ~ \E k : IsKept(k, m)}
  <2>1. SUFFICES Bad = {}
    OBVIOUS
  <2>2. SUFFICES ASSUME Bad # {} PROVE FALSE
    OBVIOUS
  <2>3. PICK m \in Bad : \A j \in Bad : m <= j
    <3>1. Bad \subseteq Nat
      BY <1>1
    <3> HIDE DEF Bad
    <3> QED BY <2>2, <3>1, LeastNat
  <2>4. CASE m = 0
    <3>1. IsKept([n \in 0..0 |-> <<>>], 0)
      BY EmptySeq
    <3> QED BY <2>4, <3>1
  <2>5. CASE m # 0
    <3>1. m \in 1..N /\ m - 1 \in 0..N /\ ~(m <= m - 1)
      BY <2>5, <1>1
    <3>2. m - 1 \notin Bad
      BY <2>3, <3>1
    <3>3. PICK k : IsKept(k, m - 1)
      BY <3>1, <3>2
    <3> DEFINE g == [n \in 0..m |-> IF n = m THEN Turn(k, m) ELSE k[n]]
    <3>4. \A n \in 0..(m - 1) : k[n] \in Seq(Entries)
      BY <3>3
    <3>5. m - 1 \in 0..(m - 1)
      BY <3>1
    <3>6. Turn(k, m) \in Seq(Entries)
      <4>1. k[m - 1] \in Seq(Entries) /\ q[m] \in Entries
        BY <1>1, <3>1, <3>4, <3>5
      <4> QED BY <4>1, AppendProperties, <2>5
    <3>7. g \in [0..m -> Seq(Entries)]
      <4>1. \A n \in 0..m : n = m \/ n \in 0..(m - 1)
        BY <3>1
      <4> HIDE DEF Turn
      <4> QED BY <4>1, <3>4, <3>6
    <3>8. ASSUME NEW n \in 0..m PROVE g[n] = Turn(g, n)
      <4>1. n # 0 => n - 1 \in 0..m /\ n - 1 # m
        BY <3>1
      <4>2. n # 0 => g[n - 1] = k[n - 1]
        BY <4>1
      <4>3. Turn(g, n) = Turn(k, n)
        BY <4>2
      <4>4. n # m => k[n] = Turn(k, n)
        <5>1. n # m => n \in 0..(m - 1)
          BY <3>1
        <5> QED BY <5>1, <3>3
      <4> HIDE DEF Turn
      <4> QED BY <4>3, <4>4
    <3>9. IsKept(g, m)
      BY <3>7, <3>8
    <3> HIDE DEF g, IsKept
    <3> QED BY <3>9
  <2> QED BY <2>4, <2>5
<1>3. kept = [n \in 0..N |-> Turn(kept, n)]
  <2>1. PICK k : IsKept(k, N)
    <3>1. N \in 0..N
      BY <1>1
    <3> HIDE DEF IsKept
    <3> QED BY <3>1, <1>2
  <2>2. k = [n \in 0..N |-> Turn(k, n)]
    BY <2>1
  <2> HIDE DEF Turn, IsKept
  <2> QED BY <2>2
<1>4. Others(q, s) = kept[N]
  BY DEF Others
<1>5. \A n \in 0..N : kept[n] = Turn(kept, n)
  <2> HIDE DEF kept, Turn
  <2> QED BY <1>3
<1> HIDE DEF kept
<1> DEFINE First(n) == SubSeq(q, 1, n)
           SameUpTo(n) == /\ kept[n] \in Seq(Entries) /\ Count(kept[n], s) = 0
                      /\ \A r \in Sets \ {s} :
                            /\ Count(kept[n], r) = Count(First(n), r)
                            /\ \A act : EndsWith(kept[n], r, act) <=> EndsWith(First(n), r, act)
<1>6. SameUpTo(0)
  <2>1. kept[0] = <<>> /\ First(0) = <<>>
    BY <1>1, <1>5, SubSeqEmpty
  <2> QED BY <2>1, QueuedEmpty, EmptySeq
<1>7. ASSUME NEW n \in 1..N, SameUpTo(n - 1) PROVE SameUpTo(n)
  <2> DEFINE e == q[n]
  <2>1. e \in Entries /\ First(n - 1) \in Seq(Entries) /\ First(n) = Append(First(n - 1), e)
    <3>1. e \in Entries /\ n - 1 \in Int /\ 1 \in 1..N
      BY <1>1
    <3>2. First(n) = SubSeq(q, 1, n - 1) \o <<q[n]>>
      <4>1. 1 \in 1..Len(q) /\ n \in 1..Len(q)
        BY <3>1
      <4> QED BY <4>1, SubSeqRecursiveSecond
    <3>3. First(n - 1) \in Seq(Entries)
      <4>1. \A i \in 1..(n - 1) : q[i] \in Entries
        BY <1>1
      <4> QED BY <3>1, <4>1, SubSeqProperties
    <3> QED BY <3>1, <3>2, <3>3, AppendIsConcat
  <2>2. kept[n] = IF e.set = s THEN kept[n - 1] ELSE Append(kept[n - 1], e)
    BY <1>1, <1>5
  <2>3. kept[n - 1] \in Seq(Entries) /\ Append(kept[n - 1], e) \in Seq(Entries)
    BY <1>7, <2>1, AppendProperties
  <2> HIDE DEF e, First
  <2>4. Count(kept[n], s) = 0 /\ kept[n] \in Seq(Entries)
    <3>1. e.set # s => Count(Append(kept[n - 1], e), s) = Count(kept[n - 1], s) + 0
      BY <2>1, <2>3, QueuedAppend DEF Counted
    <3> QED BY <1>7, <2>2, <2>3, <3>1
  <2>5. ASSUME NEW r \in Sets \ {s}
        PROVE  /\ Count(kept[n], r) = Count(First(n), r)
               /\ \A act : EndsWith(kept[n], r, act) <=> EndsWith(First(n), r, act)
    <3>1. /\ Count(kept[n - 1], r) = Count(First(n - 1), r)
          /\ \A act : EndsWith(kept[n - 1], r, act) <=> EndsWith(First(n - 1), r, act)
      BY <1>7
    <3>2. /\ Count(First(n), r) = Count(First(n - 1), r) + (IF Counted(e, r) THEN 1 ELSE 0)
          /\ \A act : EndsWith(First(n), r, act) <=>
                          IF Counted(e, r) THEN act = e.act ELSE EndsWith(First(n - 1), r, act)
      BY <2>1, QueuedAppend
    <3>3. CASE e.set = s
      <4>1. ~Counted(e, r)
        BY <3>3 DEF Counted
      <4>2. Count(First(n - 1), r) \in Nat
        BY <2>1, QueuedFinite
      <4> QED BY <3>1, <3>2, <3>3, <4>1, <4>2, <2>2
    <3>4. CASE e.set # s
      <4>1. /\ Count(kept[n], r) = Count(kept[n - 1], r) + (IF Counted(e, r) THEN 1 ELSE 0)
            /\ \A act : EndsWith(kept[n], r, act) <=>
                            IF Counted(e, r) THEN act = e.act ELSE EndsWith(kept[n - 1], r, act)
        BY <2>1, <2>2, <2>3, <3>4, QueuedAppend
      <4> QED BY <3>1, <3>2, <4>1
    <3> QED BY <3>3, <3>4
  <2> QED BY <2>4, <2>5
<1>8. \A n \in 0..N : SameUpTo(n)
  <2> DEFINE Bad == {n \in 0..N : ~SameUpTo(n)}
  <2>1. SUFFICES ASSUME Bad # {} PROVE FALSE
    OBVIOUS
  <2> HIDE DEF SameUpTo
  <2>2. PICK n \in Bad : \A j \in Bad : n <= j
    <3>1. Bad \subseteq Nat
      BY <1>1
    <3> HIDE DEF Bad
    <3> QED BY <2>1, <3>1, LeastNat
  <2>3. n # 0
    BY <1>6
  <2>4. n \in 1..N /\ n - 1 \in 0..N /\ ~(n <= n - 1)
    BY <1>1, <2>3
  <2>5. SameUpTo(n - 1)
    BY <2>2, <2>4
  <2> QED BY <1>7, <2>4, <2>5
<1>9. SameUpTo(N) /\ First(N) = q
  BY <1>1, <1>8, SubSeqFull
<1> QED BY <1>4, <1>9

\* Nothing is deleted from the empty queue.
LEMMA OthersEmpty == ASSUME NEW s PROVE Others(<<>>, s) = <<>>
<1> DEFINE Turn(k, n) == IF n = 0 THEN <<>>
                         ELSE IF <<>>[n].set = s THEN k[n - 1] ELSE Append(k[n - 1], <<>>[n])
           kept == CHOOSE k : k = [n \in 0..Len(<<>>) |-> Turn(k, n)]
           first == [n \in 0..Len(<<>>) |-> <<>>]
<1>1. Len(<<>>) = 0 /\ 0..Len(<<>>) = {0}
  BY EmptySeq
<1>2. first = [n \in 0..Len(<<>>) |-> Turn(first, n)]
  <2>1. \A n \in 0..Len(<<>>) : Turn(first, n) = <<>>
    BY <1>1
  <2> HIDE DEF Turn
  <2> QED BY <2>1
<1>3. kept = [n \in 0..Len(<<>>) |-> Turn(kept, n)]
  <2> HIDE DEF Turn, first
  <2> QED BY <1>2
<1>4. Others(<<>>, s) = kept[Len(<<>>)]
  BY DEF Others
<1> HIDE DEF kept
<1>5. kept[0] = Turn(kept, 0)
  <2> HIDE DEF Turn
  <2> QED BY <1>1, <1>3
<1> QED BY <1>1, <1>4, <1>5

-----------------------------------------------------------------------------
(* The reports of a set that the manager has not read.                     *)

\* The state of a set after so many of the reports rs, where x is the manager's
\* copy of it.
After(x, rs, i) == IF i = 0 THEN x ELSE rs[i].state

\* GAP reports r of a set whose state was x.
Leads(x, r) ==
    /\ x = "IDLE" => r.state = "START"
    /\ x = "START" => r.state \in {"ADVERTISING", "IDLE"}
    /\ x = "ADVERTISING" => r.state \in {"STOP", "IDLE"}
    /\ x = "STOP" => r.state = "IDLE"
    /\ r.cause = "cancelled" => x = "STOP"

\* The reports rs lead from the manager's copy x to the state st in GAP, and p
\* is pending from the command to the report of its result.
Course(x, rs, st, p) ==
    /\ st = After(x, rs, Len(rs))
    /\ \A i \in 1..Len(rs) : Leads(After(x, rs, i - 1), rs[i])
    /\ \A i \in 0..Len(rs) : After(x, rs, i) \in Temporary => After(x, rs, i) = p
    /\ \A i, j \in 0..Len(rs) :
          After(x, rs, i) \in Temporary /\ After(x, rs, j) \in Temporary => i = j
    /\ p \in Temporary => \E i \in 0..Len(rs) : After(x, rs, i) = p

\* What the reports' number and types are.
LEMMA ReportsTypes ==
    ASSUME NEW rs \in Seq(Reports)
    PROVE  /\ Len(rs) \in Nat /\ DOMAIN rs = 1..Len(rs) /\ (rs = <<>> <=> Len(rs) = 0)
           /\ \A i \in 1..Len(rs) : rs[i] \in Reports /\ rs[i].state \in AdvStates
<1>1. Len(rs) \in Nat /\ DOMAIN rs = 1..Len(rs) /\ (rs = <<>> <=> Len(rs) = 0)
  BY LenProperties, EmptySeq
<1>2. \A i \in 1..Len(rs) : rs[i] \in Reports
  BY ElementOfSeq
<1> QED BY <1>1, <1>2 DEF Reports

\* With no command under way at most the end of advertising is unread.
LEMMA CourseIdle ==
    ASSUME NEW x \in AdvStates, NEW rs \in Seq(Reports), NEW st, NEW p,
           Course(x, rs, st, p), p \notin Temporary
    PROVE  /\ x \in {"IDLE", "ADVERTISING"}
           /\ st \in {"IDLE", "ADVERTISING"}
           /\ \/ rs = <<>> /\ st = x
              \/ rs # <<>> /\ st = "IDLE" /\ x = "ADVERTISING"
<1>1. Len(rs) \in Nat /\ (rs = <<>> <=> Len(rs) = 0)
      /\ \A i \in 1..Len(rs) : rs[i].state \in AdvStates
  BY ReportsTypes
<1>2. \A i \in 0..Len(rs) : After(x, rs, i) \notin Temporary
  BY DEF Course
<1>3. After(x, rs, 0) = x /\ x \in {"IDLE", "ADVERTISING"}
  BY <1>1, <1>2 DEF After, AdvStates, Temporary
<1>4. CASE rs = <<>>
  BY <1>1, <1>3, <1>4 DEF Course
<1>5. CASE rs # <<>>
  <2>1. Len(rs) >= 1 /\ 1 \in 1..Len(rs) /\ After(x, rs, 1) = rs[1].state /\ 1 - 1 = 0
    BY <1>1, <1>5 DEF After
  <2>2. Leads(x, rs[1]) /\ rs[1].state \notin Temporary
    BY <1>1, <1>2, <1>3, <2>1 DEF Course
  <2>3. x = "ADVERTISING" /\ rs[1].state = "IDLE"
    BY <1>3, <2>2 DEF Leads, Temporary
  <2>4. ASSUME Len(rs) # 1 PROVE FALSE
    <3>0. Len(rs) \in Nat /\ Len(rs) >= 2
      <4>1. \A n \in Nat : n >= 1 /\ n # 1 => n >= 2
        OBVIOUS
      <4>2. Len(rs) \in Nat /\ Len(rs) >= 1 /\ Len(rs) # 1
        BY <1>1, <2>1, <2>4
      <4> QED BY <4>1, <4>2
    <3>1. 2 \in 1..Len(rs) /\ 2 \in 0..Len(rs) /\ After(x, rs, 2) = rs[2].state /\ 2 - 1 = 1
      BY <3>0 DEF After
    <3>2. Leads("IDLE", rs[2])
      BY <2>1, <2>3, <3>1 DEF Course
    <3> QED BY <1>2, <3>1, <3>2 DEF Leads, Temporary
  <2> QED BY <1>3, <1>5, <2>1, <2>3, <2>4 DEF Course
<1> QED BY <1>4, <1>5

\* Which command other than a start or a stop is pending makes no difference.
LEMMA CourseOther ==
    ASSUME NEW x, NEW rs, NEW st, NEW p, NEW q, Course(x, rs, st, p),
           p \notin Temporary, q \notin Temporary
    PROVE  Course(x, rs, st, q)
<1>1. \A i \in 0..Len(rs) : After(x, rs, i) \notin Temporary
  BY DEF Course
<1> QED BY <1>1 DEF Course

\* GAP changes the state of the set: for a command when none was under way, or
\* with its result or of itself.
LEMMA CourseTold ==
    ASSUME NEW x \in AdvStates, NEW rs \in Seq(Reports), NEW st, NEW p, NEW q,
           NEW r \in Reports, Course(x, rs, st, p), Leads(st, r),
           r.state \in Temporary => p \notin Temporary /\ q = r.state,
           r.state \notin Temporary => q = p
    PROVE  Course(x, Append(rs, r), r.state, q)
<1> DEFINE ss == Append(rs, r)
           n == Len(rs) + 1
<1>1. Len(rs) \in Nat
  BY ReportsTypes
<1>2. Len(ss) = n /\ ss[n] = r /\ \A i \in 1..Len(rs) : ss[i] = rs[i]
  BY AppendProperties
<1> HIDE DEF ss
<1>3. /\ \A i \in 0..Len(rs) : After(x, ss, i) = After(x, rs, i)
      /\ After(x, ss, n) = r.state /\ n - 1 = Len(rs)
      /\ \A i \in 0..n : i = n \/ i \in 0..Len(rs)
      /\ \A i \in 1..n : i = n \/ (i \in 1..Len(rs) /\ i - 1 \in 0..Len(rs))
      /\ n \in 0..n /\ n \notin 0..Len(rs) /\ Len(rs) \in 0..Len(rs)
  BY <1>1, <1>2 DEF After
<1>4. r.state = After(x, ss, Len(ss))
  BY <1>2, <1>3
<1>5. ASSUME NEW i \in 1..n PROVE Leads(After(x, ss, i - 1), ss[i])
  <2>1. CASE i = n
    BY <1>2, <1>3, <2>1 DEF Course
  <2>2. CASE i # n
    BY <1>2, <1>3, <2>2 DEF Course
  <2> QED BY <2>1, <2>2
<1>6. r.state \in Temporary => \A i \in 0..Len(rs) : After(x, rs, i) \notin Temporary
  BY DEF Course
<1>7. \A i \in 0..n : After(x, ss, i) \in Temporary => After(x, ss, i) = q
  BY <1>3, <1>6 DEF Course
<1>8. \A i, j \in 0..n : After(x, ss, i) \in Temporary /\ After(x, ss, j) \in Temporary => i = j
  <2>1. TAKE i, j \in 0..n
  <2>2. CASE i = n \/ j = n
    BY <1>3, <1>6, <2>2
  <2>3. CASE i # n /\ j # n
    BY <1>3, <2>3 DEF Course
  <2> QED BY <2>2, <2>3
<1>9. q \in Temporary => \E i \in 0..n : After(x, ss, i) = q
  <2>1. CASE r.state \in Temporary
    BY <1>3, <2>1
  <2>2. CASE r.state \notin Temporary
    <3>1. q = p
      BY <2>2
    <3>2. \A i \in 0..Len(rs) : i \in 0..n
      BY <1>1
    <3> QED BY <1>3, <3>1, <3>2 DEF Course
  <2> QED BY <2>1, <2>2
<1>10. Len(ss) = n
  BY <1>2
<1> HIDE DEF n
<1>11. Course(x, ss, r.state, q)
  BY <1>4, <1>5, <1>7, <1>8, <1>9, <1>10 DEF Course
<1> QED BY <1>11 DEF ss

\* The manager reads a report.  One that says IDLE before others is from before
\* a start.
LEMMA CourseRead ==
    ASSUME NEW x \in AdvStates, NEW rs \in Seq(Reports), NEW st, NEW p,
           Course(x, rs, st, p), rs # <<>>
    PROVE  LET r == Head(rs)
           IN  /\ r \in Reports /\ Tail(rs) \in Seq(Reports)
               /\ Leads(x, r)
               /\ Course(r.state, Tail(rs), st, IF x \in Temporary THEN "IDLE" ELSE p)
               /\ x \in Temporary => p = x
               /\ r.state \in Temporary => p = r.state
               /\ Tail(rs) = <<>> => st = r.state
               /\ Tail(rs) # <<>> /\ r.state = "IDLE" => p = "START" /\ x # "START"
<1> DEFINE r == Head(rs)
           ss == Tail(rs)
           m == Len(rs) - 1
           q == IF x \in Temporary THEN "IDLE" ELSE p
<1>1. Len(rs) \in Nat /\ Len(rs) # 0
  BY ReportsTypes
<1>2. /\ r \in Reports /\ ss \in Seq(Reports) /\ Len(ss) = m /\ r = rs[1]
      /\ \A i \in 1..m : ss[i] = rs[i + 1]
  BY <1>1, HeadTailProperties
<1>3. ss = <<>> <=> m = 0
  BY <1>2, ReportsTypes
<1> HIDE DEF ss, r
<1>4. /\ m \in Nat /\ 0 \in 0..Len(rs) /\ 1 \in 1..Len(rs) /\ 1 \in 0..Len(rs) /\ 1 - 1 = 0
      /\ After(x, rs, 0) = x /\ After(x, rs, 1) = r.state
      /\ \A i \in 0..m : /\ After(r.state, ss, i) = After(x, rs, i + 1)
                         /\ i + 1 \in 0..Len(rs) /\ i + 1 # 0
      /\ \A i \in 1..m : i + 1 \in 1..Len(rs) /\ (i - 1) + 1 = i /\ (i + 1) - 1 = i /\ i - 1 \in 0..m
      /\ m + 1 = Len(rs) /\ m \in 0..m
      /\ \A i \in 0..Len(rs) : i = 0 \/ (i - 1 \in 0..m /\ (i - 1) + 1 = i)
  BY <1>1, <1>2 DEF After
<1>5. Leads(x, r)
  BY <1>2, <1>4 DEF Course
<1>6. x \in Temporary => p = x /\ \A i \in 0..m : After(r.state, ss, i) \notin Temporary
  BY <1>4 DEF Course
<1>7. st = After(r.state, ss, m)
  BY <1>4 DEF Course
<1>8. \A i \in 1..m : Leads(After(r.state, ss, i - 1), ss[i])
  <2>1. TAKE i \in 1..m
  <2>2. i + 1 \in 1..Len(rs) /\ (i + 1) - 1 = i /\ ss[i] = rs[i + 1]
    BY <1>2, <1>4
  <2>3. After(r.state, ss, i - 1) = After(x, rs, i)
    BY <1>4
  <2>4. Leads(After(x, rs, (i + 1) - 1), rs[i + 1])
    BY <2>2 DEF Course
  <2> QED BY <2>2, <2>3, <2>4
<1>9. \A i \in 0..m : After(r.state, ss, i) \in Temporary => After(r.state, ss, i) = q
  BY <1>4, <1>6 DEF Course
<1>10. \A i, j \in 0..m :
          After(r.state, ss, i) \in Temporary /\ After(r.state, ss, j) \in Temporary => i = j
  <2>1. TAKE i, j \in 0..m
  <2>2. After(r.state, ss, i) \in Temporary /\ After(r.state, ss, j) \in Temporary => i + 1 = j + 1
    BY <1>4 DEF Course
  <2> QED BY <2>2, <1>4
<1>11. q \in Temporary => \E i \in 0..m : After(r.state, ss, i) = q
  <2>1. SUFFICES ASSUME q \in Temporary PROVE \E i \in 0..m : After(r.state, ss, i) = q
    OBVIOUS
  <2>2. q = p /\ x \notin Temporary
    BY <2>1 DEF Temporary
  <2>3. PICK i \in 0..Len(rs) : After(x, rs, i) = p
    BY <2>1, <2>2 DEF Course
  <2>4. i # 0
    BY <1>4, <2>1, <2>2, <2>3
  <2>5. i - 1 \in 0..m /\ (i - 1) + 1 = i
    BY <1>4, <2>3, <2>4
  <2>6. After(r.state, ss, i - 1) = p
    BY <1>4, <2>3, <2>5
  <2> QED BY <2>2, <2>5, <2>6
<1>12. Course(r.state, ss, st, q)
  <2> HIDE DEF m, q
  <2> QED BY <1>2, <1>7, <1>8, <1>9, <1>10, <1>11 DEF Course
<1>13. r.state \in Temporary => p = r.state
  BY <1>4 DEF Course
<1>14. ss = <<>> => st = r.state
  BY <1>3, <1>7 DEF After
<1>15. ss # <<>> /\ r.state = "IDLE" => p = "START" /\ x # "START"
  <2>1. SUFFICES ASSUME ss # <<>>, r.state = "IDLE" PROVE p = "START" /\ x # "START"
    OBVIOUS
  <2>2. 1 \in 1..m /\ 1 \in 0..m
    BY <1>3, <1>4, <2>1
  <2>3. Leads("IDLE", ss[1]) /\ After(r.state, ss, 1) = ss[1].state
    BY <1>4, <1>8, <2>1, <2>2 DEF After
  <2>4. After(r.state, ss, 1) = "START" /\ "START" \in Temporary
    BY <2>3 DEF Leads, Temporary
  <2>5. q = "START" /\ x \notin Temporary
    BY <1>6, <1>9, <2>2, <2>4
  <2> QED BY <2>5 DEF Temporary
<1> QED BY <1>2, <1>5, <1>6, <1>12, <1>13, <1>14, <1>15 DEF r, ss

\* A start or a stop is pending while GAP or the manager is in a temporary state
\* or a report of one is unread.
LEMMA CourseBusy ==
    ASSUME NEW x, NEW rs \in Seq(Reports), NEW st, NEW p, Course(x, rs, st, p)
    PROVE  p \in Temporary <=> \/ st \in Temporary \/ x \in Temporary
                               \/ \E i \in DOMAIN rs : rs[i].state \in Temporary
<1>1. Len(rs) \in Nat /\ DOMAIN rs = 1..Len(rs)
  BY ReportsTypes
<1>2. /\ \A i \in 0..Len(rs) : i = 0 \/ i \in 1..Len(rs)
      /\ 0 \in 0..Len(rs) /\ Len(rs) \in 0..Len(rs)
      /\ \A i \in 1..Len(rs) : i \in 0..Len(rs) /\ After(x, rs, i) = rs[i].state
      /\ After(x, rs, 0) = x
  BY <1>1 DEF After
<1>3. p \in Temporary => \E i \in 0..Len(rs) : After(x, rs, i) \in Temporary
  BY DEF Course
<1>4. (\E i \in 0..Len(rs) : After(x, rs, i) \in Temporary) => p \in Temporary
  BY DEF Course
<1>5. st = After(x, rs, Len(rs))
  BY DEF Course
<1> QED BY <1>1, <1>2, <1>3, <1>4, <1>5

-----------------------------------------------------------------------------
(* The manager and GAP together, as a call or a callback finds them.       *)

Managers ==
    [adv : [Sets -> AdvSets], queue : Seq(Entries), stack : [Sets -> AdvStates],
     io : [Sets -> Seq(Reports)], setting : SUBSET Sets, ok : BOOLEAN]

\* pending_action tells which command GAP or the reports are at.
Follows(a, st, rs, set) ==
    /\ a.pending = "UPDATE" <=> set
    /\ Course(a.ext, rs, st, a.pending)

Sound(d) ==
    /\ d \in Managers
    /\ \A s \in Sets : Follows(d.adv[s], d.stack[s], d.io[s], s \in d.setting)
    /\ \A s, t \in Sets : d.adv[s].pending # "IDLE" /\ d.adv[t].pending # "IDLE" => s = t
    /\ \A s \in Sets : Count(d.queue, s) <= d.adv[s].num

Woken(d) == d.queue = <<>> \/ Pending(d)

Kept(d, s) == d.adv[s].num = Count(d.queue, s)

\* What the application was told is what will be when the queue is done.
Agrees(d, s) ==
    /\ Kept(d, s)
    /\ EndsWith(d.queue, s, "START") => d.adv[s].mgr = "ENABLED"
    /\ EndsWith(d.queue, s, "STOP") => d.adv[s].mgr = "DISABLED"
    /\ Count(d.queue, s) = 0 =>
          /\ d.stack[s] \in {"START", "ADVERTISING"} => d.adv[s].mgr = "ENABLED"
          /\ d.adv[s].mgr = "ENABLED" =>
                /\ d.adv[s].pending # "STOP"
                /\ d.stack[s] \in {"START", "ADVERTISING"} \/ d.io[s] # <<>>

\* A step about one set leaves the others as they are.
Same(d, t, r) ==
    /\ t.adv[r] = d.adv[r] /\ t.stack[r] = d.stack[r] /\ t.io[r] = d.io[r]
    /\ Count(t.queue, r) = Count(d.queue, r)
    /\ \A act : EndsWith(t.queue, r, act) <=> EndsWith(d.queue, r, act)

OnlyAbout(d, t, s) == Sound(t) /\ \A r \in Sets \ {s} : Same(d, t, r)

\* Two calls about a set, one after the other.
LEMMA OnlyAboutTransitive ==
    ASSUME NEW d, NEW t, NEW u, NEW s \in Sets, OnlyAbout(d, t, s), OnlyAbout(t, u, s)
    PROVE  OnlyAbout(d, u, s)
BY DEF OnlyAbout, Same

\* A manager with another record, state, reports and settings of a set.
With(d, s, a, st, rs, q, g, b) ==
    [adv |-> [d.adv EXCEPT ![s] = a], queue |-> q, stack |-> [d.stack EXCEPT ![s] = st],
     io |-> [d.io EXCEPT ![s] = rs], setting |-> g, ok |-> b]

\* Such a manager is sound when the new record follows GAP and counts the queue.
LEMMA WithSound ==
    ASSUME NEW d, Sound(d), NEW s \in Sets, NEW a \in AdvSets, NEW st \in AdvStates,
           NEW rs \in Seq(Reports), NEW q \in Seq(Entries), NEW g, NEW b \in BOOLEAN,
           g \in {d.setting, d.setting \cup {s}, d.setting \ {s}},
           \A r \in Sets \ {s} : /\ Count(q, r) = Count(d.queue, r)
                                 /\ \A act : EndsWith(q, r, act) <=> EndsWith(d.queue, r, act),
           Count(q, s) <= a.num,
           Follows(a, st, rs, s \in g),
           a.pending # "IDLE" => d.adv[s].pending # "IDLE" \/ ~Pending(d)
    PROVE  OnlyAbout(d, With(d, s, a, st, rs, q, g, b), s)
<1> DEFINE t == With(d, s, a, st, rs, q, g, b)
<1>1. t \in Managers
  BY DEF With, Managers, Sound
<1>2. /\ t.adv[s] = a /\ t.stack[s] = st /\ t.io[s] = rs /\ t.queue = q /\ t.setting = g
      /\ \A r \in Sets \ {s} : /\ t.adv[r] = d.adv[r] /\ t.stack[r] = d.stack[r]
                                /\ t.io[r] = d.io[r] /\ (r \in g <=> r \in d.setting)
  BY DEF With, Managers, Sound
<1> HIDE DEF t
<1>3. \A r \in Sets : Follows(t.adv[r], t.stack[r], t.io[r], r \in t.setting)
  <2>1. TAKE r \in Sets
  <2>2. CASE r = s
    BY <1>2, <2>2
  <2>3. CASE r # s
    <3>1. Follows(d.adv[r], d.stack[r], d.io[r], r \in d.setting)
      BY DEF Sound
    <3> QED BY <1>2, <2>3, <3>1 DEF Follows
  <2> QED BY <2>2, <2>3
<1>4. \A r, u \in Sets : t.adv[r].pending # "IDLE" /\ t.adv[u].pending # "IDLE" => r = u
  <2>1. \A r \in Sets \ {s} : t.adv[r].pending # "IDLE" => Pending(d) /\ d.adv[r].pending # "IDLE"
    BY <1>2 DEF Pending
  <2>2. t.adv[s].pending # "IDLE" => d.adv[s].pending # "IDLE" \/ ~Pending(d)
    BY <1>2
  <2>3. \A r, u \in Sets : d.adv[r].pending # "IDLE" /\ d.adv[u].pending # "IDLE" => r = u
    BY DEF Sound
  <2> QED BY <2>1, <2>2, <2>3
<1>5. \A r \in Sets : Count(t.queue, r) <= t.adv[r].num
  BY <1>2 DEF Sound
<1>6. Sound(t)
  BY <1>1, <1>3, <1>4, <1>5 DEF Sound
<1>7. \A r \in Sets \ {s} : Same(d, t, r)
  BY <1>2 DEF Same
<1> QED BY <1>6, <1>7 DEF OnlyAbout, t

\* With nothing pending, the manager's copies of GAP's states are exact, but for
\* an end of advertising that it has not read of.
LEMMA NothingPending ==
    ASSUME NEW d, Sound(d), ~Pending(d), NEW s \in Sets
    PROVE  /\ d.adv[s].pending = "IDLE" /\ s \notin d.setting
           /\ Course(d.adv[s].ext, d.io[s], d.stack[s], "IDLE")
           /\ d.adv[s].ext \in {"IDLE", "ADVERTISING"}
           /\ \/ d.stack[s] = d.adv[s].ext
              \/ d.stack[s] = "IDLE" /\ d.adv[s].ext = "ADVERTISING" /\ d.io[s] # <<>>
<1>1. d.adv[s].pending = "IDLE" /\ s \notin d.setting /\ Course(d.adv[s].ext, d.io[s], d.stack[s], "IDLE")
  BY DEF Sound, Pending, Follows
<1>2. d.adv[s].ext \in AdvStates /\ d.io[s] \in Seq(Reports) /\ "IDLE" \notin Temporary
  BY DEF Sound, Managers, AdvSets, Temporary
<1> QED BY <1>1, <1>2, CourseIdle

-----------------------------------------------------------------------------
(* The three actions and the queue.                                        *)

\* What Sound says of a set and its types.
LEMMA SoundTypes ==
    ASSUME NEW d, Sound(d), NEW s \in Sets
    PROVE  /\ d \in Managers /\ d.adv[s] \in AdvSets /\ d.stack[s] \in AdvStates /\ d.io[s] \in Seq(Reports)
           /\ d.queue \in Seq(Entries) /\ Count(d.queue, s) <= d.adv[s].num
           /\ d.adv[s].num \in Nat /\ Count(d.queue, s) \in Nat
           /\ Follows(d.adv[s], d.stack[s], d.io[s], s \in d.setting)
BY QueuedFinite DEF Sound, Managers, AdvSets

\* GAP accepts a start or a stop with nothing pending.
LEMMA CommandSound ==
    ASSUME NEW d, Sound(d), ~Pending(d), NEW s \in Sets, NEW act \in Temporary,
           act = "START" => d.stack[s] = "IDLE", act = "STOP" => d.stack[s] = "ADVERTISING",
           NEW b \in AdvSets, b.pending = act, b.num = d.adv[s].num, b.ext = d.adv[s].ext
    PROVE  /\ Told(d.io[s], act, "zero") \in Seq(Reports) /\ Told(d.io[s], act, "zero") # <<>>
           /\ OnlyAbout(d, With(d, s, b, act, Told(d.io[s], act, "zero"), d.queue, d.setting, TRUE), s)
<1> DEFINE r == [state |-> act, cause |-> "zero"]
           rs == Told(d.io[s], act, "zero")
<1>0. /\ d \in Managers /\ d.adv[s] \in AdvSets /\ d.stack[s] \in AdvStates /\ d.io[s] \in Seq(Reports) /\ d.queue \in Seq(Entries)
      /\ Count(d.queue, s) <= d.adv[s].num /\ Follows(d.adv[s], d.stack[s], d.io[s], s \in d.setting)
  BY SoundTypes
<1>1. s \notin d.setting /\ Course(d.adv[s].ext, d.io[s], d.stack[s], "IDLE")
  BY NothingPending
<1>2. act \in AdvStates /\ act \in {"START", "STOP"} /\ act # "UPDATE" /\ r \in Reports
  BY DEF Temporary, AdvStates, Reports, Causes
<1>3. rs = Append(d.io[s], r)
  BY DEF Told
<1>5. r.state = act /\ r.cause = "zero"
  OBVIOUS
<1> HIDE DEF r, rs
<1>4. rs \in Seq(Reports) /\ rs # <<>>
  <2>1. rs \in Seq(Reports) /\ Len(rs) = Len(d.io[s]) + 1 /\ Len(d.io[s]) \in Nat
    BY <1>0, <1>2, <1>3, AppendProperties, LenProperties
  <2>2. Len(rs) # 0
    BY <2>1
  <2> QED BY <2>1, <2>2, EmptySeq
<1>6. Leads(d.stack[s], r)
  BY <1>2, <1>5 DEF Leads
<1>7. "IDLE" \notin Temporary /\ d.adv[s].ext \in AdvStates
  BY <1>0 DEF Temporary, AdvSets
<1>8. Course(d.adv[s].ext, rs, act, act)
  <2>1. r.state \in Temporary => "IDLE" \notin Temporary /\ act = r.state
    BY <1>5, <1>7
  <2>2. r.state \notin Temporary => act = "IDLE"
    BY <1>5
  <2>3. Course(d.adv[s].ext, Append(d.io[s], r), r.state, act)
    BY <1>0, <1>1, <1>2, <1>6, <1>7, <2>1, <2>2, CourseTold
  <2> QED BY <1>3, <1>5, <2>3
<1>9. Follows(b, act, rs, s \in d.setting)
  BY <1>1, <1>2, <1>8 DEF Follows
<1>10. OnlyAbout(d, With(d, s, b, act, rs, d.queue, d.setting, TRUE), s)
  BY <1>0, <1>2, <1>4, <1>9, WithSound
<1> QED BY <1>4, <1>10 DEF rs

\* ble_ext_adv_action_start with nothing pending.
LEMMA StartSound ==
    ASSUME NEW d, Sound(d), ~Pending(d), NEW s \in Sets, NEW t \in ble_ext_adv_action_start(d, s)
    PROVE  /\ OnlyAbout(d, t, s)
           /\ t.queue = d.queue /\ t.adv[s].num = d.adv[s].num
           /\ t.ok => /\ Pending(t) /\ t.stack[s] = "START" /\ t.adv[s].mgr = d.adv[s].mgr
                      /\ t.adv[s].pending = "START" /\ d.stack[s] = "IDLE"
           /\ ~t.ok => /\ ~Pending(t) /\ t.stack = d.stack /\ t.io = d.io /\ t.adv[s].mgr = "DISABLED"
                       /\ t.adv[s].ext = d.adv[s].ext
<1> DEFINE a == [d.adv[s] EXCEPT !.mgr = "DISABLED"]
           b == [d.adv[s] EXCEPT !.pending = "START"]
           rs == Told(d.io[s], "START", "zero")
           refused == With(d, s, a, d.stack[s], d.io[s], d.queue, d.setting, FALSE)
           started == With(d, s, b, "START", rs, d.queue, d.setting, TRUE)
<1>0. /\ d \in Managers /\ d.adv[s] \in AdvSets /\ d.stack[s] \in AdvStates /\ d.io[s] \in Seq(Reports) /\ d.queue \in Seq(Entries)
      /\ Count(d.queue, s) <= d.adv[s].num /\ Follows(d.adv[s], d.stack[s], d.io[s], s \in d.setting)
  BY SoundTypes
<1>1. d.adv[s].pending = "IDLE" /\ s \notin d.setting
  BY NothingPending
<1>2. \/ t = refused
      \/ d.stack[s] = "IDLE" /\ t = started
  <2>1. PICK u \in GapChange(d, s, "START", "IDLE") :
           t = IF u.ok THEN [u EXCEPT !.adv[s].pending = "START"] ELSE [u EXCEPT !.adv[s].mgr = "DISABLED"]
    BY DEF ble_ext_adv_action_start
  <2>2. \/ u = [d EXCEPT !.ok = FALSE]
        \/ d.stack[s] = "IDLE" /\ u = [d EXCEPT !.stack[s] = "START", !.ok = TRUE, !.io[s] = rs]
    <3>1. \/ u = [d EXCEPT !.ok = FALSE]
          \/ d.stack[s] = "IDLE" /\ u = [d EXCEPT !.stack[s] = "START", !.ok = TRUE,
                                                  !.io[s] = Told(@, "START", "zero")]
      BY DEF GapChange, Refuse
    <3> QED BY <3>1
  <2> HIDE DEF rs
  <2>3. CASE u = [d EXCEPT !.ok = FALSE]
    BY <2>1, <2>3, <1>0 DEF Managers, With
  <2>4. CASE d.stack[s] = "IDLE" /\ u = [d EXCEPT !.stack[s] = "START", !.ok = TRUE, !.io[s] = rs]
    BY <2>1, <2>4, <1>0 DEF Managers, With
  <2> QED BY <2>2, <2>3, <2>4
<1>3. CASE t = refused
  <2>1. /\ a \in AdvSets /\ a.pending = "IDLE" /\ a.num = d.adv[s].num /\ a.mgr = "DISABLED"
        /\ a.ext = d.adv[s].ext
    BY <1>0, <1>1 DEF AdvSets
  <2>2. OnlyAbout(d, refused, s)
    <3>1. Follows(a, d.stack[s], d.io[s], s \in d.setting)
      BY <2>1, <1>0, <1>1 DEF Follows
    <3> HIDE DEF a
    <3> QED BY <2>1, <3>1, <1>0, <1>1, WithSound
  <2>3. t.adv[s] = a /\ t.queue = d.queue /\ t.stack = d.stack /\ t.io = d.io /\ ~t.ok
        /\ \A r \in Sets \ {s} : t.adv[r] = d.adv[r]
    BY <1>3, <1>0 DEF With, Managers
  <2> HIDE DEF a
  <2>4. ~Pending(t)
    BY <2>1, <2>3 DEF Pending
  <2> QED BY <1>3, <2>1, <2>2, <2>3, <2>4
<1>4. CASE d.stack[s] = "IDLE" /\ t = started
  <2>1. /\ b \in AdvSets /\ b.pending = "START" /\ b.num = d.adv[s].num /\ b.mgr = d.adv[s].mgr
        /\ b.ext = d.adv[s].ext
    BY <1>0, <1>1, <1>4 DEF AdvSets, Actions
  <2>2. OnlyAbout(d, started, s)
    <3>1. "START" \in Temporary
      BY DEF Temporary
    <3> HIDE DEF b
    <3> QED BY <1>4, <2>1, <3>1, CommandSound
  <2>3. t.adv[s] = b /\ t.queue = d.queue /\ t.stack[s] = "START" /\ t.ok
    <3> HIDE DEF b, rs
    <3> QED BY <1>4, <1>0 DEF With, Managers
  <2>4. Pending(t)
    BY <2>1, <2>3 DEF Pending
  <2> QED BY <1>4, <2>1, <2>2, <2>3, <2>4
<1> QED BY <1>2, <1>3, <1>4

\* ble_ext_adv_action_stop with nothing pending.
LEMMA StopSound ==
    ASSUME NEW d, Sound(d), ~Pending(d), NEW s \in Sets, NEW cause \in AppCauses,
           NEW t \in ble_ext_adv_action_stop(d, s, cause)
    PROVE  /\ OnlyAbout(d, t, s)
           /\ t.queue = d.queue /\ t.adv[s].num = d.adv[s].num /\ t.adv[s].mgr = d.adv[s].mgr
           /\ t.ok => /\ Pending(t) /\ t.stack[s] = "STOP" /\ t.adv[s].pending = "STOP"
                      /\ d.stack[s] = "ADVERTISING"
           /\ ~t.ok => /\ ~Pending(t) /\ t.stack = d.stack /\ t.io = d.io
                       /\ t.adv[s].ext = d.adv[s].ext /\ t.adv[s].pending = "IDLE"
           /\ "STOP" \notin Refusable /\ d.stack[s] = "ADVERTISING" => t.ok
<1> DEFINE a == [d.adv[s] EXCEPT !.app_cause = cause]
           b == [d.adv[s] EXCEPT !.app_cause = cause, !.pending = "STOP"]
           rs == Told(d.io[s], "STOP", "zero")
           refused == With(d, s, a, d.stack[s], d.io[s], d.queue, d.setting, FALSE)
           stopped == With(d, s, b, "STOP", rs, d.queue, d.setting, TRUE)
<1>0. /\ d \in Managers /\ d.adv[s] \in AdvSets /\ d.stack[s] \in AdvStates /\ d.io[s] \in Seq(Reports) /\ d.queue \in Seq(Entries)
      /\ Count(d.queue, s) <= d.adv[s].num /\ Follows(d.adv[s], d.stack[s], d.io[s], s \in d.setting)
  BY SoundTypes
<1>1. d.adv[s].pending = "IDLE" /\ s \notin d.setting
  BY NothingPending
<1>2. \/ t = refused /\ (d.stack[s] = "ADVERTISING" => "STOP" \in Refusable)
      \/ d.stack[s] = "ADVERTISING" /\ t = stopped
  <2>1. PICK u \in GapChange(d, s, "STOP", "ADVERTISING") :
           t = IF u.ok THEN [u EXCEPT !.adv[s].app_cause = cause, !.adv[s].pending = "STOP"]
               ELSE [u EXCEPT !.adv[s].app_cause = cause]
    BY DEF ble_ext_adv_action_stop
  <2>2. \/ u = [d EXCEPT !.ok = FALSE] /\ (d.stack[s] = "ADVERTISING" => "STOP" \in Refusable)
        \/ d.stack[s] = "ADVERTISING" /\ u = [d EXCEPT !.stack[s] = "STOP", !.ok = TRUE, !.io[s] = rs]
    <3>1. \/ u = [d EXCEPT !.ok = FALSE] /\ (d.stack[s] = "ADVERTISING" => "STOP" \in Refusable)
          \/ d.stack[s] = "ADVERTISING" /\ u = [d EXCEPT !.stack[s] = "STOP", !.ok = TRUE,
                                                         !.io[s] = Told(@, "STOP", "zero")]
      BY DEF GapChange, Refuse
    <3> QED BY <3>1
  <2> HIDE DEF rs
  <2>3. CASE u = [d EXCEPT !.ok = FALSE] /\ (d.stack[s] = "ADVERTISING" => "STOP" \in Refusable)
    BY <2>1, <2>3, <1>0 DEF Managers, With
  <2>4. CASE d.stack[s] = "ADVERTISING" /\ u = [d EXCEPT !.stack[s] = "STOP", !.ok = TRUE, !.io[s] = rs]
    BY <2>1, <2>4, <1>0 DEF Managers, With, AdvSets
  <2> QED BY <2>2, <2>3, <2>4
<1>3. CASE t = refused /\ (d.stack[s] = "ADVERTISING" => "STOP" \in Refusable)
  <2>1. /\ a \in AdvSets /\ a.pending = "IDLE" /\ a.num = d.adv[s].num /\ a.mgr = d.adv[s].mgr
        /\ a.ext = d.adv[s].ext
    BY <1>0, <1>1 DEF AdvSets
  <2>2. OnlyAbout(d, refused, s)
    <3>1. Follows(a, d.stack[s], d.io[s], s \in d.setting)
      BY <2>1, <1>0, <1>1 DEF Follows
    <3> HIDE DEF a
    <3> QED BY <2>1, <3>1, <1>0, <1>1, WithSound
  <2>3. t.adv[s] = a /\ t.queue = d.queue /\ t.stack = d.stack /\ t.io = d.io /\ ~t.ok
        /\ \A r \in Sets \ {s} : t.adv[r] = d.adv[r]
    BY <1>3, <1>0 DEF With, Managers
  <2>4. ~Pending(t)
    BY <2>1, <2>3 DEF Pending
  <2> HIDE DEF a
  <2> QED BY <1>3, <2>1, <2>2, <2>3, <2>4
<1>4. CASE d.stack[s] = "ADVERTISING" /\ t = stopped
  <2>1. /\ b \in AdvSets /\ b.pending = "STOP" /\ b.num = d.adv[s].num /\ b.mgr = d.adv[s].mgr
        /\ b.ext = d.adv[s].ext
    BY <1>0, <1>1, <1>4 DEF AdvSets, Actions
  <2>2. OnlyAbout(d, stopped, s)
    <3>1. "STOP" \in Temporary
      BY DEF Temporary
    <3> HIDE DEF b
    <3> QED BY <1>4, <2>1, <3>1, CommandSound
  <2>3. t.adv[s] = b /\ t.queue = d.queue /\ t.stack[s] = "STOP" /\ t.ok
    <3> HIDE DEF b, rs
    <3> QED BY <1>4, <1>0 DEF With, Managers
  <2>4. Pending(t)
    BY <2>1, <2>3 DEF Pending
  <2> QED BY <1>4, <2>1, <2>2, <2>3, <2>4
<1> QED BY <1>2, <1>3, <1>4

\* ble_ext_adv_action_update with nothing pending.
LEMMA UpdateSound ==
    ASSUME NEW d, Sound(d), ~Pending(d), NEW s \in Sets, NEW t \in ble_ext_adv_action_update(d, s)
    PROVE  /\ OnlyAbout(d, t, s)
           /\ t.queue = d.queue /\ t.stack = d.stack /\ t.io = d.io
           /\ t.adv[s].num = d.adv[s].num /\ t.adv[s].mgr = d.adv[s].mgr
           /\ t.adv[s].pending \in {d.adv[s].pending, "UPDATE"}
           /\ t.ok => Pending(t)
           /\ ~t.ok => ~Pending(t) /\ t.adv = d.adv
           /\ "UPDATE" \notin Refusable => t.ok
<1> DEFINE b == [d.adv[s] EXCEPT !.pending = "UPDATE", !.param_set = TRUE]
           refused == With(d, s, d.adv[s], d.stack[s], d.io[s], d.queue, d.setting, FALSE)
           updating == With(d, s, b, d.stack[s], d.io[s], d.queue, d.setting \cup {s}, TRUE)
<1>0. /\ d \in Managers /\ d.adv[s] \in AdvSets /\ d.stack[s] \in AdvStates /\ d.io[s] \in Seq(Reports) /\ d.queue \in Seq(Entries)
      /\ Count(d.queue, s) <= d.adv[s].num /\ Follows(d.adv[s], d.stack[s], d.io[s], s \in d.setting)
  BY SoundTypes
<1>1. d.adv[s].pending = "IDLE" /\ s \notin d.setting
      /\ Course(d.adv[s].ext, d.io[s], d.stack[s], "IDLE")
  BY NothingPending
<1>2. \/ t = refused /\ "UPDATE" \in Refusable
      \/ t = updating
  <2>1. PICK u \in le_ext_adv_start_setting(d, s) :
           t = IF u.ok THEN [u EXCEPT !.adv[s].pending = "UPDATE", !.adv[s].param_set = TRUE] ELSE u
    BY DEF ble_ext_adv_action_update
  <2>2. \/ u = [d EXCEPT !.ok = FALSE] /\ "UPDATE" \in Refusable
        \/ u = [d EXCEPT !.setting = d.setting \cup {s}, !.ok = TRUE]
    BY DEF le_ext_adv_start_setting, Refuse
  <2>3. CASE u = [d EXCEPT !.ok = FALSE] /\ "UPDATE" \in Refusable
    BY <2>1, <2>3, <1>0 DEF Managers, With
  <2>4. CASE u = [d EXCEPT !.setting = d.setting \cup {s}, !.ok = TRUE]
    BY <2>1, <2>4, <1>0 DEF Managers, With, AdvSets
  <2> QED BY <2>2, <2>3, <2>4
<1>3. CASE t = refused /\ "UPDATE" \in Refusable
  <2>1. OnlyAbout(d, refused, s)
    BY <1>0, <1>1, WithSound
  <2>2. t.adv = d.adv /\ t.queue = d.queue /\ t.stack = d.stack /\ t.io = d.io /\ ~t.ok
    BY <1>3, <1>0 DEF With, Managers
  <2>3. ~Pending(t)
    BY <2>2 DEF Pending
  <2> QED BY <1>3, <2>1, <2>2, <2>3
<1>4. CASE t = updating
  <2>1. /\ b \in AdvSets /\ b.pending = "UPDATE" /\ b.num = d.adv[s].num /\ b.mgr = d.adv[s].mgr
        /\ b.ext = d.adv[s].ext
    BY <1>0, <1>1 DEF AdvSets, Actions
  <2>2. OnlyAbout(d, updating, s)
    <3>1. Follows(b, d.stack[s], d.io[s], s \in d.setting \cup {s})
      <4>1. "IDLE" \notin Temporary /\ "UPDATE" \notin Temporary
        BY DEF Temporary
      <4>2. Course(d.adv[s].ext, d.io[s], d.stack[s], "UPDATE")
        BY <1>1, <4>1, CourseOther
      <4> HIDE DEF b
      <4> QED BY <2>1, <4>2 DEF Follows
    <3> HIDE DEF b
    <3> QED BY <2>1, <3>1, <1>0, <1>1, WithSound
  <2>3. t.adv[s] = b /\ t.queue = d.queue /\ t.stack = d.stack /\ t.io = d.io /\ t.ok
    BY <1>4, <1>0 DEF With, Managers
  <2>4. Pending(t)
    BY <2>1, <2>3 DEF Pending
  <2> QED BY <1>4, <2>1, <2>2, <2>3, <2>4
<1> QED BY <1>2, <1>3, <1>4

\* The last start or stop of the set in the queue is of this kind.
EndsOnlyWith(q, s, act) == Count(q, s) > 0 /\ \A a : EndsWith(q, s, a) <=> a = act

\* What a message in the queue means for its set.
LEMMA SendSound ==
    ASSUME NEW d, Sound(d), NEW s \in Sets, NEW act \in Actions, NEW cause \in AppCauses, NEW t,
           t = ble_ext_adv_mgr_send_msg(d, s, act, cause)
    PROVE  /\ OnlyAbout(d, t, s)
           /\ t.stack = d.stack /\ t.io = d.io /\ t.adv[s].mgr = d.adv[s].mgr
           /\ t.adv[s].pending = d.adv[s].pending
           /\ Pending(t) <=> Pending(d)
           /\ Kept(d, s) => Kept(t, s)
           /\ t.ok <=> Len(d.queue) < QueueNum
           /\ ~t.ok => t.queue = d.queue /\ t.adv = d.adv
           /\ t.ok => /\ Len(t.queue) = Len(d.queue) + 1
                      /\ act # "UPDATE" => EndsOnlyWith(t.queue, s, act)
                      /\ act = "UPDATE" => /\ Count(t.queue, s) = Count(d.queue, s)
                                           /\ \A a : EndsWith(t.queue, s, a) <=> EndsWith(d.queue, s, a)
<1> DEFINE e == [set |-> s, act |-> act, cause |-> cause]
           n == IF act \in {"START", "STOP"} THEN d.adv[s].num + 1 ELSE d.adv[s].num
           b == [d.adv[s] EXCEPT !.num = n]
           q == Append(d.queue, e)
           full == With(d, s, d.adv[s], d.stack[s], d.io[s], d.queue, d.setting, FALSE)
           sent == With(d, s, b, d.stack[s], d.io[s], q, d.setting, TRUE)
<1>0. /\ d \in Managers /\ d.adv[s] \in AdvSets /\ d.stack[s] \in AdvStates /\ d.io[s] \in Seq(Reports) /\ d.queue \in Seq(Entries)
      /\ Count(d.queue, s) <= d.adv[s].num /\ Follows(d.adv[s], d.stack[s], d.io[s], s \in d.setting)
      /\ d.adv[s].num \in Nat /\ Count(d.queue, s) \in Nat
  BY SoundTypes
<1>1. Len(d.queue) \in Nat /\ QueueNum \in Nat
  BY <1>0, LenProperties, BleExtAdvAssumption
<1>2. CASE Len(d.queue) >= QueueNum
  <2>1. t = full
    BY <1>0, <1>2 DEF ble_ext_adv_mgr_send_msg, Managers, With
  <2>2. OnlyAbout(d, full, s)
    BY <1>0, WithSound
  <2>3. t.adv = d.adv /\ t.queue = d.queue /\ t.stack = d.stack /\ t.io = d.io /\ ~t.ok
    BY <2>1, <1>0 DEF With, Managers
  <2>4. Pending(t) <=> Pending(d)
    BY <2>3 DEF Pending
  <2>5. Kept(d, s) => Kept(t, s)
    BY <2>3 DEF Kept
  <2>6. ~(Len(d.queue) < QueueNum)
    BY <1>1, <1>2
  <2> HIDE DEF full
  <2> QED BY <2>1, <2>2, <2>3, <2>4, <2>5, <2>6
<1>3. CASE Len(d.queue) < QueueNum
  <2>1. t = sent
    <3>1. ~(Len(d.queue) >= QueueNum)
      BY <1>1, <1>3
    <3>2. t = [d EXCEPT !.queue = q, !.adv[s].num = n, !.ok = TRUE]
      BY <3>1 DEF ble_ext_adv_mgr_send_msg
    <3> HIDE DEF q, n
    <3> QED BY <1>0, <3>2 DEF Managers, With
  <2>2. /\ b \in AdvSets /\ b.num = n /\ b.pending = d.adv[s].pending /\ b.mgr = d.adv[s].mgr
        /\ b.ext = d.adv[s].ext
    <3>1. n \in Nat
      BY <1>0
    <3> HIDE DEF n
    <3> QED BY <1>0, <3>1 DEF AdvSets
  <2>3. e \in Entries
    BY DEF Entries
  <2>4. Counted(e, s) <=> act # "UPDATE"
    BY DEF Counted
  <2>5. \A r \in Sets \ {s} : ~Counted(e, r)
    BY DEF Counted
  <2> HIDE DEF e
  <2>6. \A r \in Sets : /\ Count(q, r) = Count(d.queue, r) + (IF Counted(e, r) THEN 1 ELSE 0)
                        /\ \A a : EndsWith(q, r, a) <=>
                                     IF Counted(e, r) THEN a = e.act ELSE EndsWith(d.queue, r, a)
    BY <1>0, <2>3, QueuedAppend
  <2>7. q \in Seq(Entries) /\ Len(q) = Len(d.queue) + 1
    BY <1>0, <2>3, AppendProperties
  <2>8. \A r \in Sets \ {s} : /\ Count(q, r) = Count(d.queue, r)
                              /\ \A a : EndsWith(q, r, a) <=> EndsWith(d.queue, r, a)
    <3>1. \A r \in Sets : Count(d.queue, r) \in Nat
      BY <1>0, QueuedFinite
    <3> HIDE DEF q
    <3> QED BY <2>5, <2>6, <3>1
  <2>9. /\ act = "UPDATE" => /\ n = d.adv[s].num /\ Count(q, s) = Count(d.queue, s)
                             /\ \A a : EndsWith(q, s, a) <=> EndsWith(d.queue, s, a)
        /\ act # "UPDATE" => /\ n = d.adv[s].num + 1 /\ Count(q, s) = Count(d.queue, s) + 1
                             /\ \A a : EndsWith(q, s, a) <=> a = act
    <3>1. act # "UPDATE" <=> act \in {"START", "STOP"}
      BY DEF Actions
    <3>2. e.act = act
      BY DEF e
    <3> HIDE DEF q
    <3> QED BY <1>0, <2>4, <2>6, <3>1, <3>2
  <2>10. OnlyAbout(d, sent, s)
    <3>1. Count(q, s) <= b.num
      BY <1>0, <2>2, <2>9
    <3>2. Follows(b, d.stack[s], d.io[s], s \in d.setting)
      BY <1>0, <2>2 DEF Follows
    <3> HIDE DEF b, q
    <3> QED BY <1>0, <2>2, <2>7, <2>8, <3>1, <3>2, WithSound
  <2>11. /\ t.adv[s] = b /\ t.queue = q /\ t.stack = d.stack /\ t.io = d.io /\ t.ok
         /\ \A r \in Sets \ {s} : t.adv[r] = d.adv[r]
    <3> HIDE DEF b, q
    <3> QED BY <2>1, <1>0 DEF With, Managers
  <2>12. Pending(t) <=> Pending(d)
    <3>1. \A r \in Sets : t.adv[r].pending = d.adv[r].pending
      <4>1. t.adv[s].pending = d.adv[s].pending
        BY <2>2, <2>11
      <4>2. \A r \in Sets \ {s} : t.adv[r].pending = d.adv[r].pending
        BY <2>11
      <4> QED BY <4>1, <4>2
    <3> QED BY <3>1 DEF Pending
  <2>13. Kept(d, s) => Kept(t, s)
    <3> HIDE DEF n, b, q
    <3> QED BY <1>0, <2>2, <2>9, <2>11 DEF Kept, Actions
  <2> HIDE DEF n, b, q, sent
  <2> QED BY <1>0, <1>1, <1>3, <2>1, <2>2, <2>7, <2>9, <2>10, <2>11, <2>12, <2>13 DEF EndsOnlyWith
<1> QED BY <1>1, <1>2, <1>3

-----------------------------------------------------------------------------
(* The calls.                                                              *)

\* A manager with another record of a set.
Renewed(d, s, a) == [d EXCEPT !.adv[s] = a]

\* A call that changes a set's record leaves GAP and the queue alone.
LEMMA Touched ==
    ASSUME NEW d, Sound(d), NEW s \in Sets, NEW a \in AdvSets,
           a.pending = d.adv[s].pending, a.num = d.adv[s].num, a.ext = d.adv[s].ext
    PROVE  LET t == Renewed(d, s, a)
           IN  /\ OnlyAbout(d, t, s)
               /\ t.adv[s] = a /\ t.queue = d.queue /\ t.stack = d.stack /\ t.io = d.io /\ t.ok = d.ok
               /\ Pending(t) <=> Pending(d)
<1> DEFINE t == Renewed(d, s, a)
           u == With(d, s, a, d.stack[s], d.io[s], d.queue, d.setting, d.ok)
<1>0. /\ d \in Managers /\ d.adv[s] \in AdvSets /\ d.stack[s] \in AdvStates /\ d.io[s] \in Seq(Reports) /\ d.queue \in Seq(Entries)
      /\ Count(d.queue, s) <= d.adv[s].num /\ Follows(d.adv[s], d.stack[s], d.io[s], s \in d.setting)
      /\ d.ok \in BOOLEAN
  BY SoundTypes DEF Managers
<1>1. t = u
  <2>1. t = [adv |-> [d.adv EXCEPT ![s] = a], queue |-> d.queue, stack |-> d.stack, io |-> d.io,
             setting |-> d.setting, ok |-> d.ok]
    <3>1. t = [d EXCEPT !.adv[s] = a]
      BY DEF Renewed
    <3>2. d = [adv |-> d.adv, queue |-> d.queue, stack |-> d.stack, io |-> d.io,
               setting |-> d.setting, ok |-> d.ok]
      BY <1>0 DEF Managers
    <3> HIDE DEF t
    <3> QED BY <3>1, <3>2
  <2>2. d.stack = [d.stack EXCEPT ![s] = d.stack[s]] /\ d.io = [d.io EXCEPT ![s] = d.io[s]]
    BY <1>0 DEF Managers
  <2> QED BY <2>1, <2>2 DEF With
<1>2. OnlyAbout(d, u, s)
  <2>1. Follows(a, d.stack[s], d.io[s], s \in d.setting)
    BY <1>0 DEF Follows
  <2> QED BY <1>0, <2>1, WithSound
<1>3. /\ u.adv[s] = a /\ u.queue = d.queue /\ u.stack = d.stack /\ u.io = d.io /\ u.ok = d.ok
      /\ \A r \in Sets \ {s} : u.adv[r] = d.adv[r]
  BY <1>0 DEF With, Managers
<1> HIDE DEF u, t
<1>4. Pending(u) <=> Pending(d)
  <2>1. \A r \in Sets : u.adv[r].pending = d.adv[r].pending
    BY <1>3
  <2> QED BY <2>1 DEF Pending
<1> QED BY <1>1, <1>2, <1>3, <1>4 DEF t

\* Setting adv_state_mgr.
LEMMA ManagerSet ==
    ASSUME NEW d, Sound(d), NEW s \in Sets, NEW m \in {"DISABLED", "ENABLED"}, NEW t,
           t = [d EXCEPT !.adv[s].mgr = m]
    PROVE  /\ OnlyAbout(d, t, s)
           /\ t.adv[s].mgr = m /\ t.adv[s].num = d.adv[s].num
           /\ t.adv[s].pending = d.adv[s].pending
           /\ t.queue = d.queue /\ t.stack = d.stack /\ t.io = d.io /\ t.ok = d.ok
           /\ Pending(t) <=> Pending(d)
<1> DEFINE a == [d.adv[s] EXCEPT !.mgr = m]
<1>1. d \in Managers /\ d.adv[s] \in AdvSets
  BY SoundTypes
<1>2. /\ a \in AdvSets /\ a.pending = d.adv[s].pending /\ a.num = d.adv[s].num /\ a.ext = d.adv[s].ext
      /\ a.mgr = m
  BY <1>1 DEF AdvSets
<1>3. t = Renewed(d, s, a)
  BY <1>1 DEF Managers, Renewed
<1> DEFINE u == Renewed(d, s, a)
<1> HIDE DEF a
<1>4. /\ OnlyAbout(d, u, s)
      /\ u.adv[s] = a /\ u.queue = d.queue /\ u.stack = d.stack /\ u.io = d.io /\ u.ok = d.ok
      /\ Pending(u) <=> Pending(d)
  BY <1>2, Touched
<1>5. t = u
  BY <1>3
<1> HIDE DEF u
<1> QED BY <1>2, <1>4, <1>5

\* An update is under way or queued; nothing else changes for the set.
LEMMA StartSetSound ==
    ASSUME NEW d, Sound(d), NEW s \in Sets, NEW t \in ble_ext_adv_mgr_start_set_adv_param(d, s)
    PROVE  /\ OnlyAbout(d, t, s)
           /\ t.stack = d.stack /\ t.io = d.io /\ t.adv[s].mgr = d.adv[s].mgr
           /\ t.adv[s].pending \in {d.adv[s].pending, "UPDATE"}
           /\ Kept(d, s) => Kept(t, s)
           /\ Count(t.queue, s) = Count(d.queue, s)
           /\ \A act : EndsWith(t.queue, s, act) <=> EndsWith(d.queue, s, act)
           /\ Pending(d) => Pending(t)
           /\ "UPDATE" \notin Refusable => Pending(t)
           /\ ~Pending(d) => t.queue = d.queue
           /\ Len(t.queue) <= Len(d.queue) + 1
<1>0. Len(d.queue) \in Nat
  BY SoundTypes, LenProperties
<1>1. CASE Pending(d)
  <2>1. t = ble_ext_adv_mgr_send_msg(d, s, "UPDATE", "app")
    BY <1>1 DEF ble_ext_adv_mgr_start_set_adv_param
  <2>2. "UPDATE" \in Actions /\ "app" \in AppCauses
    BY DEF Actions, AppCauses
  <2>3. /\ OnlyAbout(d, t, s)
        /\ t.stack = d.stack /\ t.io = d.io /\ t.adv[s].mgr = d.adv[s].mgr
        /\ t.adv[s].pending = d.adv[s].pending
        /\ Pending(t) <=> Pending(d)
        /\ Kept(d, s) => Kept(t, s)
        /\ t.ok <=> Len(d.queue) < QueueNum
        /\ ~t.ok => t.queue = d.queue /\ t.adv = d.adv
        /\ t.ok => /\ Len(t.queue) = Len(d.queue) + 1
                   /\ Count(t.queue, s) = Count(d.queue, s)
                   /\ \A a : EndsWith(t.queue, s, a) <=> EndsWith(d.queue, s, a)
    BY <2>1, <2>2, SendSound
  <2> QED BY <1>0, <1>1, <2>3
<1>2. CASE ~Pending(d)
  <2>1. t \in ble_ext_adv_action_update(d, s)
    BY <1>2 DEF ble_ext_adv_mgr_start_set_adv_param
  <2>2. /\ OnlyAbout(d, t, s) /\ t.queue = d.queue /\ t.stack = d.stack /\ t.io = d.io
        /\ t.adv[s].num = d.adv[s].num /\ t.adv[s].mgr = d.adv[s].mgr
        /\ t.adv[s].pending \in {d.adv[s].pending, "UPDATE"}
        /\ t.ok => Pending(t)
        /\ "UPDATE" \notin Refusable => t.ok
    BY <1>2, <2>1, UpdateSound
  <2> QED BY <1>0, <1>2, <2>2 DEF Kept
<1> QED BY <1>1, <1>2

\* A set that GAP advertises, or stops, does not become idle by a call.
Stays(d, t, s) ==
    d.stack[s] \in {"ADVERTISING", "STOP"} => t.stack[s] \in {"ADVERTISING", "STOP"}

\* A stop for the application or for an update: sent, queued or refused.
LEMMA DisableSound ==
    ASSUME NEW d, Sound(d), NEW s \in Sets, NEW cause \in AppCauses,
           NEW t \in ble_ext_adv_mgr_disable(d, s, cause)
    PROVE  /\ OnlyAbout(d, t, s)
           /\ t.adv[s].mgr = IF t.ok /\ cause # "update" THEN "DISABLED" ELSE d.adv[s].mgr
           /\ Kept(d, s) => Kept(t, s)
           /\ Pending(d) => Pending(t)
           /\ ~Pending(d) => t.queue = d.queue
           /\ Len(t.queue) <= Len(d.queue) + 1
           /\ Pending(d) /\ Len(d.queue) < QueueNum =>
                 t.ok /\ EndsOnlyWith(t.queue, s, "STOP")
           /\ ~Pending(d) /\ "STOP" \notin Refusable /\ d.stack[s] = "ADVERTISING" =>
                 t.ok /\ Pending(t) /\ t.stack[s] = "STOP"
           /\ ~Pending(d) /\ d.stack[s] # "ADVERTISING" =>
                 /\ ~t.ok /\ t.stack = d.stack /\ t.io = d.io
                 /\ t.adv[s].pending = "IDLE"
           /\ Stays(d, t, s)
<1>0. Len(d.queue) \in Nat
  BY SoundTypes, LenProperties
<1>1. PICK u : /\ Pending(d) => u = ble_ext_adv_mgr_send_msg(d, s, "STOP", cause)
               /\ ~Pending(d) => u \in ble_ext_adv_action_stop(d, s, cause)
               /\ t = IF u.ok /\ cause # "update" THEN [u EXCEPT !.adv[s].mgr = "DISABLED"] ELSE u
  BY DEF ble_ext_adv_mgr_disable
<1>2. /\ OnlyAbout(d, u, s) /\ u.adv[s].mgr = d.adv[s].mgr
      /\ Kept(d, s) => Kept(u, s)
      /\ Pending(d) => Pending(u)
      /\ ~Pending(d) => u.queue = d.queue
      /\ Len(u.queue) <= Len(d.queue) + 1
      /\ Pending(d) /\ Len(d.queue) < QueueNum =>
            u.ok /\ EndsOnlyWith(u.queue, s, "STOP")
      /\ ~Pending(d) /\ "STOP" \notin Refusable /\ d.stack[s] = "ADVERTISING" =>
            u.ok /\ Pending(u) /\ u.stack[s] = "STOP"
      /\ ~Pending(d) /\ d.stack[s] # "ADVERTISING" =>
            /\ ~u.ok /\ u.stack = d.stack /\ u.io = d.io
            /\ u.adv[s].pending = "IDLE"
      /\ Stays(d, u, s)
  <2>1. CASE Pending(d)
    <3>1. u = ble_ext_adv_mgr_send_msg(d, s, "STOP", cause)
      BY <1>1, <2>1
    <3>2. "STOP" \in Actions /\ "STOP" # "UPDATE"
      BY DEF Actions
    <3>3. /\ OnlyAbout(d, u, s)
          /\ u.adv[s].mgr = d.adv[s].mgr /\ u.stack = d.stack
          /\ Pending(u) <=> Pending(d)
          /\ Kept(d, s) => Kept(u, s)
      BY <3>1, <3>2, SendSound
    <3>4. /\ u.ok <=> Len(d.queue) < QueueNum
          /\ ~u.ok => u.queue = d.queue
          /\ u.ok => Len(u.queue) = Len(d.queue) + 1
      BY <3>1, <3>2, SendSound
    <3>5. u.ok => EndsOnlyWith(u.queue, s, "STOP")
      BY <3>1, <3>2, SendSound
    <3> QED BY <1>0, <2>1, <3>3, <3>4, <3>5 DEF Stays
  <2>2. CASE ~Pending(d)
    <3>1. u \in ble_ext_adv_action_stop(d, s, cause)
      BY <1>1, <2>2
    <3>2. /\ OnlyAbout(d, u, s)
          /\ u.queue = d.queue /\ u.adv[s].num = d.adv[s].num /\ u.adv[s].mgr = d.adv[s].mgr
          /\ u.ok => Pending(u) /\ u.stack[s] = "STOP" /\ d.stack[s] = "ADVERTISING"
          /\ ~u.ok => u.stack = d.stack /\ u.io = d.io /\ u.adv[s].pending = "IDLE"
          /\ "STOP" \notin Refusable /\ d.stack[s] = "ADVERTISING" => u.ok
      BY <2>2, <3>1, StopSound
    <3> QED BY <1>0, <2>2, <3>2 DEF Kept, Stays
  <2> QED BY <2>1, <2>2
<1>3. CASE u.ok /\ cause # "update"
  <2>1. t = [u EXCEPT !.adv[s].mgr = "DISABLED"] /\ Sound(u)
    BY <1>1, <1>2, <1>3 DEF OnlyAbout
  <2>2. /\ OnlyAbout(u, t, s)
        /\ t.adv[s].mgr = "DISABLED" /\ t.adv[s].num = u.adv[s].num
        /\ t.queue = u.queue /\ t.stack = u.stack /\ t.io = u.io /\ t.ok = u.ok
        /\ Pending(t) <=> Pending(u)
    BY <2>1, ManagerSet
  <2>3. OnlyAbout(d, t, s)
    BY <1>2, <2>2, OnlyAboutTransitive
  <2>4. Kept(u, s) => Kept(t, s)
    BY <2>2 DEF Kept
  <2>5. Stays(d, t, s)
    BY <1>2, <2>2 DEF Stays
  <2> QED BY <1>2, <1>3, <2>2, <2>3, <2>4, <2>5
<1>4. CASE ~(u.ok /\ cause # "update")
  <2>1. t = u
    BY <1>1, <1>4
  <2> QED BY <1>2, <1>4, <2>1
<1> QED BY <1>3, <1>4

\* GAP refuses only starts, and the queue has room for what one call sends.
Obliging == /\ Refusable \cap {"UPDATE", "STOP"} = {}
            /\ QueueNum >= MaxQueued + 3 /\ QueueNum >= MaxQueuedHit + 3

\* A call may be made with so much queued.
Room(d) == Len(d.queue) <= MaxQueued \/ Len(d.queue) <= MaxQueuedHit

\* Then what it sends is not refused.
LEMMA RoomLeft ==
    ASSUME NEW d, Sound(d), Room(d), Obliging
    PROVE  Len(d.queue) \in Nat /\ Len(d.queue) + 3 <= QueueNum
<1>1. Len(d.queue) \in Nat
  BY LenProperties DEF Sound, Managers
<1> QED BY <1>1, BleExtAdvAssumption DEF Room, Obliging

\* What every call of the application keeps true of the set it is about.
Honest(d, t, s) ==
    /\ OnlyAbout(d, t, s)
    /\ Stays(d, t, s)
    /\ Kept(d, s) => Kept(t, s)
    /\ "UPDATE" \notin Refusable /\ Woken(d) => Woken(t)
    /\ Obliging /\ Woken(d) /\ Agrees(d, s) => Agrees(t, s)

\* A queue with a last start or stop of a set has one.
LEMMA EndsCounted ==
    ASSUME NEW q \in Seq(Entries), NEW s, NEW act, EndsWith(q, s, act)
    PROVE  Count(q, s) > 0
<1>1. Queued(q, s) # {}
  BY DEF EndsWith
<1> QED BY <1>1, QueuedFinite

\* The empty queue has none.
LEMMA EndsEmpty ==
    ASSUME NEW s, NEW act
    PROVE  ~EndsWith(<<>>, s, act)
BY QueuedEmpty DEF EndsWith

\* Before a call: with nothing under way nothing is queued.
LEMMA IdleAgrees ==
    ASSUME NEW d, Sound(d), Woken(d), ~Pending(d), NEW s \in Sets, Agrees(d, s)
    PROVE  /\ d.queue = <<>> /\ d.stack[s] \in {"IDLE", "ADVERTISING"}
           /\ d.stack[s] = "ADVERTISING" => d.adv[s].mgr = "ENABLED"
           /\ d.adv[s].mgr = "ENABLED" => d.stack[s] = "ADVERTISING" \/ d.io[s] # <<>>
<1>1. d.queue = <<>>
  BY DEF Woken
<1>2. Count(d.queue, s) = 0
  BY <1>1, QueuedEmpty
<1>3. d.stack[s] \in {"IDLE", "ADVERTISING"}
  BY NothingPending
<1> QED BY <1>1, <1>2, <1>3 DEF Agrees

\* ble_ext_adv_mgr_set_adv_data and the other calls that only update.
LEMMA StartSetHonest ==
    ASSUME NEW d, Sound(d), NEW s \in Sets, NEW t \in ble_ext_adv_mgr_start_set_adv_param(d, s)
    PROVE  Honest(d, t, s)
<1>1. /\ OnlyAbout(d, t, s)
      /\ t.stack = d.stack /\ t.io = d.io /\ t.adv[s].mgr = d.adv[s].mgr
      /\ t.adv[s].pending \in {d.adv[s].pending, "UPDATE"}
      /\ Kept(d, s) => Kept(t, s)
      /\ Count(t.queue, s) = Count(d.queue, s)
      /\ \A act : EndsWith(t.queue, s, act) <=> EndsWith(d.queue, s, act)
      /\ Pending(d) => Pending(t)
      /\ "UPDATE" \notin Refusable => Pending(t)
  BY StartSetSound
<1>2. Agrees(d, s) => Agrees(t, s)
  BY <1>1 DEF Agrees
<1> QED BY <1>1, <1>2 DEF Honest, Woken, Stays

\* ble_ext_adv_mgr_disable of a set that is enabled.
LEMMA DisableHonest ==
    ASSUME NEW d, Sound(d), NEW s \in Sets, d.adv[s].mgr = "ENABLED", Room(d),
           NEW t \in ble_ext_adv_mgr_disable(d, s, "app")
    PROVE  Honest(d, t, s)
<1>0. "app" \in AppCauses /\ "app" # "update"
  BY DEF AppCauses
<1>1. /\ OnlyAbout(d, t, s)
      /\ t.adv[s].mgr = IF t.ok THEN "DISABLED" ELSE d.adv[s].mgr
      /\ Kept(d, s) => Kept(t, s)
      /\ Pending(d) => Pending(t)
      /\ ~Pending(d) => t.queue = d.queue
      /\ Pending(d) /\ Len(d.queue) < QueueNum => t.ok /\ EndsOnlyWith(t.queue, s, "STOP")
      /\ ~Pending(d) /\ "STOP" \notin Refusable /\ d.stack[s] = "ADVERTISING" =>
            t.ok /\ Pending(t) /\ t.stack[s] = "STOP"
      /\ ~Pending(d) /\ d.stack[s] # "ADVERTISING" =>
            /\ ~t.ok /\ t.stack = d.stack /\ t.io = d.io
            /\ t.adv[s].pending = "IDLE"
      /\ Stays(d, t, s)
  BY <1>0, DisableSound
<1>2. Woken(d) => Woken(t)
  BY <1>1 DEF Woken
<1>3. ASSUME Obliging, Woken(d), Agrees(d, s) PROVE Agrees(t, s)
  <2>0. Kept(t, s)
    BY <1>1, <1>3 DEF Agrees
  <2>1. CASE Pending(d)
    <3>1. Len(d.queue) < QueueNum
      BY <1>3, RoomLeft, BleExtAdvAssumption
    <3>2. t.adv[s].mgr = "DISABLED" /\ Count(t.queue, s) > 0 /\ Count(t.queue, s) # 0
          /\ \A a : EndsWith(t.queue, s, a) <=> a = "STOP"
      <4>1. Sound(t)
        BY <1>1 DEF OnlyAbout
      <4>2. Count(t.queue, s) \in Nat
        BY <4>1, SoundTypes
      <4> QED BY <1>1, <2>1, <3>1, <4>2 DEF EndsOnlyWith
    <3> QED BY <2>0, <3>2 DEF Agrees
  <2>2. CASE ~Pending(d)
    <3>1. /\ d.queue = <<>> /\ t.queue = <<>> /\ d.stack[s] \in {"IDLE", "ADVERTISING"}
          /\ d.stack[s] = "ADVERTISING" \/ d.io[s] # <<>>
      BY <1>1, <1>3, <2>2, IdleAgrees
    <3>2. CASE d.stack[s] = "ADVERTISING"
      <4>1. t.adv[s].mgr = "DISABLED" /\ t.stack[s] = "STOP"
        BY <1>1, <1>3, <2>2, <3>2 DEF Obliging
      <4> QED BY <2>0, <3>1, <4>1, EndsEmpty DEF Agrees
    <3>3. CASE d.stack[s] # "ADVERTISING"
      <4>1. /\ t.adv[s].mgr = "ENABLED" /\ t.stack[s] = "IDLE" /\ t.io[s] # <<>>
            /\ t.adv[s].pending = "IDLE"
        BY <1>1, <2>2, <3>1, <3>3
      <4> QED BY <2>0, <3>1, <4>1, EndsEmpty DEF Agrees
    <3> QED BY <3>2, <3>3
  <2> QED BY <2>1, <2>2
<1> QED BY <1>1, <1>2, <1>3 DEF Honest

\* ble_ext_adv_mgr_enable of a set that is disabled.
LEMMA EnableHonest ==
    ASSUME NEW d, Sound(d), NEW s \in Sets, d.adv[s].mgr = "DISABLED", Room(d),
           NEW t \in ble_ext_adv_mgr_enable(d, s)
    PROVE  Honest(d, t, s)
<1>0. "START" \in Actions /\ "app" \in AppCauses
  BY DEF Actions, AppCauses
<1>1. PICK u, v :
        /\ u = d \/ u \in ble_ext_adv_mgr_start_set_adv_param(d, s)
        /\ Pending(u) => v = ble_ext_adv_mgr_send_msg(u, s, "START", "app")
        /\ ~Pending(u) => v \in ble_ext_adv_action_start(u, s)
        /\ t = IF v.ok THEN [v EXCEPT !.adv[s].mgr = "ENABLED"] ELSE v
  <2> DEFINE set == IF d.adv[s].param_set THEN {d} ELSE ble_ext_adv_mgr_start_set_adv_param(d, s)
             start(w) == IF Pending(w) THEN {ble_ext_adv_mgr_send_msg(w, s, "START", "app")}
                         ELSE ble_ext_adv_action_start(w, s)
  <2>1. PICK v \in UNION {start(w) : w \in set} : t = IF v.ok THEN [v EXCEPT !.adv[s].mgr = "ENABLED"] ELSE v
    BY DEF ble_ext_adv_mgr_enable
  <2>2. PICK u \in set : v \in start(u)
    OBVIOUS
  <2>3. u = d \/ u \in ble_ext_adv_mgr_start_set_adv_param(d, s)
    OBVIOUS
  <2>4. /\ Pending(u) => v = ble_ext_adv_mgr_send_msg(u, s, "START", "app")
        /\ ~Pending(u) => v \in ble_ext_adv_action_start(u, s)
    BY <2>2
  <2> QED BY <2>1, <2>3, <2>4
<1>2. /\ OnlyAbout(d, u, s)
      /\ u.stack = d.stack /\ u.io = d.io /\ u.adv[s].mgr = "DISABLED"
      /\ Kept(d, s) => Kept(u, s)
      /\ Pending(d) => Pending(u)
      /\ ~Pending(d) => u.queue = d.queue
      /\ Len(u.queue) <= Len(d.queue) + 1
      /\ Agrees(d, s) => Agrees(u, s)
  <2>0. Len(d.queue) \in Nat
    BY SoundTypes, LenProperties
  <2>1. CASE u = d
    BY <2>0, <2>1 DEF OnlyAbout, Same
  <2>2. CASE u \in ble_ext_adv_mgr_start_set_adv_param(d, s)
    <3>1. /\ OnlyAbout(d, u, s)
          /\ u.stack = d.stack /\ u.io = d.io /\ u.adv[s].mgr = d.adv[s].mgr
          /\ u.adv[s].pending \in {d.adv[s].pending, "UPDATE"}
          /\ Kept(d, s) => Kept(u, s)
          /\ Count(u.queue, s) = Count(d.queue, s)
          /\ \A act : EndsWith(u.queue, s, act) <=> EndsWith(d.queue, s, act)
          /\ Pending(d) => Pending(u)
          /\ ~Pending(d) => u.queue = d.queue
          /\ Len(u.queue) <= Len(d.queue) + 1
      BY <2>2, StartSetSound
    <3> QED BY <3>1 DEF Agrees
  <2> QED BY <1>1, <2>1, <2>2
<1>3. Sound(u) /\ Woken(d) => Woken(u)
  BY <1>2 DEF OnlyAbout, Woken
<1>4. /\ OnlyAbout(u, v, s)
      /\ Stays(u, v, s)
      /\ Kept(u, s) => Kept(v, s)
      /\ Woken(u) => Woken(v)
  <2>0. Sound(u)
    BY <1>2 DEF OnlyAbout
  <2>1. CASE Pending(u)
    <3>1. /\ OnlyAbout(u, v, s) /\ v.stack = u.stack
          /\ Pending(v) <=> Pending(u)
          /\ Kept(u, s) => Kept(v, s)
      BY <1>0, <1>1, <2>0, <2>1, SendSound
    <3> QED BY <2>1, <3>1 DEF Woken, Stays
  <2>2. CASE ~Pending(u)
    <3>1. /\ OnlyAbout(u, v, s) /\ v.queue = u.queue /\ v.adv[s].num = u.adv[s].num
          /\ v.ok => u.stack[s] = "IDLE"
          /\ ~v.ok => v.stack = u.stack
      BY <1>1, <2>0, <2>2, StartSound
    <3> QED BY <2>2, <3>1 DEF Woken, Kept, Stays
  <2> QED BY <2>1, <2>2
<1>5. /\ OnlyAbout(v, t, s)
      /\ t.adv[s].mgr = (IF v.ok THEN "ENABLED" ELSE v.adv[s].mgr) /\ t.adv[s].num = v.adv[s].num
      /\ t.adv[s].pending = v.adv[s].pending
      /\ t.queue = v.queue /\ t.stack = v.stack /\ t.io = v.io
      /\ Pending(t) <=> Pending(v)
  <2>0. Sound(v)
    BY <1>4 DEF OnlyAbout
  <2>1. CASE v.ok
    <3>1. t = [v EXCEPT !.adv[s].mgr = "ENABLED"]
      BY <1>1, <2>1
    <3> QED BY <2>0, <2>1, <3>1, ManagerSet
  <2>2. CASE ~v.ok
    BY <1>1, <2>0, <2>2 DEF OnlyAbout, Same
  <2> QED BY <2>1, <2>2
<1>6. OnlyAbout(d, t, s)
  BY <1>2, <1>4, <1>5, OnlyAboutTransitive
<1>7. Kept(d, s) => Kept(t, s)
  BY <1>2, <1>4, <1>5 DEF Kept
<1>8. Woken(d) => Woken(t)
  BY <1>2, <1>4, <1>5 DEF Woken
<1>9. ASSUME Obliging, Woken(d), Agrees(d, s) PROVE Agrees(t, s)
  <2>0. Kept(t, s) /\ Sound(u) /\ Sound(t)
    BY <1>2, <1>6, <1>7, <1>9 DEF Agrees, OnlyAbout
  <2>1. CASE Pending(u)
    <3>1. Len(u.queue) < QueueNum
      <4>1. Len(u.queue) \in Nat /\ Len(d.queue) \in Nat /\ Len(d.queue) + 3 <= QueueNum
        BY <1>9, <2>0, SoundTypes, LenProperties, RoomLeft
      <4> QED BY <1>2, <4>1, BleExtAdvAssumption
    <3>2. v.ok /\ EndsOnlyWith(v.queue, s, "START")
      BY <1>0, <1>1, <2>0, <2>1, <3>1, SendSound
    <3>3. t.adv[s].mgr = "ENABLED" /\ EndsOnlyWith(t.queue, s, "START")
      BY <1>5, <3>2
    <3>4. Count(t.queue, s) # 0 /\ ~EndsWith(t.queue, s, "STOP")
      <4>1. Count(t.queue, s) \in Nat
        BY <2>0, SoundTypes
      <4> QED BY <3>3, <4>1 DEF EndsOnlyWith
    <3> QED BY <2>0, <3>3, <3>4 DEF Agrees
  <2>2. CASE ~Pending(u)
    <3>1. Agrees(u, s) /\ Woken(u)
      BY <1>2, <1>3, <1>9, <2>0
    <3>2. u.queue = <<>> /\ u.stack[s] = "IDLE"
      BY <1>2, <2>0, <2>2, <3>1, IdleAgrees
    <3>4. /\ v.queue = u.queue
          /\ v.ok => v.stack[s] = "START" /\ v.adv[s].pending = "START"
          /\ ~v.ok => v.stack = u.stack /\ v.io = u.io /\ v.adv[s].mgr = "DISABLED"
      BY <1>1, <2>0, <2>2, StartSound
    <3>5. CASE v.ok
      <4>1. /\ t.queue = <<>> /\ t.adv[s].mgr = "ENABLED" /\ t.stack[s] = "START"
            /\ t.adv[s].pending = "START"
        BY <1>5, <3>2, <3>4, <3>5
      <4> QED BY <2>0, <4>1, EndsEmpty DEF Agrees
    <3>6. CASE ~v.ok
      <4>1. t.queue = <<>> /\ t.adv[s].mgr = "DISABLED" /\ t.stack[s] = "IDLE"
        BY <1>5, <3>2, <3>4, <3>6
      <4> QED BY <2>0, <4>1, EndsEmpty DEF Agrees
    <3> QED BY <3>5, <3>6
  <2> QED BY <2>1, <2>2
<1>10. Stays(d, t, s)
  BY <1>2, <1>4, <1>5 DEF Stays
<1> QED BY <1>6, <1>7, <1>8, <1>9, <1>10 DEF Honest

\* ble_ext_adv_mgr_set_adv_param: stop, update, start again.
LEMMA SetParamHonest ==
    ASSUME NEW d, Sound(d), NEW s \in Sets, Room(d),
           NEW t \in ble_ext_adv_mgr_set_adv_param(d, s)
    PROVE  Honest(d, t, s)
<1>0. {"START", "STOP"} \subseteq Actions /\ {"app", "update"} \subseteq AppCauses
  BY DEF Actions, AppCauses
<1>1. CASE d.adv[s].mgr # "ENABLED"
  <2>1. t \in ble_ext_adv_mgr_start_set_adv_param(d, s)
    BY <1>1 DEF ble_ext_adv_mgr_set_adv_param
  <2> QED BY <2>1, StartSetHonest
<1>2. CASE d.adv[s].mgr = "ENABLED"
  <2>1. PICK u, v : /\ u \in ble_ext_adv_mgr_disable(d, s, "update")
                    /\ v \in ble_ext_adv_mgr_start_set_adv_param(u, s)
                    /\ t = ble_ext_adv_mgr_send_msg(v, s, "START", "app")
    <3>1. PICK v \in UNION {ble_ext_adv_mgr_start_set_adv_param(u, s) : u \in ble_ext_adv_mgr_disable(d, s, "update")} :
             t = ble_ext_adv_mgr_send_msg(v, s, "START", "app")
      BY <1>2 DEF ble_ext_adv_mgr_set_adv_param
    <3>2. PICK u \in ble_ext_adv_mgr_disable(d, s, "update") : v \in ble_ext_adv_mgr_start_set_adv_param(u, s)
      OBVIOUS
    <3> QED BY <3>1, <3>2
  <2>2. /\ OnlyAbout(d, u, s)
        /\ u.adv[s].mgr = IF u.ok /\ "update" # "update" THEN "DISABLED" ELSE d.adv[s].mgr
        /\ Stays(d, u, s)
        /\ Kept(d, s) => Kept(u, s)
        /\ Len(u.queue) <= Len(d.queue) + 1
    BY <1>0, <2>1, DisableSound
  <2>3. Sound(u) /\ u.adv[s].mgr = "ENABLED"
    BY <1>2, <2>2 DEF OnlyAbout
  <2>4. /\ OnlyAbout(u, v, s)
        /\ v.stack = u.stack /\ v.adv[s].mgr = u.adv[s].mgr
        /\ Kept(u, s) => Kept(v, s)
        /\ "UPDATE" \notin Refusable => Pending(v)
        /\ Len(v.queue) <= Len(u.queue) + 1
    BY <2>1, <2>3, StartSetSound
  <2>5. Sound(v)
    BY <2>4 DEF OnlyAbout
  <2>6. /\ OnlyAbout(v, t, s)
        /\ t.stack = v.stack /\ t.adv[s].mgr = v.adv[s].mgr
        /\ Pending(t) <=> Pending(v)
        /\ Kept(v, s) => Kept(t, s)
    BY <1>0, <2>1, <2>5, SendSound
  <2>7. OnlyAbout(d, t, s)
    BY <2>2, <2>4, <2>6, OnlyAboutTransitive
  <2>8. ASSUME Obliging, Agrees(d, s) PROVE Agrees(t, s)
    <3>1. Len(v.queue) < QueueNum
      <4>1. /\ Len(v.queue) \in Nat /\ Len(u.queue) \in Nat
            /\ Len(d.queue) \in Nat /\ Len(d.queue) + 3 <= QueueNum
        BY <2>3, <2>5, <2>8, SoundTypes, LenProperties, RoomLeft
      <4> QED BY <2>2, <2>4, <4>1, BleExtAdvAssumption, SMTT(20)
    <3>2. EndsOnlyWith(t.queue, s, "START")
      BY <1>0, <2>1, <2>5, <3>1, SendSound
    <3>3. Count(t.queue, s) # 0 /\ ~EndsWith(t.queue, s, "STOP")
      <4>1. Count(t.queue, s) \in Nat
        BY <2>7, SoundTypes DEF OnlyAbout
      <4> QED BY <3>2, <4>1 DEF EndsOnlyWith
    <3>4. Kept(t, s) /\ t.adv[s].mgr = "ENABLED"
      BY <2>2, <2>3, <2>4, <2>6, <2>8 DEF Agrees
    <3> QED BY <3>3, <3>4 DEF Agrees
  <2>9. Kept(d, s) => Kept(t, s)
    BY <2>2, <2>4, <2>6
  <2>10. "UPDATE" \notin Refusable => Woken(t)
    BY <2>4, <2>6 DEF Woken
  <2>11. Stays(d, t, s)
    BY <2>2, <2>4, <2>6 DEF Stays
  <2> QED BY <2>7, <2>8, <2>9, <2>10, <2>11 DEF Honest
<1> QED BY <1>1, <1>2

\* Marking that the parameters were set.
LEMMA ParamsSet ==
    ASSUME NEW d, Sound(d), NEW s \in Sets, NEW t, t = [d EXCEPT !.adv[s].param_set = TRUE]
    PROVE  Honest(d, t, s)
<1> DEFINE a == [d.adv[s] EXCEPT !.param_set = TRUE]
<1>1. d \in Managers /\ d.adv[s] \in AdvSets
  BY SoundTypes
<1>2. /\ a \in AdvSets /\ a.pending = d.adv[s].pending /\ a.num = d.adv[s].num /\ a.ext = d.adv[s].ext
      /\ a.mgr = d.adv[s].mgr
  BY <1>1 DEF AdvSets
<1>3. t = Renewed(d, s, a)
  BY <1>1 DEF Managers, Renewed
<1> DEFINE u == Renewed(d, s, a)
<1> HIDE DEF a
<1>4. /\ OnlyAbout(d, u, s)
      /\ u.adv[s] = a /\ u.queue = d.queue /\ u.stack = d.stack /\ u.io = d.io /\ u.ok = d.ok
      /\ Pending(u) <=> Pending(d)
  BY <1>2, Touched
<1> HIDE DEF u
<1>5. Honest(d, u, s)
  BY <1>2, <1>4 DEF Honest, Kept, Woken, Agrees, Stays
<1> QED BY <1>3, <1>5 DEF u

\* Two honest calls, one after the other.
LEMMA HonestTransitive ==
    ASSUME NEW d, NEW t, NEW u, NEW s \in Sets, Honest(d, t, s), Honest(t, u, s)
    PROVE  Honest(d, u, s)
<1>1. Obliging => "UPDATE" \notin Refusable
  BY DEF Obliging
<1>2. OnlyAbout(d, u, s)
  BY OnlyAboutTransitive DEF Honest
<1> QED BY <1>1, <1>2 DEF Honest, Stays

\* ble_ext_adv_mgr_set_multi_param.
LEMMA SetMultiHonest ==
    ASSUME NEW d, Sound(d), NEW s \in Sets, Room(d), NEW params \in BOOLEAN,
           NEW t \in ble_ext_adv_mgr_set_multi_param(d, s, params)
    PROVE  Honest(d, t, s)
<1>1. PICK u : /\ \/ u \in ble_ext_adv_mgr_set_adv_param(d, s)
                  \/ u \in ble_ext_adv_mgr_start_set_adv_param(d, s)
               /\ t = u \/ t = [u EXCEPT !.adv[s].param_set = TRUE]
  BY DEF ble_ext_adv_mgr_set_multi_param
<1>2. Honest(d, u, s)
  BY <1>1, SetParamHonest, StartSetHonest
<1>3. CASE t = [u EXCEPT !.adv[s].param_set = TRUE]
  <2>1. Honest(u, t, s)
    BY <1>2, <1>3, ParamsSet DEF Honest, OnlyAbout
  <2> QED BY <1>2, <2>1, HonestTransitive
<1> QED BY <1>1, <1>2, <1>3

-----------------------------------------------------------------------------
(* One turn of the loop.                                                   *)

\* ble_ext_adv_mgr_check_state changes nothing but adv_state_mgr.
LEMMA CheckStateSound ==
    ASSUME NEW a \in AdvSets, NEW b, b = ble_ext_adv_mgr_check_state(a)
    PROVE  /\ b \in AdvSets /\ b.pending = a.pending /\ b.num = a.num /\ b.ext = a.ext
           /\ b.mgr = IF Ended(a) THEN "DISABLED" ELSE a.mgr
<1>1. CASE Ended(a)
  <2>1. b = [a EXCEPT !.mgr = "DISABLED"]
    BY <1>1 DEF ble_ext_adv_mgr_check_state
  <2> QED BY <1>1, <2>1 DEF AdvSets
<1>2. CASE ~Ended(a)
  BY <1>2 DEF ble_ext_adv_mgr_check_state
<1> QED BY <1>1, <1>2

\* Taking an entry out never counts below zero.
LEMMA TakenSound ==
    ASSUME NEW d, Sound(d), ~Pending(d), d.queue # <<>>, NEW u, u = Taken(d),
           NEW e, e = Head(d.queue), NEW s, s = e.set
    PROVE  /\ e \in Entries /\ s \in Sets
           /\ OnlyAbout(d, u, s)
           /\ ~Pending(u) /\ ~u.ok
           /\ u.queue = Tail(d.queue) /\ u.stack = d.stack /\ u.io = d.io
           /\ u.adv[s].mgr = d.adv[s].mgr /\ u.adv[s].ext = d.adv[s].ext
           /\ Kept(d, s) => Kept(u, s)
<1> DEFINE n == IF e.act = "UPDATE" THEN d.adv[s].num ELSE d.adv[s].num - 1
           b == [d.adv[s] EXCEPT !.num = n]
           q == Tail(d.queue)
           w == With(d, s, b, d.stack[s], d.io[s], q, d.setting, FALSE)
<1>1. d.queue \in Seq(Entries)
  BY DEF Sound, Managers
<1>2. e \in Entries /\ s \in Sets
  <2>1. e \in Entries
    BY <1>1, HeadTailProperties
  <2> QED BY <2>1 DEF Entries
<1>0. /\ d \in Managers /\ d.adv[s] \in AdvSets /\ d.stack[s] \in AdvStates /\ d.io[s] \in Seq(Reports)
      /\ Count(d.queue, s) <= d.adv[s].num /\ Follows(d.adv[s], d.stack[s], d.io[s], s \in d.setting)
      /\ d.adv[s].num \in Nat /\ Count(d.queue, s) \in Nat
  BY <1>2, SoundTypes
<1>3. q \in Seq(Entries)
  BY <1>1, HeadTailProperties
<1>4. \A r \in Sets : /\ Count(d.queue, r) = Count(q, r) + (IF Counted(e, r) THEN 1 ELSE 0)
                      /\ Count(q, r) \in Nat
                      /\ \A act : EndsWith(q, r, act) => EndsWith(d.queue, r, act)
                      /\ ~Counted(e, r) => \A act : EndsWith(d.queue, r, act) => EndsWith(q, r, act)
  BY <1>1, <1>3, QueuedTail, QueuedFinite
<1>5. /\ Counted(e, s) <=> e.act # "UPDATE"
      /\ \A r \in Sets \ {s} : ~Counted(e, r)
  BY DEF Counted
<1>6. n \in Nat /\ Count(q, s) <= n /\ (d.adv[s].num = Count(d.queue, s) => n = Count(q, s))
  <2>1. Count(d.queue, s) = Count(q, s) + (IF Counted(e, s) THEN 1 ELSE 0)
    BY <1>2, <1>4
  <2>2. d.adv[s].num \in Nat /\ Count(d.queue, s) \in Nat /\ Count(q, s) \in Nat
        /\ Count(d.queue, s) <= d.adv[s].num
    BY <1>0, <1>2, <1>4
  <2>3. \A num, all, rest \in Nat :
           all <= num => /\ all = rest + 0 => rest <= num /\ (num = all => num = rest)
                         /\ all = rest + 1 => /\ num - 1 \in Nat /\ rest <= num - 1
                                              /\ num = all => num - 1 = rest
    OBVIOUS
  <2>4. CASE e.act = "UPDATE"
    <3>1. Count(d.queue, s) = Count(q, s) + 0 /\ n = d.adv[s].num
      BY <1>5, <2>1, <2>4
    <3> HIDE DEF n, q
    <3> QED BY <2>2, <2>3, <3>1
  <2>5. CASE e.act # "UPDATE"
    <3>1. Count(d.queue, s) = Count(q, s) + 1 /\ n = d.adv[s].num - 1
      BY <1>5, <2>1, <2>5
    <3> HIDE DEF n, q
    <3> QED BY <2>2, <2>3, <3>1
  <2> QED BY <2>4, <2>5
<1>7. u = w
  <2>1. u = [d EXCEPT !.queue = q, !.adv[s].num = n, !.ok = FALSE]
    BY DEF Taken
  <2> HIDE DEF q, n
  <2> QED BY <1>0, <1>2, <2>1 DEF Managers, With
<1>8. /\ b \in AdvSets /\ b.num = n /\ b.pending = d.adv[s].pending /\ b.mgr = d.adv[s].mgr
      /\ b.ext = d.adv[s].ext
  <2> HIDE DEF n
  <2> QED BY <1>0, <1>6 DEF AdvSets
<1> HIDE DEF n, b, q
<1>9. OnlyAbout(d, w, s)
  <2>1. \A r \in Sets \ {s} : /\ Count(q, r) = Count(d.queue, r)
                              /\ \A act : EndsWith(q, r, act) <=> EndsWith(d.queue, r, act)
    BY <1>4, <1>5
  <2>2. Follows(b, d.stack[s], d.io[s], s \in d.setting)
    BY <1>0, <1>8 DEF Follows
  <2> QED BY <1>0, <1>2, <1>3, <1>6, <1>8, <2>1, <2>2, WithSound
<1>10. /\ w.adv[s] = b /\ w.queue = q /\ w.stack = d.stack /\ w.io = d.io /\ ~w.ok
       /\ \A r \in Sets \ {s} : w.adv[r] = d.adv[r]
  BY <1>0, <1>2 DEF With, Managers
<1> HIDE DEF w
<1>11. ~Pending(w)
  <2>1. \A r \in Sets : w.adv[r].pending = d.adv[r].pending
    BY <1>8, <1>10
  <2> QED BY <2>1 DEF Pending
<1>12. Kept(d, s) => Kept(w, s)
  BY <1>6, <1>8, <1>10 DEF Kept
<1> QED BY <1>2, <1>7, <1>8, <1>9, <1>10, <1>11, <1>12 DEF q

\* Doing nothing is about no set.
LEMMA SameOnlyAbout ==
    ASSUME NEW d, Sound(d), NEW s \in Sets
    PROVE  OnlyAbout(d, d, s)
BY DEF OnlyAbout, Same

\* The check after a start or a stop that GAP refused.
Checked(v, s) == Renewed(v, s, ble_ext_adv_mgr_check_state(v.adv[s]))

\* That check leaves GAP and the queue alone.
LEMMA CheckedSound ==
    ASSUME NEW v, Sound(v), NEW s \in Sets
    PROVE  LET t == Checked(v, s)
           IN  /\ OnlyAbout(v, t, s)
               /\ t.queue = v.queue /\ t.stack = v.stack /\ t.io = v.io /\ t.ok = v.ok
               /\ t.adv[s].num = v.adv[s].num
               /\ t.adv[s].mgr = IF Ended(v.adv[s]) THEN "DISABLED" ELSE v.adv[s].mgr
               /\ Pending(t) <=> Pending(v)
<1> DEFINE a == ble_ext_adv_mgr_check_state(v.adv[s])
<1>1. v.adv[s] \in AdvSets
  BY SoundTypes
<1>2. /\ a \in AdvSets /\ a.pending = v.adv[s].pending /\ a.num = v.adv[s].num /\ a.ext = v.adv[s].ext
      /\ a.mgr = IF Ended(v.adv[s]) THEN "DISABLED" ELSE v.adv[s].mgr
  BY <1>1, CheckStateSound
<1> DEFINE t == Checked(v, s)
<1>3. t = Renewed(v, s, a)
  BY DEF Checked
<1> HIDE DEF a, t
<1>4. /\ OnlyAbout(v, t, s)
      /\ t.adv[s] = a /\ t.queue = v.queue /\ t.stack = v.stack /\ t.io = v.io /\ t.ok = v.ok
      /\ Pending(t) <=> Pending(v)
  BY <1>2, <1>3, Touched
<1> QED BY <1>2, <1>4 DEF t

\* What can become of a queued action whose turn it is.
Outcome(u, e, s, t) ==
    \/ /\ e.act = "START" /\ t.ok /\ t.stack[s] = "START" /\ u.stack[s] = "IDLE"
       /\ t.adv[s].pending = "START" /\ t.adv[s].mgr = u.adv[s].mgr
    \/ /\ e.act = "START" /\ u.adv[s].ext = "IDLE" /\ ~t.ok
       /\ t.stack = u.stack /\ t.io = u.io /\ t.adv[s].mgr = "DISABLED"
    \/ e.act = "STOP" /\ t.ok /\ t.stack[s] = "STOP" /\ t.adv[s].mgr = u.adv[s].mgr
    \/ /\ e.act = "STOP" /\ ~t.ok /\ (u.stack[s] = "ADVERTISING" => "STOP" \in Refusable)
       /\ t.stack = u.stack /\ t.adv[s].mgr = u.adv[s].mgr
    \/ e.act = "START" /\ u.adv[s].ext # "IDLE" /\ t = u
    \/ e.act = "STOP" /\ u.adv[s].ext # "ADVERTISING" /\ t = u
    \/ /\ e.act = "UPDATE" /\ t.stack = u.stack /\ t.io = u.io /\ t.adv[s].mgr = u.adv[s].mgr
       /\ t.adv[s].pending \in {"IDLE", "UPDATE"}

\* The set's entry is out of the queue: what becomes of its action.
LEMMA AttemptSound ==
    ASSUME NEW u, Sound(u), ~Pending(u), ~u.ok, NEW e \in Entries, NEW s \in Sets, s = e.set,
           NEW t \in Attempt(u, e)
    PROVE  /\ OnlyAbout(u, t, s)
           /\ t.queue = u.queue /\ t.adv[s].num = u.adv[s].num
           /\ t.ok <=> Pending(t)
           /\ Outcome(u, e, s, t)
<1>0. /\ e.act \in {"START", "STOP", "UPDATE"} /\ e.cause \in AppCauses
      /\ u.adv[s].pending = "IDLE"
  BY NothingPending DEF Entries, Actions
<1> DEFINE rechecked(v) == IF ~v.ok /\ v.adv[s].num = 0
                           THEN [v EXCEPT !.adv[s] = ble_ext_adv_mgr_check_state(@)] ELSE v
<1>1. CASE e.act = "START" /\ u.adv[s].ext = "IDLE"
  <2>1. PICK v \in ble_ext_adv_action_start(u, s) :
           \/ t = v
           \/ ~v.ok /\ t = Checked(v, s)
    <3>1. PICK v \in ble_ext_adv_action_start(u, s) : t = rechecked(v)
      BY <1>1 DEF Attempt
    <3>2. Checked(v, s) = [v EXCEPT !.adv[s] = ble_ext_adv_mgr_check_state(@)]
      BY DEF Checked, Renewed
    <3>3. ~v.ok /\ v.adv[s].num = 0 => t = Checked(v, s)
      BY <3>1, <3>2
    <3>4. ~(~v.ok /\ v.adv[s].num = 0) => t = v
      BY <3>1
    <3> HIDE DEF rechecked
    <3>5. t = v \/ (~v.ok /\ t = Checked(v, s))
      BY <3>3, <3>4
    <3> QED BY <3>5
  <2>2. /\ OnlyAbout(u, v, s)
        /\ v.queue = u.queue /\ v.adv[s].num = u.adv[s].num
        /\ v.ok => /\ Pending(v) /\ v.stack[s] = "START" /\ v.adv[s].mgr = u.adv[s].mgr
                   /\ v.adv[s].pending = "START" /\ u.stack[s] = "IDLE"
        /\ ~v.ok => ~Pending(v) /\ v.stack = u.stack /\ v.io = u.io /\ v.adv[s].mgr = "DISABLED"
    BY StartSound
  <2>3. CASE t = v
    BY <1>1, <2>2, <2>3 DEF Outcome
  <2>4. CASE ~v.ok /\ t = Checked(v, s)
    <3>1. /\ OnlyAbout(v, t, s)
          /\ t.queue = v.queue /\ t.stack = v.stack /\ t.io = v.io /\ t.ok = v.ok
          /\ t.adv[s].num = v.adv[s].num
          /\ t.adv[s].mgr = IF Ended(v.adv[s]) THEN "DISABLED" ELSE v.adv[s].mgr
          /\ Pending(t) <=> Pending(v)
      BY <2>2, <2>4, CheckedSound DEF OnlyAbout
    <3>2. OnlyAbout(u, t, s)
      BY <2>2, <3>1, OnlyAboutTransitive
    <3> QED BY <1>1, <2>2, <2>4, <3>1, <3>2 DEF Outcome
  <2> QED BY <2>1, <2>3, <2>4
<1>2. CASE e.act = "STOP" /\ u.adv[s].ext = "ADVERTISING"
  <2>1. PICK v \in ble_ext_adv_action_stop(u, s, e.cause) :
           \/ t = v
           \/ ~v.ok /\ t = Checked(v, s)
    <3>1. PICK v \in ble_ext_adv_action_stop(u, s, e.cause) : t = rechecked(v)
      BY <1>2 DEF Attempt
    <3>2. Checked(v, s) = [v EXCEPT !.adv[s] = ble_ext_adv_mgr_check_state(@)]
      BY DEF Checked, Renewed
    <3>3. ~v.ok /\ v.adv[s].num = 0 => t = Checked(v, s)
      BY <3>1, <3>2
    <3>4. ~(~v.ok /\ v.adv[s].num = 0) => t = v
      BY <3>1
    <3> HIDE DEF rechecked
    <3>5. t = v \/ (~v.ok /\ t = Checked(v, s))
      BY <3>3, <3>4
    <3> QED BY <3>5
  <2>2. /\ OnlyAbout(u, v, s)
        /\ v.queue = u.queue /\ v.adv[s].num = u.adv[s].num /\ v.adv[s].mgr = u.adv[s].mgr
        /\ v.ok => Pending(v) /\ v.stack[s] = "STOP"
        /\ ~v.ok => ~Pending(v) /\ v.stack = u.stack /\ v.adv[s].ext = "ADVERTISING"
        /\ "STOP" \notin Refusable /\ u.stack[s] = "ADVERTISING" => v.ok
    BY <1>0, <1>2, StopSound
  <2>3. CASE t = v
    BY <1>2, <2>2, <2>3 DEF Outcome
  <2>4. CASE ~v.ok /\ t = Checked(v, s)
    <3>1. /\ OnlyAbout(v, t, s)
          /\ t.queue = v.queue /\ t.stack = v.stack /\ t.io = v.io /\ t.ok = v.ok
          /\ t.adv[s].num = v.adv[s].num
          /\ t.adv[s].mgr = IF Ended(v.adv[s]) THEN "DISABLED" ELSE v.adv[s].mgr
          /\ Pending(t) <=> Pending(v)
      BY <2>2, <2>4, CheckedSound DEF OnlyAbout
    <3>2. OnlyAbout(u, t, s)
      BY <2>2, <3>1, OnlyAboutTransitive
    <3>3. ~Ended(v.adv[s])
      BY <2>2, <2>4 DEF Ended
    <3> QED BY <1>2, <2>2, <2>4, <3>1, <3>2, <3>3 DEF Outcome
  <2> QED BY <2>1, <2>3, <2>4
<1>3. CASE e.act = "UPDATE"
  <2>1. t \in ble_ext_adv_action_update(u, s)
    BY <1>3 DEF Attempt
  <2>2. /\ OnlyAbout(u, t, s)
        /\ t.queue = u.queue /\ t.stack = u.stack /\ t.io = u.io
        /\ t.adv[s].num = u.adv[s].num /\ t.adv[s].mgr = u.adv[s].mgr
        /\ t.adv[s].pending \in {u.adv[s].pending, "UPDATE"}
        /\ t.ok => Pending(t)
        /\ ~t.ok => ~Pending(t)
    BY <2>1, UpdateSound
  <2> QED BY <1>0, <1>3, <2>2 DEF Outcome
<1>4. CASE \/ e.act = "START" /\ u.adv[s].ext # "IDLE"
           \/ e.act = "STOP" /\ u.adv[s].ext # "ADVERTISING"
  <2>1. t = u
    BY <1>4 DEF Attempt
  <2>2. OnlyAbout(u, u, s)
    BY SameOnlyAbout
  <2>3. t.ok <=> Pending(t)
    BY <2>1
  <2> QED BY <1>4, <2>1, <2>2, <2>3 DEF Outcome
<1>5. \/ e.act = "START" /\ u.adv[s].ext = "IDLE"
      \/ e.act = "STOP" /\ u.adv[s].ext = "ADVERTISING"
      \/ e.act = "UPDATE"
      \/ e.act = "START" /\ u.adv[s].ext # "IDLE"
      \/ e.act = "STOP" /\ u.adv[s].ext # "ADVERTISING"
  BY <1>0
<1> QED BY <1>1, <1>2, <1>3, <1>4, <1>5

\* One turn of the loop keeps the count, and what the application was told.
LEMMA TurnSound ==
    ASSUME NEW d, Sound(d), ~Pending(d), d.queue # <<>>, NEW e, e = Head(d.queue),
           NEW t \in Attempt(Taken(d), e)
    PROVE  LET s == e.set IN
           /\ s \in Sets
           /\ OnlyAbout(d, t, s) /\ Stays(d, t, s)
           /\ t.ok <=> Pending(t)
           /\ Kept(d, s) => Kept(t, s)
           /\ (Obliging /\ Agrees(d, s)
               /\ ~(e.act = "START" /\ d.adv[s].ext = "IDLE" /\ ~t.ok /\ t.adv[s].num > 0))
              => Agrees(t, s)
<1> DEFINE s == e.set
           u == Taken(d)
<1>1. /\ e \in Entries /\ s \in Sets
      /\ OnlyAbout(d, u, s)
      /\ ~Pending(u) /\ ~u.ok
      /\ u.queue = Tail(d.queue) /\ u.stack = d.stack /\ u.io = d.io
      /\ u.adv[s].mgr = d.adv[s].mgr /\ u.adv[s].ext = d.adv[s].ext
      /\ Kept(d, s) => Kept(u, s)
  BY TakenSound
<1>2. t \in Attempt(u, e)
  OBVIOUS
<1>8. s = e.set
  OBVIOUS
<1> HIDE DEF u, s
<1>3. Sound(u)
  BY <1>1 DEF OnlyAbout
<1>4. /\ OnlyAbout(u, t, s)
      /\ t.queue = u.queue /\ t.adv[s].num = u.adv[s].num
      /\ t.ok <=> Pending(t)
      /\ Outcome(u, e, s, t)
  BY <1>1, <1>2, <1>3, <1>8, AttemptSound
<1>5. OnlyAbout(d, t, s)
  BY <1>1, <1>4, OnlyAboutTransitive
<1>6. Kept(d, s) => Kept(t, s)
  BY <1>1, <1>4 DEF Kept
<1>7. ASSUME Obliging, Agrees(d, s),
             ~(e.act = "START" /\ d.adv[s].ext = "IDLE" /\ ~t.ok /\ t.adv[s].num > 0)
      PROVE  Agrees(t, s)
  <2>1. /\ Kept(t, s) /\ t.adv[s].num = Count(t.queue, s) /\ Count(t.queue, s) \in Nat
        /\ d.queue \in Seq(Entries)
    BY <1>5, <1>6, <1>7, SoundTypes, <1>1 DEF Agrees, Kept, OnlyAbout
  <2>2. /\ Count(d.queue, s) = Count(t.queue, s) + (IF Counted(e, s) THEN 1 ELSE 0)
        /\ \A act : EndsWith(t.queue, s, act) => EndsWith(d.queue, s, act)
        /\ Counted(e, s) /\ Count(t.queue, s) = 0 => EndsWith(d.queue, s, e.act)
    BY <1>1, <1>4, <2>1, QueuedTail
  <2>3. Counted(e, s) <=> e.act # "UPDATE"
    BY DEF Counted, s
  <2>4. /\ d.stack[s] \in {"IDLE", "ADVERTISING"} /\ d.adv[s].pending = "IDLE"
        /\ \/ d.stack[s] = d.adv[s].ext
           \/ d.stack[s] = "IDLE" /\ d.adv[s].ext = "ADVERTISING" /\ d.io[s] # <<>>
        /\ u.adv[s].pending = "IDLE"
    BY <1>1, <1>3, NothingPending
  <2>5. /\ EndsWith(t.queue, s, "START") => d.adv[s].mgr = "ENABLED" /\ Count(t.queue, s) > 0
        /\ EndsWith(t.queue, s, "STOP") => d.adv[s].mgr = "DISABLED"
    <3>1. t.queue \in Seq(Entries)
      BY <1>1, <1>5, SoundTypes DEF OnlyAbout
    <3> QED BY <1>7, <2>2, <3>1, EndsCounted DEF Agrees
  <2>6. Count(t.queue, s) = 0 => /\ e.act = "START" => d.adv[s].mgr = "ENABLED"
                                 /\ e.act = "STOP" => d.adv[s].mgr = "DISABLED"
    BY <1>7, <2>2, <2>3 DEF Agrees
  <2>7. "STOP" \notin Refusable
    BY <1>7 DEF Obliging
  <2>8. CASE /\ e.act = "START" /\ t.ok /\ t.stack[s] = "START" /\ u.stack[s] = "IDLE"
             /\ t.adv[s].pending = "START" /\ t.adv[s].mgr = u.adv[s].mgr
    BY <1>1, <2>1, <2>5, <2>6, <2>8 DEF Agrees
  <2>9. CASE /\ e.act = "START" /\ u.adv[s].ext = "IDLE" /\ ~t.ok
             /\ t.stack = u.stack /\ t.io = u.io /\ t.adv[s].mgr = "DISABLED"
    <3>1. Count(t.queue, s) = 0
      BY <1>1, <1>7, <2>1, <2>9
    <3>2. ~EndsWith(t.queue, s, "START")
      BY <2>5, <3>1
    <3>3. t.stack[s] = "IDLE"
      BY <1>1, <2>4, <2>9
    <3> QED BY <2>1, <2>9, <3>2, <3>3 DEF Agrees
  <2>10. CASE e.act = "STOP" /\ t.ok /\ t.stack[s] = "STOP" /\ t.adv[s].mgr = u.adv[s].mgr
    BY <1>1, <2>1, <2>5, <2>6, <2>10 DEF Agrees
  <2>11. CASE /\ e.act = "STOP" /\ ~t.ok /\ (u.stack[s] = "ADVERTISING" => "STOP" \in Refusable)
              /\ t.stack = u.stack /\ t.adv[s].mgr = u.adv[s].mgr
    <3>1. t.stack[s] = "IDLE" /\ t.adv[s].mgr = d.adv[s].mgr
      BY <1>1, <2>4, <2>7, <2>11
    <3> QED BY <2>1, <2>5, <2>6, <2>11, <3>1 DEF Agrees
  <2>12. CASE e.act = "START" /\ u.adv[s].ext # "IDLE" /\ t = u
    <3>1. /\ t.stack[s] = "ADVERTISING" \/ t.io[s] # <<>>
          /\ t.adv[s].mgr = d.adv[s].mgr /\ t.adv[s].pending = "IDLE"
      BY <1>1, <2>4, <2>12
    <3> QED BY <2>1, <2>5, <2>6, <2>12, <3>1 DEF Agrees
  <2>13. CASE e.act = "STOP" /\ u.adv[s].ext # "ADVERTISING" /\ t = u
    <3>1. t.stack[s] = "IDLE" /\ t.adv[s].mgr = d.adv[s].mgr
      BY <1>1, <2>4, <2>13
    <3> QED BY <2>1, <2>5, <2>6, <2>13, <3>1 DEF Agrees
  <2>14. CASE /\ e.act = "UPDATE" /\ t.stack = u.stack /\ t.io = u.io /\ t.adv[s].mgr = u.adv[s].mgr
              /\ t.adv[s].pending \in {"IDLE", "UPDATE"}
    <3>1. Count(d.queue, s) = Count(t.queue, s)
      BY <2>1, <2>2, <2>3, <2>14
    <3> QED BY <1>1, <1>7, <2>1, <2>5, <2>14, <3>1 DEF Agrees
  <2> QED BY <1>4, <2>8, <2>9, <2>10, <2>11, <2>12, <2>13, <2>14 DEF Outcome
<1>9. Stays(d, t, s)
  BY <1>1, <1>4 DEF Outcome, Stays
<1> QED BY <1>1, <1>4, <1>5, <1>6, <1>7, <1>9 DEF s

-----------------------------------------------------------------------------
(* The inductive invariant.                                                *)

\* The types of what the manager does not keep itself.
AirOK ==
    /\ draining \in BOOLEAN
    /\ closing \subseteq Sets /\ conns \subseteq Sets /\ made \in Nat /\ hit \subseteq Sets

\* In the loop nothing is under way and an entry is left.
LoopOK == draining => queue # <<>> /\ ~Pending(Now)

\* pending_start_stop_num counts the queue.
KeptOK == \A s \in Sets \ hit : Kept(Now, s)

\* A connection ends sets that are not idle.
ClosingOK == \A s \in closing : stack[s] \in {"ADVERTISING", "STOP"}

\* The queue has a waker unless GAP may refuse updates.
WokenOK == "UPDATE" \notin Refusable => draining \/ Woken(Now)

\* What the application was told is what will be.
AgreesOK == Obliging => \A s \in Sets \ hit : Agrees(Now, s)

Inv == AirOK /\ ClosingOK /\ Sound(Now) /\ LoopOK /\ KeptOK /\ WokenOK /\ AgreesOK

\* The invariant holds when the manager has been initialised.
LEMMA InitInv == Init => Inv
<1> SUFFICES ASSUME Init PROVE Inv
  OBVIOUS
<1>1. AirOK
  BY DEF Init, AirOK
<1>2. /\ \A s \in Sets : /\ adv[s] \in AdvSets /\ adv[s].pending = "IDLE" /\ adv[s].num = 0
                         /\ adv[s].ext = "IDLE" /\ adv[s].mgr = "DISABLED" /\ stack[s] = "IDLE" /\ io[s] = <<>>
      /\ adv \in [Sets -> AdvSets] /\ stack \in [Sets -> AdvStates] /\ io \in [Sets -> Seq(Reports)]
      /\ queue = <<>> /\ queue \in Seq(Entries) /\ setting = {} /\ ~draining
  <2>1. 0 \in Nat /\ FALSE \in BOOLEAN
    OBVIOUS
  <2> QED BY <2>1, EmptySeq DEF Init, AdvSets, AdvStates, Causes, AppCauses
<1>3. \A s \in Sets : Count(queue, s) = 0
  BY <1>2, QueuedEmpty
<1>4. Now \in Managers
  BY <1>2 DEF Now, Managers
<1>5. Now.adv = adv /\ Now.queue = queue /\ Now.stack = stack /\ Now.io = io /\ Now.setting = setting
  BY DEF Now
<1>6. Sound(Now)
  <2>1. \A s \in Sets : Follows(adv[s], stack[s], io[s], s \in setting)
    <3>1. Course("IDLE", <<>>, "IDLE", "IDLE")
      <4>1. Len(<<>>) = 0 /\ 1..0 = {} /\ 0..0 = {0} /\ After("IDLE", <<>>, 0) = "IDLE"
        BY EmptySeq DEF After
      <4>2. "IDLE" \notin Temporary
        BY DEF Temporary
      <4> QED BY <4>1, <4>2 DEF Course
    <3> QED BY <1>2, <3>1 DEF Follows
  <2> QED BY <1>2, <1>3, <1>4, <1>5, <2>1 DEF Sound
<1>7. \A s \in Sets : Agrees(Now, s)
  BY <1>2, <1>3, <1>5, EndsEmpty DEF Agrees, Kept
<1>8. ClosingOK
  BY DEF Init, ClosingOK
<1> QED BY <1>1, <1>2, <1>3, <1>5, <1>6, <1>7, <1>8 DEF Inv, LoopOK, KeptOK, WokenOK, AgreesOK, Agrees, Woken

\* What a call returned does not outlive it.
LEMMA Settled ==
    ASSUME NEW t, Sound(t), NEW n,
           n = [adv |-> t.adv, queue |-> t.queue, stack |-> t.stack, io |-> t.io, setting |-> t.setting, ok |-> TRUE]
    PROVE  /\ Sound(n)
           /\ n.adv = t.adv /\ n.queue = t.queue /\ n.stack = t.stack /\ n.io = t.io /\ n.setting = t.setting
           /\ Pending(n) <=> Pending(t)
<1>1. n.adv = t.adv /\ n.queue = t.queue /\ n.stack = t.stack /\ n.io = t.io /\ n.setting = t.setting
  OBVIOUS
<1>2. n \in Managers
  BY DEF Sound, Managers
<1>3. Sound(n)
  BY <1>1, <1>2 DEF Sound
<1>4. Pending(n) <=> Pending(t)
  BY <1>1 DEF Pending
<1> QED BY <1>1, <1>3, <1>4

\* A step about one set keeps the invariant if it keeps it for this set.
LEMMA OneSet ==
    ASSUME Inv, NEW s \in Sets, NEW n, n = Now', OnlyAbout(Now, n, s),
           AirOK', LoopOK', WokenOK', hit \subseteq hit',
           closing' \subseteq closing, s \in closing' => n.stack[s] \in {"ADVERTISING", "STOP"},
           s \notin hit' => Kept(n, s),
           Obliging /\ s \notin hit' => Agrees(n, s)
    PROVE  Inv'
<1>1. \A r \in Sets \ hit' : Kept(n, r)
  <2>1. TAKE r \in Sets \ hit'
  <2>2. CASE r = s
    BY <2>2
  <2>3. CASE r # s
    BY <2>3 DEF Inv, KeptOK, Kept, OnlyAbout, Same
  <2> QED BY <2>2, <2>3
<1>2. ASSUME Obliging, NEW r \in Sets \ hit' PROVE Agrees(n, r)
  <2>1. CASE r = s
    BY <1>2, <2>1
  <2>2. CASE r # s
    <3>1. Same(Now, n, r) /\ Agrees(Now, r)
      BY <1>2, <2>2 DEF Inv, AgreesOK, OnlyAbout
    <3> QED BY <3>1 DEF Agrees, Kept, Same
  <2> QED BY <2>1, <2>2
<1>3. Sound(n)
  BY DEF OnlyAbout
<1>4. KeptOK'
  BY <1>1 DEF KeptOK
<1>5. AgreesOK'
  BY <1>2 DEF AgreesOK
<1>6. Sound(Now)'
  BY <1>3
<1>7. ClosingOK'
  <2>1. n.stack = stack' /\ Now.stack = stack
    BY DEF Now
  <2>2. SUFFICES ASSUME NEW r \in closing' PROVE n.stack[r] \in {"ADVERTISING", "STOP"}
    BY <2>1 DEF ClosingOK
  <2>3. CASE r = s
    BY <2>3
  <2>4. CASE r # s
    <3>1. r \in Sets \ {s} /\ stack[r] \in {"ADVERTISING", "STOP"}
      BY <2>4 DEF Inv, AirOK, ClosingOK
    <3> QED BY <2>1, <3>1 DEF OnlyAbout, Same
  <2> QED BY <2>3, <2>4
<1> QED BY <1>4, <1>5, <1>6, <1>7 DEF Inv

\* An honest call keeps the invariant.
LEMMA CallInv ==
    ASSUME Inv, NEW s \in Sets, NEW t, Honest(Now, t, s), Becomes(t), ~draining,
           UNCHANGED <<draining, air, hit>>
    PROVE  Inv'
<1> DEFINE n == Now'
<1>1. Sound(t)
  BY DEF Honest, OnlyAbout
<1>2. n = [adv |-> t.adv, queue |-> t.queue, stack |-> t.stack, io |-> t.io, setting |-> t.setting, ok |-> TRUE]
  BY DEF Becomes, Now
<1>3. n = Now'
  OBVIOUS
<1> HIDE DEF n
<1>4. /\ Sound(n)
      /\ n.adv = t.adv /\ n.queue = t.queue /\ n.stack = t.stack /\ n.io = t.io /\ n.setting = t.setting
      /\ Pending(n) <=> Pending(t)
  BY <1>1, <1>2, Settled
<1>5. OnlyAbout(Now, n, s)
  BY <1>4 DEF Honest, OnlyAbout, Same
<1>6. AirOK' /\ LoopOK' /\ hit' = hit /\ closing' = closing
  BY DEF Inv, AirOK, LoopOK, air
<1>7. WokenOK'
  <2>1. "UPDATE" \notin Refusable => Woken(n)
    <3>1. "UPDATE" \notin Refusable => Woken(Now)
      BY DEF Inv, WokenOK
    <3> QED BY <1>4, <3>1 DEF Honest, Woken
  <2> QED BY <1>3, <2>1 DEF WokenOK
<1>8. s \notin hit' => Kept(n, s)
  BY <1>4, <1>6 DEF Inv, KeptOK, Honest, Kept
<1>9. Obliging /\ s \notin hit' => Agrees(n, s)
  <2>1. Obliging => "UPDATE" \notin Refusable
    BY DEF Obliging
  <2>2. Obliging /\ s \notin hit' => Woken(Now) /\ Agrees(Now, s)
    BY <1>6, <2>1 DEF Inv, WokenOK, AgreesOK
  <2>3. Agrees(t, s) => Agrees(n, s)
    BY <1>4 DEF Agrees, Kept
  <2> QED BY <2>2, <2>3 DEF Honest
<1>10. s \in closing' => n.stack[s] \in {"ADVERTISING", "STOP"}
  <2>1. Now.stack = stack
    BY DEF Now
  <2> QED BY <1>4, <1>6, <2>1 DEF Inv, ClosingOK, Honest, Stays
<1> QED BY <1>3, <1>5, <1>6, <1>7, <1>8, <1>9, <1>10, OneSet

\* A turn of the loop keeps the invariant.
LEMMA TurnInv == ASSUME Inv, ble_ext_adv_mgr_check_next_step PROVE Inv'
<1> DEFINE e == Head(queue)
           s == e.set
           n == Now'
<1>1. Sound(Now) /\ ~Pending(Now) /\ queue # <<>> /\ Now.queue = queue /\ Now.adv = adv
  BY DEF Inv, LoopOK, ble_ext_adv_mgr_check_next_step, Now
<1>2. PICK t \in Attempt(Taken(Now), e) :
        /\ Becomes(t)
        /\ draining' = (~t.ok /\ t.queue # <<>>)
        /\ hit' = IF e.act = "START" /\ adv[s].ext = "IDLE" /\ ~t.ok /\ t.adv[s].num > 0
                  THEN hit \cup {s} ELSE hit
  BY DEF ble_ext_adv_mgr_check_next_step
<1>3. e = Head(Now.queue) /\ s = e.set
  BY <1>1
<1> HIDE DEF e
<1>4. /\ s \in Sets
      /\ OnlyAbout(Now, t, s) /\ Stays(Now, t, s)
      /\ t.ok <=> Pending(t)
      /\ Kept(Now, s) => Kept(t, s)
      /\ (Obliging /\ Agrees(Now, s)
          /\ ~(e.act = "START" /\ Now.adv[s].ext = "IDLE" /\ ~t.ok /\ t.adv[s].num > 0))
         => Agrees(t, s)
  BY <1>1, <1>2, <1>3, TurnSound
<1> HIDE DEF s
<1>5. n = [adv |-> t.adv, queue |-> t.queue, stack |-> t.stack, io |-> t.io, setting |-> t.setting, ok |-> TRUE]
  BY <1>2 DEF Becomes, Now
<1>6. n = Now'
  OBVIOUS
<1> HIDE DEF n
<1>7. /\ Sound(n)
      /\ n.adv = t.adv /\ n.queue = t.queue /\ n.stack = t.stack /\ n.io = t.io /\ n.setting = t.setting
      /\ Pending(n) <=> Pending(t)
  BY <1>4, <1>5, Settled DEF OnlyAbout
<1>8. OnlyAbout(Now, n, s)
  BY <1>4, <1>7 DEF OnlyAbout, Same
<1>9. hit' \in {hit, hit \cup {s}}
  BY <1>2
<1>10. AirOK'
  BY <1>2, <1>4, <1>9 DEF Inv, AirOK, ble_ext_adv_mgr_check_next_step, air
<1>11. queue' = t.queue
  BY <1>2 DEF Becomes
<1>12. LoopOK'
  BY <1>2, <1>4, <1>6, <1>7, <1>11 DEF LoopOK
<1>13. WokenOK'
  BY <1>2, <1>4, <1>6, <1>7, <1>11 DEF WokenOK, Woken
<1>14. s \notin hit' => Kept(n, s)
  BY <1>4, <1>7, <1>9 DEF Inv, KeptOK, Kept
<1>15. Obliging /\ s \notin hit' => Agrees(n, s)
  <2>1. Agrees(t, s) => Agrees(n, s)
    BY <1>7 DEF Agrees, Kept
  <2>2. s \notin hit' => s \notin hit
        /\ ~(e.act = "START" /\ Now.adv[s].ext = "IDLE" /\ ~t.ok /\ t.adv[s].num > 0)
    BY <1>1, <1>2, <1>9
  <2> QED BY <1>4, <2>1, <2>2 DEF Inv, AgreesOK
<1>16. closing' = closing
  BY DEF ble_ext_adv_mgr_check_next_step, air
<1>17. s \in closing' => n.stack[s] \in {"ADVERTISING", "STOP"}
  <2>1. Now.stack = stack
    BY DEF Now
  <2> QED BY <1>4, <1>7, <1>16, <2>1 DEF Inv, ClosingOK, Stays
<1> QED BY <1>4, <1>6, <1>8, <1>16, <1>17, <1>9, <1>10, <1>12, <1>13, <1>14, <1>15, OneSet

\* A report that the application reads keeps the invariant.
LEMMA ReadInv == ASSUME Inv, NEW s \in Sets, Report(s) PROVE Inv'
<1> DEFINE old == adv[s].ext
           r == Head(io[s])
           rest == Tail(io[s])
           h == [adv[s] EXCEPT !.ext = r.state, !.cause = r.cause]
           a == ble_ext_adv_mgr_check_state(h)
           ends == old \in {"START", "STOP"}
           b == IF ends THEN Answered(a, old) ELSE a
           n == Now'
           w == With(Now, s, b, stack[s], rest, queue, setting, TRUE)
<1>1. /\ adv' = [adv EXCEPT ![s] = b] /\ draining' = (ends /\ queue # <<>>)
      /\ hit' = IF Overtaken(s, h) THEN hit \cup {s} ELSE hit
      /\ io' = [io EXCEPT ![s] = rest] /\ stack' = stack /\ queue' = queue /\ setting' = setting
      /\ ~draining /\ io[s] # <<>> /\ UNCHANGED air
  BY DEF Report, ble_ext_adv_mgr_handle_adv_state, Hit
<1>2. Sound(Now) /\ Now.adv = adv /\ Now.stack = stack /\ Now.io = io /\ Now.queue = queue /\ Now.setting = setting
  BY DEF Inv, Now
<1>3. /\ adv[s] \in AdvSets /\ stack[s] \in AdvStates /\ io[s] \in Seq(Reports) /\ queue \in Seq(Entries)
      /\ Count(queue, s) <= adv[s].num /\ adv[s].num \in Nat /\ Count(queue, s) \in Nat
      /\ Follows(adv[s], stack[s], io[s], s \in setting)
  BY <1>2, SoundTypes
<1>4. /\ r \in Reports /\ rest \in Seq(Reports) /\ Leads(old, r)
      /\ Course(r.state, rest, stack[s], IF ends THEN "IDLE" ELSE adv[s].pending)
      /\ ends => adv[s].pending = old
      /\ r.state \in Temporary => adv[s].pending = r.state
      /\ rest = <<>> => stack[s] = r.state
      /\ rest # <<>> /\ r.state = "IDLE" => adv[s].pending = "START" /\ old # "START"
  <2>1. old \in AdvStates /\ Course(old, io[s], stack[s], adv[s].pending)
    BY <1>3 DEF AdvSets, Follows
  <2> HIDE DEF old
  <2> QED BY <1>1, <1>3, <2>1, CourseRead, SMTT(20) DEF Temporary
<1>5. r.state \in AdvStates /\ r.cause \in Causes
  BY <1>4 DEF Reports
<1> HIDE DEF r, rest
<1>6. /\ h \in AdvSets /\ h.pending = adv[s].pending /\ h.num = adv[s].num /\ h.ext = r.state
      /\ h.mgr = adv[s].mgr /\ h.cause = r.cause
  BY <1>3, <1>5 DEF AdvSets
<1> HIDE DEF h
<1>7. /\ a \in AdvSets /\ a.pending = adv[s].pending /\ a.num = adv[s].num /\ a.ext = r.state
      /\ a.mgr = IF Ended(h) THEN "DISABLED" ELSE adv[s].mgr
  BY <1>6, CheckStateSound
<1> HIDE DEF a
<1>8. /\ b \in AdvSets /\ b.num = adv[s].num /\ b.ext = r.state /\ b.mgr = a.mgr
      /\ b.pending = IF ends THEN "IDLE" ELSE adv[s].pending
  <2>1. CASE ends
    <3>1. b = [a EXCEPT !.pending = "IDLE"]
      BY <1>4, <1>7, <2>1 DEF Answered
    <3> HIDE DEF b, ends
    <3> QED BY <1>7, <2>1, <3>1 DEF AdvSets
  <2>2. CASE ~ends
    BY <1>7, <2>2
  <2> QED BY <2>1, <2>2
<1> HIDE DEF b
<1>9. OnlyAbout(Now, w, s)
  <2>1. b.pending = "UPDATE" <=> adv[s].pending = "UPDATE"
    BY <1>4, <1>8
  <2>2. Follows(b, stack[s], rest, s \in setting)
    BY <1>3, <1>4, <1>8, <2>1 DEF Follows
  <2>3. b.pending # "IDLE" => adv[s].pending # "IDLE"
    BY <1>8
  <2> HIDE DEF ends
  <2> QED BY <1>2, <1>3, <1>4, <1>8, <2>2, <2>3, WithSound
<1>10. n = w
  BY <1>1, <1>2, <1>3 DEF Now, With, Sound, Managers
<1>11. n = Now' /\ n.adv = adv' /\ n.stack = stack /\ n.io = io' /\ n.queue = queue
  BY <1>1 DEF Now
<1>12. n.adv[s] = b /\ n.io[s] = rest /\ \A t \in Sets \ {s} : n.adv[t] = adv[t]
  BY <1>1, <1>2, <1>11 DEF Sound, Managers
<1> HIDE DEF n, w
<1>13. ends => ~Pending(n)
  <2>1. \A t \in Sets \ {s} : ends => adv[t].pending = "IDLE"
    <3>1. \A t, u \in Sets : adv[t].pending # "IDLE" /\ adv[u].pending # "IDLE" => t = u
      BY <1>2 DEF Sound
    <3> QED BY <1>4, <3>1
  <2> QED BY <1>8, <1>12, <2>1 DEF Pending
<1>14. ~ends => (Pending(n) <=> Pending(Now))
  <2>1. ~ends => \A t \in Sets : n.adv[t].pending = adv[t].pending
    BY <1>8, <1>12
  <2> QED BY <1>2, <2>1 DEF Pending
<1>15. hit' \in {hit, hit \cup {s}}
  BY <1>1
<1>16. AirOK' /\ closing' = closing
  BY <1>1, <1>15 DEF Inv, AirOK, air
<1>17. LoopOK'
  BY <1>1, <1>11, <1>13 DEF LoopOK
<1>18. WokenOK'
  <2>1. CASE ends
    BY <1>1, <1>11, <2>1 DEF WokenOK, Woken
  <2>2. CASE ~ends
    <3>1. "UPDATE" \notin Refusable => Woken(Now)
      BY <1>1 DEF Inv, WokenOK
    <3>2. Woken(Now) => Woken(n)
      BY <1>2, <1>11, <1>14, <2>2 DEF Woken
    <3> QED BY <1>11, <3>1, <3>2 DEF WokenOK
  <2> QED BY <2>1, <2>2
<1>19. s \notin hit' => Kept(n, s)
  BY <1>2, <1>8, <1>11, <1>12, <1>15 DEF Inv, KeptOK, Kept
<1>20. ASSUME Obliging, s \notin hit' PROVE Agrees(n, s)
  <2>1. Agrees(Now, s) /\ ~Overtaken(s, h)
    BY <1>1, <1>15, <1>20 DEF Inv, AgreesOK
  <2>2. /\ adv[s].num = Count(queue, s)
        /\ EndsWith(queue, s, "START") => adv[s].mgr = "ENABLED" /\ Count(queue, s) > 0
        /\ EndsWith(queue, s, "STOP") => adv[s].mgr = "DISABLED"
        /\ Count(queue, s) = 0 =>
              /\ stack[s] \in {"START", "ADVERTISING"} => adv[s].mgr = "ENABLED"
              /\ adv[s].mgr = "ENABLED" =>
                    /\ adv[s].pending # "STOP"
                    /\ stack[s] \in {"START", "ADVERTISING"} \/ io[s] # <<>>
    BY <1>2, <1>3, <2>1, EndsCounted DEF Agrees, Kept
  <2>3. Kept(n, s)
    BY <1>19, <1>20
  <2>4. Ended(h) => r.state = "IDLE" /\ adv[s].num = 0 /\ rest = <<>> /\ stack[s] = "IDLE"
    <3>1. Ended(h) => r.state = "IDLE" /\ adv[s].num = 0
      BY <1>3, <1>6, <2>1 DEF Overtaken, Ended
    <3>2. Ended(h) => rest = <<>>
      BY <1>4, <1>6, <2>1, <3>1 DEF Overtaken
    <3> QED BY <1>4, <3>1, <3>2
  <2>5. r.state = "IDLE" /\ adv[s].num = 0 /\ ~Ended(h) => adv[s].pending = "STOP"
    BY <1>4, <1>6 DEF Ended, Leads
  <2>6. EndsWith(queue, s, "START") => b.mgr = "ENABLED"
    BY <1>3, <1>7, <1>8, <2>2, <2>4
  <2>7. EndsWith(queue, s, "STOP") => b.mgr = "DISABLED"
    BY <1>7, <1>8, <2>2
  <2>8. Count(queue, s) = 0 /\ stack[s] \in {"START", "ADVERTISING"} => b.mgr = "ENABLED"
    BY <1>7, <1>8, <2>2, <2>4
  <2>9. ASSUME Count(queue, s) = 0, b.mgr = "ENABLED"
        PROVE  b.pending # "STOP" /\ (stack[s] \in {"START", "ADVERTISING"} \/ rest # <<>>)
    <3>1. adv[s].mgr = "ENABLED" /\ ~Ended(h) /\ adv[s].pending # "STOP" /\ adv[s].num = 0
      BY <1>7, <1>8, <2>2, <2>9
    <3>2. r.state \notin {"IDLE", "STOP"}
      BY <1>4, <2>5, <3>1 DEF Temporary
    <3>3. r.state \in {"START", "ADVERTISING"}
      BY <1>5, <3>2 DEF AdvStates
    <3> QED BY <1>4, <1>8, <3>1, <3>3
  <2> QED BY <1>11, <1>12, <2>3, <2>6, <2>7, <2>8, <2>9 DEF Agrees
<1>21. s \in closing' => n.stack[s] \in {"ADVERTISING", "STOP"}
  BY <1>11, <1>16 DEF Inv, ClosingOK
<1> QED BY <1>9, <1>10, <1>11, <1>15, <1>16, <1>17, <1>18, <1>19, <1>20, <1>21, OneSet

\* What GAP does of itself or for a command: it ends or succeeds.
Result(st, state, cause) ==
    /\ state \in {"IDLE", "ADVERTISING"} /\ cause \in Causes
    /\ st # "IDLE" /\ (state = "ADVERTISING" => st = "START") /\ (cause = "cancelled" => st = "STOP")

\* A change of a set in GAP keeps the invariant.
LEMMA ChangesInv ==
    ASSUME Inv, NEW s \in Sets, NEW state, NEW cause, Changes(s, state, cause),
           Result(stack[s], state, cause), closing' \subseteq closing, s \notin closing'
    PROVE  Inv'
<1> DEFINE r == [state |-> state, cause |-> cause]
           rs == Append(io[s], r)
           n == Now'
           w == With(Now, s, adv[s], state, rs, queue, setting, TRUE)
<1>1. /\ stack' = [stack EXCEPT ![s] = state] /\ io' = [io EXCEPT ![s] = rs]
      /\ adv' = adv /\ queue' = queue /\ setting' = setting /\ ~draining /\ draining' = draining
      /\ conns' = conns /\ made' = made /\ hit' = hit
  BY DEF Changes, Told
<1>2. Sound(Now) /\ Now.adv = adv /\ Now.stack = stack /\ Now.io = io /\ Now.queue = queue /\ Now.setting = setting
  BY DEF Inv, Now
<1>3. /\ adv[s] \in AdvSets /\ stack[s] \in AdvStates /\ io[s] \in Seq(Reports) /\ queue \in Seq(Entries)
      /\ Count(queue, s) <= adv[s].num /\ adv[s].ext \in AdvStates
      /\ Follows(adv[s], stack[s], io[s], s \in setting)
  BY <1>2, SoundTypes DEF AdvSets
<1>4. r \in Reports /\ r.state = state /\ state \in AdvStates /\ state \notin Temporary
  BY DEF Result, Reports, AdvStates, Temporary
<1>5. Leads(stack[s], r)
  BY <1>3 DEF Result, Leads, AdvStates
<1>6. rs \in Seq(Reports) /\ rs # <<>>
  <2> HIDE DEF r
  <2>1. rs \in Seq(Reports) /\ Len(rs) = Len(io[s]) + 1 /\ Len(io[s]) \in Nat
    BY <1>3, <1>4, AppendProperties, LenProperties
  <2> HIDE DEF rs
  <2>2. Len(rs) # 0
    BY <2>1
  <2> QED BY <2>1, <2>2, EmptySeq
<1> HIDE DEF r
<1>7. Course(adv[s].ext, rs, state, adv[s].pending)
  <2>1. Course(adv[s].ext, io[s], stack[s], adv[s].pending)
    BY <1>3 DEF Follows
  <2>2. Course(adv[s].ext, Append(io[s], r), r.state, adv[s].pending)
    BY <1>3, <1>4, <1>5, <2>1, CourseTold
  <2> QED BY <1>4, <2>2
<1> HIDE DEF rs
<1>8. OnlyAbout(Now, w, s)
  <2>1. Follows(adv[s], state, rs, s \in setting)
    BY <1>3, <1>7 DEF Follows
  <2>2. setting \in {Now.setting, Now.setting \cup {s}, Now.setting \ {s}}
    BY <1>2
  <2> QED BY <1>2, <1>3, <1>4, <1>6, <2>1, <2>2, WithSound
<1>9. n = w
  BY <1>1, <1>2 DEF Now, With, Sound, Managers
<1>10. n = Now' /\ n.adv = adv /\ n.stack = stack' /\ n.io = io' /\ n.queue = queue
  BY <1>1 DEF Now
<1>11. n.stack[s] = state /\ n.io[s] = rs
  BY <1>1, <1>2, <1>10 DEF Sound, Managers
<1> HIDE DEF n, w
<1>12. AirOK' /\ LoopOK'
  BY <1>1 DEF Inv, AirOK, LoopOK
<1>13. WokenOK'
  <2>1. Pending(n) <=> Pending(Now)
    BY <1>2, <1>10 DEF Pending
  <2> QED BY <1>1, <1>2, <1>10, <2>1 DEF Inv, WokenOK, Woken
<1>14. s \notin hit' => Kept(n, s)
  BY <1>1, <1>2, <1>10 DEF Inv, KeptOK, Kept
<1>15. ASSUME Obliging, s \notin hit' PROVE Agrees(n, s)
  <2>1. Agrees(Now, s)
    BY <1>1, <1>15 DEF Inv, AgreesOK
  <2>2. state \in {"START", "ADVERTISING"} => stack[s] = "START"
    BY DEF Result
  <2> QED BY <1>2, <1>6, <1>10, <1>11, <2>1, <2>2 DEF Agrees, Kept
<1> QED BY <1>1, <1>8, <1>9, <1>10, <1>12, <1>13, <1>14, <1>15, OneSet

\* The answer to an update keeps the invariant.
LEMMA SettingDoneInv == ASSUME Inv, NEW s \in Sets, ble_ext_adv_mgr_handle_gap_cb(s) PROVE Inv'
<1> DEFINE b == Answered(adv[s], "UPDATE")
           n == Now'
           w == With(Now, s, b, stack[s], io[s], queue, setting \ {s}, TRUE)
<1>1. /\ s \in setting /\ setting' = setting \ {s} /\ adv' = [adv EXCEPT ![s] = b]
      /\ draining' = (queue # <<>>) /\ queue' = queue /\ stack' = stack /\ io' = io /\ hit' = hit
      /\ UNCHANGED air
  BY DEF ble_ext_adv_mgr_handle_gap_cb
<1>2. Sound(Now) /\ Now.adv = adv /\ Now.stack = stack /\ Now.io = io /\ Now.queue = queue /\ Now.setting = setting
  BY DEF Inv, Now
<1>3. /\ adv[s] \in AdvSets /\ stack[s] \in AdvStates /\ io[s] \in Seq(Reports) /\ queue \in Seq(Entries)
      /\ Count(queue, s) <= adv[s].num
      /\ Follows(adv[s], stack[s], io[s], s \in setting)
  BY <1>2, SoundTypes
<1>4. adv[s].pending = "UPDATE"
  BY <1>1, <1>3 DEF Follows, AdvSets, Actions
<1>5. b \in AdvSets /\ b.pending = "IDLE" /\ b.num = adv[s].num /\ b.ext = adv[s].ext /\ b.mgr = adv[s].mgr
  BY <1>3, <1>4 DEF Answered, AdvSets
<1> HIDE DEF b
<1>6. OnlyAbout(Now, w, s)
  <2>1. Follows(b, stack[s], io[s], s \in setting \ {s})
    <3>1. "IDLE" \notin Temporary /\ "UPDATE" \notin Temporary
      BY DEF Temporary
    <3>2. Course(adv[s].ext, io[s], stack[s], "IDLE")
      BY <1>3, <1>4, <3>1, CourseOther DEF Follows
    <3> QED BY <1>5, <3>2 DEF Follows
  <2> QED BY <1>2, <1>3, <1>5, <2>1, WithSound
<1>7. n = w
  BY <1>1, <1>2, <1>3 DEF Now, With, Sound, Managers
<1>8. n = Now' /\ n.adv = adv' /\ n.stack = stack /\ n.io = io /\ n.queue = queue
  BY <1>1 DEF Now
<1>9. n.adv[s] = b /\ \A r \in Sets \ {s} : n.adv[r] = adv[r]
  BY <1>1, <1>2, <1>8 DEF Sound, Managers
<1> HIDE DEF n, w
<1>10. ~Pending(n)
  <2>1. \A r \in Sets \ {s} : adv[r].pending = "IDLE"
    BY <1>2, <1>4 DEF Sound
  <2> QED BY <1>5, <1>9, <2>1 DEF Pending
<1>11. AirOK' /\ LoopOK' /\ WokenOK'
  BY <1>1, <1>8, <1>10 DEF Inv, AirOK, LoopOK, WokenOK, Woken, air
<1>12. s \notin hit' => Kept(n, s)
  BY <1>1, <1>2, <1>5, <1>8, <1>9 DEF Inv, KeptOK, Kept
<1>13. Obliging /\ s \notin hit' => Agrees(n, s)
  BY <1>1, <1>2, <1>5, <1>8, <1>9 DEF Inv, AgreesOK, Agrees, Kept
<1>14. closing' = closing /\ (s \in closing' => n.stack[s] \in {"ADVERTISING", "STOP"})
  BY <1>1, <1>8 DEF Inv, ClosingOK, air
<1> QED BY <1>1, <1>6, <1>7, <1>8, <1>11, <1>12, <1>13, <1>14, OneSet

\* Deleting the queued actions of a connected set keeps the invariant.
LEMMA ConnectedInv == ASSUME Inv, NEW s \in Sets, ble_ext_adv_mgr_handle_conn_state(s) PROVE Inv'
<1> DEFINE q == Others(queue, s)
           n == Now'
           w == With(Now, s, adv[s], stack[s], io[s], q, setting, TRUE)
<1>1. /\ ~draining /\ conns' = conns \ {s} /\ queue' = q
      /\ hit' = (IF Queued(queue, s) # {} THEN hit \cup {s} ELSE hit)
      /\ adv' = adv /\ stack' = stack /\ io' = io /\ setting' = setting /\ draining' = draining
      /\ closing' = closing /\ made' = made
  BY DEF ble_ext_adv_mgr_handle_conn_state
<1>2. Sound(Now) /\ Now.adv = adv /\ Now.stack = stack /\ Now.io = io /\ Now.queue = queue /\ Now.setting = setting
  BY DEF Inv, Now
<1>3. /\ adv[s] \in AdvSets /\ stack[s] \in AdvStates /\ io[s] \in Seq(Reports) /\ queue \in Seq(Entries) /\ adv[s].num \in Nat
      /\ Follows(adv[s], stack[s], io[s], s \in setting)
  BY <1>2, SoundTypes
<1>4. /\ q \in Seq(Entries) /\ Count(q, s) = 0
      /\ \A r \in Sets \ {s} : /\ Count(q, r) = Count(queue, r)
                               /\ \A act : EndsWith(q, r, act) <=> EndsWith(queue, r, act)
  BY <1>3, OthersKept
<1> HIDE DEF q
<1>5. OnlyAbout(Now, w, s)
  <2>1. Count(q, s) <= adv[s].num /\ Now.adv[s].pending = adv[s].pending
    BY <1>2, <1>3, <1>4
  <2>2. setting \in {Now.setting, Now.setting \cup {s}, Now.setting \ {s}}
    BY <1>2
  <2> QED BY <1>2, <1>3, <1>4, <2>1, <2>2, WithSound
<1>6. n = w
  BY <1>1, <1>2, <1>3 DEF Now, With, Sound, Managers
<1>7. n = Now' /\ n.adv = adv /\ n.stack = stack /\ n.io = io /\ n.queue = q
  BY <1>1 DEF Now
<1> HIDE DEF n, w
<1>8. hit' \in {hit, hit \cup {s}}
  BY <1>1
<1>9. AirOK' /\ LoopOK'
  BY <1>1, <1>8 DEF Inv, AirOK, LoopOK
<1>10. WokenOK'
  <2>1. Pending(n) <=> Pending(Now)
    BY <1>2, <1>7 DEF Pending
  <2>2. queue = <<>> => q = <<>>
    BY OthersEmpty DEF q
  <2> QED BY <1>1, <1>2, <1>7, <2>1, <2>2 DEF Inv, WokenOK, Woken
<1>11. s \notin hit' => s \notin hit /\ Count(queue, s) = 0
  BY <1>1, <1>3, QueuedFinite
<1>12. s \notin hit' => Kept(n, s)
  BY <1>2, <1>4, <1>7, <1>11 DEF Inv, KeptOK, Kept
<1>13. Obliging /\ s \notin hit' => Agrees(n, s)
  <2>1. \A act : ~EndsWith(q, s, act)
    BY <1>4, EndsCounted
  <2> QED BY <1>2, <1>4, <1>7, <1>11, <2>1 DEF Inv, AgreesOK, Agrees, Kept
<1>14. s \in closing' => n.stack[s] \in {"ADVERTISING", "STOP"}
  BY <1>1, <1>7 DEF Inv, ClosingOK
<1> QED BY <1>1, <1>5, <1>6, <1>7, <1>8, <1>9, <1>10, <1>12, <1>13, <1>14, OneSet

\* A new advertising set keeps the invariant.
LEMMA CreateInv == ASSUME Inv, NEW s \in Sets, Create(s) PROVE Inv'
<1> DEFINE a == [adv[s] EXCEPT !.used = TRUE]
           t == Renewed(Now, s, a)
<1>1. Sound(Now) /\ Now.adv = adv /\ Now.stack = stack /\ Now.io = io /\ Now.queue = queue /\ Now.setting = setting
  BY DEF Inv, Now
<1>2. adv[s] \in AdvSets
  BY <1>1, SoundTypes
<1>3. /\ a \in AdvSets /\ a.pending = adv[s].pending /\ a.num = adv[s].num
      /\ a.ext = adv[s].ext /\ a.mgr = adv[s].mgr
  BY <1>2 DEF AdvSets
<1>4. t.adv = [adv EXCEPT ![s] = a] /\ t.queue = queue /\ t.stack = stack /\ t.io = io
      /\ t.setting = setting
  BY <1>1 DEF Renewed, Now
<1>5. Becomes(t) /\ ~draining /\ UNCHANGED <<draining, air, hit>>
  BY <1>4 DEF Create, Becomes
<1> HIDE DEF a
<1>6. /\ OnlyAbout(Now, t, s)
      /\ t.adv[s] = a /\ t.queue = Now.queue /\ t.stack = Now.stack /\ t.io = Now.io /\ t.ok = Now.ok
      /\ Pending(t) <=> Pending(Now)
  BY <1>1, <1>3, Touched
<1> HIDE DEF t
<1>7. Honest(Now, t, s)
  BY <1>1, <1>3, <1>6 DEF Honest, Kept, Woken, Agrees, Stays
<1> QED BY <1>5, <1>7, CallInv

\* Steps that leave the manager and GAP alone.
LEMMA StutterInv ==
    ASSUME Inv, UNCHANGED <<lib, draining, hit>>, AirOK', ClosingOK'
    PROVE  Inv'
<1>1. Now' = Now /\ draining' = draining /\ queue' = queue /\ hit' = hit
  BY DEF Now, lib
<1> QED BY <1>1 DEF Inv, LoopOK, KeptOK, WokenOK, AgreesOK

\* The calls of the application keep the invariant.
LEMMA ApplicationInv ==
    ASSUME Inv, NEW s \in Sets, Enable(s) \/ Disable(s) \/ SetParam(s) \/ SetMultiParam(s) \/ SetData(s)
    PROVE  Inv'
<1>1. Sound(Now) /\ Now.adv = adv /\ Now.queue = queue
  BY DEF Inv, Now
<1>0. ASSUME NEW results, Call(s, results) PROVE Room(Now)
  BY <1>0, <1>1 DEF Call, Room
<1>2. CASE UNCHANGED vars
  <2>1. AirOK' /\ ClosingOK'
    BY <1>2 DEF vars, lib, air, Inv, AirOK, ClosingOK
  <2> QED BY <1>2, <2>1, StutterInv DEF vars
<1>3. CASE adv[s].mgr = "DISABLED" /\ Call(s, ble_ext_adv_mgr_enable(Now, s))
  <2>1. PICK t \in ble_ext_adv_mgr_enable(Now, s) : Becomes(t)
    BY <1>3 DEF Call
  <2>2. Honest(Now, t, s)
    BY <1>0, <1>1, <1>3, <2>1, EnableHonest
  <2> QED BY <1>3, <2>1, <2>2, CallInv DEF Call
<1>4. CASE adv[s].mgr = "ENABLED" /\ Call(s, ble_ext_adv_mgr_disable(Now, s, "app"))
  <2>1. PICK t \in ble_ext_adv_mgr_disable(Now, s, "app") : Becomes(t)
    BY <1>4 DEF Call
  <2>2. Honest(Now, t, s)
    BY <1>0, <1>1, <1>4, <2>1, DisableHonest
  <2> QED BY <1>4, <2>1, <2>2, CallInv DEF Call
<1>5. CASE SetParam(s)
  <2>1. PICK t \in ble_ext_adv_mgr_set_adv_param(Now, s) : Becomes(t)
    BY <1>5 DEF SetParam, Call
  <2>2. Honest(Now, t, s)
    BY <1>0, <1>1, <1>5, <2>1, SetParamHonest DEF SetParam
  <2> QED BY <1>5, <2>1, <2>2, CallInv DEF SetParam, Call
<1>6. CASE SetMultiParam(s)
  <2>0. PICK params \in BOOLEAN : Call(s, ble_ext_adv_mgr_set_multi_param(Now, s, params))
    BY <1>6 DEF SetMultiParam
  <2>1. PICK t \in ble_ext_adv_mgr_set_multi_param(Now, s, params) : Becomes(t)
    BY <2>0 DEF Call
  <2>2. Honest(Now, t, s)
    BY <1>0, <1>1, <2>0, <2>1, SetMultiHonest
  <2> QED BY <2>0, <2>1, <2>2, CallInv DEF Call
<1>7. CASE SetData(s)
  <2>1. PICK t \in ble_ext_adv_mgr_start_set_adv_param(Now, s) : Becomes(t)
    BY <1>7 DEF SetData, Call
  <2>2. Honest(Now, t, s)
    BY <1>1, <2>1, StartSetHonest
  <2> QED BY <1>7, <2>1, <2>2, CallInv DEF SetData, Call
<1> QED BY <1>2, <1>3, <1>4, <1>5, <1>6, <1>7 DEF Enable, Disable, Returns

\* The changes of a set in GAP, and the reports of them, keep the invariant.
LEMMA ReportInv ==
    ASSUME Inv, NEW s \in Sets, Report(s) \/ Started(s) \/ Stopped(s) \/ TimesOut(s) \/ ConnectionEnds(s)
    PROVE  Inv'
<1>0. s \in closing => stack[s] \in {"ADVERTISING", "STOP"}
  BY DEF Inv, ClosingOK
<1>1. CASE Report(s)
  BY <1>1, ReadInv
<1>2. CASE Started(s)
  <2>1. /\ Changes(s, "ADVERTISING", "zero") \/ Changes(s, "IDLE", "other")
        /\ closing' = closing /\ s \notin closing
    BY <1>0, <1>2 DEF Started
  <2>2. Result(stack[s], "ADVERTISING", "zero") /\ Result(stack[s], "IDLE", "other")
    BY <1>2 DEF Started, Result, Causes
  <2> QED BY <2>1, <2>2, ChangesInv
<1>3. CASE Stopped(s)
  <2>1. Result(stack[s], "IDLE", "cancelled")
    BY <1>3 DEF Stopped, Result, Causes
  <2> QED BY <1>3, <2>1, ChangesInv DEF Stopped
<1>4. CASE TimesOut(s)
  <2>1. Result(stack[s], "IDLE", "other")
    BY <1>4 DEF TimesOut, Result, Causes
  <2> QED BY <1>4, <2>1, ChangesInv DEF TimesOut
<1>5. CASE ConnectionEnds(s)
  <2>1. Result(stack[s], "IDLE", "zero")
    BY <1>0, <1>5 DEF ConnectionEnds, Result, Causes
  <2> QED BY <1>5, <2>1, ChangesInv DEF ConnectionEnds
<1> QED BY <1>1, <1>2, <1>3, <1>4, <1>5

\* Every step keeps the invariant.
LEMMA NextInv == Inv /\ [Next]_vars => Inv'
<1> SUFFICES ASSUME Inv, [Next]_vars PROVE Inv'
  OBVIOUS
<1>1. CASE ble_ext_adv_mgr_check_next_step
  BY <1>1, TurnInv
<1>2. ASSUME NEW s \in Sets, Report(s) \/ Started(s) \/ Stopped(s) \/ TimesOut(s) \/ ConnectionEnds(s)
      PROVE  Inv'
  BY <1>2, ReportInv
<1>3. ASSUME NEW s \in Sets, ble_ext_adv_mgr_handle_gap_cb(s) PROVE Inv'
  BY <1>3, SettingDoneInv
<1>4. ASSUME NEW s \in Sets, ble_ext_adv_mgr_handle_conn_state(s) PROVE Inv'
  BY <1>4, ConnectedInv
<1>5. ASSUME NEW s \in Sets, Connects(s) PROVE Inv'
  <2>1. AirOK' /\ ClosingOK'
    BY <1>5 DEF Connects, lib, Inv, AirOK, ClosingOK
  <2> QED BY <1>5, <2>1, StutterInv DEF Connects
<1>6. ASSUME NEW s \in Sets, Create(s) PROVE Inv'
  BY <1>6, CreateInv
<1>7. ASSUME NEW s \in Sets, Enable(s) \/ Disable(s) \/ SetParam(s) \/ SetMultiParam(s) \/ SetData(s)
      PROVE  Inv'
  BY <1>7, ApplicationInv
<1>8. CASE UNCHANGED vars
  <2>1. AirOK' /\ ClosingOK'
    BY <1>8 DEF vars, lib, air, Inv, AirOK, ClosingOK
  <2> QED BY <1>8, <2>1, StutterInv DEF vars
<1> QED BY <1>1, <1>2, <1>3, <1>4, <1>5, <1>6, <1>7, <1>8 DEF Next, Answers, Connected

-----------------------------------------------------------------------------
(* What follows.                                                           *)

\* The invariant is inductive: no call, callback or turn of the loop breaks it.
THEOREM Invariance == Spec => []Inv
BY InitInv, NextInv, PTL DEF Spec

\* The types, and with them that pending_start_stop_num is never decremented
\* below zero by ble_ext_adv_mgr_check_next_step.
THEOREM TypeCorrect == Spec => []TypeOK
<1>1. Inv => TypeOK
  BY DEF Inv, AirOK, Sound, Managers, Now, TypeOK
<1> QED BY <1>1, Invariance, PTL

\* A set that GAP is busy with has its action pending.
LEMMA BusyPending ==
    ASSUME Inv, NEW s \in Sets
    PROVE  s \in UnderWay \cup setting <=> adv[s].pending # "IDLE"
<1>1. /\ adv[s] \in AdvSets /\ io[s] \in Seq(Reports)
      /\ adv[s].pending = "UPDATE" <=> s \in setting
      /\ Course(adv[s].ext, io[s], stack[s], adv[s].pending)
  BY SoundTypes DEF Inv, Now, Follows
<1>2. adv[s].pending \in Temporary <=> s \in UnderWay
  BY <1>1, CourseBusy DEF UnderWay
<1>3. adv[s].pending # "IDLE" <=> adv[s].pending \in Temporary \cup {"UPDATE"}
  BY <1>1 DEF AdvSets, Actions, Temporary
<1> QED BY <1>1, <1>2, <1>3

\* The manager gives GAP one command at a time, for all sets together: whatever
\* calls and callbacks come, ble_ext_adv_mgr_find_pending_adv_action sees it.
THEOREM OneActionAtATime == Spec => []OneAtATime
<1>1. Inv => OneAtATime
  <2>1. SUFFICES ASSUME Inv, NEW s \in UnderWay \cup setting, NEW t \in UnderWay \cup setting PROVE s = t
    BY DEF OneAtATime
  <2>2. s \in Sets /\ t \in Sets
    BY <2>1 DEF UnderWay, Inv, Sound, Managers, Now
  <2>3. adv[s].pending # "IDLE" /\ adv[t].pending # "IDLE"
    BY <2>1, <2>2, BusyPending
  <2> QED BY <2>1, <2>2, <2>3 DEF Inv, Sound, Now
<1> QED BY <1>1, Invariance, PTL

\* pending_start_stop_num is the number of starts and stops of the set in the
\* queue, but for the sets in hit: a connection may have deleted their entries, and
\* delete_pending_actions does not count them down.
THEOREM CountIsKept == Spec => []CountKept
<1>1. Inv => CountKept
  BY DEF Inv, KeptOK, Kept, Now, CountKept, Count
<1> QED BY <1>1, Invariance, PTL

\* If GAP accepts updates, entries never wait in the queue for a callback that
\* does not come.
THEOREM QueueIsWoken ==
    ASSUME "UPDATE" \notin Refusable
    PROVE  Spec => []QueueHasWaker
<1>1. Inv => QueueHasWaker
  <2>1. SUFFICES ASSUME Inv, queue # <<>>, ~draining PROVE UnderWay \cup setting # {}
    BY DEF QueueHasWaker
  <2>2. Pending(Now)
    BY <2>1 DEF Inv, WokenOK, Woken, Now
  <2>3. PICK s \in Sets : adv[s].pending # "IDLE"
    BY <2>2 DEF Pending, Now
  <2> QED BY <2>1, <2>3, BusyPending
<1> QED BY <1>1, Invariance, PTL

\* If GAP refuses only starts and the queue has room for what a call sends, the
\* application was told the truth whenever nothing is left to do.
THEOREM RestAgrees ==
    ASSUME Obliging
    PROVE  Spec => []AgreesAtRest
<1>1. Inv => AgreesAtRest
  <2>1. SUFFICES ASSUME Inv, Quiet, NEW s \in Sets \ hit
                 PROVE  adv[s].mgr = "ENABLED" <=> stack[s] = "ADVERTISING"
    BY DEF AgreesAtRest
  <2>2. Agrees(Now, s) /\ Now.adv = adv /\ Now.stack = stack /\ Now.io = io /\ Now.queue = queue
    BY <2>1 DEF Inv, AgreesOK, Now
  <2>3. Count(queue, s) = 0
    BY <2>1, QueuedEmpty DEF Quiet
  <2>4. stack[s] # "START" /\ io[s] = <<>>
    BY <2>1 DEF Quiet, UnderWay, Temporary
  <2> QED BY <2>2, <2>3, <2>4 DEF Agrees
<1> QED BY <1>1, Invariance, PTL
=============================================================================
