---------------------------- MODULE SysTimer_proofs ----------------------------
(***************************************************************************)
(* What is proved of SysTimer, for any number of timers and any periods.   *)
(*                                                                         *)
(* Every call first brings the list up to date (Updated), stops the        *)
(* hardware timer (Halted), changes the list and starts the hardware timer *)
(* again (ArmedAgain).  Exact says that at the second point no item is     *)
(* counted for longer than its timer still has to wait.  Between two calls *)
(* that is so up to what the hardware timer has counted, when it runs; and *)
(* when it does not, up to the period its message stands for and the time  *)
(* the message has been waiting.  That period is no longer than what the   *)
(* first item has left, which is what makes it right for the handler to    *)
(* throw away the first item whatever it is (Counts).                      *)
(***************************************************************************)
EXTENDS SysTimer, ListFacts

Items == [id : Timers, left : Nat]

-----------------------------------------------------------------------------
(* The sums of a delta list.                                               *)

\* The items of a list.
LEMMA ItemsOfSeq ==
  ASSUME NEW q \in Seq(Items)
  PROVE  /\ Len(q) \in Nat /\ DOMAIN q = 1..Len(q)
         /\ \A k \in 1..Len(q) : q[k] \in Items /\ q[k].id \in Timers /\ q[k].left \in Nat
<1>1. Len(q) \in Nat /\ DOMAIN q = 1..Len(q)
  BY LenProperties
<1>2. \A k \in 1..Len(q) : q[k] \in Items
  BY ElementOfSeq
<1>3. \A x \in Items : x.id \in Timers /\ x.left \in Nat
  BY DEF Items
<1> QED BY <1>1, <1>2, <1>3

\* The sums one by one: each is made from the one before.
Sums(q, sum) == sum = [k \in 0..Len(q) |-> IF k = 0 THEN 0 ELSE sum[k - 1] + q[k].left]

\* The sums can be made, and Until is one of them.
LEMMA SumsExist ==
  ASSUME NEW q \in Seq(Items)
  PROVE  \E sum : Sums(q, sum) /\ \A i : Until(q, i) = sum[i]
<1> DEFINE N == Len(q)
           Part(f, n) == IF n = 0 THEN 0 ELSE f[n - 1] + q[n].left
           Made(m) == \E f : f = [n \in 0..m |-> Part(f, n)]
           T == {m \in 0..N : Made(m)}
<1>1. N \in Nat
  BY LenProperties
<1>2. Made(0)
  <2> DEFINE g == [n \in 0..0 |-> 0]
  <2>1. g = [n \in 0..0 |-> Part(g, n)]
    OBVIOUS
  <2> QED BY <2>1
<1>3. ASSUME NEW m \in 1..N, Made(m - 1) PROVE Made(m)
  <2>1. PICK f : f = [n \in 0..(m - 1) |-> Part(f, n)]
    BY <1>3
  <2> DEFINE g == [n \in 0..m |-> IF n = m THEN Part(f, m) ELSE f[n]]
  <2>2. \A n \in 0..(m - 1) : f[n] = Part(f, n)
    BY <2>1
  <2>3. \A n \in 0..m : g[n] = Part(g, n)
    <3>1. TAKE n \in 0..m
    <3>2. n = 0 \/ g[n - 1] = f[n - 1]
      BY <1>3
    <3>3. Part(g, n) = Part(f, n)
      BY <3>2
    <3>4. n # m => n \in 0..(m - 1)
      BY <1>3
    <3> QED BY <2>2, <3>3, <3>4
  <2>4. g = [n \in 0..m |-> Part(g, n)]
    BY <2>3
  <2> QED BY <2>4
<1> HIDE DEF Made
<1>4. Made(N)
  <2>1. 0 \in T
    BY <1>1, <1>2
  <2>2. \A k \in 1..N : k - 1 \in T => k \in T
    <3> TAKE k \in 1..N
    <3>1. k - 1 \in T => Made(k - 1)
      OBVIOUS
    <3> QED BY <1>1, <1>3, <3>1
  <2> HIDE DEF T
  <2> HIDE DEF N
  <2>3. \A k \in 0..N : k \in T
    BY <1>1, <2>1, <2>2, UpTo
  <2> QED BY <1>1, <2>3 DEF T
<1> DEFINE s == CHOOSE f : f = [n \in 0..N |-> Part(f, n)]
<1>5. s = [n \in 0..N |-> Part(s, n)]
  BY <1>4 DEF Made
<1>6. \A i : Until(q, i) = s[i]
  BY DEF Until
<1> HIDE DEF s
<1> QED BY <1>5, <1>6 DEF Sums

\* Until adds up what the items have left.
LEMMA UntilFacts ==
  ASSUME NEW q \in Seq(Items)
  PROVE  /\ Until(q, 0) = 0
         /\ \A k \in 1..Len(q) : Until(q, k) = Until(q, k - 1) + q[k].left
         /\ \A k \in 0..Len(q) : Until(q, k) \in Nat
<1>1. PICK sum : Sums(q, sum) /\ \A i : Until(q, i) = sum[i]
  BY SumsExist
<1>2. Len(q) \in Nat /\ \A k \in 1..Len(q) : q[k].left \in Nat
  BY ItemsOfSeq
<1>3. \A k \in 0..Len(q) : sum[k] = IF k = 0 THEN 0 ELSE sum[k - 1] + q[k].left
  BY <1>1 DEF Sums
<1>4. sum[0] = 0 /\ \A k \in 1..Len(q) : sum[k] = sum[k - 1] + q[k].left
  BY <1>2, <1>3
<1>5. \A k \in 0..Len(q) : sum[k] \in Nat
  <2> DEFINE T == {k \in 0..Len(q) : sum[k] \in Nat}
  <2>1. 0 \in T
    BY <1>2, <1>4
  <2>2. \A k \in 1..Len(q) : k - 1 \in T => k \in T
    <3> TAKE k \in 1..Len(q)
    <3>1. sum[k - 1] \in Nat => sum[k] \in Nat
      BY <1>2, <1>4
    <3> QED BY <1>2, <3>1
  <2> HIDE DEF T
  <2>3. \A k \in 0..Len(q) : k \in T
    BY <1>2, <2>1, <2>2, UpTo
  <2> QED BY <2>3 DEF T
<1> QED BY <1>1, <1>4, <1>5

\* Two lists that begin with the same times have the same sums there.
LEMMA SameSums ==
  ASSUME NEW q \in Seq(Items), NEW r \in Seq(Items), NEW n \in Nat, n <= Len(q), n <= Len(r),
         \A k \in 1..n : q[k].left = r[k].left
  PROVE  \A k \in 0..n : Until(q, k) = Until(r, k)
<1> DEFINE T == {k \in 0..n : Until(q, k) = Until(r, k)}
<1>1. Len(q) \in Nat /\ Len(r) \in Nat
  BY LenProperties
<1>2. Until(q, 0) = 0 /\ \A k \in 1..n : Until(q, k) = Until(q, k - 1) + q[k].left
  BY <1>1, UntilFacts
<1>3. Until(r, 0) = 0 /\ \A k \in 1..n : Until(r, k) = Until(r, k - 1) + r[k].left
  BY <1>1, UntilFacts
<1>4. 0 \in T
  BY <1>2, <1>3
<1>5. \A k \in 1..n : k - 1 \in T => k \in T
  BY <1>2, <1>3
<1> HIDE DEF T
<1>6. \A k \in 0..n : k \in T
  BY <1>4, <1>5, UpTo
<1> QED BY <1>6 DEF T

\* The list brought up to date by e: every sum is e less, or nothing.
LEMMA SpentSums ==
  ASSUME NEW q \in Seq(Items), NEW r \in Seq(Items), Len(r) = Len(q), NEW e \in Nat,
         \A i \in 1..Len(q) :
           LET over == e - Until(q, i - 1)
           IN  r[i].left = IF over <= 0 THEN q[i].left
                           ELSE IF over < q[i].left THEN q[i].left - over
                           ELSE 0
  PROVE  \A k \in 0..Len(q) : Until(r, k) = IF Until(q, k) > e THEN Until(q, k) - e ELSE 0
<1> DEFINE N == Len(q)
           T == {k \in 0..N : Until(r, k) = IF Until(q, k) > e THEN Until(q, k) - e ELSE 0}
<1>1. N \in Nat /\ \A k \in 1..N : q[k].left \in Nat
  BY ItemsOfSeq
<1>2. /\ Until(q, 0) = 0 /\ \A k \in 1..N : Until(q, k) = Until(q, k - 1) + q[k].left
      /\ \A k \in 0..N : Until(q, k) \in Nat
  BY UntilFacts
<1>3. /\ Until(r, 0) = 0 /\ \A k \in 1..N : Until(r, k) = Until(r, k - 1) + r[k].left
      /\ \A k \in 0..N : Until(r, k) \in Nat
  BY UntilFacts
<1>4. 0 \in T
  BY <1>1, <1>2, <1>3
<1>5. ASSUME NEW k \in 1..N, k - 1 \in T PROVE k \in T
  <2> DEFINE u == Until(q, k - 1)
             v == Until(r, k - 1)
             x == q[k].left
             y == r[k].left
  <2>1. k - 1 \in 0..N /\ k \in 0..N
    BY <1>1
  <2>2. u \in Nat /\ v \in Nat /\ x \in Nat /\ v = IF u > e THEN u - e ELSE 0
    BY <1>1, <1>2, <1>3, <1>5, <2>1
  <2>3. Until(q, k) = u + x /\ Until(r, k) = v + y
    BY <1>2, <1>3
  <2>4. y = IF e - u <= 0 THEN x ELSE IF e - u < x THEN x - (e - u) ELSE 0
    OBVIOUS
  <2> HIDE DEF u, v, x, y
  <2>5. v + y = IF u + x > e THEN (u + x) - e ELSE 0
    BY <2>2, <2>4
  <2> QED BY <2>1, <2>3, <2>5
<1> HIDE DEF T
<1>6. \A k \in 0..N : k \in T
  BY <1>1, <1>4, <1>5, UpTo
<1> QED BY <1>6 DEF T

\* An item is taken out: the item that follows waits for its time too.
LEMMA RemovedSums ==
  ASSUME NEW q \in Seq(Items), NEW i \in 1..Len(q)
  PROVE  LET n == Len(q)
             m == IF i = n THEN q ELSE [q EXCEPT ![i + 1].left = @ + q[i].left]
             r == RemoveAt(m, i)
         IN  /\ r \in Seq(Items) /\ Len(r) = n - 1
             /\ \A k \in 1..(n - 1) : r[k].id = IF k < i THEN q[k].id ELSE q[k + 1].id
             /\ \A k \in 1..(n - 1) :
                  Until(r, k) = IF k < i THEN Until(q, k) ELSE Until(q, k + 1)
<1> DEFINE n == Len(q)
           m == IF i = n THEN q ELSE [q EXCEPT ![i + 1].left = @ + q[i].left]
           r == RemoveAt(m, i)
<1>1. /\ n \in Nat /\ DOMAIN q = 1..n
      /\ \A k \in 1..n : q[k] \in Items /\ q[k].id \in Timers /\ q[k].left \in Nat
  BY ItemsOfSeq
<1>0. n \in Nat /\ i \in Nat /\ 1 <= i /\ i <= n
  BY <1>1
<1>2. /\ m \in Seq(Items) /\ Len(m) = n
      /\ \A k \in 1..n : /\ m[k].id = q[k].id
                         /\ m[k].left = IF k = i + 1 THEN q[k].left + q[i].left ELSE q[k].left
  <2>1. CASE i = n
    <3>1. \A k \in 1..n : k # i + 1
      BY <1>1, <2>1
    <3> QED BY <2>1, <3>1
  <2>2. CASE i # n
    <3> DEFINE x == [q[i + 1] EXCEPT !.left = @ + q[i].left]
    <3>1. i + 1 \in 1..n
      BY <1>0, <2>2
    <3>2. x \in Items /\ x.id = q[i + 1].id /\ x.left = q[i + 1].left + q[i].left
      BY <1>1, <3>1 DEF Items
    <3>3. m = [q EXCEPT ![i + 1] = x]
      BY <2>2
    <3> HIDE DEF x, m
    <3>4. m \in Seq(Items) /\ Len(m) = n
      BY <3>1, <3>2, <3>3, ExceptSeq
    <3>5. \A k \in 1..n : m[k] = IF k = i + 1 THEN x ELSE q[k]
      BY <1>1, <3>3
    <3> QED BY <3>2, <3>4, <3>5
  <2> QED BY <2>1, <2>2
<1> HIDE DEF m
<1>3. /\ r \in Seq(Items) /\ Len(r) = n - 1
      /\ \A k \in 1..(n - 1) : r[k] = IF k < i THEN m[k] ELSE m[k + 1]
  <2>1. m \in Seq(Items) /\ Len(m) = n
    BY <1>2
  <2>2. i \in 1..Len(m)
    BY <2>1
  <2>3. r \in Seq(Items) /\ Len(r) = Len(m) - 1
    BY <2>1, <2>2, RemoveAtFacts
  <2>4. \A k \in 1..(Len(m) - 1) : r[k] = IF k < i THEN m[k] ELSE m[k + 1]
    BY <2>1, <2>2, RemoveAtFacts
  <2> HIDE DEF r
  <2> QED BY <2>1, <2>3, <2>4
<1> HIDE DEF r
<1> DEFINE T == {k \in 0..(n - 1) : Until(r, k) = IF k < i THEN Until(q, k) ELSE Until(q, k + 1)}
<1>4. /\ Until(q, 0) = 0 /\ \A k \in 1..n : Until(q, k) = Until(q, k - 1) + q[k].left
      /\ \A k \in 0..n : Until(q, k) \in Nat
  BY UntilFacts
<1>5. /\ Until(r, 0) = 0 /\ \A k \in 1..(n - 1) : Until(r, k) = Until(r, k - 1) + r[k].left
  BY <1>3, UntilFacts
<1>6. 0 \in T
  BY <1>1, <1>4, <1>5
<1>7. ASSUME NEW k \in 1..(n - 1), k - 1 \in T PROVE k \in T
  <2>1. k \in 1..n /\ k + 1 \in 1..n /\ k - 1 \in 0..n /\ (k + 1) - 1 = k
    BY <1>1
  <2>2. Until(r, k) = Until(r, k - 1) + r[k].left
    BY <1>5
  <2>3. CASE k < i
    <3>1. Until(r, k - 1) = Until(q, k - 1)
      BY <1>7, <2>1, <2>3
    <3>2. r[k].left = q[k].left
      <4>1. r[k] = m[k] /\ k # i + 1
        BY <1>0, <1>3, <2>1, <2>3
      <4> QED BY <1>2, <2>1, <4>1
    <3>3. Until(r, k) = Until(q, k)
      BY <1>4, <2>1, <2>2, <3>1, <3>2
    <3> QED BY <1>1, <2>3, <3>3
  <2>4. CASE k = i
    <3>1. Until(r, k - 1) = Until(q, k - 1)
      BY <1>7, <2>1, <2>4
    <3>2. r[k].left = q[k + 1].left + q[k].left
      <4>1. r[k] = m[k + 1] /\ k + 1 = i + 1
        BY <1>3, <2>1, <2>4
      <4> QED BY <1>2, <2>1, <2>4, <4>1
    <3>3. Until(q, k + 1) = Until(q, k) + q[k + 1].left /\ Until(q, k) = Until(q, k - 1) + q[k].left
      BY <1>4, <2>1
    <3>4. Until(q, k - 1) \in Nat /\ q[k].left \in Nat /\ q[k + 1].left \in Nat
      BY <1>1, <1>4, <2>1
    <3>5. Until(r, k) = Until(q, k + 1)
      BY <2>2, <3>1, <3>2, <3>3, <3>4
    <3> QED BY <1>1, <2>4, <3>5
  <2>5. CASE k > i
    <3>1. Until(r, k - 1) = Until(q, k)
      BY <1>7, <2>1, <2>5
    <3>2. r[k].left = q[k + 1].left
      <4>1. r[k] = m[k + 1] /\ k + 1 # i + 1
        BY <1>3, <2>1, <2>5
      <4> QED BY <1>2, <2>1, <4>1
    <3>3. Until(q, k + 1) = Until(q, k) + q[k + 1].left
      BY <1>4, <2>1
    <3>4. Until(r, k) = Until(q, k + 1)
      BY <2>2, <3>1, <3>2, <3>3
    <3> QED BY <1>1, <2>5, <3>4
  <2> QED BY <1>1, <2>3, <2>4, <2>5
<1> HIDE DEF T
<1>8. n - 1 \in Nat
  BY <1>1
<1>9. \A k \in 0..(n - 1) : k \in T
  BY <1>6, <1>7, <1>8, UpTo
<1>10. \A k \in 1..(n - 1) : Until(r, k) = IF k < i THEN Until(q, k) ELSE Until(q, k + 1)
  BY <1>8, <1>9 DEF T
<1>11. \A k \in 1..(n - 1) : r[k].id = IF k < i THEN q[k].id ELSE q[k + 1].id
  <2> TAKE k \in 1..(n - 1)
  <2>1. k \in 1..n /\ k + 1 \in 1..n
    BY <1>0
  <2> QED BY <1>2, <1>3, <2>1
<1> QED BY <1>3, <1>10, <1>11 DEF r, m

\* The first item is thrown away: the others are nearer by its time.
LEMMA TailSums ==
  ASSUME NEW q \in Seq(Items), q # <<>>
  PROVE  /\ Tail(q) \in Seq(Items) /\ Len(Tail(q)) = Len(q) - 1
         /\ \A k \in 1..(Len(q) - 1) : Tail(q)[k] = q[k + 1]
         /\ \A k \in 0..(Len(q) - 1) : Until(Tail(q), k) = Until(q, k + 1) - q[1].left
<1> DEFINE n == Len(q)
           r == Tail(q)
           T == {k \in 0..(n - 1) : Until(r, k) = Until(q, k + 1) - q[1].left}
<1>1. /\ n \in Nat /\ \A k \in 1..n : q[k].left \in Nat
  BY ItemsOfSeq
<1>2. n # 0 /\ n - 1 \in Nat /\ 1 \in 1..n
  BY <1>1, EmptySeq
<1>3. r \in Seq(Items) /\ Len(r) = n - 1 /\ \A k \in 1..(n - 1) : r[k] = q[k + 1]
  BY HeadTailProperties
<1> HIDE DEF r
<1>4. /\ Until(q, 0) = 0 /\ \A k \in 1..n : Until(q, k) = Until(q, k - 1) + q[k].left
      /\ \A k \in 0..n : Until(q, k) \in Nat
  BY UntilFacts
<1>5. Until(r, 0) = 0 /\ \A k \in 1..(n - 1) : Until(r, k) = Until(r, k - 1) + r[k].left
  BY <1>3, UntilFacts
<1>6. 0 \in T
  BY <1>1, <1>2, <1>4, <1>5
<1>7. ASSUME NEW k \in 1..(n - 1), k - 1 \in T PROVE k \in T
  <2>1. k + 1 \in 1..n /\ k \in 0..n /\ (k + 1) - 1 = k /\ (k - 1) + 1 = k /\ k \in 0..(n - 1)
    BY <1>1
  <2>2. Until(r, k) = Until(r, k - 1) + q[k + 1].left
    BY <1>3, <1>5
  <2>3. Until(r, k - 1) = Until(q, k) - q[1].left
    BY <1>7, <2>1
  <2>4. Until(q, k + 1) = Until(q, k) + q[k + 1].left
    BY <1>4, <2>1
  <2>5. Until(q, k) \in Nat /\ q[1].left \in Nat /\ q[k + 1].left \in Nat
    BY <1>1, <1>2, <1>4, <2>1
  <2>6. Until(r, k) = Until(q, k + 1) - q[1].left
    BY <2>2, <2>3, <2>4, <2>5
  <2> QED BY <2>1, <2>6
<1> HIDE DEF T
<1>8. \A k \in 0..(n - 1) : k \in T
  BY <1>2, <1>6, <1>7, UpTo
<1> QED BY <1>3, <1>8 DEF T, r

\* r is the list q with the timer t at the place i, p from now.
LinkedAt(q, r, t, p, i) ==
  /\ \A k \in 1..(Len(q) + 1) :
       r[k].id = IF k < i THEN q[k].id ELSE IF k = i THEN t ELSE q[k - 1].id
  /\ \A k \in 1..(Len(q) + 1) :
       Until(r, k) = IF k < i THEN Until(q, k) ELSE IF k = i THEN p ELSE Until(q, k - 1)

\* A timer is put in front of the first item that expires later: it waits for
\* its period, the others for what they waited before.
LEMMA LinkedSums ==
  ASSUME NEW q \in Seq(Items), NEW t \in Timers, NEW p \in Nat
  PROVE  LET r == Linked(q, t, p)
         IN  /\ r \in Seq(Items) /\ Len(r) = Len(q) + 1
             /\ \E i \in 1..(Len(q) + 1) : LinkedAt(q, r, t, p, i)
<1> DEFINE n == Len(q)
           Place(k) == /\ k = n + 1 \/ Until(q, k) > p
                       /\ \A j \in 1..(k - 1) : Until(q, j) <= p
           i == CHOOSE k \in 1..(n + 1) : Place(k)
           own == p - Until(q, i - 1)
           m == IF i = n + 1 THEN q ELSE [q EXCEPT ![i].left = @ - own]
           r == InsertAt(m, i, [id |-> t, left |-> own])
<1>1. /\ n \in Nat /\ DOMAIN q = 1..n
      /\ \A k \in 1..n : q[k] \in Items /\ q[k].id \in Timers /\ q[k].left \in Nat
  BY ItemsOfSeq
<1>2. /\ Until(q, 0) = 0 /\ \A k \in 1..n : Until(q, k) = Until(q, k - 1) + q[k].left
      /\ \A k \in 0..n : Until(q, k) \in Nat
  BY UntilFacts
<1>3. i \in 1..(n + 1) /\ Place(i)
  <2> DEFINE T == {k \in 1..(n + 1) : k = n + 1 \/ Until(q, k) > p}
  <2>1. T \subseteq Nat /\ n + 1 \in T
    BY <1>1
  <2> HIDE DEF T
  <2>2. PICK k \in T : \A j \in T : k <= j
    BY <2>1, LeastNat
  <2>3. k \in 1..(n + 1) /\ (k = n + 1 \/ Until(q, k) > p)
    BY <2>2 DEF T
  <2>4. \A j \in 1..(k - 1) : Until(q, j) <= p
    <3> TAKE j \in 1..(k - 1)
    <3>1. j \in 1..(n + 1) /\ j # n + 1 /\ j \in 0..n /\ ~(k <= j)
      BY <1>1, <2>3
    <3>2. j \notin T
      BY <2>2, <3>1
    <3>3. ~(Until(q, j) > p) /\ Until(q, j) \in Nat
      BY <1>2, <3>1, <3>2 DEF T
    <3> QED BY <3>3
  <2>5. \E x \in 1..(n + 1) : Place(x)
    BY <2>3, <2>4
  <2> QED BY <2>5
<1>4. Linked(q, t, p) = r
  BY DEF Linked
<1>5. i \in Nat /\ 1 <= i /\ i <= n + 1 /\ i - 1 \in 0..n
  BY <1>1, <1>3
<1>6. own \in Nat /\ own + Until(q, i - 1) = p
  <2>1. Until(q, i - 1) \in Nat
    BY <1>2, <1>5
  <2>2. Until(q, i - 1) <= p
    <3> HIDE DEF i
    <3>1. CASE i = 1
      <4>1. i - 1 = 0
        BY <3>1
      <4>2. Until(q, i - 1) = 0
        BY <1>2, <4>1
      <4> QED BY <4>2
    <3>2. CASE i # 1
      <4>1. i - 1 \in 1..(i - 1)
        BY <1>5, <3>2
      <4> QED BY <1>3, <4>1
    <3> QED BY <3>1, <3>2
  <2> QED BY <2>1, <2>2
<1>7. i # n + 1 => Until(q, i) > p
  BY <1>3
<1> HIDE DEF i, own
<1>8. /\ m \in Seq(Items) /\ Len(m) = n
      /\ \A k \in 1..n : /\ m[k].id = q[k].id
                         /\ m[k].left = IF k = i THEN q[k].left - own ELSE q[k].left
  <2>1. CASE i = n + 1
    <3>1. \A k \in 1..n : k # i
      BY <1>1, <2>1
    <3> QED BY <2>1, <3>1
  <2>2. CASE i # n + 1
    <3> DEFINE x == [q[i] EXCEPT !.left = @ - own]
    <3>1. i \in 1..n
      BY <1>1, <1>5, <2>2
    <3>2. q[i].left - own \in Nat
      <4>1. Until(q, i) = Until(q, i - 1) + q[i].left /\ Until(q, i - 1) \in Nat
        BY <1>2, <1>5, <3>1
      <4>2. q[i].left \in Nat
        BY <1>1, <3>1
      <4> QED BY <1>6, <1>7, <2>2, <4>1, <4>2
    <3>3. x \in Items /\ x.id = q[i].id /\ x.left = q[i].left - own
      BY <1>1, <3>1, <3>2 DEF Items
    <3>4. m = [q EXCEPT ![i] = x]
      BY <2>2
    <3> HIDE DEF x, m
    <3>5. m \in Seq(Items) /\ Len(m) = n
      BY <3>1, <3>3, <3>4, ExceptSeq
    <3>6. \A k \in 1..n : m[k] = IF k = i THEN x ELSE q[k]
      BY <1>1, <3>4
    <3> QED BY <3>3, <3>5, <3>6
  <2> QED BY <2>1, <2>2
<1> HIDE DEF m
<1> DEFINE e == [id |-> t, left |-> own]
<1>9. e \in Items /\ e.id = t /\ e.left = own
  BY <1>6 DEF Items
<1> HIDE DEF e
<1>10. /\ r \in Seq(Items) /\ Len(r) = n + 1
       /\ \A k \in 1..(n + 1) :
            (k < i => r[k] = m[k]) /\ (k = i => r[k] = e) /\ (k > i => r[k] = m[k - 1])
  <2>1. r = InsertAt(m, i, e)
    BY DEF e
  <2> DEFINE z == InsertAt(m, i, e)
  <2>2. i \in 1..(Len(m) + 1)
    BY <1>1, <1>5, <1>8
  <2>3. m \in Seq(Items) /\ Len(m) = n /\ e \in Items
    BY <1>8, <1>9
  <2> HIDE DEF r, n
  <2>4. m \in Seq(Items) /\ e \in Items
    BY <2>3
  <2>5. z \in Seq(Items) /\ Len(z) = Len(m) + 1
    BY <2>2, <2>4, InsertAtFacts
  <2>6. \A k \in 1..(Len(m) + 1) : k < i => z[k] = m[k]
    <3> HIDE DEF z
    <3> DEFINE y == InsertAt(m, i, e)
    <3>1. \A k \in 1..(Len(m) + 1) : k < i => y[k] = m[k]
      BY <2>2, <2>4, InsertAtFacts
    <3> QED BY <3>1 DEF z
  <2>7. \A k \in 1..(Len(m) + 1) : k = i => z[k] = e
    BY <2>2, <2>4, InsertAtFacts
  <2>8. \A k \in 1..(Len(m) + 1) : k > i => z[k] = m[k - 1]
    BY <2>2, <2>4, InsertAtFacts
  <2> HIDE DEF z
  <2> QED BY <2>1, <2>3, <2>5, <2>6, <2>7, <2>8 DEF z
<1> HIDE DEF r
<1>11. \A k \in 1..(n + 1) :
         r[k].id = IF k < i THEN q[k].id ELSE IF k = i THEN t ELSE q[k - 1].id
  <2> TAKE k \in 1..(n + 1)
  <2>1. (k < i => k \in 1..n) /\ (k > i => k - 1 \in 1..n)
    BY <1>1, <1>5
  <2>2. k < i => r[k].id = m[k].id
    BY <1>10
  <2>3. k = i => r[k].id = t
    BY <1>9, <1>10
  <2>4. k > i => r[k].id = m[k - 1].id
    BY <1>10
  <2> QED BY <1>5, <1>8, <2>1, <2>2, <2>3, <2>4
<1> DEFINE T == {k \in 0..(n + 1) :
                   Until(r, k) = IF k < i THEN Until(q, k) ELSE
                                 IF k = i THEN p ELSE Until(q, k - 1)}
<1>12. Until(r, 0) = 0 /\ \A k \in 1..(n + 1) : Until(r, k) = Until(r, k - 1) + r[k].left
  BY <1>10, UntilFacts
<1>13. 0 \in T
  BY <1>1, <1>2, <1>5, <1>12
<1>14. ASSUME NEW k \in 1..(n + 1), k - 1 \in T PROVE k \in T
  <2>1. k \in Nat /\ k >= 1 /\ k - 1 \in 0..n /\ k \in 0..(n + 1)
    BY <1>1
  <2>2. Until(r, k) = Until(r, k - 1) + r[k].left
    BY <1>12
  <2>3. CASE k < i
    <3>1. Until(r, k - 1) = Until(q, k - 1)
      BY <1>5, <1>14, <2>1, <2>3
    <3>2. k \in 1..n
      BY <1>1, <1>5, <2>1, <2>3
    <3>3. r[k] = m[k] /\ k # i
      BY <1>5, <1>10, <2>1, <2>3
    <3>4. r[k].left = q[k].left
      BY <1>8, <3>2, <3>3
    <3>5. Until(r, k) = Until(q, k)
      BY <1>2, <2>2, <3>1, <3>2, <3>4
    <3> QED BY <2>1, <2>3, <3>5
  <2>4. CASE k = i
    <3>1. Until(r, k - 1) = Until(q, i - 1)
      BY <1>5, <1>14, <2>1, <2>4
    <3>2. r[k].left = own
      BY <1>5, <1>9, <1>10, <2>4
    <3>3. Until(q, i - 1) \in Nat
      BY <1>2, <1>5
    <3>4. Until(r, k) = p
      BY <1>6, <2>2, <3>1, <3>2, <3>3
    <3> QED BY <1>5, <2>1, <2>4, <3>4
  <2>5. CASE k = i + 1
    <3>1. Until(r, k - 1) = p
      BY <1>5, <1>14, <2>1, <2>5
    <3>2. i \in 1..n
      BY <1>1, <1>5, <2>1, <2>5
    <3>3. r[k] = m[i]
      BY <1>5, <1>10, <2>1, <2>5
    <3>4. r[k].left = q[i].left - own
      BY <1>8, <3>2, <3>3
    <3>5. Until(q, i) = Until(q, i - 1) + q[i].left /\ Until(q, i - 1) \in Nat
      BY <1>2, <1>5, <3>2
    <3>6. q[i].left \in Nat
      BY <1>1, <3>2
    <3>7. Until(r, k) = Until(q, i)
      BY <1>6, <2>2, <3>1, <3>4, <3>5, <3>6
    <3> QED BY <1>5, <2>1, <2>5, <3>7
  <2>6. CASE k > i + 1
    <3>1. Until(r, k - 1) = Until(q, (k - 1) - 1)
      BY <1>5, <1>14, <2>1, <2>6
    <3>2. k - 1 \in 1..n /\ k - 1 # i /\ ~(k < i) /\ k # i /\ k > i
      BY <1>1, <1>5, <2>1, <2>6
    <3>3. r[k] = m[k - 1]
      BY <1>10, <3>2
    <3>4. r[k].left = q[k - 1].left
      BY <1>8, <3>2, <3>3
    <3>5. Until(q, k - 1) = Until(q, (k - 1) - 1) + q[k - 1].left
      BY <1>2, <3>2
    <3>6. Until(r, k) = Until(q, k - 1)
      BY <2>2, <3>1, <3>4, <3>5
    <3> QED BY <2>1, <3>2, <3>6
  <2> QED BY <1>5, <2>1, <2>3, <2>4, <2>5, <2>6
<1> HIDE DEF T
<1>15. n + 1 \in Nat
  BY <1>1
<1>16. \A k \in 0..(n + 1) : k \in T
  BY <1>13, <1>14, <1>15, UpTo
<1>17. \A k \in 1..(n + 1) :
         Until(r, k) = IF k < i THEN Until(q, k) ELSE IF k = i THEN p ELSE Until(q, k - 1)
  BY <1>15, <1>16 DEF T
<1>18. i \in 1..(n + 1)
  BY <1>5, <1>15
<1>19. LinkedAt(q, r, t, p, i)
  BY <1>11, <1>17 DEF LinkedAt
<1> HIDE DEF n
<1> QED BY <1>4, <1>10, <1>18, <1>19 DEF n

-----------------------------------------------------------------------------
(* What holds between two calls, and in the middle of one.                 *)

State ==
  [list : Seq(Items), interval : Nat, lag : 0..MaxLag, on : BOOLEAN, gone : Nat,
   period : Nat, posted : 0..MaxPosted, rem : [Timers -> Nat], early : BOOLEAN]

Once(s) == \A i, j \in DOMAIN s.list : s.list[i].id = s.list[j].id => i = j

\* The hardware timer counts for the first item.
Runs(s) == s.on => s.list # <<>> /\ s.period = s.list[1].left /\ s.interval = s.period

Typed(s) == s \in State /\ Once(s) /\ s.gone <= s.period /\ Runs(s)

\* No item is counted for longer than its timer has to wait.
Exact(s) == \A i \in 1..Len(s.list) : Until(s.list, i) <= s.rem[s.list[i].id]

\* The same, when the hardware timer has counted or its message waits.
Counts(s) ==
  \A i \in 1..Len(s.list) :
    LET u == Until(s.list, i)
        r == s.rem[s.list[i].id]
    IN  IF s.on THEN u <= r + s.gone
        ELSE u <= r + s.lag + s.interval /\ u <= r + s.lag + s.list[1].left

\* The list is not asleep.
Awake(s) == s.list # <<>> => s.on \/ s.posted > 0

\* The types of the fields of a state.
LEMMA StateFields ==
  ASSUME NEW s \in State
  PROVE  /\ s.list \in Seq(Items) /\ s.interval \in Nat /\ s.lag \in 0..MaxLag /\ s.lag \in Nat
         /\ s.on \in BOOLEAN /\ s.gone \in Nat /\ s.period \in Nat
         /\ s.posted \in 0..MaxPosted /\ s.posted \in Nat
         /\ s.rem \in [Timers -> Nat] /\ s.early \in BOOLEAN
BY SysTimerAssumption DEF State

\* What the items of a list have left, and what their timers have.
LEMMA ItemFacts ==
  ASSUME NEW s \in State, NEW i \in 1..Len(s.list)
  PROVE  /\ s.list[i].id \in Timers /\ s.list[i].left \in Nat
         /\ s.rem[s.list[i].id] \in Nat /\ Until(s.list, i) \in Nat
<1>1. s.list \in Seq(Items) /\ s.rem \in [Timers -> Nat]
  BY StateFields
<1>2. Len(s.list) \in Nat /\ s.list[i].id \in Timers /\ s.list[i].left \in Nat
  BY <1>1, ItemsOfSeq
<1>3. Until(s.list, i) \in Nat
  BY <1>1, <1>2, UntilFacts
<1> QED BY <1>1, <1>2, <1>3

\* The list is brought up to date.
LEMMA UpdatedFacts ==
  ASSUME NEW s, Typed(s)
  PROVE  LET u == Updated(s)
         IN  /\ u \in State /\ Len(u.list) = Len(s.list)
             /\ \A i \in 1..Len(s.list) : u.list[i].id = s.list[i].id
             /\ u.on = s.on /\ u.gone = s.gone /\ u.period = s.period
             /\ u.posted = s.posted /\ u.rem = s.rem
             /\ Counts(s) => Exact(u)
<1> DEFINE e == IF ReadsZero(s) THEN s.interval + s.lag ELSE s.gone
           over(i) == e - Until(s.list, i - 1)
           left(i) == IF over(i) <= 0 THEN s.list[i].left
                      ELSE IF over(i) < s.list[i].left THEN s.list[i].left - over(i)
                      ELSE 0
           r == [i \in DOMAIN s.list |-> [s.list[i] EXCEPT !.left = left(i)]]
           v == [s EXCEPT !.list = r]
           u == IF ReadsZero(s) THEN v ELSE [v EXCEPT !.lag = 0, !.interval = 0]
           N == Len(s.list)
<1>1. s \in State
  BY DEF Typed
<1>2. /\ s.list \in Seq(Items) /\ s.interval \in Nat /\ s.lag \in Nat /\ s.gone \in Nat
  BY <1>1, StateFields
<1>3. /\ N \in Nat /\ DOMAIN s.list = 1..N
      /\ \A i \in 1..N : s.list[i] \in Items /\ s.list[i].left \in Nat
  BY <1>2, ItemsOfSeq
<1>4. Updated(s) = u
  BY DEF Updated
<1>5. e \in Nat
  BY <1>2
<1>6. \A i \in 1..N : Until(s.list, i - 1) \in Nat
  <2>1. \A k \in 0..N : Until(s.list, k) \in Nat
    BY <1>2, UntilFacts
  <2>2. \A i \in 1..N : i - 1 \in 0..N
    BY <1>3
  <2> QED BY <2>1, <2>2
<1> HIDE DEF e
<1>7. /\ r \in Seq(Items) /\ Len(r) = N
      /\ \A i \in 1..N : r[i].id = s.list[i].id /\ r[i].left = left(i)
  <2>1. \A i \in 1..N : left(i) \in Nat
    <3> TAKE i \in 1..N
    <3> DEFINE x == s.list[i].left
               o == Until(s.list, i - 1)
    <3>1. x \in Nat /\ o \in Nat
      BY <1>3, <1>6
    <3> HIDE DEF x, o
    <3>2. (IF e - o <= 0 THEN x ELSE IF e - o < x THEN x - (e - o) ELSE 0) \in Nat
      BY <1>5, <3>1
    <3> QED BY <3>2 DEF x, o
  <2> HIDE DEF left
  <2>2. \A i \in 1..N : /\ [s.list[i] EXCEPT !.left = left(i)] \in Items
                        /\ [s.list[i] EXCEPT !.left = left(i)].id = s.list[i].id
                        /\ [s.list[i] EXCEPT !.left = left(i)].left = left(i)
    BY <1>3, <2>1 DEF Items
  <2>3. DOMAIN r = 1..N /\ \A i \in 1..N : r[i] = [s.list[i] EXCEPT !.left = left(i)]
    BY <1>3
  <2> HIDE DEF r
  <2>4. r = [i \in 1..N |-> [s.list[i] EXCEPT !.left = left(i)]]
    BY <1>3 DEF r
  <2>5. r \in Seq(Items)
    <3>1. r \in [1..N -> Items]
      BY <2>2, <2>4
    <3> QED BY <1>3, <3>1, SeqDef
  <2>6. Len(r) = N
    BY <1>3, <2>3, <2>5, LenProperties
  <2> QED BY <2>2, <2>3, <2>5, <2>6
<1>8. \A k \in 0..N : Until(r, k) = IF Until(s.list, k) > e THEN Until(s.list, k) - e ELSE 0
  <2>1. \A i \in 1..N : LET o == e - Until(s.list, i - 1)
                        IN  r[i].left = IF o <= 0 THEN s.list[i].left
                                        ELSE IF o < s.list[i].left THEN s.list[i].left - o
                                        ELSE 0
    BY <1>7
  <2> HIDE DEF r, left
  <2> QED BY <1>2, <1>5, <1>7, <2>1, SpentSums
<1> HIDE DEF r, left
<1>9. /\ u \in State /\ u.list = r /\ u.on = s.on /\ u.gone = s.gone /\ u.period = s.period
      /\ u.posted = s.posted /\ u.rem = s.rem
  <2>1. /\ v \in State /\ v.list = r /\ v.on = s.on /\ v.gone = s.gone /\ v.period = s.period
        /\ v.posted = s.posted /\ v.rem = s.rem
    BY <1>1, <1>7 DEF State
  <2> HIDE DEF v
  <2>2. 0 \in 0..MaxLag
    BY SysTimerAssumption
  <2>3. CASE ReadsZero(s)
    BY <2>1, <2>3
  <2>4. CASE ~ReadsZero(s)
    <3>1. u = [v EXCEPT !.lag = 0, !.interval = 0]
      BY <2>4
    <3> HIDE DEF u
    <3> QED BY <2>1, <2>2, <3>1 DEF State
  <2> QED BY <2>3, <2>4
<1> HIDE DEF u
<1>10. ASSUME Counts(s) PROVE Exact(u)
  <2> SUFFICES ASSUME NEW i \in 1..N PROVE Until(r, i) <= s.rem[s.list[i].id]
    BY <1>7, <1>9 DEF Exact
  <2> DEFINE x == Until(s.list, i)
             w == s.rem[s.list[i].id]
  <2>1. x \in Nat /\ w \in Nat
    BY <1>1, ItemFacts
  <2>2. Until(r, i) = IF x > e THEN x - e ELSE 0
    BY <1>3, <1>8
  <2>3. IF s.on THEN x <= w + s.gone ELSE x <= w + s.lag + s.interval
    BY <1>10 DEF Counts
  <2>4. s.on /\ ReadsZero(s) => s.gone = 0
    BY DEF ReadsZero
  <2>5. ~s.on => e = s.interval + s.lag
    BY DEF ReadsZero, e
  <2>6. s.on => e >= s.gone
    <3>1. CASE ReadsZero(s)
      BY <1>2, <1>5, <2>4, <3>1
    <3>2. CASE ~ReadsZero(s)
      BY <1>2, <3>2 DEF e
    <3> QED BY <3>1, <3>2
  <2>7. s.on \in BOOLEAN
    BY <1>1, StateFields
  <2> HIDE DEF x, w
  <2>8. x <= w + e
    BY <1>2, <1>5, <2>1, <2>3, <2>5, <2>6
  <2> QED BY <1>5, <2>1, <2>2, <2>8 DEF w
<1> QED BY <1>4, <1>7, <1>9, <1>10

\* A state in the middle of a call: the hardware timer is stopped, and no
\* timer would be late if it were started now.
Rested(s) == s \in State /\ Once(s) /\ ~s.on /\ s.gone = 0

\* The hardware timer is stopped.  Its interrupt may come first: then the call
\* may not know that it ran, but a message is queued.
LEMMA HaltedFacts ==
  ASSUME NEW u \in State, NEW h \in Halted(u)
  PROVE  /\ h.db \in State /\ h.active \in BOOLEAN
         /\ ~h.db.on /\ h.db.gone = 0 /\ h.db.list = u.list /\ h.db.rem = u.rem
         /\ h.db.period = u.period
         /\ u.on \/ u.posted > 0 => h.active \/ h.db.posted > 0
<1> DEFINE v == [u EXCEPT !.posted = @ + 1, !.lag = 0]
<1>1. /\ u.posted \in 0..MaxPosted /\ u.posted \in Nat /\ MaxPosted \in Nat /\ 0 \in 0..MaxLag
      /\ u.on \in BOOLEAN
  BY StateFields, SysTimerAssumption
<1>2. /\ Stopped(u) \in State /\ ~Stopped(u).on /\ Stopped(u).gone = 0
      /\ Stopped(u).list = u.list /\ Stopped(u).rem = u.rem /\ Stopped(u).period = u.period
      /\ Stopped(u).posted = u.posted
  BY DEF State, Stopped
<1>3. CASE h = [db |-> Stopped(u), active |-> u.on]
  BY <1>1, <1>2, <1>3
<1>4. CASE \E b \in BOOLEAN : h = [db |-> Stopped(v), active |-> b] /\ u.posted < MaxPosted
  <2>1. PICK b \in BOOLEAN : h = [db |-> Stopped(v), active |-> b] /\ u.posted < MaxPosted
    BY <1>4
  <2>2. u.posted + 1 \in 0..MaxPosted /\ u.posted + 1 > 0
    BY <1>1, <2>1
  <2>3. /\ v \in State /\ v.list = u.list /\ v.rem = u.rem /\ v.period = u.period
        /\ v.posted = u.posted + 1
    BY <1>1, <2>2 DEF State
  <2> HIDE DEF v
  <2>4. /\ Stopped(v) \in State /\ ~Stopped(v).on /\ Stopped(v).gone = 0
        /\ Stopped(v).list = v.list /\ Stopped(v).rem = v.rem /\ Stopped(v).period = v.period
        /\ Stopped(v).posted = v.posted
    BY <2>3 DEF State, Stopped
  <2>5. h.db = Stopped(v) /\ h.active = b
    BY <2>1
  <2> QED BY <2>2, <2>3, <2>4, <2>5
<1> QED BY <1>3, <1>4 DEF Halted

\* The hardware timer is started for the first item, if the call says so.
LEMMA ArmedFacts ==
  ASSUME NEW s, Rested(s), NEW c \in BOOLEAN
  PROVE  LET r == ArmedAgain(s, c)
         IN  /\ Typed(r) /\ r.list = s.list /\ r.posted = s.posted /\ r.rem = s.rem
             /\ Exact(s) => Counts(r)
             /\ c \/ s.posted > 0 => Awake(r)
<1> DEFINE r == ArmedAgain(s, c)
           N == Len(s.list)
<1>1. s \in State /\ s.list \in Seq(Items)
  BY StateFields DEF Rested
<1>2. N \in Nat /\ \A i \in 1..N : s.list[i].left \in Nat
  BY <1>1, ItemsOfSeq
<1>3. CASE c /\ s.list # <<>>
  <2>1. r = Armed(s)
    BY <1>3 DEF ArmedAgain
  <2> HIDE DEF r
  <2>2. 1 \in 1..N /\ s.list[1].left \in Nat
    BY <1>1, <1>2, <1>3, EmptySeq
  <2>3. /\ r \in State /\ r.on /\ r.gone = 0 /\ r.period = s.list[1].left
        /\ r.interval = s.list[1].left /\ r.list = s.list /\ r.posted = s.posted
        /\ r.rem = s.rem
    BY <1>1, <2>1, <2>2 DEF State, Armed
  <2>4. Typed(r)
    BY <1>3, <2>2, <2>3 DEF Typed, Once, Runs, Rested
  <2>5. ASSUME Exact(s) PROVE Counts(r)
    <3> SUFFICES ASSUME NEW i \in 1..N
                 PROVE  Until(s.list, i) <= s.rem[s.list[i].id] + 0
      BY <2>3 DEF Counts
    <3>1. Until(s.list, i) \in Nat /\ s.rem[s.list[i].id] \in Nat
      BY <1>1, ItemFacts
    <3>2. Until(s.list, i) <= s.rem[s.list[i].id]
      BY <2>5 DEF Exact
    <3> QED BY <3>1, <3>2
  <2>6. Awake(r)
    BY <2>3 DEF Awake
  <2> QED BY <2>3, <2>4, <2>5, <2>6 DEF r
<1>4. CASE ~(c /\ s.list # <<>>)
  <2>1. r = s
    BY <1>4 DEF ArmedAgain
  <2> HIDE DEF r
  <2>2. Typed(s)
    BY <1>1, StateFields DEF Typed, Rested, Runs
  <2>3. ASSUME Exact(s) PROVE Counts(s)
    <3>1. ~s.on
      BY DEF Rested
    <3>2. s.lag \in Nat /\ s.interval \in Nat
      BY <1>1, StateFields
    <3>3. ASSUME NEW i \in 1..N
          PROVE  /\ Until(s.list, i) <= s.rem[s.list[i].id] + s.lag + s.interval
                 /\ Until(s.list, i) <= s.rem[s.list[i].id] + s.lag + s.list[1].left
      <4> DEFINE x == Until(s.list, i)
                 w == s.rem[s.list[i].id]
                 f == s.list[1].left
                 g == s.lag
                 v == s.interval
      <4>1. x \in Nat /\ w \in Nat
        BY <1>1, ItemFacts
      <4>2. x <= w
        BY <2>3 DEF Exact
      <4>3. f \in Nat
        <5>1. 1 \in 1..N
          BY <1>2
        <5> QED BY <1>2, <5>1
      <4>4. g \in Nat /\ v \in Nat
        BY <3>2
      <4> HIDE DEF x, w, f, g, v
      <4>5. x <= w + g + v /\ x <= w + g + f
        BY <4>1, <4>2, <4>3, <4>4
      <4> QED BY <4>5 DEF x, w, f, g, v
    <3> QED BY <3>1, <3>3 DEF Counts
  <2>4. c \/ s.posted > 0 => Awake(s)
    BY <1>4 DEF Awake
  <2> QED BY <2>1, <2>2, <2>3, <2>4 DEF r
<1> QED BY <1>3, <1>4

\* A timer leaves the list.
LEMMA RemovedGood ==
  ASSUME NEW s, Typed(s), NEW t \in Timers, NEW r \in Removed(s, t)
  PROVE  /\ Typed(r) /\ t \notin Listed(r)
         /\ Counts(s) => Counts(r)
         /\ Awake(s) => Awake(r)
<1>1. s \in State /\ s.list \in Seq(Items) /\ Once(s)
  BY StateFields DEF Typed
<1>2. CASE t \notin Listed(s)
  BY <1>2 DEF Removed
<1>3. CASE t \in Listed(s)
  <2> DEFINE u == Updated(s)
  <2>1. PICK h \in Halted(u) :
          r = LET q == h.db.list
                  i == IndexOf(h.db, t)
                  n == [h.db EXCEPT !.list =
                          RemoveAt(IF i = Len(q) THEN q
                                   ELSE [q EXCEPT ![i + 1].left = @ + q[i].left], i)]
              IN  ArmedAgain(n, h.active)
    BY <1>3 DEF Removed
  <2>2. /\ u \in State /\ Len(u.list) = Len(s.list)
        /\ \A i \in 1..Len(s.list) : u.list[i].id = s.list[i].id
        /\ u.on = s.on /\ u.posted = s.posted /\ u.rem = s.rem
        /\ Counts(s) => Exact(u)
    BY UpdatedFacts
  <2> HIDE DEF u
  <2> DEFINE b == h.db
  <2>3. /\ b \in State /\ h.active \in BOOLEAN /\ ~b.on /\ b.gone = 0
        /\ b.list = u.list /\ b.rem = u.rem
        /\ (u.on \/ u.posted > 0 => h.active \/ b.posted > 0)
    BY <2>2, HaltedFacts
  <2> DEFINE q == b.list
             N == Len(q)
             i == IndexOf(b, t)
             m == RemoveAt(IF i = N THEN q ELSE [q EXCEPT ![i + 1].left = @ + q[i].left], i)
             n == [b EXCEPT !.list = m]
  <2>4. r = ArmedAgain(n, h.active)
    BY <2>1
  <2> HIDE DEF b
  <2>5. q \in Seq(Items) /\ N \in Nat /\ DOMAIN q = 1..N /\ N = Len(s.list)
    BY <2>2, <2>3, StateFields, ItemsOfSeq
  <2>6. \A j, k \in 1..N : q[j].id = q[k].id => j = k
    <3>1. DOMAIN s.list = 1..N
      BY <1>1, <2>5, ItemsOfSeq
    <3>2. \A j, k \in 1..N : s.list[j].id = s.list[k].id => j = k
      BY <1>1, <3>1 DEF Once
    <3> QED BY <2>2, <2>3, <2>5, <3>2
  <2>7. i \in 1..N /\ q[i].id = t
    <3>1. \E k \in 1..N : s.list[k].id = t
      BY <1>1, <1>3, <2>5, ItemsOfSeq DEF Listed
    <3>2. \E k \in DOMAIN b.list : b.list[k].id = t
      BY <2>2, <2>3, <2>5, <3>1
    <3>3. i \in DOMAIN b.list /\ b.list[i].id = t
      BY <3>2 DEF IndexOf
    <3> QED BY <2>5, <3>3
  <2> HIDE DEF i
  <2>8. /\ m \in Seq(Items) /\ Len(m) = N - 1
        /\ \A k \in 1..(N - 1) : m[k].id = IF k < i THEN q[k].id ELSE q[k + 1].id
        /\ \A k \in 1..(N - 1) : Until(m, k) = IF k < i THEN Until(q, k) ELSE Until(q, k + 1)
    BY <2>5, <2>7, RemovedSums
  <2>9. DOMAIN m = 1..(N - 1)
    BY <2>8, ItemsOfSeq
  <2> HIDE DEF m
  <2>10. /\ n \in State /\ n.list = m /\ ~n.on /\ n.gone = 0 /\ n.posted = b.posted
         /\ n.rem = b.rem
    BY <2>3, <2>8 DEF State
  <2> HIDE DEF n, q, N
  <2>11. \A k \in 1..(N - 1) : k \in 1..N /\ k + 1 \in 1..N
    BY <2>5
  <2>12. \A j, k \in 1..(N - 1) : m[j].id = m[k].id => j = k
    <3> TAKE j, k \in 1..(N - 1)
    <3> DEFINE x == IF j < i THEN j ELSE j + 1
               y == IF k < i THEN k ELSE k + 1
    <3>1. x \in 1..N /\ y \in 1..N /\ m[j].id = q[x].id /\ m[k].id = q[y].id
      BY <2>8, <2>11
    <3>2. x = y => j = k
      BY <2>5, <2>7
    <3> HIDE DEF x, y
    <3> QED BY <2>6, <3>1, <3>2
  <2>13. \A k \in 1..(N - 1) : m[k].id # t
    <3> TAKE k \in 1..(N - 1)
    <3> DEFINE y == IF k < i THEN k ELSE k + 1
    <3>1. y \in 1..N /\ m[k].id = q[y].id
      BY <2>8, <2>11
    <3>2. y # i
      BY <2>5, <2>7
    <3> HIDE DEF y
    <3> QED BY <2>6, <2>7, <3>1, <3>2
  <2>14. Rested(n)
    BY <2>9, <2>10, <2>12 DEF Rested, Once
  <2>15. Exact(u) => Exact(n)
    <3> SUFFICES ASSUME Exact(u), NEW k \in 1..(N - 1)
                 PROVE  Until(m, k) <= u.rem[m[k].id]
      BY <2>3, <2>8, <2>10 DEF Exact
    <3>1. \A j \in 1..N : Until(q, j) <= u.rem[q[j].id]
      BY <2>3 DEF Exact, q, N
    <3> DEFINE y == IF k < i THEN k ELSE k + 1
    <3>2. y \in 1..N /\ m[k].id = q[y].id /\ Until(m, k) = Until(q, y)
      BY <2>8, <2>11
    <3> HIDE DEF y
    <3> QED BY <3>1, <3>2
  <2>16. /\ Typed(r) /\ r.list = n.list /\ r.posted = n.posted
         /\ Exact(n) => Counts(r)
         /\ (h.active \/ n.posted > 0 => Awake(r))
    BY <2>3, <2>4, <2>14, ArmedFacts
  <2>17. t \notin Listed(r)
    BY <2>9, <2>10, <2>13, <2>16 DEF Listed
  <2>18. Awake(s) => Awake(r)
    <3>1. s.list # <<>>
      BY <1>3 DEF Listed
    <3>2. Awake(s) => u.on \/ u.posted > 0
      BY <2>2, <3>1 DEF Awake
    <3> QED BY <2>3, <2>10, <2>16, <3>2
  <2> QED BY <2>2, <2>15, <2>16, <2>17, <2>18
<1> QED BY <1>2, <1>3

\* A timer that is not in the list is put into it.
LEMMA InsertedGood ==
  ASSUME NEW s, Typed(s), NEW t \in Timers, t \notin Listed(s), NEW p \in Nat,
         NEW r \in Inserted(s, t, p)
  PROVE  /\ Typed(r)
         /\ Counts(s) => Counts(r)
         /\ Awake(s) => Awake(r)
<1>1. s \in State /\ s.list \in Seq(Items) /\ Once(s) /\ s.rem \in [Timers -> Nat]
  BY StateFields DEF Typed
<1>2. CASE s.list = <<>>
  <2> DEFINE x == [id |-> t, left |-> p]
             n == [s EXCEPT !.list = <<x>>, !.rem[t] = p]
  <2>1. r = Armed(n)
    BY <1>2 DEF Inserted
  <2>2. x \in Items /\ x.left = p /\ x.id = t
    BY DEF Items
  <2> HIDE DEF x
  <2>3. <<x>> \in Seq(Items) /\ Len(<<x>>) = 1 /\ <<x>>[1] = x /\ DOMAIN <<x>> = 1..1 /\ <<x>> # <<>>
    BY <2>2
  <2>4. n \in State /\ n.list = <<x>> /\ n.rem[t] = p
    BY <1>1, <2>3 DEF State
  <2> HIDE DEF n
  <2>5. /\ r \in State /\ r.on /\ r.gone = 0 /\ r.period = p /\ r.interval = p
        /\ r.list = <<x>> /\ r.rem = n.rem
    BY <2>1, <2>2, <2>3, <2>4 DEF State, Armed
  <2>6. Typed(r)
    BY <2>2, <2>3, <2>5 DEF Typed, Once, Runs
  <2>7. Until(<<x>>, 1) = p
    <3>1. /\ Until(<<x>>, 0) = 0
          /\ \A k \in 1..Len(<<x>>) : Until(<<x>>, k) = Until(<<x>>, k - 1) + <<x>>[k].left
      BY <2>3, UntilFacts
    <3>2. 1 \in 1..Len(<<x>>) /\ 1 - 1 = 0
      BY <2>3
    <3>3. Until(<<x>>, 1) = Until(<<x>>, 1 - 1) + <<x>>[1].left
      BY <3>1, <3>2
    <3> QED BY <2>2, <2>3, <3>1, <3>2, <3>3
  <2>8. Counts(r)
    <3> SUFFICES ASSUME NEW i \in 1..Len(r.list)
                 PROVE  Until(r.list, i) <= r.rem[r.list[i].id] + r.gone
      BY <2>5 DEF Counts
    <3>1. i = 1
      BY <2>3, <2>5
    <3>2. r.list[i].id = t /\ Until(r.list, i) = p /\ r.rem[r.list[i].id] = p
      BY <2>2, <2>3, <2>4, <2>5, <2>7, <3>1
    <3> QED BY <2>5, <3>2
  <2>9. Awake(r)
    BY <2>5 DEF Awake
  <2> QED BY <2>6, <2>8, <2>9
<1>3. CASE s.list # <<>>
  <2> DEFINE u == Updated(s)
  <2>1. PICK h \in Halted(u) :
          r = ArmedAgain([h.db EXCEPT !.list = Linked(h.db.list, t, p), !.rem[t] = p], h.active)
    BY <1>3 DEF Inserted
  <2>2. /\ u \in State /\ Len(u.list) = Len(s.list)
        /\ \A i \in 1..Len(s.list) : u.list[i].id = s.list[i].id
        /\ u.on = s.on /\ u.posted = s.posted /\ u.rem = s.rem
        /\ Counts(s) => Exact(u)
    BY UpdatedFacts
  <2> HIDE DEF u
  <2> DEFINE b == h.db
  <2>3. /\ b \in State /\ h.active \in BOOLEAN /\ ~b.on /\ b.gone = 0
        /\ b.list = u.list /\ b.rem = u.rem
        /\ (u.on \/ u.posted > 0 => h.active \/ b.posted > 0)
    BY <2>2, HaltedFacts
  <2> DEFINE q == b.list
             N == Len(q)
             m == Linked(q, t, p)
             n == [b EXCEPT !.list = m, !.rem[t] = p]
  <2>4. r = ArmedAgain(n, h.active)
    BY <2>1
  <2> HIDE DEF b
  <2>5. q \in Seq(Items) /\ N \in Nat /\ DOMAIN q = 1..N /\ N = Len(s.list)
    BY <2>2, <2>3, StateFields, ItemsOfSeq
  <2>6. \A k \in 1..N : q[k].id \in Timers /\ q[k].id # t
    <3>1. DOMAIN s.list = 1..N
      BY <1>1, <2>5, ItemsOfSeq
    <3>2. \A k \in 1..N : s.list[k].id # t
      BY <3>1 DEF Listed
    <3> QED BY <2>2, <2>3, <2>5, <3>2, ItemsOfSeq
  <2>7. \A j, k \in 1..N : q[j].id = q[k].id => j = k
    <3>1. DOMAIN s.list = 1..N
      BY <1>1, <2>5, ItemsOfSeq
    <3>2. \A j, k \in 1..N : s.list[j].id = s.list[k].id => j = k
      BY <1>1, <3>1 DEF Once
    <3> QED BY <2>2, <2>3, <2>5, <3>2
  <2> HIDE DEF q
  <2>0. PICK i \in 1..(N + 1) : LinkedAt(q, m, t, p, i)
    BY <2>5, LinkedSums
  <2>8. /\ \A k \in 1..(N + 1) :
             m[k].id = IF k < i THEN q[k].id ELSE IF k = i THEN t ELSE q[k - 1].id
        /\ \A k \in 1..(N + 1) :
             Until(m, k) = IF k < i THEN Until(q, k) ELSE IF k = i THEN p ELSE Until(q, k - 1)
    BY <2>0 DEF LinkedAt
  <2>9. m \in Seq(Items) /\ Len(m) = N + 1
    BY <2>5, LinkedSums
  <2>10. DOMAIN m = 1..(N + 1)
    BY <2>9, ItemsOfSeq
  <2> HIDE DEF m
  <2>11. /\ n \in State /\ n.list = m /\ ~n.on /\ n.gone = 0 /\ n.posted = b.posted
         /\ n.rem = [b.rem EXCEPT ![t] = p]
    <3>1. [b.rem EXCEPT ![t] = p] \in [Timers -> Nat]
      BY <2>3, StateFields
    <3> QED BY <2>3, <2>9, <3>1 DEF State
  <2>12. b.rem \in [Timers -> Nat]
    BY <2>3, StateFields
  <2>13. n.rem[t] = p /\ \A x \in Timers : x # t => n.rem[x] = b.rem[x]
    BY <2>11, <2>12
  <2> HIDE DEF n, q, N
  <2>14. i \in Nat
    BY <2>5
  <2>15. \A k \in 1..(N + 1) : /\ k < i => k \in 1..N
                               /\ k > i => k - 1 \in 1..N
                               /\ k < i \/ k = i \/ k > i
                               /\ k > i => ~(k < i) /\ k # i
                               /\ k = i => ~(k < i)
    BY <2>5, <2>14
  <2>16. \A j, k \in 1..(N + 1) : m[j].id = m[k].id => j = k
    <3> TAKE j, k \in 1..(N + 1)
    <3>1. j < i => m[j].id = q[j].id
      BY <2>8
    <3>2. j > i => m[j].id = q[j - 1].id
      BY <2>8, <2>15
    <3>3. k < i => m[k].id = q[k].id
      BY <2>8
    <3>4. k > i => m[k].id = q[k - 1].id
      BY <2>8, <2>15
    <3>5. (j = i => m[j].id = t) /\ (k = i => m[k].id = t)
      BY <2>8, <2>15
    <3>6. j \in Nat /\ k \in Nat
      BY <2>5
    <3>7. CASE j = i \/ k = i
      BY <2>6, <2>15, <3>1, <3>2, <3>3, <3>4, <3>5, <3>7
    <3>8. CASE j < i /\ k < i
      BY <2>7, <2>15, <3>1, <3>3, <3>8
    <3>9. CASE j > i /\ k > i
      <4>1. m[j].id = m[k].id => j - 1 = k - 1
        BY <2>7, <2>15, <3>2, <3>4, <3>9
      <4> QED BY <3>6, <4>1
    <3>10. CASE j < i /\ k > i
      <4>1. j # k - 1
        BY <2>14, <3>6, <3>10
      <4> QED BY <2>7, <2>15, <3>1, <3>4, <3>10, <4>1
    <3>11. CASE j > i /\ k < i
      <4>1. k # j - 1
        BY <2>14, <3>6, <3>11
      <4> QED BY <2>7, <2>15, <3>2, <3>3, <3>11, <4>1
    <3> QED BY <2>15, <3>7, <3>8, <3>9, <3>10, <3>11
  <2>17. Rested(n)
    BY <2>10, <2>11, <2>16 DEF Rested, Once
  <2>18. Exact(u) => Exact(n)
    <3> SUFFICES ASSUME Exact(u), NEW k \in 1..(N + 1)
                 PROVE  Until(m, k) <= n.rem[m[k].id]
      BY <2>9, <2>11 DEF Exact
    <3>1. \A j \in 1..N : Until(q, j) <= u.rem[q[j].id]
      BY <2>3 DEF Exact, q, N
    <3>2. \A j \in 1..N : n.rem[q[j].id] = u.rem[q[j].id]
      BY <2>3, <2>6, <2>13
    <3>3. CASE k < i
      BY <2>8, <2>15, <3>1, <3>2, <3>3
    <3>4. CASE k = i
      <4>1. Until(m, k) = p /\ m[k].id = t
        BY <2>8, <2>15, <3>4
      <4> QED BY <2>13, <4>1
    <3>5. CASE k > i
      <4>1. Until(m, k) = Until(q, k - 1) /\ m[k].id = q[k - 1].id /\ k - 1 \in 1..N
        BY <2>8, <2>15, <3>5
      <4> QED BY <3>1, <3>2, <4>1
    <3> QED BY <2>15, <3>3, <3>4, <3>5
  <2>19. /\ Typed(r) /\ r.list = n.list /\ r.posted = n.posted
         /\ Exact(n) => Counts(r)
         /\ (h.active \/ n.posted > 0 => Awake(r))
    BY <2>3, <2>4, <2>17, ArmedFacts
  <2>20. Awake(s) => Awake(r)
    <3>1. Awake(s) => u.on \/ u.posted > 0
      BY <1>3, <2>2 DEF Awake
    <3> QED BY <2>3, <2>11, <2>19, <3>1
  <2> QED BY <2>2, <2>18, <2>19, <2>20
<1> QED BY <1>2, <1>3

\* A timer is started, or started again.
LEMMA StartedGood ==
  ASSUME NEW s, Typed(s), NEW t \in Timers, NEW p \in Nat, NEW r \in Started(s, t, p)
  PROVE  /\ Typed(r)
         /\ Counts(s) => Counts(r)
         /\ Awake(s) => Awake(r)
<1>1. PICK m \in Removed(s, t) : r \in Inserted(m, t, p)
  BY DEF Started
<1>2. /\ Typed(m) /\ t \notin Listed(m)
      /\ Counts(s) => Counts(m)
      /\ Awake(s) => Awake(m)
  BY <1>1, RemovedGood
<1>3. /\ Typed(r)
      /\ Counts(m) => Counts(r)
      /\ Awake(m) => Awake(r)
  BY <1>1, <1>2, InsertedGood
<1> QED BY <1>2, <1>3

\* A callback does nothing, or one of the calls above.
LEMMA CallbackGood ==
  ASSUME NEW s, Typed(s), period_of \in [Timers -> Intervals], NEW r \in Callback(s)
  PROVE  /\ Typed(r)
         /\ Counts(s) => Counts(r)
<1>1. CASE r = s
  BY <1>1
<1>2. CASE \E t \in Timers : r \in Removed(s, t)
  BY <1>2, RemovedGood
<1>3. CASE \E t \in Timers : r \in Started(s, t, period_of[t])
  <2>1. PICK t \in Timers : r \in Started(s, t, period_of[t])
    BY <1>3
  <2>2. period_of[t] \in Nat
    BY SysTimerAssumption
  <2> QED BY <2>1, <2>2, StartedGood
<1> QED BY <1>1, <1>2, <1>3 DEF Callback

\* After the callback the hardware timer runs, if there is an item.
LEMMA ResumedGood ==
  ASSUME NEW s, Typed(s)
  PROVE  /\ Typed(Resumed(s)) /\ Awake(Resumed(s))
         /\ Counts(s) => Counts(Resumed(s))
<1>1. CASE s.on \/ s.list = <<>>
  BY <1>1 DEF Resumed, Awake
<1>2. CASE ~s.on /\ s.list # <<>>
  <2> DEFINE u == Updated(s)
  <2>1. /\ u \in State /\ Len(u.list) = Len(s.list)
        /\ \A i \in 1..Len(s.list) : u.list[i].id = s.list[i].id
        /\ u.on = s.on /\ u.gone = s.gone /\ u.period = s.period
        /\ Counts(s) => Exact(u)
    BY UpdatedFacts
  <2>2. Resumed(s) = Armed(u)
    BY <1>2 DEF Resumed
  <2> HIDE DEF u
  <2>3. s.list \in Seq(Items) /\ u.list \in Seq(Items)
    BY <2>1, StateFields DEF Typed
  <2>4. Once(u)
    <3>1. DOMAIN u.list = 1..Len(s.list) /\ DOMAIN s.list = 1..Len(s.list)
      BY <2>1, <2>3, ItemsOfSeq
    <3>2. \A j, k \in 1..Len(s.list) : s.list[j].id = s.list[k].id => j = k
      BY <3>1 DEF Typed, Once
    <3> QED BY <2>1, <3>1, <3>2 DEF Once
  <2>5. u.list # <<>>
    <3>1. Len(s.list) # 0
      BY <1>2, <2>3, EmptySeq
    <3> QED BY <2>1, <2>3, <3>1, EmptySeq
  <2> DEFINE v == Stopped(u)
  <2>6. v \in State /\ v.list = u.list /\ v.rem = u.rem /\ ~v.on /\ v.gone = 0
    BY <2>1 DEF State, Stopped
  <2>7. Armed(u) = ArmedAgain(v, TRUE)
    BY <2>1, <2>5, <2>6 DEF State, Armed, ArmedAgain, Stopped
  <2>8. Rested(v)
    BY <2>4, <2>6 DEF Rested, Once
  <2>9. Exact(u) => Exact(v)
    BY <2>6 DEF Exact
  <2> HIDE DEF v
  <2> DEFINE c == TRUE
  <2>10. c \in BOOLEAN /\ c
    OBVIOUS
  <2> HIDE DEF c
  <2>11. /\ Typed(ArmedAgain(v, c))
         /\ Exact(v) => Counts(ArmedAgain(v, c))
         /\ Awake(ArmedAgain(v, c))
    BY <2>8, <2>10, ArmedFacts
  <2>12. Resumed(s) = ArmedAgain(v, c)
    BY <2>2, <2>7 DEF c
  <2> QED BY <2>1, <2>9, <2>11, <2>12
<1> QED BY <1>1, <1>2

\* The message of the interrupt is handled.  The first item may be another
\* than the one the interrupt was for, or the hardware timer may run again:
\* what is thrown away with it is never longer than what it has left.
LEMMA ExpiredGood ==
  ASSUME NEW s, Typed(s), period_of \in [Timers -> Intervals], NEW r \in Expired(s)
  PROVE  /\ Typed(r) /\ Awake(r)
         /\ Counts(s) => Counts(r)
<1> DEFINE b == Stopped([s EXCEPT !.interval = 0])
<1>1. s \in State /\ s.list \in Seq(Items) /\ Once(s)
  BY StateFields DEF Typed
<1>2. /\ b \in State /\ ~b.on /\ b.gone = 0 /\ b.interval = 0 /\ b.lag = s.lag
      /\ b.list = s.list /\ b.rem = s.rem
  BY <1>1 DEF State, Stopped
<1>3. CASE s.list = <<>>
  <2>1. r = b
    BY <1>3 DEF Expired
  <2> HIDE DEF b
  <2>2. Len(b.list) = 0
    BY <1>2, <1>3
  <2>3. Typed(b) /\ Awake(b)
    BY <1>1, <1>2, <1>3, StateFields DEF Typed, Once, Runs, Awake
  <2>4. Counts(b)
    BY <2>2 DEF Counts
  <2> QED BY <2>1, <2>3, <2>4
<1>4. CASE s.list # <<>>
  <2> DEFINE t == b.list[1].id
             out == [b EXCEPT !.list = Tail(@), !.early = @ \/ b.rem[t] > 0]
             again == IF t \in Reload THEN Inserted(out, t, period_of[t]) ELSE {out}
             N == Len(s.list)
  <2>1. PICK a \in again, c \in UNION {Callback(x) : x \in again} :
          c \in Callback(a) /\ r = Resumed(c)
    <3>1. r \in {Resumed(c) : c \in UNION {Callback(a) : a \in again}}
      BY <1>4 DEF Expired
    <3> HIDE DEF again
    <3> QED BY <3>1
  <2>2. /\ N \in Nat /\ 1 \in 1..N
        /\ \A k \in 1..N : s.list[k].id \in Timers /\ s.list[k].left \in Nat
    BY <1>1, <1>4, ItemsOfSeq, EmptySeq
  <2>3. t = s.list[1].id /\ t \in Timers
    BY <1>2, <2>2
  <2> DEFINE m == Tail(s.list)
  <2>4. /\ m \in Seq(Items) /\ Len(m) = N - 1
        /\ \A k \in 1..(N - 1) : m[k] = s.list[k + 1]
        /\ \A k \in 0..(N - 1) : Until(m, k) = Until(s.list, k + 1) - s.list[1].left
    BY <1>1, <1>4, TailSums
  <2>5. DOMAIN m = 1..(N - 1)
    BY <2>4, ItemsOfSeq
  <2> HIDE DEF m
  <2>6. /\ out \in State /\ ~out.on /\ out.gone = 0 /\ out.interval = 0 /\ out.lag = s.lag
        /\ out.list = m /\ out.rem = s.rem
    <3>1. out = [b EXCEPT !.list = m, !.early = b.early \/ b.rem[t] > 0]
      BY <1>2 DEF m, State
    <3> DEFINE e == b.early \/ b.rem[t] > 0
    <3>2. e \in BOOLEAN
      BY <1>2, StateFields
    <3> HIDE DEF e, b, out
    <3> QED BY <1>2, <2>4, <3>1, <3>2 DEF State, e
  <2> HIDE DEF out, b, t
  <2>7. \A k \in 1..(N - 1) : k + 1 \in 1..N /\ k + 1 # 1 /\ k \in 0..(N - 1) /\ k \in Nat
    BY <2>2
  <2>8. \A j, k \in 1..N : s.list[j].id = s.list[k].id => j = k
    BY <1>1, ItemsOfSeq DEF Once
  <2>9. Once(out) /\ t \notin Listed(out)
    <3>1. ASSUME NEW j \in 1..(N - 1), NEW k \in 1..(N - 1), m[j].id = m[k].id PROVE j = k
      <4>0. /\ m[j] = s.list[j + 1] /\ m[k] = s.list[k + 1]
            /\ j + 1 \in 1..N /\ k + 1 \in 1..N
        BY <2>4, <2>7
      <4>1. j + 1 = k + 1
        BY <2>8, <3>1, <4>0
      <4> QED BY <2>7, <4>1
    <3>2. \A k \in 1..(N - 1) : m[k].id # t
      <4> TAKE k \in 1..(N - 1)
      <4>1. m[k] = s.list[k + 1] /\ k + 1 \in 1..N /\ k + 1 # 1
        BY <2>4, <2>7
      <4> QED BY <2>2, <2>3, <2>8, <4>1
    <3> QED BY <2>5, <2>6, <3>1, <3>2 DEF Once, Listed
  <2>10. Typed(out)
    BY <2>6, <2>9, StateFields DEF Typed, Runs
  <2>11. Counts(s) => Counts(out)
    <3> SUFFICES ASSUME Counts(s), NEW k \in 1..(N - 1)
                 PROVE  /\ Until(m, k) <= s.rem[m[k].id] + s.lag + 0
                        /\ Until(m, k) <= s.rem[m[k].id] + s.lag + m[1].left
      BY <2>4, <2>6 DEF Counts
    <3> DEFINE x == Until(s.list, k + 1)
               w == s.rem[s.list[k + 1].id]
               f == s.list[1].left
               g == s.lag
               o == s.gone
    <3>1. /\ x \in Nat /\ w \in Nat /\ f \in Nat /\ g \in Nat /\ o \in Nat
      BY <1>1, <2>2, <2>7, ItemFacts, StateFields
    <3>2. Until(m, k) = x - f /\ s.rem[m[k].id] = w
      BY <2>4, <2>7
    <3>3. IF s.on THEN x <= w + o ELSE x <= w + g + f
      BY <2>7 DEF Counts
    <3>4. s.on => o <= f
      BY DEF Typed, Runs
    <3>5. m[1].left \in Nat
      <4>1. 1 \in 1..(N - 1)
        BY <2>2
      <4> QED BY <2>4, <4>1, ItemsOfSeq
    <3>6. s.on \in BOOLEAN
      BY <1>1, StateFields
    <3> HIDE DEF x, w, f, g, o
    <3>7. x - f <= w + g
      BY <3>1, <3>3, <3>4
    <3>8. x - f <= w + g + 0 /\ x - f <= w + g + m[1].left
      BY <3>1, <3>5, <3>7
    <3> QED BY <3>2, <3>8 DEF g
  <2>12. Typed(a) /\ (Counts(out) => Counts(a))
    <3>1. CASE t \in Reload
      <4>1. period_of[t] \in Nat
        BY <2>3, SysTimerAssumption
      <4>2. a \in Inserted(out, t, period_of[t])
        BY <2>1, <3>1
      <4> QED BY <2>3, <2>9, <2>10, <4>1, <4>2, InsertedGood
    <3>2. CASE t \notin Reload
      <4>1. a = out
        BY <2>1, <3>2
      <4> QED BY <2>10, <4>1
    <3> QED BY <3>1, <3>2
  <2> HIDE DEF again
  <2>13. Typed(c) /\ (Counts(a) => Counts(c))
    BY <2>1, <2>12, CallbackGood
  <2>14. Typed(r) /\ Awake(r) /\ (Counts(c) => Counts(r))
    BY <2>1, <2>13, ResumedGood
  <2> QED BY <2>11, <2>12, <2>13, <2>14
<1> QED BY <1>3, <1>4

-----------------------------------------------------------------------------
(* The inductive invariant, and what follows from it.                      *)

Inv ==
  /\ Typed(db) /\ period_of \in [Timers -> Intervals]
  /\ "lost" \notin May => Counts(db) /\ Awake(db)

\* At the beginning no timer waits.
LEMMA InitInv ==
  ASSUME Init
  PROVE  Inv
<1>1. db \in State /\ ~db.on /\ db.gone = 0 /\ db.period = 0 /\ db.list = <<>>
  <2>1. 0 \in 0..MaxLag /\ 0 \in 0..MaxPosted
    BY SysTimerAssumption
  <2> QED BY <2>1 DEF Init, State
<1>2. Len(db.list) = 0 /\ DOMAIN db.list = {}
  BY <1>1
<1>3. Typed(db)
  BY <1>1, <1>2 DEF Typed, Once, Runs
<1>4. Counts(db) /\ Awake(db)
  BY <1>1, <1>2 DEF Counts, Awake
<1> QED BY <1>3, <1>4 DEF Inv, Init

\* Every call, interrupt and handler keeps the invariant, and time does.
LEMMA NextInv ==
  ASSUME Inv, [Next]_vars
  PROVE  Inv'
<1>1. /\ Typed(db) /\ db \in State /\ db.list \in Seq(Items)
      /\ period_of \in [Timers -> Intervals]
  BY StateFields DEF Inv, Typed
<1>2. CASE sys_timer_start
  <2>1. PICK t \in Timers : db' \in Started(db, t, period_of[t])
    BY <1>2 DEF sys_timer_start
  <2>2. period_of[t] \in Nat
    BY <1>1, SysTimerAssumption
  <2> QED BY <1>1, <1>2, <2>1, <2>2, StartedGood DEF Inv, sys_timer_start
<1>3. CASE sys_timer_restart
  <2>1. PICK t \in Timers, p \in Intervals :
          db' \in Started(db, t, p) /\ period_of' = [period_of EXCEPT ![t] = p]
    BY <1>3 DEF sys_timer_restart
  <2>2. p \in Nat
    BY SysTimerAssumption
  <2>3. period_of' \in [Timers -> Intervals]
    BY <1>1, <2>1
  <2> QED BY <1>1, <2>1, <2>2, <2>3, StartedGood DEF Inv
<1>4. CASE sys_timer_stop
  <2>1. PICK t \in Listed(db) : db' \in Removed(db, t)
    BY <1>4 DEF sys_timer_stop
  <2>2. t \in Timers
    BY <1>1, ItemsOfSeq DEF Listed
  <2> QED BY <1>1, <1>4, <2>1, <2>2, RemovedGood DEF Inv, sys_timer_stop
<1>5. CASE HwExpires
  <2> DEFINE r == Stopped(db)
  <2>1. db.on /\ db.gone = db.period /\ db.posted < MaxPosted /\ period_of' = period_of
    BY <1>5 DEF HwExpires
  <2>2. /\ db.posted \in 0..MaxPosted /\ db.posted + 1 \in 0..MaxPosted /\ db.posted + 1 > 0
        /\ 0 \in 0..MaxLag
    BY <1>1, <2>1, StateFields, SysTimerAssumption
  <2>3. PICK n \in {db.posted, db.posted + 1} :
          /\ db' = [db EXCEPT !.on = FALSE, !.gone = 0, !.posted = n, !.lag = 0]
          /\ "lost" \notin May => n = db.posted + 1
    <3>1. CASE db' = [r EXCEPT !.posted = @ + 1, !.lag = 0]
      <4>1. db' = [db EXCEPT !.on = FALSE, !.gone = 0, !.posted = db.posted + 1, !.lag = 0]
        BY <1>1, <3>1 DEF State, Stopped
      <4> QED BY <4>1
    <3>2. CASE "lost" \in May /\ db' = [r EXCEPT !.lag = 0]
      <4>1. db' = [db EXCEPT !.on = FALSE, !.gone = 0, !.posted = db.posted, !.lag = 0]
        BY <1>1, <3>2 DEF State, Stopped
      <4> QED BY <3>2, <4>1
    <3> QED BY <1>5, <3>1, <3>2 DEF HwExpires
  <2>4. n \in 0..MaxPosted
    BY <2>2, <2>3
  <2>5. /\ db' \in State /\ db'.list = db.list /\ ~db'.on /\ db'.gone = 0 /\ db'.lag = 0
        /\ db'.period = db.period /\ db'.interval = db.interval /\ db'.posted = n
        /\ db'.rem = db.rem
    BY <1>1, <2>2, <2>3, <2>4 DEF State
  <2>6. Typed(db')
    BY <1>1, <2>5, StateFields DEF Typed, Once, Runs
  <2>7. "lost" \notin May => Awake(db')
    BY <2>2, <2>3, <2>5 DEF Awake
  <2>8. ASSUME Counts(db) PROVE Counts(db')
    <3> SUFFICES ASSUME NEW i \in 1..Len(db.list)
                 PROVE  /\ Until(db.list, i) <= db.rem[db.list[i].id] + 0 + db.interval
                        /\ Until(db.list, i) <= db.rem[db.list[i].id] + 0 + db.list[1].left
      BY <2>5 DEF Counts
    <3> DEFINE x == Until(db.list, i)
               w == db.rem[db.list[i].id]
               g == db.gone
    <3>1. x \in Nat /\ w \in Nat /\ g \in Nat
      BY <1>1, ItemFacts, StateFields
    <3>2. x <= w + g
      BY <2>1, <2>8 DEF Counts
    <3>3. g = db.interval /\ g = db.list[1].left
      BY <1>1, <2>1 DEF Typed, Runs
    <3> HIDE DEF x, w, g
    <3>4. x <= w + 0 + g
      BY <3>1, <3>2
    <3> QED BY <3>3, <3>4 DEF x, w
  <2> QED BY <1>1, <2>1, <2>6, <2>7, <2>8 DEF Inv
<1>6. CASE sys_msg_handler
  <2> DEFINE s == [db EXCEPT !.posted = @ - 1]
  <2>1. db' \in Expired(s) /\ db.posted > 0 /\ period_of' = period_of
    BY <1>6 DEF sys_msg_handler
  <2>2. db.posted - 1 \in 0..MaxPosted
    BY <1>1, <2>1, StateFields, SysTimerAssumption
  <2>3. /\ s \in State /\ s.list = db.list /\ s.on = db.on /\ s.gone = db.gone
        /\ s.period = db.period /\ s.interval = db.interval /\ s.lag = db.lag
        /\ s.rem = db.rem
    BY <1>1, <2>2 DEF State
  <2> HIDE DEF s
  <2>4. Typed(s)
    BY <1>1, <2>3 DEF Typed, Once, Runs
  <2>5. Counts(db) => Counts(s)
    BY <2>3 DEF Counts
  <2>6. Typed(db') /\ Awake(db') /\ (Counts(s) => Counts(db'))
    BY <1>1, <2>1, <2>4, ExpiredGood
  <2> QED BY <1>1, <2>1, <2>5, <2>6 DEF Inv
<1>7. CASE Tick
  <2> DEFINE g == IF db.on THEN db.gone + 1 ELSE db.gone
             l == IF db.lag < MaxLag THEN db.lag + 1 ELSE db.lag
             m == [t \in Timers |-> IF db.rem[t] > 0 THEN db.rem[t] - 1 ELSE 0]
  <2>1. /\ db.on => db.gone < db.period
        /\ db.posted > 0 => db.lag < MaxLag
        /\ period_of' = period_of
    BY <1>7 DEF Tick
  <2>2. /\ db.on \in BOOLEAN /\ db.gone \in Nat /\ db.period \in Nat /\ db.lag \in 0..MaxLag
        /\ db.lag \in Nat /\ MaxLag \in Nat /\ db.rem \in [Timers -> Nat]
        /\ db.gone <= db.period /\ db.interval \in Nat
    BY <1>1, StateFields, SysTimerAssumption DEF Typed
  <2>3. g \in Nat /\ l \in 0..MaxLag /\ g <= db.period
    BY <2>1, <2>2
  <2>4. m \in [Timers -> Nat]
    <3>1. \A t \in Timers : (IF db.rem[t] > 0 THEN db.rem[t] - 1 ELSE 0) \in Nat
      BY <2>2
    <3> QED BY <3>1
  <2>5. db' = [db EXCEPT !.lag = l, !.gone = g, !.rem = m]
    BY <1>1, <1>7 DEF Tick, State
  <2>6. \A t \in Timers : db.rem[t] <= m[t] + 1 /\ db.rem[t] \in Nat /\ m[t] \in Nat
    BY <2>2
  <2>7. (db.on => g = db.gone + 1) /\ (db.posted > 0 => l = db.lag + 1)
    BY <2>1
  <2> HIDE DEF g, l, m
  <2>8. /\ db' \in State /\ db'.list = db.list /\ db'.on = db.on /\ db'.gone = g
        /\ db'.period = db.period /\ db'.interval = db.interval /\ db'.lag = l
        /\ db'.posted = db.posted /\ db'.rem = m
    BY <1>1, <2>3, <2>4, <2>5 DEF State
  <2>9. Typed(db')
    BY <1>1, <2>3, <2>8 DEF Typed, Once, Runs
  <2>10. ASSUME Counts(db), Awake(db) PROVE Counts(db') /\ Awake(db')
    <3>1. Awake(db')
      BY <2>8, <2>10 DEF Awake
    <3>2. ASSUME NEW i \in 1..Len(db.list)
          PROVE  LET u == Until(db.list, i)
                     r == m[db.list[i].id]
                 IN  IF db.on THEN u <= r + g
                     ELSE u <= r + l + db.interval /\ u <= r + l + db.list[1].left
      <4> DEFINE x == Until(db.list, i)
                 w == db.rem[db.list[i].id]
                 z == m[db.list[i].id]
                 f == db.list[1].left
                 v == db.interval
                 y == db.lag
      <4>1. x \in Nat /\ db.list[i].id \in Timers
        BY <1>1, ItemFacts
      <4>2. w \in Nat /\ z \in Nat /\ w <= z + 1
        BY <2>6, <4>1
      <4>3. Len(db.list) \in Nat /\ f \in Nat
        <5>1. Len(db.list) \in Nat
          BY <1>1, ItemsOfSeq
        <5>2. 1 \in 1..Len(db.list)
          BY <5>1
        <5> QED BY <1>1, <5>1, <5>2, ItemsOfSeq
      <4>4. IF db.on THEN x <= w + db.gone ELSE x <= w + db.lag + v /\ x <= w + db.lag + f
        BY <2>10 DEF Counts
      <4>5. CASE db.on
        <5>1. x <= w + db.gone /\ g = db.gone + 1
          BY <2>7, <4>4, <4>5
        <5> HIDE DEF x, w, z
        <5>2. x <= z + g
          BY <2>2, <4>1, <4>2, <5>1
        <5> QED BY <4>5, <5>2 DEF x, z
      <4>6. CASE ~db.on
        <5>1. db.list # <<>>
          BY <4>3
        <5>2. l = y + 1 /\ x <= w + y + v /\ x <= w + y + f
          BY <2>7, <2>10, <4>4, <4>6, <5>1 DEF Awake
        <5>3. v \in Nat /\ y \in Nat
          BY <2>2
        <5> HIDE DEF x, w, z, f, v, y
        <5>4. x <= z + l + v
          BY <4>1, <4>2, <5>2, <5>3
        <5>5. x <= z + l + f
          BY <4>1, <4>2, <4>3, <5>2, <5>3
        <5> QED BY <4>6, <5>4, <5>5 DEF x, z, f, v
      <4> QED BY <4>5, <4>6
    <3>3. Counts(db')
      BY <2>8, <3>2 DEF Counts
    <3> QED BY <3>1, <3>3
  <2> QED BY <1>1, <2>1, <2>9, <2>10 DEF Inv
<1>8. CASE UNCHANGED vars
  BY <1>8 DEF vars, Inv
<1> QED BY <1>2, <1>3, <1>4, <1>5, <1>6, <1>7, <1>8 DEF Next

\* Inv is an invariant.
THEOREM Invariance == Spec => []Inv
<1>1. Init => Inv
  BY InitInv
<1>2. Inv /\ [Next]_vars => Inv'
  BY NextInv
<1> QED BY <1>1, <1>2, PTL DEF Spec

\* The list holds each timer at most once and no item is negative: no order of
\* calls, interrupts and handlers breaks hp_timer_list, lost messages or not.
THEOREM Typing == Spec => []TypeOK
<1>1. Inv => TypeOK
  <2> SUFFICES ASSUME Inv PROVE TypeOK
    OBVIOUS
  <2>1. db \in State /\ Once(db) /\ db.gone <= db.period /\ period_of \in [Timers -> Intervals]
    BY DEF Inv, Typed
  <2>2. db.gone \in 0..db.period
    BY <2>1, StateFields
  <2> QED BY <2>1, <2>2, StateFields DEF TypeOK, Items, Once
<1> QED BY <1>1, Invariance, PTL

\* As long as the queue of the task takes the messages of the interrupt, no
\* order of calls, interrupts, handlers and callbacks leaves the list asleep.
THEOREM NeverAsleep ==
  ASSUME "lost" \notin May
  PROVE  Spec => []AlwaysArmed
<1>1. Inv => AlwaysArmed
  BY DEF Inv, Awake, AlwaysArmed
<1> QED BY <1>1, Invariance, PTL

\* Nor is a timer ever late: what the list and the hardware timer still count
\* is no more than what the timer has to wait.
THEOREM OnTime ==
  ASSUME "lost" \notin May
  PROVE  Spec => []NeverLate
<1>1. Inv => NeverLate
  <2> SUFFICES ASSUME Inv, db.posted = 0, NEW i \in DOMAIN db.list
               PROVE  Until(db.list, i) - db.gone <= db.rem[db.list[i].id]
    BY DEF NeverLate
  <2>1. db \in State /\ Counts(db) /\ Awake(db)
    BY DEF Inv, Typed
  <2>2. db.list \in Seq(Items) /\ db.gone \in Nat /\ db.on \in BOOLEAN
    BY <2>1, StateFields
  <2>3. i \in 1..Len(db.list) /\ Len(db.list) \in Nat
    BY <2>2, ItemsOfSeq
  <2>4. db.list # <<>>
    BY <2>3
  <2>5. db.on
    BY <2>1, <2>4 DEF Awake
  <2> DEFINE x == Until(db.list, i)
             w == db.rem[db.list[i].id]
  <2>6. x <= w + db.gone
    BY <2>1, <2>3, <2>5 DEF Counts
  <2>7. x \in Nat /\ w \in Nat
    BY <2>1, <2>3, ItemFacts
  <2> HIDE DEF x, w
  <2>8. x - db.gone <= w
    BY <2>2, <2>6, <2>7
  <2> QED BY <2>8 DEF x, w
<1> QED BY <1>1, Invariance, PTL
=============================================================================
