-------------------------- MODULE SchedulersProofs --------------------------
(***************************************************************************)
(* Proofs about the queues of the schedulers, for any number of threads    *)
(* and futexes, any limit of the lock-free adversary and any depth of PCT. *)
(*                                                                         *)
(* Every step is shown to have one of ten effects on the places of         *)
(* threads (Effect): the containers of the five schedulers, of the         *)
(* WaitQueue and of the adversary differ, what a step does with them is    *)
(* one of a spawn, a dispatch, a requeue, a suspension, a resumption, a    *)
(* park, a wake-up of one or of all, an end, or nothing. The effects keep  *)
(* each thread in one place, and each is a step of SchedulerSpec.          *)
(*                                                                         *)
(* The theorems assume BurnsAreSafe: the runs of PCT and of the            *)
(* cooperative scheduler end without threads to burn, which those two      *)
(* do not survive (run scheduler_burn).                                    *)
(***************************************************************************)
EXTENDS Schedulers, FiniteSetTheorems, SequenceTheorems, TLAPS

(* Every set of naturals that is not empty has a least element, *)
LEMMA LeastNatural ==
  ASSUME NEW S \in SUBSET Nat, S # {} PROVE \E m \in S : \A n \in S : m <= n
<1> DEFINE R == OpToRel(<, Nat)
<1>1. \A m, n \in Nat : <<m, n>> \in R <=> m < n
  BY DEF OpToRel
<1>2. IsWellFoundedOn(R, Nat)
  BY NatLessThanWellFounded
<1> HIDE DEF R
<1>3. \E m \in S : \A n \in S : ~(<<n, m>> \in R)
  BY <1>2, WFMin
<1>4. PICK m \in S : \A n \in S : ~(<<n, m>> \in R)
  BY <1>3
<1>5. ASSUME NEW n \in S PROVE m <= n
  <2>1. m \in Nat /\ n \in Nat
    OBVIOUS
  <2>2. ~(n < m)
    BY <1>1, <1>4, <2>1, Zenon
  <2>3. QED
    BY <2>1, <2>2
<1>6. QED
  BY <1>5

(* ... and a greatest one, if it has a bound. *)
LEMMA GreatestNatural ==
  ASSUME NEW S \in SUBSET Nat, S # {}, NEW b \in Nat, \A n \in S : n <= b
  PROVE  \E m \in S : \A n \in S : m >= n
<1> DEFINE D == {b - n : n \in S}
<1>1. D \in SUBSET Nat /\ D # {}
  <2>1. \A n \in S : b - n \in Nat
    OBVIOUS
  <2>2. QED
    BY <2>1
<1>2. PICK d \in D : \A e \in D : d <= e
  BY <1>1, LeastNatural
<1>3. PICK m \in S : d = b - m
  OBVIOUS
<1>4. ASSUME NEW n \in S PROVE m >= n
  <2>1. b - n \in D
    OBVIOUS
  <2>2. b - m <= b - n /\ m \in Nat /\ n \in Nat
    BY <1>2, <1>3, <2>1
  <2>3. QED
    BY <2>2
<1>5. QED
  BY <1>4

(* Induction over the natural numbers, and over the subsets of a finite set *)
LEMMA NumbersInduction ==
  ASSUME NEW W, 0 \in W, \A n \in Nat : n \in W => n + 1 \in W PROVE Nat \subseteq W
<1> DEFINE S == {n \in Nat : n \notin W}
<1>1. ASSUME S # {} PROVE FALSE
  <2>1. PICK m \in S : \A n \in S : m <= n
    BY <1>1, LeastNatural
  <2>2. m \in Nat /\ m # 0
    OBVIOUS
  <2>3. PICK p : p = m - 1
    OBVIOUS
  <2>4. p \in Nat /\ p + 1 = m /\ ~(m <= p)
    BY <2>2, <2>3
  <2>5. p \notin S
    BY <2>1, <2>4
  <2>6. QED
    BY <2>1, <2>4, <2>5
<1>2. QED
  BY <1>1

(* ... a set W holds a subset if it holds it with any element removed. *)
LEMMA SubsetInduction ==
  ASSUME NEW T, IsFiniteSet(T), NEW W,
         \A s \in SUBSET T : (\A x \in s : s \ {x} \in W) => s \in W
  PROVE  SUBSET T \subseteq W
<1> DEFINE N == {n \in Nat : \A s \in SUBSET T : Cardinality(s) = n => s \in W}
<1>1. \A s \in SUBSET T : IsFiniteSet(s) /\ Cardinality(s) \in Nat
  BY FS_Subset, FS_CardinalityType
<1>2. 0 \in N
  <2>1. ASSUME NEW s \in SUBSET T, Cardinality(s) = 0 PROVE s \in W
    <3>1. s = {}
      BY <1>1, <2>1, FS_EmptySet
    <3>2. QED
      BY <3>1
  <2>2. QED
    BY <2>1
<1>3. ASSUME NEW n \in Nat, n \in N PROVE n + 1 \in N
  <2>1. ASSUME NEW s \in SUBSET T, Cardinality(s) = n + 1 PROVE s \in W
    <3>1. ASSUME NEW x \in s PROVE s \ {x} \in W
      <4>1. Cardinality(s \ {x}) = n
        BY <1>1, <2>1, FS_RemoveElement
      <4>2. QED
        BY <1>3, <4>1
    <3>2. QED
      BY <3>1
  <2>2. QED
    BY <2>1
<1> HIDE DEF N
<1>4. Nat \subseteq N
  BY <1>2, <1>3, NumbersInduction
<1>5. QED
  BY <1>1, <1>4 DEF N

-----------------------------------------------------------------------------
(* Containers *)

(* A thread is in a container once. *)
IsQueue(q) == q \in Seq(Thread) /\ IsInjective(q)

(* What a sequence is, for the provers *)
LEMMA QueueFacts ==
  ASSUME NEW q, IsQueue(q)
  PROVE  /\ q \in Seq(Thread) /\ Len(q) \in Nat /\ DOMAIN q = 1 .. Len(q)
         /\ \A i \in 1 .. Len(q) : q[i] \in Thread
         /\ \A i, j \in 1 .. Len(q) : q[i] = q[j] => i = j
         /\ \A t : t \in Range(q) <=> \E i \in 1 .. Len(q) : q[i] = t
         /\ Range(q) \subseteq Thread
         /\ q = <<>> <=> Range(q) = {}
<1>1. q \in Seq(Thread) /\ Len(q) \in Nat /\ DOMAIN q = 1 .. Len(q)
  BY DEF IsQueue
<1>2. \A i \in 1 .. Len(q) : q[i] \in Thread
  BY <1>1
<1>3. \A i, j \in 1 .. Len(q) : q[i] = q[j] => i = j
  BY <1>1 DEF IsQueue, IsInjective
<1>4. \A t : t \in Range(q) <=> \E i \in 1 .. Len(q) : q[i] = t
  BY <1>1 DEF Range
<1>5. q = <<>> <=> Len(q) = 0
  BY <1>1
<1>6. Len(q) = 0 <=> Range(q) = {}
  <2>1. CASE Len(q) = 0
    <3>1. \A i \in 1 .. Len(q) : FALSE
      BY <2>1
    <3>2. QED
      BY <1>4, <2>1, <3>1
  <2>2. CASE Len(q) # 0
    <3>1. 1 \in 1 .. Len(q)
      BY <1>1, <2>2
    <3>2. QED
      BY <1>4, <2>2, <3>1
  <2>3. QED
    BY <2>1, <2>2
<1>7. QED
  BY <1>1, <1>2, <1>3, <1>4, <1>5, <1>6

(* A new element at place k *)
Inserts(q, r, k, t) ==
  /\ r \in Seq(Thread) /\ Len(r) = Len(q) + 1 /\ k \in 1 .. (Len(q) + 1)
  /\ \A j \in 1 .. (Len(q) + 1) :
       r[j] = IF j < k THEN q[j] ELSE IF j = k THEN t ELSE q[j - 1]

(* It joins the elements. *)
LEMMA Added ==
  ASSUME NEW q, IsQueue(q), NEW t \in Thread, t \notin Range(q), NEW k, NEW r, Inserts(q, r, k, t)
  PROVE  IsQueue(r) /\ Range(r) = Range(q) \cup {t}
<1>0. PICK n \in Nat : n = Len(q)
  BY QueueFacts
<1> USE <1>0 DEF Inserts
<1>1. /\ \A i, j \in 1 .. n : q[i] = q[j] => i = j
      /\ \A u : u \in Range(q) <=> \E i \in 1 .. n : q[i] = u
  BY QueueFacts
<1>2. \A i \in 1 .. n : q[i] # t
  BY <1>1
<1>3. DOMAIN r = 1 .. (n + 1)
  OBVIOUS
<1>4. \A u : u \in Range(r) <=> \E j \in 1 .. (n + 1) : r[j] = u
  BY <1>3 DEF Range
<1>5. ASSUME NEW i \in 1 .. n PROVE q[i] \in Range(r)
  <2>1. CASE i < k
    <3>1. i \in 1 .. (n + 1) /\ r[i] = q[i]
      BY <2>1
    <3>2. QED
      BY <1>4, <3>1
  <2>2. CASE ~(i < k)
    <3>1. i + 1 \in 1 .. (n + 1) /\ ~(i + 1 < k) /\ i + 1 # k /\ (i + 1) - 1 = i
      BY <2>2
    <3>2. r[i + 1] = q[i]
      BY <3>1
    <3>3. QED
      BY <1>4, <3>1, <3>2
  <2>3. QED
    BY <2>1, <2>2
<1>6. t \in Range(r)
  <2>1. k \in 1 .. (n + 1) /\ ~(k < k) /\ r[k] = t
    OBVIOUS
  <2>2. QED
    BY <1>4, <2>1
<1>7. ASSUME NEW j \in 1 .. (n + 1) PROVE r[j] = t \/ r[j] \in Range(q)
  <2>1. CASE j < k
    <3>1. j \in 1 .. n /\ r[j] = q[j]
      BY <2>1
    <3>2. QED
      BY <1>1, <3>1
  <2>2. CASE j = k
    BY <2>2
  <2>3. CASE ~(j < k) /\ j # k
    <3>1. j - 1 \in 1 .. n /\ r[j] = q[j - 1]
      BY <2>3
    <3>2. QED
      BY <1>1, <3>1
  <2>4. QED
    BY <2>1, <2>2, <2>3
<1>8. Range(r) = Range(q) \cup {t}
  <2>1. \A u : u \in Range(r) => u \in Range(q) \/ u = t
    BY <1>4, <1>7
  <2>2. \A u : u \in Range(q) => u \in Range(r)
    BY <1>1, <1>5
  <2>3. QED
    BY <1>6, <2>1, <2>2
<1>9. ASSUME NEW i \in 1 .. (n + 1), NEW j \in 1 .. (n + 1), r[i] = r[j] PROVE i = j
  <2>1. ASSUME NEW x \in 1 .. (n + 1), x # k
        PROVE  \E p \in 1 .. n : r[x] = q[p] /\ p = IF x < k THEN x ELSE x - 1
    <3>1. CASE x < k
      BY <3>1
    <3>2. CASE x > k
      BY <3>2
    <3>3. QED
      BY <2>1, <3>1, <3>2
  <2>2. r[k] = t /\ i \in Nat /\ j \in Nat /\ k \in Nat
    OBVIOUS
  <2>3. CASE i = k
    <3>1. CASE j # k
      BY <1>2, <1>9, <2>1, <2>2, <2>3, <3>1
    <3>2. QED
      BY <2>3, <3>1
  <2>4. CASE j = k /\ i # k
    BY <1>2, <1>9, <2>1, <2>2, <2>4
  <2>5. CASE i # k /\ j # k
    <3>1. PICK p \in 1 .. n : r[i] = q[p] /\ p = IF i < k THEN i ELSE i - 1
      BY <2>1, <2>5
    <3>2. PICK o \in 1 .. n : r[j] = q[o] /\ o = IF j < k THEN j ELSE j - 1
      BY <2>1, <2>5
    <3>3. p = o
      <4>1. q[p] = q[o]
        BY <1>9, <3>1, <3>2
      <4>2. QED
        BY <1>1, <4>1
    <3>4. QED
      BY <2>2, <2>5, <3>1, <3>2, <3>3
  <2>6. QED
    BY <2>3, <2>4, <2>5
<1>10. IsQueue(r)
  BY <1>3, <1>9 DEF IsQueue, IsInjective
<1>11. QED
  BY <1>8, <1>10

(* ... at the back, *)
LEMMA AppendAdds ==
  ASSUME NEW q, IsQueue(q), NEW t \in Thread, t \notin Range(q)
  PROVE  IsQueue(Append(q, t)) /\ Range(Append(q, t)) = Range(q) \cup {t}
<1>1. PICK n \in Nat : n = Len(q)
  BY QueueFacts
<1>2. PICK r : r = Append(q, t)
  OBVIOUS
<1>3. /\ r \in Seq(Thread) /\ Len(r) = n + 1
      /\ \A j \in 1 .. n : r[j] = q[j]
      /\ r[n + 1] = t
  BY <1>1, <1>2, QueueFacts
<1>4. PICK k \in 1 .. (n + 1) : k = n + 1
  OBVIOUS
<1>5. \A j \in 1 .. (n + 1) : r[j] = IF j < k THEN q[j] ELSE IF j = k THEN t ELSE q[j - 1]
  BY <1>3, <1>4
<1>6. Inserts(q, r, k, t)
  BY <1>1, <1>3, <1>5 DEF Inserts
<1>7. QED
  BY <1>2, <1>6, Added

(* ... in front, *)
LEMMA PrependAdds ==
  ASSUME NEW q, IsQueue(q), NEW t \in Thread, t \notin Range(q)
  PROVE  IsQueue(<<t>> \o q) /\ Range(<<t>> \o q) = Range(q) \cup {t}
<1>1. PICK n \in Nat : n = Len(q)
  BY QueueFacts
<1>2. PICK r : r = <<t>> \o q
  OBVIOUS
<1>3. q \in Seq(Thread) /\ <<t>> \in Seq(Thread) /\ Len(<<t>>) = 1 /\ <<t>>[1] = t
  BY QueueFacts
<1>4. /\ r \in Seq(Thread) /\ Len(r) = 1 + n
      /\ \A j \in 1 .. (1 + n) : r[j] = IF j <= 1 THEN <<t>>[j] ELSE q[j - 1]
  BY <1>1, <1>2, <1>3, ConcatProperties
<1>5. PICK k \in 1 .. (n + 1) : k = 1
  OBVIOUS
<1>6. \A j \in 1 .. (n + 1) : r[j] = IF j < k THEN q[j] ELSE IF j = k THEN t ELSE q[j - 1]
  BY <1>3, <1>4, <1>5
<1>7. Len(r) = n + 1
  BY <1>4
<1>8. Inserts(q, r, k, t)
  BY <1>1, <1>4, <1>6, <1>7 DEF Inserts
<1>9. QED
  BY <1>2, <1>8, Added

(* ... or where the order of ids asks for it. *)
LEMMA SortedAdds ==
  ASSUME NEW q, IsQueue(q), NEW t \in Thread, t \notin Range(q)
  PROVE  IsQueue(Sorted(q, t)) /\ Range(Sorted(q, t)) = Range(q) \cup {t}
<1>1. PICK n \in Nat : n = Len(q)
  BY QueueFacts
<1>2. PICK S : S = {0} \cup {i \in DOMAIN q : q[i] <= t}
  OBVIOUS
<1>3. S \in SUBSET Nat /\ S # {} /\ \A i \in S : i <= n
  BY <1>1, <1>2, QueueFacts
<1>4. \E m \in S : \A i \in S : m >= i
  BY <1>1, <1>3, GreatestNatural
<1>5. PICK m : m = Max(S)
  OBVIOUS
<1>6. m \in S
  BY <1>4, <1>5 DEF Max
<1>7. PICK k \in 1 .. (n + 1) : k = 1 + m
  BY <1>1, <1>3, <1>6
<1>8. PICK r : r = InsertAt(q, k, t)
  OBVIOUS
<1>9. r = Sorted(q, t)
  BY <1>2, <1>5, <1>7, <1>8 DEF Sorted
<1>10. q \in Seq(Thread) /\ DOMAIN q = 1 .. n /\ \A i \in 1 .. n : q[i] \in Thread
  BY <1>1, QueueFacts
<1>11. PICK a : a = SubSeq(q, 1, k - 1)
  OBVIOUS
<1>12. PICK b : b = SubSeq(q, k, n)
  OBVIOUS
<1>13. a \in Seq(Thread) /\ Len(a) = k - 1 /\ \A j \in 1 .. (k - 1) : a[j] = q[j]
  BY <1>1, <1>10, <1>11
<1>14. b \in Seq(Thread) /\ Len(b) = n + 1 - k /\ \A j \in 1 .. (n + 1 - k) : b[j] = q[k + j - 1]
  BY <1>1, <1>10, <1>12
<1>15. PICK c : c = a \o <<t>>
  OBVIOUS
<1>16. /\ c \in Seq(Thread) /\ Len(c) = k
       /\ \A j \in 1 .. k : c[j] = IF j < k THEN q[j] ELSE t
  <2>1. <<t>> \in Seq(Thread) /\ Len(<<t>>) = 1 /\ <<t>>[1] = t
    OBVIOUS
  <2>2. /\ c \in Seq(Thread) /\ Len(c) = Len(a) + 1
        /\ \A j \in 1 .. (Len(a) + 1) : c[j] = IF j <= Len(a) THEN a[j] ELSE <<t>>[j - Len(a)]
    BY <1>13, <1>15, <2>1, ConcatProperties
  <2>3. QED
    BY <1>13, <2>1, <2>2
<1>17. r = c \o b
  BY <1>1, <1>8, <1>11, <1>12, <1>15 DEF InsertAt
<1>18. /\ r \in Seq(Thread) /\ Len(r) = Len(c) + Len(b)
       /\ \A j \in 1 .. (Len(c) + Len(b)) : r[j] = IF j <= Len(c) THEN c[j] ELSE b[j - Len(c)]
  BY <1>14, <1>16, <1>17, ConcatProperties
<1>19. Len(r) = n + 1
  BY <1>14, <1>16, <1>18
<1>20. ASSUME NEW j \in 1 .. (n + 1)
       PROVE  r[j] = IF j < k THEN q[j] ELSE IF j = k THEN t ELSE q[j - 1]
  <2>1. r[j] = IF j <= k THEN c[j] ELSE b[j - k]
    BY <1>14, <1>16, <1>18
  <2>2. CASE j <= k
    BY <1>16, <2>1, <2>2
  <2>3. CASE j > k
    <3>1. j - k \in 1 .. (n + 1 - k) /\ k + (j - k) - 1 = j - 1
      BY <2>3
    <3>2. b[j - k] = q[j - 1]
      BY <1>14, <3>1
    <3>3. QED
      BY <2>1, <2>3, <3>2
  <2>4. QED
    BY <2>2, <2>3
<1>21. Inserts(q, r, k, t)
  BY <1>1, <1>18, <1>19, <1>20 DEF Inserts
<1>22. QED
  BY <1>9, <1>21, Added

(* What the run queue and the futex queues make of it. *)
LEMMA QueuedAdds ==
  ASSUME NEW q, IsQueue(q), NEW t \in Thread, t \notin Range(q)
  PROVE  /\ IsQueue(Queued(q, t)) /\ Range(Queued(q, t)) = Range(q) \cup {t}
         /\ IsQueue(Pushed(q, t)) /\ Range(Pushed(q, t)) = Range(q) \cup {t}
  BY AppendAdds, SortedAdds DEF Queued, Pushed

(* The elements of q but that at place k, each at its place p[j] in q *)
Drops(q, r, k, p) ==
  /\ r \in Seq(Thread) /\ Len(r) = Len(q) - 1 /\ k \in 1 .. Len(q)
  /\ \A j \in 1 .. (Len(q) - 1) : p[j] \in 1 .. Len(q) /\ p[j] # k /\ r[j] = q[p[j]]
  /\ \A i, j \in 1 .. (Len(q) - 1) : p[i] = p[j] => i = j
  /\ \A i \in 1 .. Len(q) : i # k => \E j \in 1 .. (Len(q) - 1) : p[j] = i

(* The others stay. *)
LEMMA Dropping ==
  ASSUME NEW q, IsQueue(q), NEW k, NEW r, NEW p, Drops(q, r, k, p)
  PROVE  IsQueue(r) /\ Range(r) = Range(q) \ {q[k]}
<1>1. PICK n \in Nat : n = Len(q)
  BY QueueFacts
<1>2. PICK m \in Int : m = n - 1
  OBVIOUS
<1>3. /\ r \in Seq(Thread) /\ Len(r) = m /\ k \in 1 .. n
      /\ \A j \in 1 .. m : p[j] \in 1 .. n /\ p[j] # k /\ r[j] = q[p[j]]
      /\ \A i, j \in 1 .. m : p[i] = p[j] => i = j
      /\ \A i \in 1 .. n : i # k => \E j \in 1 .. m : p[j] = i
  BY <1>1, <1>2 DEF Drops
<1>4. /\ \A i, j \in 1 .. n : q[i] = q[j] => i = j
      /\ \A u : u \in Range(q) <=> \E i \in 1 .. n : q[i] = u
  BY <1>1, QueueFacts
<1>5. DOMAIN r = 1 .. m
  BY <1>3
<1>6. \A u : u \in Range(r) <=> \E j \in 1 .. m : r[j] = u
  BY <1>5 DEF Range
<1>7. ASSUME NEW u PROVE u \in Range(r) <=> u \in Range(q) /\ u # q[k]
  <2>1. ASSUME u \in Range(r) PROVE u \in Range(q) /\ u # q[k]
    <3>1. PICK j \in 1 .. m : r[j] = u
      BY <1>6, <2>1
    <3>2. p[j] \in 1 .. n /\ p[j] # k /\ q[p[j]] = u
      BY <1>3, <3>1
    <3>3. QED
      BY <1>3, <1>4, <3>2
  <2>2. ASSUME u \in Range(q), u # q[k] PROVE u \in Range(r)
    <3>1. PICK i \in 1 .. n : q[i] = u
      BY <1>4, <2>2
    <3>2. PICK j \in 1 .. m : p[j] = i
      BY <1>3, <2>2, <3>1
    <3>3. QED
      BY <1>3, <1>6, <3>1, <3>2
  <2>3. QED
    BY <2>1, <2>2
<1>8. ASSUME NEW i \in 1 .. m, NEW j \in 1 .. m, r[i] = r[j] PROVE i = j
  <2>1. q[p[i]] = q[p[j]] /\ p[i] \in 1 .. n /\ p[j] \in 1 .. n
    BY <1>3, <1>8
  <2>2. p[i] = p[j]
    BY <1>4, <2>1
  <2>3. QED
    BY <1>3, <2>2
<1>9. IsQueue(r)
  BY <1>3, <1>5, <1>8 DEF IsQueue, IsInjective
<1>10. QED
  BY <1>7, <1>9

(* ThreadSet fills the hole with its last element. *)
LEMMA SwapDrops ==
  ASSUME NEW q, IsQueue(q), NEW k \in DOMAIN q
  PROVE  \E p : Drops(q, SubSeq([q EXCEPT ![k] = q[Len(q)]], 1, Len(q) - 1), k, p)
<1>1. PICK n \in Nat : n = Len(q)
  BY QueueFacts
<1>2. /\ q \in Seq(Thread) /\ DOMAIN q = 1 .. n /\ k \in 1 .. n
      /\ \A i \in 1 .. n : q[i] \in Thread
  BY <1>1, QueueFacts
<1>3. PICK m \in Nat : m = n - 1
  BY <1>2
<1>4. PICK e : e = [q EXCEPT ![k] = q[n]]
  OBVIOUS
<1>5. \A j \in 1 .. n : e[j] = IF j = k THEN q[n] ELSE q[j]
  BY <1>2, <1>4
<1>6. PICK r : r = SubSeq(e, 1, m)
  OBVIOUS
<1>7. r \in Seq(Thread) /\ Len(r) = m /\ \A j \in 1 .. m : r[j] = e[j]
  <2>1. \A j \in 1 .. m : e[j] \in Thread
    BY <1>2, <1>3, <1>5
  <2>2. /\ r \in Seq(Thread) /\ Len(r) = IF 1 <= m THEN m - 1 + 1 ELSE 0
        /\ \A j \in 1 .. (m - 1 + 1) : r[j] = e[1 + j - 1]
    BY <1>6, <2>1, SubSeqProperties
  <2>3. QED
    BY <2>2
<1>8. PICK p : p = [j \in 1 .. m |-> IF j = k THEN n ELSE j]
  OBVIOUS
<1>9. \A j \in 1 .. m : p[j] \in 1 .. n /\ p[j] # k /\ r[j] = q[p[j]]
  BY <1>2, <1>3, <1>5, <1>7, <1>8
<1>10. \A i, j \in 1 .. m : p[i] = p[j] => i = j
  BY <1>3, <1>8
<1>11. ASSUME NEW i \in 1 .. n, i # k PROVE \E j \in 1 .. m : p[j] = i
  <2>1. CASE i = n
    <3>1. k \in 1 .. m /\ p[k] = i
      BY <1>2, <1>3, <1>8, <1>11, <2>1
    <3>2. QED
      BY <3>1
  <2>2. CASE i # n
    <3>1. i \in 1 .. m /\ p[i] = i
      BY <1>3, <1>8, <1>11, <2>2
    <3>2. QED
      BY <3>1
  <2>3. QED
    BY <2>1, <2>2
<1>12. Drops(q, r, k, p)
  BY <1>1, <1>2, <1>3, <1>7, <1>9, <1>10, <1>11 DEF Drops
<1>13. r = SubSeq([q EXCEPT ![k] = q[Len(q)]], 1, Len(q) - 1)
  BY <1>1, <1>3, <1>4, <1>6
<1>14. QED
  BY <1>12, <1>13

(* The lists close it. *)
LEMMA CloseDrops ==
  ASSUME NEW q, IsQueue(q), NEW k \in DOMAIN q, NEW r, NEW m \in Nat, m = Len(q) - 1,
         r \in Seq(Thread), Len(r) = m, \A j \in 1 .. m : r[j] = IF j < k THEN q[j] ELSE q[j + 1]
  PROVE  \E p : Drops(q, r, k, p)
<1>1. PICK n \in Nat : n = Len(q)
  BY QueueFacts
<1>2. DOMAIN q = 1 .. n /\ k \in 1 .. n /\ m = n - 1
  BY <1>1, QueueFacts
<1>3. PICK p : p = [j \in 1 .. m |-> IF j < k THEN j ELSE j + 1]
  OBVIOUS
<1>4. \A j \in 1 .. m : p[j] \in 1 .. n /\ p[j] # k /\ r[j] = q[p[j]]
  BY <1>2, <1>3
<1>5. \A i, j \in 1 .. m : p[i] = p[j] => i = j
  BY <1>2, <1>3
<1>6. ASSUME NEW i \in 1 .. n, i # k PROVE \E j \in 1 .. m : p[j] = i
  <2>1. CASE i < k
    <3>1. i \in 1 .. m /\ p[i] = i
      BY <1>2, <1>3, <2>1
    <3>2. QED
      BY <3>1
  <2>2. CASE i > k
    <3>1. PICK j \in 1 .. m : j = i - 1
      BY <1>2, <2>2
    <3>2. p[j] = i
      BY <1>2, <1>3, <2>2, <3>1
    <3>3. QED
      BY <3>2
  <2>3. QED
    BY <1>2, <1>6, <2>1, <2>2
<1>7. Drops(q, r, k, p)
  BY <1>1, <1>2, <1>4, <1>5, <1>6 DEF Drops
<1>8. QED
  BY <1>7

(* An element of a container leaves it. *)
LEMMA DroppedRemoves ==
  ASSUME NEW q, IsQueue(q), NEW k \in DOMAIN q
  PROVE  /\ IsQueue(Dropped(q, k)) /\ Range(Dropped(q, k)) = Range(q) \ {q[k]}
         /\ Len(Dropped(q, k)) = Len(q) - 1
<1>1. CASE kind = "random"
  <2>1. PICK p : Drops(q, Dropped(q, k), k, p)
    BY <1>1, SwapDrops DEF Dropped
  <2>2. IsQueue(Dropped(q, k)) /\ Range(Dropped(q, k)) = Range(q) \ {q[k]}
    BY <2>1, Dropping
  <2>3. QED
    BY <2>1, <2>2 DEF Drops
<1>2. CASE kind # "random"
  <2>1. PICK n \in Nat : n = Len(q)
    BY QueueFacts
  <2>2. /\ q \in Seq(Thread) /\ DOMAIN q = 1 .. n /\ k \in 1 .. n
        /\ \A i \in 1 .. n : q[i] \in Thread
    BY <2>1, QueueFacts
  <2>3. PICK m \in Nat : m = n - 1
    BY <2>2
  <2>4. PICK a : a = SubSeq(q, 1, k - 1)
    OBVIOUS
  <2>5. PICK b : b = SubSeq(q, k + 1, n)
    OBVIOUS
  <2>6. a \in Seq(Thread) /\ Len(a) = k - 1 /\ \A j \in 1 .. (k - 1) : a[j] = q[j]
    BY <2>1, <2>2, <2>4
  <2>7. b \in Seq(Thread) /\ Len(b) = n - k /\ \A j \in 1 .. (n - k) : b[j] = q[k + j]
    BY <2>1, <2>2, <2>5
  <2>8. PICK r : r = a \o b
    OBVIOUS
  <2>9. /\ r \in Seq(Thread) /\ Len(r) = Len(a) + Len(b)
        /\ \A j \in 1 .. (Len(a) + Len(b)) : r[j] = IF j <= Len(a) THEN a[j] ELSE b[j - Len(a)]
    BY <2>6, <2>7, <2>8, ConcatProperties
  <2>10. Len(r) = m
    BY <2>2, <2>3, <2>6, <2>7, <2>9
  <2>11. ASSUME NEW j \in 1 .. m PROVE r[j] = IF j < k THEN q[j] ELSE q[j + 1]
    <3>1. r[j] = IF j <= k - 1 THEN a[j] ELSE b[j - (k - 1)]
      BY <2>2, <2>3, <2>6, <2>7, <2>9
    <3>2. CASE j < k
      BY <2>2, <2>6, <3>1, <3>2
    <3>3. CASE ~(j < k)
      <4>1. PICK i \in 1 .. (n - k) : i = j - (k - 1)
        BY <2>2, <2>3, <3>3
      <4>2. k + i = j + 1 /\ b[i] = q[k + i]
        BY <2>2, <2>7, <4>1
      <4>3. QED
        BY <2>2, <3>1, <3>3, <4>1, <4>2
    <3>4. QED
      BY <3>2, <3>3
  <2>12. r = Dropped(q, k)
    BY <1>2, <2>1, <2>4, <2>5, <2>8 DEF Dropped, RemoveAt
  <2>13. PICK p : Drops(q, r, k, p)
    BY <2>1, <2>3, <2>9, <2>10, <2>11, CloseDrops
  <2>14. IsQueue(r) /\ Range(r) = Range(q) \ {q[k]}
    BY <2>13, Dropping
  <2>15. QED
    BY <2>12, <2>13, <2>14 DEF Drops
<1>3. QED
  BY <1>1, <1>2

(* ... the one that is asked for, *)
LEMMA WithoutRemoves ==
  ASSUME NEW q, IsQueue(q), NEW t
  PROVE  IsQueue(Without(q, t)) /\ Range(Without(q, t)) = Range(q) \ {t}
<1>1. CASE t \notin Range(q)
  BY <1>1 DEF Without
<1>2. CASE t \in Range(q)
  <2>1. PICK k : k = CHOOSE i \in DOMAIN q : q[i] = t
    OBVIOUS
  <2>2. k \in DOMAIN q /\ q[k] = t
    BY <1>2, <2>1 DEF Range
  <2>3. Without(q, t) = Dropped(q, k)
    BY <1>2, <2>1 DEF Without
  <2>4. QED
    BY <2>2, <2>3, DroppedRemoves
<1>3. QED
  BY <1>1, <1>2

(* ... or the first. *)
LEMMA TailRemoves ==
  ASSUME NEW q, IsQueue(q), q # <<>>
  PROVE  /\ Head(q) \in Range(q) /\ IsQueue(Tail(q)) /\ Range(Tail(q)) = Range(q) \ {Head(q)}
<1>1. PICK n \in Nat : n = Len(q)
  BY QueueFacts
<1>2. q \in Seq(Thread) /\ DOMAIN q = 1 .. n /\ n # 0 /\ Head(q) = q[1]
  BY <1>1, QueueFacts
<1>3. PICK m \in Nat : m = n - 1
  BY <1>2
<1>4. Tail(q) \in Seq(Thread) /\ Len(Tail(q)) = m /\ \A j \in 1 .. m : Tail(q)[j] = q[j + 1]
  BY <1>1, <1>2, <1>3, HeadTailProperties
<1>5. PICK k \in DOMAIN q : k = 1
  BY <1>2
<1>6. \A j \in 1 .. m : Tail(q)[j] = IF j < k THEN q[j] ELSE q[j + 1]
  BY <1>4, <1>5
<1>7. PICK p : Drops(q, Tail(q), k, p)
  BY <1>1, <1>3, <1>4, <1>6, CloseDrops
<1>8. IsQueue(Tail(q)) /\ Range(Tail(q)) = Range(q) \ {q[k]}
  BY <1>7, Dropping
<1>9. q[k] \in Range(q)
  BY DEF Range
<1>10. QED
  BY <1>2, <1>5, <1>8, <1>9

(* A reversed container has the same elements. *)
LEMMA Reversed ==
  ASSUME NEW q, IsQueue(q) PROVE IsQueue(Reverse(q)) /\ Range(Reverse(q)) = Range(q)
<1>1. PICK n \in Nat : n = Len(q)
  BY QueueFacts
<1>2. /\ q \in Seq(Thread) /\ DOMAIN q = 1 .. n /\ \A i \in 1 .. n : q[i] \in Thread
      /\ \A i, j \in 1 .. n : q[i] = q[j] => i = j
  BY <1>1, QueueFacts
<1>3. PICK r : r = [i \in 1 .. n |-> q[(n - i) + 1]]
  OBVIOUS
<1>4. r = Reverse(q)
  BY <1>1, <1>3 DEF Reverse
<1>5. \A i \in 1 .. n : (n - i) + 1 \in 1 .. n /\ n - ((n - i) + 1) + 1 = i
  OBVIOUS
<1>6. r \in Seq(Thread) /\ DOMAIN r = 1 .. n /\ \A i \in 1 .. n : r[i] = q[(n - i) + 1]
  BY <1>2, <1>3, <1>5
<1>7. \A i \in 1 .. n : q[i] = r[(n - i) + 1]
  BY <1>5, <1>6
<1>8. Range(r) = Range(q)
  BY <1>2, <1>5, <1>6, <1>7 DEF Range
<1>9. ASSUME NEW i \in 1 .. n, NEW j \in 1 .. n, r[i] = r[j] PROVE i = j
  <2>1. (n - i) + 1 = (n - j) + 1
    BY <1>2, <1>5, <1>6, <1>9
  <2>2. QED
    BY <2>1
<1>10. QED
  BY <1>4, <1>6, <1>8, <1>9 DEF IsQueue, IsInjective

(* The order in which PopAll() returns the waiters does not change who they are. *)
LEMMA PopAllReturns ==
  ASSUME NEW q, IsQueue(q) PROVE IsQueue(PopAllOrder(q)) /\ Range(PopAllOrder(q)) = Range(q)
  BY Reversed DEF PopAllOrder

(* g is the function that the fold over the woken threads is computed by, on sets of their
   positions. *)
Iterates(g, q, w, D) ==
  g = [s \in D |-> IF s = {} THEN q ELSE Queued(g[s \ {Max(s)}], w[Max(s)])]

(* The last position *)
LEMMA LastOf ==
  ASSUME NEW n \in Nat, NEW s \in SUBSET (1 .. n), s # {} PROVE Max(s) \in s
<1>1. s \in SUBSET Nat /\ \A i \in s : i <= n
  OBVIOUS
<1>2. \E m \in s : \A i \in s : m >= i
  BY <1>1, GreatestNatural
<1>3. QED
  BY <1>2 DEF Max

(* There is such a function: built up by the number of positions. *)
LEMMA FoldExists ==
  ASSUME NEW q, NEW w, NEW l \in Nat PROVE \E g : Iterates(g, q, w, SUBSET (1 .. l))
<1> DEFINE D(n) == {s \in SUBSET (1 .. l) : Cardinality(s) <= n}
           W == {n \in Nat : \E g : Iterates(g, q, w, D(n))}
<1>1. IsFiniteSet(1 .. l) /\ Cardinality(1 .. l) = l
  BY FS_Interval
<1>2. \A s \in SUBSET (1 .. l) : /\ IsFiniteSet(s) /\ Cardinality(s) \in Nat
                                 /\ Cardinality(s) <= l
                                 /\ (Cardinality(s) = 0 <=> s = {})
  <2>1. ASSUME NEW s \in SUBSET (1 .. l)
        PROVE  IsFiniteSet(s) /\ Cardinality(s) <= Cardinality(1 .. l)
    BY <1>1, FS_Subset
  <2>2. ASSUME NEW s \in SUBSET (1 .. l)
        PROVE  Cardinality(s) \in Nat /\ (Cardinality(s) = 0 <=> s = {})
    BY <2>1, FS_CardinalityType, FS_EmptySet
  <2>3. QED
    BY <1>1, <2>1, <2>2
<1>3. 0 \in W
  <2>1. \A s \in D(0) : s = {}
    BY <1>2
  <2>2. Iterates([s \in D(0) |-> q], q, w, D(0))
    BY <2>1 DEF Iterates
  <2>3. QED
    BY <2>2
<1>4. ASSUME NEW n \in Nat, n \in W PROVE n + 1 \in W
  <2>1. PICK g : Iterates(g, q, w, D(n))
    BY <1>4
  <2>2. PICK m \in Nat : m = n + 1
    OBVIOUS
  <2> DEFINE h == [s \in D(m) |-> IF s = {} THEN q ELSE Queued(g[s \ {Max(s)}], w[Max(s)])]
  <2>3. \A s \in D(n) : s \in D(m)
    BY <1>2, <2>2
  <2>4. \A s \in D(n) : h[s] = g[s]
    BY <2>1, <2>3 DEF Iterates
  <2>5. ASSUME NEW s \in D(m), s # {} PROVE s \ {Max(s)} \in D(n)
    <3>1. Max(s) \in s /\ s \in SUBSET (1 .. l) /\ Cardinality(s) <= m
      BY <2>5, LastOf
    <3>2. Cardinality(s \ {Max(s)}) = Cardinality(s) - 1 /\ Cardinality(s) \in Nat
      <4>1. IsFiniteSet(s) /\ Cardinality(s) \in Nat
        BY <1>2, <3>1
      <4>2. QED
        BY <3>1, <4>1, FS_RemoveElement
    <3>3. Cardinality(s \ {Max(s)}) <= n
      BY <2>2, <3>1, <3>2
    <3>4. s \ {Max(s)} \in SUBSET (1 .. l)
      BY <3>1
    <3>5. QED
      BY <3>3, <3>4, Zenon
  <2>6. \A s \in D(m) : h[s] = IF s = {} THEN q ELSE Queued(h[s \ {Max(s)}], w[Max(s)])
    <3>1. \A s \in D(m) : s # {} => h[s \ {Max(s)}] = g[s \ {Max(s)}]
      BY <2>4, <2>5
    <3>2. \A s \in D(m) : h[s] = IF s = {} THEN q ELSE Queued(g[s \ {Max(s)}], w[Max(s)])
      OBVIOUS
    <3> HIDE DEF h, D
    <3>3. QED
      BY <3>1, <3>2, Zenon
  <2>7. h = [s \in D(m) |-> h[s]]
    OBVIOUS
  <2> HIDE DEF h, D
  <2>8. Iterates(h, q, w, D(m))
    BY <2>6, <2>7 DEF Iterates
  <2>9. QED
    BY <2>2, <2>8
<1>5. Nat \subseteq W
  <2> HIDE DEF W
  <2>1. QED
    BY <1>3, <1>4, NumbersInduction
<1>6. D(l) = SUBSET (1 .. l)
  BY <1>2
<1>7. \E g : Iterates(g, q, w, D(l))
  BY <1>5
<1>8. QED
  BY <1>6, <1>7

(* All woken threads are queued, once each. *)
LEMMA QueuedAll ==
  ASSUME NEW q, IsQueue(q), NEW w, IsQueue(w), Range(w) \cap Range(q) = {}
  PROVE  /\ IsQueue(FoldLeft(Queued, q, w))
         /\ Range(FoldLeft(Queued, q, w)) = Range(q) \cup Range(w)
<1>1. PICK l \in Nat : l = Len(w)
  BY QueueFacts
<1>2. /\ DOMAIN w = 1 .. l /\ \A i \in 1 .. l : w[i] \in Thread
      /\ \A i, j \in 1 .. l : w[i] = w[j] => i = j
      /\ \A t : t \in Range(w) <=> \E i \in 1 .. l : w[i] = t
  BY <1>1, QueueFacts
<1>3. FoldLeft(Queued, q, w) = (CHOOSE g : Iterates(g, q, w, SUBSET (1 .. l)))[1 .. l]
  BY <1>2 DEF FoldLeft, MapThenFoldSet, Iterates
<1>4. PICK g : g = CHOOSE h : Iterates(h, q, w, SUBSET (1 .. l))
  OBVIOUS
<1>5. Iterates(g, q, w, SUBSET (1 .. l))
  BY <1>4, FoldExists
<1>6. \A s \in SUBSET (1 .. l) :
        g[s] = IF s = {} THEN q ELSE Queued(g[s \ {Max(s)}], w[Max(s)])
  <2>1. g = [s \in SUBSET (1 .. l) |-> IF s = {} THEN q ELSE Queued(g[s \ {Max(s)}], w[Max(s)])]
    BY <1>5 DEF Iterates
  <2>2. PICK o : o = [s \in SUBSET (1 .. l) |->
                        IF s = {} THEN q ELSE Queued(g[s \ {Max(s)}], w[Max(s)])]
    OBVIOUS
  <2>3. \A s \in SUBSET (1 .. l) :
          o[s] = IF s = {} THEN q ELSE Queued(g[s \ {Max(s)}], w[Max(s)])
    BY <2>2
  <2>4. g = o
    BY <2>1, <2>2
  <2>5. QED
    BY <2>3, <2>4, Zenon
<1> DEFINE W == {s \in SUBSET (1 .. l) :
                   /\ IsQueue(g[s])
                   /\ \A t : t \in Range(g[s]) <=> t \in Range(q) \/ \E i \in s : w[i] = t}
<1>7. ASSUME NEW s \in SUBSET (1 .. l), \A x \in s : s \ {x} \in W PROVE s \in W
  <2>1. CASE s = {}
    <3>1. g[s] = q
      BY <1>6, <2>1
    <3>2. QED
      BY <2>1, <3>1
  <2>2. CASE s # {}
    <3>1. PICK x : x = Max(s)
      OBVIOUS
    <3>2. x \in s /\ x \in 1 .. l /\ w[x] \in Thread
      BY <1>2, <2>2, <3>1, LastOf
    <3>3. PICK z : z = g[s \ {x}]
      OBVIOUS
    <3>4. IsQueue(z) /\ \A t : t \in Range(z) <=> t \in Range(q) \/ \E i \in s \ {x} : w[i] = t
      BY <1>7, <3>2, <3>3
    <3>5. w[x] \notin Range(z)
      <4>1. w[x] \in Range(w)
        BY <1>2, <3>2
      <4>2. \A i \in s \ {x} : w[i] # w[x]
        BY <1>2, <3>2
      <4>3. QED
        BY <3>4, <4>1, <4>2
    <3>6. g[s] = Queued(z, w[x])
      BY <1>6, <2>2, <3>1, <3>3
    <3>7. IsQueue(g[s]) /\ Range(g[s]) = Range(z) \cup {w[x]}
      BY <3>2, <3>4, <3>5, <3>6, QueuedAdds
    <3>8. \A t : t \in Range(g[s]) <=> t \in Range(q) \/ \E i \in s : w[i] = t
      BY <3>2, <3>4, <3>7
    <3>9. QED
      BY <3>7, <3>8
  <2>3. QED
    BY <2>1, <2>2
<1>8. IsFiniteSet(1 .. l)
  BY FS_Interval
<1>9. SUBSET (1 .. l) \subseteq W
  <2> HIDE DEF W
  <2>1. \A s \in SUBSET (1 .. l) : (\A x \in s : s \ {x} \in W) => s \in W
    BY <1>7, Zenon
  <2>2. PICK K : K = 1 .. l
    OBVIOUS
  <2>3. PICK V : V = W
    OBVIOUS
  <2>4. IsFiniteSet(K) /\ \A s \in SUBSET K : (\A x \in s : s \ {x} \in V) => s \in V
    BY <1>8, <2>1, <2>2, <2>3, Zenon
  <2>5. SUBSET K \subseteq V
    BY <2>4, SubsetInduction
  <2>6. QED
    BY <2>2, <2>3, <2>5, Zenon
<1>10. 1 .. l \in W
  BY <1>9
<1>11. QED
  BY <1>2, <1>3, <1>4, <1>10

-----------------------------------------------------------------------------
(* The inductive invariant *)

(* The PCT scheduler and the cooperative one lose track of burnt threads (see the README). *)
BurnsAreSafe == BurnKinds \cap {"pct", "coop"} = {}

(* In every container a thread is once. *)
Containers ==
  /\ IsQueue(runq) /\ IsQueue(suspended)
  /\ \A f \in Futex : waiters[f] # NoQueue => IsQueue(waiters[f])

(* The queue of a futex has the threads that wait for it. *)
WaitersAreParked ==
  \A f \in Futex, t \in Thread : futex[t] = f <=> t \in Range(Waiting(f))

(* Threads that can be picked; the next thread of the cooperative scheduler is still queued. *)
ReadySet == Range(runq) \cup IF kind = "coop" THEN {} ELSE {next} \ {None}

(* a are the threads, R those that can run, r the running one, S the suspended ones, and x what
   they wait for: each thread is in one place, and there are no others. *)
Placed(a, R, r, S, x) ==
  \A t \in Thread :
    /\ t \in R => t \in a /\ r # t /\ t \notin S /\ x[t] = None
    /\ r = t => t \in a /\ t \notin S /\ x[t] = None
    /\ t \in S => t \in a /\ x[t] = None
    /\ x[t] # None => t \in a
    /\ t \in a => t \in R \/ r = t \/ t \in S \/ x[t] # None

OnePlace == Placed(alive, ReadySet, running, Range(suspended), futex)

(* The thread that goes on next is outside of the run queue, but for the cooperative scheduler,
   and there is none while a thread runs or the loop has been left. *)
NextIsApart ==
  next # None =>
    /\ phase = "run" /\ running = None
    /\ kind = "coop" => next \in Range(runq)
    /\ kind # "coop" => next \notin Range(runq)

(* Ids are not used again, and the loop ends without threads. *)
Phases ==
  /\ phase # "panic" /\ alive \subseteq 1 .. ids
  /\ phase = "burn" => kind \in BurnKinds \/ alive = {}
  /\ phase = "stopped" => alive = {}

IInv ==
  /\ TypeOK
  /\ Containers
  /\ WaitersAreParked
  /\ OnePlace
  /\ NextIsApart
  /\ Phases

-----------------------------------------------------------------------------
(* What a step does to the places of threads *)

Still == UNCHANGED <<alive, ReadySet, running, Range(suspended), futex>>

Spawned(t) ==
  /\ t \notin alive /\ alive' = alive \cup {t} /\ ReadySet' = ReadySet \cup {t}
  /\ UNCHANGED <<running, Range(suspended), futex>>

Dispatched(t) ==
  /\ running = None /\ t \in ReadySet /\ running' = t /\ ReadySet' = ReadySet \ {t}
  /\ UNCHANGED <<alive, Range(suspended), futex>>

Requeued(t) ==
  /\ running = t /\ running' = None /\ ReadySet' = ReadySet \cup {t}
  /\ UNCHANGED <<alive, Range(suspended), futex>>

Suspends(t) ==
  /\ running = t /\ running' = None /\ Range(suspended)' = Range(suspended) \cup {t}
  /\ UNCHANGED <<alive, ReadySet, futex>>

Resumed(t) ==
  /\ t \in Range(suspended) /\ Range(suspended)' = Range(suspended) \ {t}
  /\ ReadySet' = ReadySet \cup {t}
  /\ UNCHANGED <<alive, running, futex>>

Parked(t, f) ==
  /\ running = t /\ running' = None /\ futex' = [futex EXCEPT ![t] = f]
  /\ UNCHANGED <<alive, ReadySet, Range(suspended)>>

Woken(t) ==
  /\ futex[t] # None /\ futex' = [futex EXCEPT ![t] = None] /\ ReadySet' = ReadySet \cup {t}
  /\ UNCHANGED <<alive, running, Range(suspended)>>

AllWoken(f) ==
  /\ futex' = [u \in Thread |-> IF futex[u] = f THEN None ELSE futex[u]]
  /\ ReadySet' = ReadySet \cup {u \in Thread : futex[u] = f}
  /\ UNCHANGED <<alive, running, Range(suspended)>>

Left(t) ==
  /\ t \in alive /\ alive' = alive \ {t}
  /\ ReadySet' = ReadySet \ {t} /\ Range(suspended)' = Range(suspended) \ {t}
  /\ running' = IF running = t THEN None ELSE running
  /\ futex' = [futex EXCEPT ![t] = None]

Effect ==
  \/ Still
  \/ \E t \in Thread :
       \/ Spawned(t) \/ Dispatched(t) \/ Requeued(t) \/ Suspends(t) \/ Resumed(t) \/ Woken(t)
       \/ Left(t)
       \/ \E f \in Futex : Parked(t, f)
  \/ \E f \in Futex : AllWoken(f)

(* Threads stay in one place each. *)
LEMMA EffectKeepsPlaces == ASSUME TypeOK, OnePlace, Effect PROVE OnePlace'
<1> USE ConstantsAssumption DEF Thread
<1>1. PICK R : R = ReadySet
  OBVIOUS
<1>2. PICK S : S = Range(suspended)
  OBVIOUS
<1>3. PICK Q : Q = ReadySet'
  OBVIOUS
<1>4. PICK Z : Z = Range(suspended)'
  OBVIOUS
<1>5. Placed(alive, R, running, S, futex)
  BY <1>1, <1>2 DEF OnePlace
<1>6. /\ futex \in [Thread -> Futex \cup {None}] /\ running \in Thread \cup {None}
      /\ None \notin Thread /\ None \notin Futex
  BY DEF TypeOK
<1>7. SUFFICES Placed(alive', Q, running', Z, futex')
  BY <1>3, <1>4 DEF OnePlace
<1> USE <1>1, <1>2, <1>3, <1>4, <1>5, <1>6
<1> HIDE DEF Thread
<1>8. CASE Still
  BY <1>8 DEF Still, Placed
<1>9. ASSUME NEW t \in Thread, Spawned(t) PROVE Placed(alive', Q, running', Z, futex')
  BY <1>9 DEF Spawned, Placed
<1>10. ASSUME NEW t \in Thread, Dispatched(t) PROVE Placed(alive', Q, running', Z, futex')
  BY <1>10 DEF Dispatched, Placed
<1>11. ASSUME NEW t \in Thread, Requeued(t) PROVE Placed(alive', Q, running', Z, futex')
  BY <1>11 DEF Requeued, Placed
<1>12. ASSUME NEW t \in Thread, Suspends(t) PROVE Placed(alive', Q, running', Z, futex')
  BY <1>12 DEF Suspends, Placed
<1>13. ASSUME NEW t \in Thread, Resumed(t) PROVE Placed(alive', Q, running', Z, futex')
  BY <1>13 DEF Resumed, Placed
<1>14. ASSUME NEW t \in Thread, Woken(t) PROVE Placed(alive', Q, running', Z, futex')
  BY <1>14 DEF Woken, Placed
<1>15. ASSUME NEW t \in Thread, Left(t) PROVE Placed(alive', Q, running', Z, futex')
  BY <1>15 DEF Left, Placed
<1>16. ASSUME NEW t \in Thread, NEW f \in Futex, Parked(t, f)
       PROVE  Placed(alive', Q, running', Z, futex')
  BY <1>16 DEF Parked, Placed
<1>17. ASSUME NEW f \in Futex, AllWoken(f) PROVE Placed(alive', Q, running', Z, futex')
  BY <1>17 DEF AllWoken, Placed
<1>18. QED
  BY <1>8, <1>9, <1>10, <1>11, <1>12, <1>13, <1>14, <1>15, <1>16, <1>17 DEF Effect

-----------------------------------------------------------------------------
(* WaitQueue *)

(* A queue of threads is not the sign for the lack of one. *)
LEMMA RealQueue == ASSUME NEW q, IsQueue(q) PROVE q # NoQueue
<1>1. SUFFICES ASSUME q = <<None>> PROVE FALSE
  BY DEF NoQueue
<1>2. Len(q) = 1 /\ q[1] = None
  BY <1>1
<1>3. q[1] \in Thread
  BY <1>2, QueueFacts
<1>4. QED
  BY <1>2, <1>3, ConstantsAssumption DEF Thread

(* Queues of no and of one thread *)
LEMMA SmallQueues ==
  /\ IsQueue(<<>>) /\ Range(<<>>) = {}
  /\ \A t \in Thread : IsQueue(<<t>>) /\ Range(<<t>>) = {t}
<1>1. IsQueue(<<>>) /\ Range(<<>>) = {}
  BY DEF IsQueue, IsInjective, Range
<1>2. ASSUME NEW t \in Thread PROVE IsQueue(<<t>>) /\ Range(<<t>>) = {t}
  <2>1. <<t>> \in Seq(Thread) /\ DOMAIN <<t>> = {1} /\ <<t>>[1] = t
    OBVIOUS
  <2>2. QED
    BY <2>1 DEF IsQueue, IsInjective, Range
<1>3. QED
  BY <1>1, <1>2

(* The types of the queues of futexes *)
WaitTypeOK ==
  /\ single \in [Futex -> Thread \cup {None}]
  /\ waiters \in [Futex -> Seq(Thread) \cup {NoQueue}]
  /\ \A f \in Futex : waiters[f] # NoQueue => IsQueue(waiters[f])

(* The waiters are a queue. *)
LEMMA WaitingIsQueue == ASSUME WaitTypeOK, NEW f \in Futex PROVE IsQueue(Waiting(f))
  BY SmallQueues DEF WaitTypeOK, Waiting

(* A thread is pushed, *)
LEMMA PushWaiterAdds ==
  ASSUME WaitTypeOK, NEW f \in Futex, NEW t \in Thread, t \notin Range(Waiting(f)), PushWaiter(f, t)
  PROVE  /\ WaitTypeOK' /\ Range(Waiting(f)') = Range(Waiting(f)) \cup {t}
         /\ \A g \in Futex : g # f => Waiting(g)' = Waiting(g)
<1>1. IsQueue(Waiting(f)) /\ None \notin Thread
  BY WaitingIsQueue, ConstantsAssumption DEF Thread
<1>2. CASE waiters[f] # NoQueue
  <2>1. PICK q : q = Pushed(waiters[f], t)
    OBVIOUS
  <2>2. Waiting(f) = waiters[f]
    BY <1>2 DEF Waiting
  <2>3. IsQueue(q) /\ Range(q) = Range(Waiting(f)) \cup {t} /\ q # NoQueue /\ q \in Seq(Thread)
    BY <1>1, <2>1, <2>2, QueuedAdds, RealQueue DEF IsQueue
  <2>4. waiters' = [waiters EXCEPT ![f] = q] /\ single' = single
    BY <1>2, <2>1 DEF PushWaiter
  <2>5. WaitTypeOK'
    BY <2>3, <2>4 DEF WaitTypeOK
  <2>6. waiters'[f] = q /\ \A g \in Futex : g # f => waiters'[g] = waiters[g]
    BY <2>4 DEF WaitTypeOK
  <2>7. QED
    BY <2>3, <2>4, <2>5, <2>6 DEF Waiting
<1>3. CASE waiters[f] = NoQueue /\ single[f] = None
  <2>1. single' = [single EXCEPT ![f] = t] /\ waiters' = waiters
    BY <1>3 DEF PushWaiter
  <2>2. single'[f] = t /\ \A g \in Futex : g # f => single'[g] = single[g]
    BY <2>1 DEF WaitTypeOK
  <2>3. WaitTypeOK'
    BY <2>1 DEF WaitTypeOK
  <2>4. Waiting(f)' = <<t>> /\ Waiting(f) = <<>>
    BY <1>1, <1>3, <2>1, <2>2 DEF Waiting
  <2>5. \A g \in Futex : g # f => Waiting(g)' = Waiting(g)
    BY <2>1, <2>2 DEF Waiting
  <2>6. QED
    BY <2>3, <2>4, <2>5, SmallQueues
<1>4. CASE waiters[f] = NoQueue /\ single[f] # None
  <2>1. PICK u \in Thread : u = single[f]
    BY <1>4 DEF WaitTypeOK
  <2>2. Waiting(f) = <<u>> /\ Range(Waiting(f)) = {u} /\ t # u
    BY <1>4, <2>1, SmallQueues DEF Waiting
  <2>3. PICK p : p = Pushed(<<>>, u)
    OBVIOUS
  <2>4. IsQueue(p) /\ Range(p) = {u}
    BY <2>3, SmallQueues, QueuedAdds
  <2>5. PICK q : q = Pushed(p, t)
    OBVIOUS
  <2>6. IsQueue(q) /\ Range(q) = {u} \cup {t} /\ q # NoQueue /\ q \in Seq(Thread)
    BY <2>2, <2>4, <2>5, QueuedAdds, RealQueue DEF IsQueue
  <2>7. waiters' = [waiters EXCEPT ![f] = q] /\ single' = [single EXCEPT ![f] = None]
    BY <1>4, <2>1, <2>3, <2>5 DEF PushWaiter
  <2>8. WaitTypeOK'
    BY <2>6, <2>7 DEF WaitTypeOK
  <2>9. /\ waiters'[f] = q
        /\ \A g \in Futex : g # f => waiters'[g] = waiters[g] /\ single'[g] = single[g]
    BY <2>7 DEF WaitTypeOK
  <2>10. QED
    BY <2>2, <2>6, <2>8, <2>9 DEF Waiting
<1>5. QED
  BY <1>2, <1>3, <1>4

(* ... popped, *)
LEMMA PopWaiterRemoves ==
  ASSUME WaitTypeOK, NEW f \in Futex, NEW i \in PopIndices(Waiting(f)), PopWaiter(f, i)
  PROVE  /\ WaitTypeOK' /\ Waiting(f)[i] \in Range(Waiting(f)) /\ Waiting(f)[i] \in Thread
         /\ Range(Waiting(f)') = Range(Waiting(f)) \ {Waiting(f)[i]}
         /\ \A g \in Futex : g # f => Waiting(g)' = Waiting(g)
<1>1. IsQueue(Waiting(f))
  BY WaitingIsQueue
<1>2. i \in DOMAIN Waiting(f)
  <2>1. Waiting(f) # <<>> => 1 \in DOMAIN Waiting(f)
    BY <1>1, QueueFacts
  <2>2. QED
    BY <2>1 DEF PopIndices
<1>3. Waiting(f)[i] \in Range(Waiting(f)) /\ Waiting(f)[i] \in Thread
  BY <1>1, <1>2, QueueFacts DEF Range
<1>4. CASE waiters[f] # NoQueue
  <2>1. PICK q : q = Dropped(waiters[f], i)
    OBVIOUS
  <2>2. Waiting(f) = waiters[f]
    BY <1>4 DEF Waiting
  <2>3. /\ IsQueue(q) /\ Range(q) = Range(Waiting(f)) \ {Waiting(f)[i]}
        /\ q # NoQueue /\ q \in Seq(Thread)
    BY <1>1, <1>2, <2>1, <2>2, DroppedRemoves, RealQueue DEF IsQueue
  <2>4. waiters' = [waiters EXCEPT ![f] = q] /\ single' = single
    BY <1>4, <2>1 DEF PopWaiter
  <2>5. WaitTypeOK'
    BY <2>3, <2>4 DEF WaitTypeOK
  <2>6. waiters'[f] = q /\ \A g \in Futex : g # f => waiters'[g] = waiters[g]
    BY <2>4 DEF WaitTypeOK
  <2>7. QED
    BY <1>3, <2>3, <2>4, <2>5, <2>6 DEF Waiting
<1>5. CASE waiters[f] = NoQueue
  <2>1. single' = [single EXCEPT ![f] = None] /\ waiters' = waiters
    BY <1>5 DEF PopWaiter
  <2>2. single[f] # None
    BY <1>2, <1>5 DEF Waiting
  <2>3. Waiting(f) = <<single[f]>> /\ single[f] \in Thread
    BY <1>5, <2>2 DEF Waiting, WaitTypeOK
  <2>4. i = 1 /\ Waiting(f)[i] = single[f] /\ Range(Waiting(f)) = {single[f]}
    BY <1>2, <2>3, SmallQueues
  <2>5. single'[f] = None /\ \A g \in Futex : g # f => single'[g] = single[g]
    BY <2>1 DEF WaitTypeOK
  <2>6. WaitTypeOK'
    BY <2>1 DEF WaitTypeOK
  <2>7. Waiting(f)' = <<>> /\ \A g \in Futex : g # f => Waiting(g)' = Waiting(g)
    BY <1>5, <2>1, <2>5 DEF Waiting
  <2>8. QED
    BY <1>3, <2>4, <2>6, <2>7, SmallQueues
<1>6. QED
  BY <1>4, <1>5

(* ... all are popped, *)
LEMMA PopAllRemoves ==
  ASSUME WaitTypeOK, NEW f \in Futex, PopAllWaiters(f)
  PROVE  /\ WaitTypeOK' /\ Waiting(f)' = <<>>
         /\ \A g \in Futex : g # f => Waiting(g)' = Waiting(g)
<1>1. PICK q : q = IF waiters[f] = NoQueue THEN NoQueue ELSE <<>>
  OBVIOUS
<1>2. waiters' = [waiters EXCEPT ![f] = q] /\ single' = [single EXCEPT ![f] = None]
  BY <1>1 DEF PopAllWaiters
<1>3. <<>> # NoQueue /\ (q = NoQueue \/ q = <<>>) /\ IsQueue(<<>>) /\ <<>> \in Seq(Thread)
  BY <1>1, SmallQueues, RealQueue
<1>4. WaitTypeOK'
  BY <1>2, <1>3 DEF WaitTypeOK
<1>5. /\ waiters'[f] = q /\ single'[f] = None
      /\ \A g \in Futex : g # f => waiters'[g] = waiters[g] /\ single'[g] = single[g]
  BY <1>2 DEF WaitTypeOK
<1>6. QED
  BY <1>3, <1>4, <1>5 DEF Waiting

(* ... or one is removed, and found. *)
LEMMA RemoveWaiterRemoves ==
  ASSUME WaitTypeOK, NEW f \in Futex, NEW t \in Thread, t \in Range(Waiting(f)),
         RemoveWaiter(waiters, f, t)
  PROVE  /\ WaitTypeOK' /\ Removes(waiters, f, t)
         /\ Range(Waiting(f)') = Range(Waiting(f)) \ {t}
         /\ \A g \in Futex : g # f => Waiting(g)' = Waiting(g)
<1>1. IsQueue(Waiting(f))
  BY WaitingIsQueue
<1>2. CASE waiters[f] # NoQueue
  <2>1. PICK q : q = Without(waiters[f], t)
    OBVIOUS
  <2>2. Waiting(f) = waiters[f]
    BY <1>2 DEF Waiting
  <2>3. IsQueue(q) /\ Range(q) = Range(Waiting(f)) \ {t} /\ q # NoQueue /\ q \in Seq(Thread)
    BY <1>1, <2>1, <2>2, WithoutRemoves, RealQueue DEF IsQueue
  <2>4. waiters' = [waiters EXCEPT ![f] = q] /\ single' = single
    BY <1>2, <2>1 DEF RemoveWaiter
  <2>5. WaitTypeOK'
    BY <2>3, <2>4 DEF WaitTypeOK
  <2>6. waiters'[f] = q /\ \A g \in Futex : g # f => waiters'[g] = waiters[g]
    BY <2>4 DEF WaitTypeOK
  <2>7. Removes(waiters, f, t)
    BY <1>2, <2>2 DEF Removes
  <2>8. QED
    BY <2>3, <2>4, <2>5, <2>6, <2>7 DEF Waiting
<1>3. CASE waiters[f] = NoQueue
  <2>1. single' = [single EXCEPT ![f] = None] /\ waiters' = waiters
    BY <1>3 DEF RemoveWaiter
  <2>2. single[f] # None
    BY <1>3, SmallQueues DEF Waiting
  <2>3. Waiting(f) = <<single[f]>> /\ single[f] \in Thread
    BY <1>3, <2>2 DEF Waiting, WaitTypeOK
  <2>4. Range(Waiting(f)) = {single[f]} /\ single[f] = t
    BY <2>3, SmallQueues
  <2>5. single'[f] = None /\ \A g \in Futex : g # f => single'[g] = single[g]
    BY <2>1 DEF WaitTypeOK
  <2>6. WaitTypeOK'
    BY <2>1 DEF WaitTypeOK
  <2>7. Waiting(f)' = <<>> /\ \A g \in Futex : g # f => Waiting(g)' = Waiting(g)
    BY <1>3, <2>1, <2>5 DEF Waiting
  <2>8. Removes(waiters, f, t)
    BY <1>3, <2>4 DEF Removes
  <2>9. QED
    BY <2>4, <2>6, <2>7, <2>8, SmallQueues
<1>4. QED
  BY <1>2, <1>3

-----------------------------------------------------------------------------
(* The steps *)

(* What is left of the invariant when a step has one of the effects *)
Rest ==
  /\ TypeOK
  /\ Containers
  /\ WaitersAreParked
  /\ NextIsApart
  /\ Phases

(* Facts about containers that most steps need *)
LEMMA Facts ==
  ASSUME IInv
  PROVE  /\ None \notin Thread /\ None \notin Futex
         /\ IsQueue(runq) /\ IsQueue(suspended) /\ WaitTypeOK
         /\ Range(runq) \subseteq Thread /\ Range(suspended) \subseteq Thread
         /\ Range(runq) \subseteq ReadySet
<1>1. None \notin Thread /\ None \notin Futex
  BY ConstantsAssumption DEF Thread
<1>2. IsQueue(runq) /\ IsQueue(suspended) /\ WaitTypeOK
  BY DEF IInv, Containers, WaitTypeOK, TypeOK
<1>3. Range(runq) \subseteq Thread /\ Range(suspended) \subseteq Thread
  BY <1>2, QueueFacts
<1>4. QED
  BY <1>1, <1>2, <1>3 DEF ReadySet

(* A container without elements is empty. *)
LEMMA EmptyQueue == ASSUME NEW q, IsQueue(q), Range(q) = {} PROVE q = <<>>
  BY QueueFacts

(* Where there are no threads the containers are empty. *)
LEMMA NoThreads ==
  ASSUME IInv, alive = {}, phase # "run"
  PROVE  /\ runq = <<>> /\ suspended = <<>> /\ next = None /\ ReadySet = {}
         /\ \A f \in Futex : Waiting(f) = <<>>
         /\ \A t \in Thread : futex[t] = None
<1>1. \A t \in Thread : t \notin ReadySet /\ t \notin Range(suspended) /\ futex[t] = None
  BY DEF IInv, OnePlace, Placed
<1>2. next = None
  BY DEF IInv, NextIsApart
<1>3. Range(runq) = {} /\ Range(suspended) = {}
  BY <1>1, Facts
<1>4. runq = <<>> /\ suspended = <<>>
  BY <1>3, Facts, EmptyQueue
<1>5. ReadySet = {}
  BY <1>2, <1>3 DEF ReadySet
<1>6. ASSUME NEW f \in Futex PROVE Waiting(f) = <<>>
  <2>1. IsQueue(Waiting(f))
    BY Facts, WaitingIsQueue
  <2>2. Range(Waiting(f)) \subseteq Thread
    BY <2>1, QueueFacts
  <2>3. \A t \in Thread : t \notin Range(Waiting(f))
    BY <1>1, Facts DEF IInv, WaitersAreParked
  <2>4. QED
    BY <2>1, <2>2, <2>3, EmptyQueue
<1>7. QED
  BY <1>1, <1>2, <1>4, <1>5, <1>6

(* The caller is in no container. *)
LEMMA CallerFacts ==
  ASSUME IInv, NEW t \in Thread, Caller(t)
  PROVE  /\ t \in alive /\ running = t /\ phase = "run" /\ next = None
         /\ ReadySet = Range(runq) /\ t \notin Range(runq) /\ t \notin Range(suspended)
         /\ futex[t] = None
<1>1. t \in alive /\ running = t /\ phase = "run" /\ running # None
  BY Facts DEF Caller
<1>2. next = None
  BY <1>1 DEF IInv, NextIsApart
<1>3. ReadySet = Range(runq)
  BY <1>2 DEF ReadySet
<1>4. QED
  BY <1>1, <1>2, <1>3 DEF IInv, OnePlace, Placed

(* The futex queues are left alone. *)
LEMMA WaitersKept ==
  ASSUME IInv, UNCHANGED <<futex, single, waiters>>
  PROVE  /\ WaitersAreParked' /\ \A f \in Futex : waiters'[f] # NoQueue => IsQueue(waiters'[f])
         /\ \A f \in Futex : Waiting(f)' = Waiting(f)
  BY DEF IInv, WaitersAreParked, Containers, Waiting

(* The loop is left: the queues are empty. *)
LEMMA StopLoopKeeps == ASSUME IInv, StopLoop PROVE Rest' /\ Effect
<1>1. alive = {} /\ phase = "burn" /\ phase # "run"
  BY DEF StopLoop
<1>2. /\ runq = <<>> /\ next = None /\ \A f \in Futex : Waiting(f) = <<>>
      /\ \A t \in Thread : futex[t] = None
  BY <1>1, NoThreads
<1>3. phase' = "stopped"
  BY <1>2 DEF StopLoop, IsIdle
<1>4. \A f \in Futex : single'[f] = None /\ waiters'[f] = NoQueue /\ Waiting(f)' = <<>>
  BY DEF StopLoop, Waiting
<1>5. TypeOK'
  BY <1>3 DEF IInv, TypeOK, StopLoop, kernel, lockFree, priorities
<1>6. Containers'
  BY <1>4 DEF IInv, Containers, StopLoop, lockFree, kernel, priorities
<1>7. WaitersAreParked'
  BY <1>2, <1>4, Facts, SmallQueues DEF WaitersAreParked, StopLoop, kernel
<1>8. NextIsApart' /\ Phases'
  BY <1>1, <1>2, <1>3 DEF IInv, NextIsApart, Phases, StopLoop, kernel
<1>9. Effect
  BY DEF Effect, Still, ReadySet, StopLoop, kernel, lockFree
<1>10. QED
  BY <1>5, <1>6, <1>7, <1>8, <1>9 DEF Rest

(* The next simulation starts. *)
LEMMA StartKeeps == ASSUME IInv, Start PROVE Rest' /\ Effect
<1>1. phase = "stopped" /\ alive = {} /\ phase # "run"
  BY DEF Start, IInv, Phases
<1>2. runq = <<>> /\ suspended = <<>> /\ next = None
  BY <1>1, NoThreads
<1>3. phase' = "run" /\ runq' = <<>> /\ suspended' = <<>> /\ next' = None
  BY <1>2 DEF Start
<1>4. prior' = prior /\ estimate' = estimate /\ nextPrior' \in Int /\ changes' \in Nat
  <2>1. CASE kind = "pct"
    <3>1. ResetPriorities
      BY <2>1 DEF Start
    <3>2. prior' = prior /\ estimate' = estimate /\ nextPrior' = 0 /\ changes' = Depth - 1
      BY <3>1, Zenon DEF ResetPriorities
    <3>3. QED
      BY <3>2, ConstantsAssumption
  <2>2. CASE kind # "pct"
    BY <2>2 DEF Start, priorities, IInv, TypeOK
  <2>3. QED
    BY <2>1, <2>2
<1>5. initPrior' \in [DOMAIN initPrior' -> Nat \ {0}]
  <2>1. CASE kind = "pct"
    <3>1. initPrior' \in [1 .. estimate -> 1 .. estimate]
      BY <2>1 DEF Start, ResetPriorities
    <3>2. QED
      BY <3>1 DEF IInv, TypeOK
  <2>2. CASE kind # "pct"
    BY <2>2 DEF Start, priorities, IInv, TypeOK
  <2>3. QED
    BY <2>1, <2>2
<1>6. TypeOK'
  BY <1>3, <1>4, <1>5 DEF IInv, TypeOK, Start
<1>7. Containers' /\ WaitersAreParked'
  BY <1>3, WaitersKept, SmallQueues DEF Containers, Start
<1>8. NextIsApart' /\ Phases'
  BY <1>1, <1>3 DEF NextIsApart, Phases, Start
<1>9. Effect
  BY <1>2, <1>3 DEF Effect, Still, ReadySet, Start
<1>10. QED
  BY <1>6, <1>7, <1>8, <1>9 DEF Rest

(* A thread is spawned: its id is new. *)
LEMMA SpawnKeeps == ASSUME IInv, NEW t \in Thread, Spawn(t) PROVE Rest' /\ Effect
<1>1. t \notin alive
  BY DEF IInv, Phases, TypeOK, Spawn
<1>2. t \notin ReadySet /\ t \notin Range(runq) /\ futex[t] = None
  BY <1>1, Facts DEF IInv, OnePlace, Placed
<1>3. runq' = Queued(runq, t) /\ next' = next /\ kind' = kind /\ phase' = phase
  BY DEF Spawn, control
<1>4. IsQueue(runq') /\ Range(runq') = Range(runq) \cup {t} /\ runq' \in Seq(Thread)
  BY <1>2, <1>3, Facts, QueuedAdds, QueueFacts
<1>5. prior' \in [Thread -> Int] /\ nextPrior' \in Int /\ estimate' \in Nat
  <2>1. CASE kind # "pct"
    BY <2>1 DEF Spawn, IInv, TypeOK
  <2>2. CASE kind = "pct" /\ t \in DOMAIN initPrior
    BY <2>2 DEF Spawn, Lowered, IInv, TypeOK
  <2>3. CASE kind = "pct" /\ t \notin DOMAIN initPrior
    BY <2>3 DEF Spawn, Lowered, IInv, TypeOK, Thread
  <2>4. QED
    BY <2>1, <2>2, <2>3
<1>6. TypeOK'
  <2>1. t \in Nat
    BY ConstantsAssumption DEF Thread
  <2>2. QED
    BY <1>4, <1>5, <2>1 DEF IInv, TypeOK, Spawn, control, lockFree
<1>7. Containers' /\ WaitersAreParked'
  BY <1>4, WaitersKept DEF IInv, Containers, Spawn, lockFree
<1>8. next # t
  BY <1>1, Facts DEF ReadySet, IInv, NextIsApart, OnePlace, Placed
<1>9. NextIsApart'
  BY <1>3, <1>4, <1>8 DEF IInv, NextIsApart, Spawn
<1>10. Phases'
  BY <1>3 DEF IInv, Phases, TypeOK, Spawn
<1>11. ReadySet' = ReadySet \cup {t}
  BY <1>3, <1>4 DEF ReadySet
<1>12. Spawned(t)
  BY <1>1, <1>11 DEF Spawned, Spawn, lockFree
<1>13. QED
  BY <1>6, <1>7, <1>9, <1>10, <1>12 DEF Rest, Effect

(* A thread is picked: t leaves the run queue or the place of the next thread. *)
Picks(t) ==
  /\ t \in Thread /\ t \in ReadySet /\ running' = t /\ next' = None
  /\ IsQueue(runq') /\ Range(runq') = ReadySet \ {t}
  /\ prior' \in [Thread -> Int] /\ nextPrior' \in Int /\ changes' \in Nat
  /\ UNCHANGED <<ids, alive, futex, preemptive, scopes, initPrior, estimate>>

(* The random scheduler, *)
LEMMA PickRandomPicks ==
  ASSUME IInv, running = None, PickRandom PROVE \E t : Picks(t)
<1>1. kind = "random" /\ UNCHANGED priorities
  BY DEF PickRandom
<1>2. prior' \in [Thread -> Int] /\ nextPrior' \in Int /\ changes' \in Nat
      /\ UNCHANGED <<initPrior, estimate>>
  BY <1>1 DEF priorities, IInv, TypeOK
<1>3. CASE next # None
  <2>1. Runs(next) /\ next' = None /\ runq' = runq
    BY <1>3 DEF PickRandom
  <2>2. next \in ReadySet /\ next \in Thread /\ next \notin Range(runq)
    BY <1>1, <1>3 DEF ReadySet, IInv, TypeOK, NextIsApart
  <2>3. Range(runq) = ReadySet \ {next}
    BY <1>1, <2>2 DEF ReadySet
  <2>4. Picks(next)
    BY <1>2, <2>1, <2>2, <2>3, Facts DEF Picks, Runs
  <2>5. QED
    BY <2>4
<1>4. CASE next = None
  <2>1. PICK i \in DOMAIN runq : Runs(runq[i]) /\ runq' = Dropped(runq, i) /\ next' = None
    BY <1>4 DEF PickRandom
  <2>2. runq[i] \in Range(runq) /\ runq[i] \in Thread
    BY Facts DEF Range
  <2>3. IsQueue(runq') /\ Range(runq') = Range(runq) \ {runq[i]}
    BY <2>1, Facts, DroppedRemoves
  <2>4. ReadySet = Range(runq)
    BY <1>4 DEF ReadySet
  <2>5. Picks(runq[i])
    BY <1>2, <2>1, <2>2, <2>3, <2>4 DEF Picks, Runs
  <2>6. QED
    BY <2>5
<1>5. QED
  BY <1>3, <1>4

(* ... the depth-first one, *)
LEMMA PickDfsPicks ==
  ASSUME IInv, running = None, PickDfs PROVE \E t : Picks(t)
<1>1. kind # "coop" /\ UNCHANGED priorities /\ next' = None
  BY DEF PickDfs
<1>2. prior' \in [Thread -> Int] /\ nextPrior' \in Int /\ changes' \in Nat
      /\ UNCHANGED <<initPrior, estimate>>
  BY <1>1 DEF priorities, IInv, TypeOK
<1>3. CASE next # None /\ Runs(next) /\ UNCHANGED runq
  <2>1. next \in ReadySet /\ next \in Thread /\ next \notin Range(runq)
    BY <1>1, <1>3 DEF ReadySet, IInv, TypeOK, NextIsApart
  <2>2. Range(runq) = ReadySet \ {next}
    BY <1>1, <2>1 DEF ReadySet
  <2>3. Picks(next)
    BY <1>1, <1>2, <1>3, <2>1, <2>2, Facts DEF Picks, Runs
  <2>4. QED
    BY <2>3
<1>4. ASSUME NEW i \in DOMAIN runq, Runs(runq[i]),
             runq' = IF next = None THEN Dropped(runq, i) ELSE Queued(Dropped(runq, i), next)
      PROVE  \E t : Picks(t)
  <2>1. PICK q : q = Dropped(runq, i)
    OBVIOUS
  <2>2. runq[i] \in Range(runq) /\ runq[i] \in Thread
    BY Facts DEF Range
  <2>3. IsQueue(q) /\ Range(q) = Range(runq) \ {runq[i]}
    BY <2>1, Facts, DroppedRemoves
  <2>4. CASE next = None
    <3>1. ReadySet = Range(runq)
      BY <2>4 DEF ReadySet
    <3>2. Picks(runq[i])
      BY <1>1, <1>2, <1>4, <2>1, <2>2, <2>3, <2>4, <3>1 DEF Picks, Runs
    <3>3. QED
      BY <3>2
  <2>5. CASE next # None
    <3>1. next \in Thread /\ next \notin Range(runq)
      BY <1>1, <2>5 DEF IInv, TypeOK, NextIsApart
    <3>2. IsQueue(runq') /\ Range(runq') = Range(q) \cup {next}
      BY <1>4, <2>1, <2>3, <2>5, <3>1, QueuedAdds
    <3>3. ReadySet = Range(runq) \cup {next}
      BY <1>1, <2>5 DEF ReadySet
    <3>4. Range(runq') = ReadySet \ {runq[i]}
      BY <2>2, <2>3, <3>1, <3>2, <3>3
    <3>5. Picks(runq[i])
      BY <1>1, <1>2, <1>4, <2>2, <3>2, <3>3, <3>4 DEF Picks, Runs
    <3>6. QED
      BY <3>5
  <2>6. QED
    BY <2>4, <2>5
<1>5. QED
  BY <1>3, <1>4 DEF PickDfs

(* ... PCT, *)
LEMMA PickPctPicks ==
  ASSUME IInv, running = None, PickPct PROVE \E t : Picks(t)
<1>1. kind # "coop" /\ next' = None /\ UNCHANGED <<initPrior, estimate>>
  BY DEF PickPct
<1>2. CASE next # None /\ Runs(next) /\ UNCHANGED <<runq, prior, nextPrior, changes>>
  <2>1. next \in ReadySet /\ next \in Thread /\ next \notin Range(runq)
    BY <1>1, <1>2 DEF ReadySet, IInv, TypeOK, NextIsApart
  <2>2. Range(runq) = ReadySet \ {next}
    BY <1>1, <2>1 DEF ReadySet
  <2>3. Picks(next)
    BY <1>1, <1>2, <2>1, <2>2, Facts DEF Picks, Runs, IInv, TypeOK
  <2>4. QED
    BY <2>3
<1>3. ASSUME next # None,
             ChangePoint \/ UNCHANGED <<prior, nextPrior, changes>>,
             NEW i \in Highest(Append(runq, next)), Runs(Append(runq, next)[i]),
             runq' = Dropped(Append(runq, next), i)
      PROVE  \E t : Picks(t)
  <2>1. PICK q : q = Append(runq, next)
    OBVIOUS
  <2>2. next \in Thread /\ next \notin Range(runq)
    BY <1>1, <1>3 DEF IInv, TypeOK, NextIsApart
  <2>3. IsQueue(q) /\ Range(q) = Range(runq) \cup {next}
    BY <2>1, <2>2, Facts, AppendAdds
  <2>4. ReadySet = Range(q)
    BY <1>1, <1>3, <2>3 DEF ReadySet
  <2>5. i \in DOMAIN q /\ q[i] \in Range(q) /\ q[i] \in Thread
    BY <1>3, <2>1, <2>3, QueueFacts DEF Highest, Range
  <2>6. IsQueue(runq') /\ Range(runq') = Range(q) \ {q[i]}
    BY <1>3, <2>1, <2>3, <2>5, DroppedRemoves
  <2>7. prior' \in [Thread -> Int] /\ nextPrior' \in Int /\ changes' \in Nat
    BY <1>3, <2>2 DEF ChangePoint, Lowered, IInv, TypeOK
  <2>8. Picks(q[i])
    BY <1>1, <1>3, <2>1, <2>4, <2>5, <2>6, <2>7 DEF Picks, Runs
  <2>9. QED
    BY <2>8
<1>4. ASSUME next = None, UNCHANGED <<prior, nextPrior, changes>>,
             NEW i \in Highest(runq), Runs(runq[i]), runq' = Dropped(runq, i)
      PROVE  \E t : Picks(t)
  <2>1. i \in DOMAIN runq /\ runq[i] \in Range(runq) /\ runq[i] \in Thread
    BY <1>4, Facts, QueueFacts DEF Highest, Range
  <2>2. IsQueue(runq') /\ Range(runq') = Range(runq) \ {runq[i]}
    BY <1>4, <2>1, Facts, DroppedRemoves
  <2>3. ReadySet = Range(runq)
    BY <1>4 DEF ReadySet
  <2>4. Picks(runq[i])
    BY <1>1, <1>4, <2>1, <2>2, <2>3 DEF Picks, Runs, IInv, TypeOK
  <2>5. QED
    BY <2>4
<1>5. QED
  BY <1>2, <1>3, <1>4 DEF PickPct

(* ... and the cooperative one. *)
LEMMA PickCoopPicks ==
  ASSUME IInv, running = None, ~IsIdle, PickCoop PROVE \E t : Picks(t)
<1>1. kind = "coop" /\ UNCHANGED priorities /\ next' = None /\ runq # <<>>
  BY DEF PickCoop, IsIdle
<1>2. prior' \in [Thread -> Int] /\ nextPrior' \in Int /\ changes' \in Nat
      /\ UNCHANGED <<initPrior, estimate>>
  BY <1>1 DEF priorities, IInv, TypeOK
<1>3. ReadySet = Range(runq)
  BY <1>1 DEF ReadySet
<1>4. CASE next = None
  <2>1. Runs(Head(runq)) /\ runq' = Tail(runq)
    BY <1>4 DEF PickCoop
  <2>2. /\ Head(runq) \in Range(runq) /\ IsQueue(Tail(runq))
        /\ Range(Tail(runq)) = Range(runq) \ {Head(runq)}
    BY <1>1, Facts, TailRemoves
  <2>3. Picks(Head(runq))
    BY <1>1, <1>2, <1>3, <2>1, <2>2, Facts DEF Picks, Runs
  <2>4. QED
    BY <2>3
<1>5. CASE next # None
  <2>1. Runs(next) /\ runq' = Without(runq, next)
    BY <1>5 DEF PickCoop
  <2>2. next \in Range(runq)
    BY <1>1, <1>5 DEF IInv, NextIsApart
  <2>3. IsQueue(runq') /\ Range(runq') = Range(runq) \ {next}
    BY <2>1, Facts, WithoutRemoves
  <2>4. Picks(next)
    BY <1>1, <1>2, <1>3, <2>1, <2>2, <2>3, Facts DEF Picks, Runs
  <2>5. QED
    BY <2>4
<1>6. QED
  BY <1>4, <1>5

(* The picked thread runs. *)
LEMMA PickNextKeeps == ASSUME IInv, PickNext PROVE Rest' /\ Effect
<1>1. /\ phase = "run" /\ running = None /\ ~IsIdle
      /\ UNCHANGED <<kind, phase, single, waiters, suspended, lfCount, lfMarked>>
  BY DEF PickNext, control, lockFree
<1>2. PICK t : Picks(t)
  <2>1. PickRandom \/ PickDfs \/ PickPct \/ PickCoop
    BY DEF PickNext
  <2>2. QED
    BY <1>1, <2>1, PickRandomPicks, PickDfsPicks, PickPctPicks, PickCoopPicks
<1>3. TypeOK'
  BY <1>1, <1>2, QueueFacts DEF Picks, IInv, TypeOK
<1>4. Containers' /\ WaitersAreParked'
  BY <1>1, <1>2, WaitersKept DEF Picks, IInv, Containers
<1>5. NextIsApart' /\ Phases'
  BY <1>1, <1>2 DEF Picks, IInv, NextIsApart, Phases
<1>6. ReadySet' = ReadySet \ {t}
  BY <1>2 DEF Picks, ReadySet
<1>7. Dispatched(t) /\ t \in Thread
  BY <1>1, <1>2, <1>6 DEF Picks, Dispatched
<1>8. QED
  BY <1>3, <1>4, <1>5, <1>7 DEF Rest, Effect

-----------------------------------------------------------------------------
(* The calls of the running thread *)

(* The caller goes back to the run queue. *)
LEMMA RequeueKeeps ==
  ASSUME IInv, NEW t \in Thread, Caller(t), Stops,
         IsQueue(runq'), Range(runq') = Range(runq) \cup {t},
         prior' \in [Thread -> Int], nextPrior' \in Int,
         next' = None \/ (kind = "coop" /\ next' \in Range(runq)),
         UNCHANGED <<control, ids, alive, futex, preemptive, scopes, single, waiters, lockFree,
                     initPrior, estimate, changes>>
  PROVE  Rest' /\ Requeued(t)
<1>1. /\ t \in alive /\ running = t /\ phase = "run" /\ next = None /\ ReadySet = Range(runq)
      /\ t \notin Range(runq) /\ running' = None
  BY CallerFacts DEF Stops
<1>2. next' \in Thread \cup {None}
  BY Facts
<1>3. TypeOK'
  BY <1>1, <1>2, QueueFacts DEF IInv, TypeOK, control, lockFree
<1>4. Containers' /\ WaitersAreParked'
  BY WaitersKept DEF IInv, Containers, lockFree
<1>5. NextIsApart' /\ Phases'
  BY <1>1 DEF IInv, NextIsApart, Phases, control
<1>6. ReadySet' = ReadySet \cup {t}
  BY <1>1 DEF ReadySet, control
<1>7. QED
  BY <1>1, <1>3, <1>4, <1>5, <1>6 DEF Rest, Requeued, lockFree

(* Interrupt: the end of the time slice, a suspension, or the thread may go on. *)
LEMMA InterruptKeeps == ASSUME IInv, NEW t \in Thread, Interrupt(t) PROVE Rest' /\ Effect
<1>1. /\ t \in alive /\ running = t /\ phase = "run" /\ next = None /\ ReadySet = Range(runq)
      /\ t \notin Range(runq) /\ t \notin Range(suspended) /\ running' = None
  BY CallerFacts DEF Interrupt, Stops
<1>2. /\ Caller(t) /\ Stops
      /\ UNCHANGED <<control, ids, alive, futex, preemptive, scopes, single, waiters, initPrior,
                     estimate, changes, prior, nextPrior>>
      /\ prior' \in [Thread -> Int] /\ nextPrior' \in Int
  BY DEF Interrupt, priorities, IInv, TypeOK
<1>3. CASE runq' = Queued(runq, t) /\ UNCHANGED <<next, lockFree>>
  <2>1. IsQueue(runq') /\ Range(runq') = Range(runq) \cup {t}
    BY <1>1, <1>3, Facts, QueuedAdds
  <2>2. Requeued(t) /\ Rest'
    BY <1>1, <1>2, <1>3, <2>1, RequeueKeeps
  <2>3. QED
    BY <2>2 DEF Effect
<1>4. CASE runq' = <<t>> \o runq /\ UNCHANGED <<next, lockFree>>
  <2>1. IsQueue(runq') /\ Range(runq') = Range(runq) \cup {t}
    BY <1>1, <1>4, Facts, PrependAdds
  <2>2. Requeued(t) /\ Rest'
    BY <1>1, <1>2, <1>4, <2>1, RequeueKeeps
  <2>3. QED
    BY <2>2 DEF Effect
<1>5. CASE kind # "coop" /\ next' = t /\ UNCHANGED <<runq, lockFree>>
  <2>1. TypeOK'
    BY <1>1, <1>2, <1>5 DEF IInv, TypeOK, control, lockFree
  <2>2. Containers' /\ WaitersAreParked'
    BY <1>2, <1>5, WaitersKept DEF IInv, Containers, lockFree
  <2>3. NextIsApart' /\ Phases'
    BY <1>1, <1>2, <1>5 DEF IInv, NextIsApart, Phases, control
  <2>4. ReadySet' = ReadySet \cup {t}
    BY <1>1, <1>2, <1>5, Facts DEF ReadySet, control
  <2>5. Requeued(t)
    BY <1>1, <1>2, <1>5, <2>4 DEF Requeued, lockFree
  <2>6. QED
    BY <2>1, <2>2, <2>3, <2>5 DEF Rest, Effect
<1>6. CASE /\ suspended' = Append(suspended, t) /\ lfMarked' = lfMarked \cup {t}
           /\ UNCHANGED <<runq, next, lfCount>>
  <2>1. IsQueue(suspended') /\ Range(suspended') = Range(suspended) \cup {t}
    BY <1>1, <1>6, Facts, AppendAdds
  <2>2. TypeOK'
    BY <1>1, <1>2, <1>6, <2>1, QueueFacts DEF IInv, TypeOK, control
  <2>3. Containers' /\ WaitersAreParked'
    BY <1>2, <1>6, <2>1, WaitersKept DEF IInv, Containers
  <2>4. NextIsApart' /\ Phases'
    BY <1>1, <1>2, <1>6 DEF IInv, NextIsApart, Phases, control
  <2>5. ReadySet' = ReadySet
    BY <1>1, <1>2, <1>6 DEF ReadySet, control
  <2>6. Suspends(t)
    BY <1>1, <1>2, <2>1, <2>5 DEF Suspends
  <2>7. QED
    BY <2>2, <2>3, <2>4, <2>6 DEF Rest, Effect
<1>7. QED
  BY <1>3, <1>4, <1>5, <1>6 DEF Interrupt

(* Yield *)
LEMMA YieldKeeps == ASSUME IInv, NEW t \in Thread, Yield(t) PROVE Rest' /\ Effect
<1>1. Caller(t) /\ Stops /\ t \notin Range(runq) /\ next = None /\ next' = next
  BY CallerFacts DEF Yield
<1>2. IsQueue(runq') /\ Range(runq') = Range(runq) \cup {t}
  BY <1>1, Facts, QueuedAdds DEF Yield
<1>3. prior' \in [Thread -> Int] /\ nextPrior' \in Int
  <2>1. CASE kind = "pct"
    BY <2>1 DEF Yield, Lowered, IInv, TypeOK
  <2>2. CASE kind # "pct"
    BY <2>2 DEF Yield, IInv, TypeOK
  <2>3. QED
    BY <2>1, <2>2
<1>4. UNCHANGED <<control, ids, alive, futex, preemptive, scopes, single, waiters, lockFree,
                  initPrior, estimate, changes>>
  BY DEF Yield
<1>5. Requeued(t) /\ Rest'
  BY <1>1, <1>2, <1>3, <1>4, RequeueKeeps
<1>6. QED
  BY <1>5 DEF Effect

(* SwitchTo: the target stays queued until it is picked. *)
LEMMA SwitchToKeeps ==
  ASSUME IInv, NEW t \in Thread, NEW u \in Thread, SwitchTo(t, u) PROVE Rest' /\ Effect
<1>1. Caller(t) /\ Stops /\ t \notin Range(runq) /\ next = None
  BY CallerFacts DEF SwitchTo
<1>2. IsQueue(runq') /\ Range(runq') = Range(runq) \cup {t}
  BY <1>1, Facts, AppendAdds DEF SwitchTo
<1>3. kind = "coop" /\ next' \in Range(runq)
  BY DEF SwitchTo
<1>4. /\ UNCHANGED <<control, ids, alive, futex, preemptive, scopes, single, waiters, lockFree,
                     initPrior, estimate, changes>>
      /\ prior' \in [Thread -> Int] /\ nextPrior' \in Int
  BY DEF SwitchTo, priorities, IInv, TypeOK
<1>5. Requeued(t) /\ Rest'
  BY <1>1, <1>2, <1>3, <1>4, RequeueKeeps
<1>6. QED
  BY <1>5 DEF Effect

(* Park *)
LEMMA ParkKeeps ==
  ASSUME IInv, NEW t \in Thread, NEW f \in Futex, Park(t, f) PROVE Rest' /\ Effect
<1>1. /\ t \in alive /\ running = t /\ phase = "run" /\ next = None /\ ReadySet = Range(runq)
      /\ t \notin Range(runq) /\ running' = None /\ futex[t] = None
  BY CallerFacts DEF Park, Stops
<1>2. /\ PushWaiter(f, t) /\ futex' = [futex EXCEPT ![t] = f]
      /\ UNCHANGED <<control, ids, alive, preemptive, scopes, runq, next, lockFree, priorities>>
  BY DEF Park
<1>3. t \notin Range(Waiting(f))
  BY <1>1, Facts DEF IInv, WaitersAreParked
<1>4. /\ WaitTypeOK' /\ Range(Waiting(f)') = Range(Waiting(f)) \cup {t}
      /\ \A g \in Futex : g # f => Waiting(g)' = Waiting(g)
  BY <1>2, <1>3, Facts, PushWaiterAdds
<1>5. /\ futex' \in [Thread -> Futex \cup {None}] /\ futex'[t] = f
      /\ \A u \in Thread : u # t => futex'[u] = futex[u]
  BY <1>2 DEF IInv, TypeOK
<1>6. TypeOK'
  BY <1>1, <1>2, <1>4, <1>5
  DEF IInv, TypeOK, WaitTypeOK, control, lockFree, priorities
<1>7. Containers'
  BY <1>2, <1>4 DEF IInv, Containers, WaitTypeOK, lockFree
<1>8. WaitersAreParked'
  <2>1. SUFFICES ASSUME NEW g \in Futex, NEW u \in Thread
                 PROVE  futex'[u] = g <=> u \in Range(Waiting(g)')
    BY DEF WaitersAreParked
  <2>2. futex[u] = g <=> u \in Range(Waiting(g))
    BY DEF IInv, WaitersAreParked
  <2>3. futex[t] # g
    BY <1>1, Facts
  <2>4. CASE g = f
    BY <1>4, <1>5, <2>2, <2>4
  <2>5. CASE g # f
    <3>1. Range(Waiting(g)') = Range(Waiting(g))
      BY <1>4, <2>5
    <3>2. QED
      BY <1>5, <2>2, <2>3, <2>5, <3>1
  <2>6. QED
    BY <2>4, <2>5
<1>9. NextIsApart' /\ Phases'
  BY <1>1, <1>2 DEF IInv, NextIsApart, Phases, control
<1>10. ReadySet' = ReadySet
  BY <1>2 DEF ReadySet, control
<1>11. Parked(t, f)
  BY <1>1, <1>2, <1>10 DEF Parked, lockFree
<1>12. QED
  BY <1>6, <1>7, <1>8, <1>9, <1>11 DEF Rest, Effect

(* A waiter is taken out of its futex queue and queued to run. *)
LEMMA WakeKeeps ==
  ASSUME IInv, NEW f \in Futex, NEW u \in Thread, phase = "run",
         WaitTypeOK', u \in Range(Waiting(f)), Range(Waiting(f)') = Range(Waiting(f)) \ {u},
         \A g \in Futex : g # f => Waiting(g)' = Waiting(g),
         futex' = [futex EXCEPT ![u] = None], runq' = Queued(runq, u),
         UNCHANGED <<control, ids, alive, running, preemptive, scopes, next, lockFree, priorities>>
  PROVE  Rest' /\ Woken(u)
<1>1. futex[u] = f /\ futex[u] # None
  BY Facts DEF IInv, WaitersAreParked
<1>2. u \notin ReadySet /\ u \in alive /\ running # u
  BY <1>1 DEF IInv, OnePlace, Placed
<1>3. IsQueue(runq') /\ Range(runq') = Range(runq) \cup {u}
  BY <1>2, Facts, QueuedAdds
<1>4. /\ futex' \in [Thread -> Futex \cup {None}] /\ futex'[u] = None
      /\ \A v \in Thread : v # u => futex'[v] = futex[v]
  BY DEF IInv, TypeOK
<1>5. TypeOK'
  BY <1>3, <1>4, QueueFacts DEF IInv, TypeOK, WaitTypeOK, control, lockFree, priorities
<1>6. Containers'
  BY <1>3 DEF IInv, Containers, WaitTypeOK, lockFree
<1>7. WaitersAreParked'
  <2>1. SUFFICES ASSUME NEW g \in Futex, NEW v \in Thread
                 PROVE  futex'[v] = g <=> v \in Range(Waiting(g)')
    BY DEF WaitersAreParked
  <2>2. futex[v] = g <=> v \in Range(Waiting(g))
    BY DEF IInv, WaitersAreParked
  <2>3. g # None
    BY Facts
  <2>4. CASE g = f
    BY <1>4, <2>2, <2>3, <2>4
  <2>5. CASE g # f
    <3>1. Range(Waiting(g)') = Range(Waiting(g))
      BY <2>5
    <3>2. QED
      BY <1>1, <1>4, <2>2, <2>3, <2>5, <3>1
  <2>6. QED
    BY <2>4, <2>5
<1>8. next # u
  <2>1. CASE kind = "coop"
    BY <1>2, <2>1, Facts DEF IInv, NextIsApart
  <2>2. CASE kind # "coop"
    BY <1>2, <2>2, Facts DEF ReadySet
  <2>3. QED
    BY <2>1, <2>2
<1>9. NextIsApart' /\ Phases'
  BY <1>3, <1>8 DEF IInv, NextIsApart, Phases, control
<1>10. ReadySet' = ReadySet \cup {u}
  BY <1>3 DEF ReadySet, control
<1>11. Woken(u)
  BY <1>1, <1>10 DEF Woken, lockFree
<1>12. QED
  BY <1>5, <1>6, <1>7, <1>9, <1>11 DEF Rest

(* FutexWakeOne *)
LEMMA FutexWakeOneKeeps ==
  ASSUME IInv, NEW t \in Thread, NEW f \in Futex, FutexWakeOne(t, f) PROVE Rest' /\ Effect
<1>1. PICK i \in PopIndices(Waiting(f)) :
        /\ PopWaiter(f, i)
        /\ futex' = [futex EXCEPT ![Waiting(f)[i]] = None]
        /\ runq' = Queued(runq, Waiting(f)[i])
  BY DEF FutexWakeOne
<1>2. PICK u : u = Waiting(f)[i]
  OBVIOUS
<1>3. /\ WaitTypeOK' /\ u \in Range(Waiting(f)) /\ u \in Thread
      /\ Range(Waiting(f)') = Range(Waiting(f)) \ {u}
      /\ \A g \in Futex : g # f => Waiting(g)' = Waiting(g)
  BY <1>1, <1>2, Facts, PopWaiterRemoves
<1>4. /\ phase = "run"
      /\ UNCHANGED <<control, ids, alive, running, preemptive, scopes, next, lockFree, priorities>>
  BY DEF FutexWakeOne, Caller
<1>5. futex' = [futex EXCEPT ![u] = None] /\ runq' = Queued(runq, u)
  BY <1>1, <1>2
<1>6. Rest' /\ Woken(u)
  BY <1>3, <1>4, <1>5, WakeKeeps
<1>7. QED
  BY <1>3, <1>6 DEF Effect

(* A timer or a spurious wake-up: the waiter is found. *)
LEMMA WakeWaiterKeeps == ASSUME IInv, NEW t \in Thread, WakeWaiter(t) PROVE Rest' /\ Effect
<1>1. PICK f : f = futex[t]
  OBVIOUS
<1>2. f \in Futex /\ t \in Range(Waiting(f)) /\ phase = "run"
  BY <1>1 DEF WakeWaiter, IInv, TypeOK, WaitersAreParked
<1>3. RemoveWaiter(waiters, f, t)
  BY <1>1 DEF WakeWaiter
<1>4. /\ WaitTypeOK' /\ Removes(waiters, f, t)
      /\ Range(Waiting(f)') = Range(Waiting(f)) \ {t}
      /\ \A g \in Futex : g # f => Waiting(g)' = Waiting(g)
  BY <1>2, <1>3, Facts, RemoveWaiterRemoves
<1>5. UNCHANGED <<control, ids, alive, running, preemptive, scopes, next, lockFree, priorities>>
  BY <1>1, <1>4 DEF WakeWaiter, control
<1>6. futex' = [futex EXCEPT ![t] = None] /\ runq' = Queued(runq, t)
  BY DEF WakeWaiter
<1>7. Rest' /\ Woken(t)
  BY <1>2, <1>4, <1>5, <1>6, WakeKeeps
<1>8. QED
  BY <1>7 DEF Effect

(* FutexWakeAll: all waiters go to the run queue, whatever the order. *)
LEMMA FutexWakeAllKeeps ==
  ASSUME IInv, NEW t \in Thread, NEW f \in Futex, FutexWakeAll(t, f) PROVE Rest' /\ Effect
<1>1. /\ t \in alive /\ running = t /\ phase = "run" /\ next = None /\ ReadySet = Range(runq)
  BY CallerFacts DEF FutexWakeAll
<1>2. /\ PopAllWaiters(f)
      /\ futex' = [u \in Thread |-> IF futex[u] = f THEN None ELSE futex[u]]
      /\ runq' = FoldLeft(Queued, runq, PopAllOrder(Waiting(f)))
      /\ UNCHANGED <<control, ids, alive, running, preemptive, scopes, next, lockFree, priorities>>
  BY DEF FutexWakeAll
<1>3. /\ WaitTypeOK' /\ Waiting(f)' = <<>>
      /\ \A g \in Futex : g # f => Waiting(g)' = Waiting(g)
  BY <1>2, Facts, PopAllRemoves
<1>4. PICK w : w = PopAllOrder(Waiting(f))
  OBVIOUS
<1>5. IsQueue(w) /\ Range(w) = Range(Waiting(f))
  BY <1>4, Facts, WaitingIsQueue, PopAllReturns
<1>6. Range(w) = {u \in Thread : futex[u] = f}
  <2>1. Range(w) \subseteq Thread
    BY <1>5, QueueFacts
  <2>2. QED
    BY <1>5, <2>1 DEF IInv, WaitersAreParked
<1>7. Range(w) \cap Range(runq) = {}
  <2>1. ASSUME NEW u \in Range(w) PROVE u \notin Range(runq)
    <3>1. u \in Thread /\ futex[u] # None
      BY <1>6, <2>1, Facts
    <3>2. QED
      BY <1>1, <3>1 DEF IInv, OnePlace, Placed
  <2>2. QED
    BY <2>1
<1>8. IsQueue(runq') /\ Range(runq') = Range(runq) \cup Range(w)
  BY <1>2, <1>4, <1>5, <1>7, Facts, QueuedAll
<1>9. futex' \in [Thread -> Futex \cup {None}]
  BY <1>2 DEF IInv, TypeOK
<1>10. TypeOK'
  BY <1>2, <1>3, <1>8, <1>9, QueueFacts
  DEF IInv, TypeOK, WaitTypeOK, control, lockFree, priorities
<1>11. Containers'
  BY <1>2, <1>3, <1>8 DEF IInv, Containers, WaitTypeOK, lockFree
<1>12. WaitersAreParked'
  <2>1. SUFFICES ASSUME NEW g \in Futex, NEW u \in Thread
                 PROVE  futex'[u] = g <=> u \in Range(Waiting(g)')
    BY DEF WaitersAreParked
  <2>2. futex[u] = g <=> u \in Range(Waiting(g))
    BY DEF IInv, WaitersAreParked
  <2>3. g # None /\ futex'[u] = IF futex[u] = f THEN None ELSE futex[u]
    BY <1>2, Facts
  <2>4. CASE g = f
    BY <1>3, <2>3, <2>4, SmallQueues
  <2>5. CASE g # f
    <3>1. Range(Waiting(g)') = Range(Waiting(g))
      BY <1>3, <2>5
    <3>2. QED
      BY <2>2, <2>3, <2>5, <3>1
  <2>6. QED
    BY <2>4, <2>5
<1>13. NextIsApart' /\ Phases'
  BY <1>1, <1>2 DEF IInv, NextIsApart, Phases, control
<1>14. ReadySet' = ReadySet \cup {u \in Thread : futex[u] = f}
  BY <1>1, <1>2, <1>6, <1>8 DEF ReadySet, control
<1>15. AllWoken(f)
  BY <1>2, <1>14 DEF AllWoken, lockFree
<1>16. QED
  BY <1>10, <1>11, <1>12, <1>13, <1>15 DEF Rest, Effect

(* LfResume: a suspended thread is queued again, if there is one. *)
LEMMA LfResumeKeeps ==
  ASSUME IInv, NEW t \in Thread, Caller(t), LfResume \/ UNCHANGED <<suspended, runq>>,
         UNCHANGED <<alive, running, futex, next, kind>>
  PROVE  /\ IsQueue(runq') /\ IsQueue(suspended')
         /\ Still \/ \E u \in Thread : Resumed(u)
<1>1. next = None /\ ReadySet = Range(runq)
  BY CallerFacts
<1>2. ReadySet' = Range(runq')
  BY <1>1 DEF ReadySet
<1>3. CASE UNCHANGED <<suspended, runq>>
  BY <1>1, <1>2, <1>3, Facts DEF Still
<1>4. CASE suspended # <<>> /\ LfResume
  <2>1. PICK i \in DOMAIN suspended :
          suspended' = Dropped(suspended, i) /\ runq' = Queued(runq, suspended[i])
    BY <1>4 DEF LfResume
  <2>2. PICK u : u = suspended[i]
    OBVIOUS
  <2>3. u \in Range(suspended) /\ u \in Thread
    BY <2>2, Facts DEF Range
  <2>4. IsQueue(suspended') /\ Range(suspended') = Range(suspended) \ {u}
    BY <2>1, <2>2, Facts, DroppedRemoves
  <2>5. u \notin Range(runq)
    BY <1>1, <2>3 DEF IInv, OnePlace, Placed
  <2>6. IsQueue(runq') /\ Range(runq') = Range(runq) \cup {u}
    BY <2>1, <2>2, <2>3, <2>5, Facts, QueuedAdds
  <2>7. Resumed(u)
    BY <1>1, <1>2, <2>3, <2>4, <2>6 DEF Resumed
  <2>8. QED
    BY <2>3, <2>4, <2>6, <2>7
<1>5. QED
  BY <1>3, <1>4 DEF LfResume

(* A call that only moves suspended threads *)
LEMMA ScopeCallKeeps ==
  ASSUME IInv, NEW t \in Thread, Caller(t), LfResume \/ UNCHANGED <<suspended, runq>>,
         scopes' \in [Thread -> Nat], preemptive' \in [Thread -> BOOLEAN], lfCount' \in Int,
         lfMarked' \subseteq Thread,
         UNCHANGED <<control, ids, alive, running, futex, next, single, waiters, priorities>>
  PROVE  Rest' /\ Effect
<1>1. phase = "run" /\ running = t /\ next = None
  BY CallerFacts
<1>2. /\ IsQueue(runq') /\ IsQueue(suspended')
      /\ Still \/ \E u \in Thread : Resumed(u)
  BY LfResumeKeeps DEF control
<1>3. TypeOK'
  BY <1>2, QueueFacts DEF IInv, TypeOK, control, priorities
<1>4. Containers' /\ WaitersAreParked'
  BY <1>2, WaitersKept DEF Containers
<1>5. NextIsApart' /\ Phases'
  BY <1>1 DEF IInv, NextIsApart, Phases, control
<1>6. QED
  BY <1>2, <1>3, <1>4, <1>5 DEF Rest, Effect

(* The four calls of this kind *)
LEMMA ScopeCallsKeep ==
  ASSUME IInv, NEW t \in Thread,
         EnterScope(t) \/ LeaveScope(t) \/ Progress(t) \/ SetPreemptive(t)
  PROVE  Rest' /\ Effect
<1>1. /\ scopes \in [Thread -> Nat] /\ preemptive \in [Thread -> BOOLEAN] /\ lfCount \in Int
      /\ lfMarked \subseteq Thread
  BY DEF IInv, TypeOK
<1>2. CASE EnterScope(t)
  <2>1. scopes' \in [Thread -> Nat] /\ lfCount' \in Int
    BY <1>1, <1>2 DEF EnterScope
  <2>2. QED
    BY <1>1, <1>2, <2>1, ScopeCallKeeps DEF EnterScope
<1>3. CASE LeaveScope(t)
  <2>1. scopes' \in [Thread -> Nat] /\ lfCount' \in Int
    <3>1. scopes[t] - 1 \in Nat
      BY <1>1, <1>3 DEF LeaveScope
    <3>2. QED
      BY <1>1, <1>3, <3>1 DEF LeaveScope
  <2>2. LfResume \/ UNCHANGED <<suspended, runq>>
    BY <1>3 DEF LeaveScope
  <2>3. QED
    BY <1>1, <1>3, <2>1, <2>2, ScopeCallKeeps DEF LeaveScope
<1>4. CASE Progress(t)
  <2>1. lfMarked' \subseteq Thread
    BY <1>1, <1>4 DEF Progress
  <2>2. LfResume \/ UNCHANGED <<suspended, runq>>
    BY <1>4 DEF Progress
  <2>3. QED
    BY <1>1, <1>4, <2>1, <2>2, ScopeCallKeeps DEF Progress, kernel
<1>5. CASE SetPreemptive(t)
  <2>1. PICK b \in BOOLEAN : b = ~preemptive[t]
    BY <1>1
  <2>2. preemptive' = [preemptive EXCEPT ![t] = b]
    BY <1>5, <2>1 DEF SetPreemptive
  <2>3. preemptive' \in [Thread -> BOOLEAN]
    BY <1>1, <2>2
  <2>4. QED
    BY <1>1, <1>5, <2>3, ScopeCallKeeps DEF SetPreemptive, lockFree
<1>6. QED
  BY <1>2, <1>3, <1>4, <1>5

(* The fields of a thread that goes *)
LEMMA DestroyedTypes ==
  ASSUME IInv, NEW t \in Thread, Destroyed(t)
  PROVE  /\ alive' = alive \ {t} /\ alive' \subseteq Thread
         /\ preemptive' \in [Thread -> BOOLEAN] /\ scopes' \in [Thread -> Nat]
         /\ prior' \in [Thread -> Int] /\ lfMarked' \subseteq Thread
  BY DEF IInv, TypeOK, Destroyed

(* A thread ends; with the main one the loop is left. *)
LEMMA ExitKeeps == ASSUME IInv, NEW t \in Thread, Exit(t) PROVE Rest' /\ Effect
<1>1. /\ t \in alive /\ running = t /\ phase = "run" /\ next = None /\ ReadySet = Range(runq)
      /\ t \notin Range(runq) /\ t \notin Range(suspended) /\ running' = None /\ futex[t] = None
  BY CallerFacts DEF Exit, Stops
<1>2. /\ Destroyed(t)
      /\ UNCHANGED <<kind, ids, futex, runq, next, single, waiters, suspended, lfCount, nextPrior,
                     initPrior, estimate, changes>>
  BY DEF Exit
<1>3. phase' \in {"run", "burn"} /\ (phase' = "burn" => kind \in BurnKinds \/ alive = {t})
  BY <1>1 DEF Exit
<1>4. TypeOK'
  BY <1>1, <1>2, <1>3, DestroyedTypes DEF IInv, TypeOK
<1>5. Containers' /\ WaitersAreParked'
  BY <1>2, WaitersKept DEF IInv, Containers
<1>6. NextIsApart'
  BY <1>1, <1>2 DEF NextIsApart
<1>7. Phases'
  BY <1>2, <1>3, DestroyedTypes DEF IInv, Phases
<1>8. ReadySet' = ReadySet
  BY <1>2 DEF ReadySet
<1>9. futex' = [futex EXCEPT ![t] = None]
  BY <1>1, <1>2 DEF IInv, TypeOK
<1>10. Range(suspended)' = Range(suspended) \ {t} /\ ReadySet' = ReadySet \ {t}
  <2>1. Range(suspended)' = Range(suspended)
    BY <1>2
  <2>2. QED
    BY <1>1, <1>8, <2>1
<1>11. Left(t)
  BY <1>1, <1>2, <1>9, <1>10, DestroyedTypes DEF Left
<1>12. QED
  BY <1>4, <1>5, <1>6, <1>7, <1>11 DEF Rest, Effect

(* The loop is left with threads alive. *)
LEMMA BurnAllKeeps == ASSUME IInv, BurnAll PROVE Rest' /\ Effect
<1>1. /\ kind \in BurnKinds /\ phase = "run" /\ phase' = "burn" /\ (running # None \/ IsIdle)
      /\ UNCHANGED <<kind, kernel, runq, next, single, waiters, lockFree, priorities>>
  BY DEF BurnAll
<1>2. next = None
  BY <1>1, SmallQueues DEF IInv, NextIsApart, IsIdle
<1>3. TypeOK'
  BY <1>1 DEF IInv, TypeOK, kernel, lockFree, priorities
<1>4. Containers' /\ WaitersAreParked'
  BY <1>1, WaitersKept DEF IInv, Containers, kernel, lockFree
<1>5. NextIsApart' /\ Phases'
  BY <1>1, <1>2 DEF IInv, NextIsApart, Phases, kernel
<1>6. Still
  BY <1>1 DEF Still, ReadySet, kernel, lockFree
<1>7. QED
  BY <1>3, <1>4, <1>5, <1>6 DEF Rest, Effect

(* A thread is burnt: it is taken out of whatever has it, and found there. *)
LEMMA BurnKeeps == ASSUME BurnsAreSafe, IInv, NEW t \in Thread, Burn(t) PROVE Rest' /\ Effect
<1>1. /\ phase = "burn" /\ t \in alive /\ Destroyed(t)
      /\ running' = IF running = t THEN None ELSE running
      /\ UNCHANGED <<kind, ids, next, lfCount, nextPrior, initPrior, estimate, changes>>
  BY DEF Burn
<1>2. kind \in BurnKinds /\ kind # "pct" /\ kind # "coop"
  BY <1>1 DEF BurnsAreSafe, IInv, Phases
<1>3. LeftInRunQueue(t) = Without(runq, t) /\ LeftInFutexQueues(t) = waiters
  BY <1>2 DEF LeftInRunQueue, LeftInFutexQueues
<1>4. next = None
  BY <1>1 DEF IInv, NextIsApart
<1>5. runq' = Without(runq, t) /\ suspended' = Without(suspended, t)
  BY <1>3 DEF Burn
<1>6. IsQueue(runq') /\ Range(runq') = Range(runq) \ {t}
  BY <1>5, Facts, WithoutRemoves
<1>7. IsQueue(suspended') /\ Range(suspended') = Range(suspended) \ {t}
  BY <1>5, Facts, WithoutRemoves
<1>8. /\ WaitTypeOK' /\ WaitersAreParked' /\ phase' = phase
      /\ futex' = [futex EXCEPT ![t] = None] /\ futex' \in [Thread -> Futex \cup {None}]
  <2>1. CASE futex[t] = None
    <3>1. UNCHANGED <<phase, futex, single, waiters>>
      BY <1>3, <2>1 DEF Burn
    <3>2. WaitersAreParked' /\ WaitTypeOK'
      BY <3>1, WaitersKept, Facts DEF WaitTypeOK
    <3>3. QED
      BY <2>1, <3>1, <3>2 DEF IInv, TypeOK
  <2>2. CASE futex[t] # None
    <3>1. PICK f : f = futex[t]
      OBVIOUS
    <3>2. f \in Futex /\ t \in Range(Waiting(f))
      BY <2>2, <3>1 DEF IInv, TypeOK, WaitersAreParked
    <3>3. /\ phase' = IF Removes(waiters, f, t) THEN phase ELSE "panic"
          /\ RemoveWaiter(waiters, f, t) /\ futex' = [futex EXCEPT ![t] = None]
      BY <1>3, <2>2, <3>1 DEF Burn
    <3>4. /\ WaitTypeOK' /\ Removes(waiters, f, t)
          /\ Range(Waiting(f)') = Range(Waiting(f)) \ {t}
          /\ \A g \in Futex : g # f => Waiting(g)' = Waiting(g)
      BY <3>2, <3>3, Facts, RemoveWaiterRemoves
    <3>5. /\ futex' \in [Thread -> Futex \cup {None}] /\ futex'[t] = None
          /\ \A v \in Thread : v # t => futex'[v] = futex[v]
      BY <3>3 DEF IInv, TypeOK
    <3>6. WaitersAreParked'
      <4>1. SUFFICES ASSUME NEW g \in Futex, NEW v \in Thread
                     PROVE  futex'[v] = g <=> v \in Range(Waiting(g)')
        BY DEF WaitersAreParked
      <4>2. futex[v] = g <=> v \in Range(Waiting(g))
        BY DEF IInv, WaitersAreParked
      <4>3. g # None
        BY Facts
      <4>4. CASE g = f
        BY <3>4, <3>5, <4>2, <4>3, <4>4
      <4>5. CASE g # f
        <5>1. Range(Waiting(g)') = Range(Waiting(g))
          BY <3>4, <4>5
        <5>2. QED
          BY <3>1, <3>5, <4>2, <4>3, <4>5, <5>1
      <4>6. QED
        BY <4>4, <4>5
    <3>7. QED
      BY <3>3, <3>4, <3>5, <3>6
  <2>3. QED
    BY <2>1, <2>2
<1>9. running' \in Thread \cup {None}
  BY <1>1 DEF IInv, TypeOK
<1>10. TypeOK'
  BY <1>1, <1>6, <1>7, <1>8, <1>9, DestroyedTypes, QueueFacts DEF IInv, TypeOK, WaitTypeOK
<1>11. Containers'
  BY <1>6, <1>7, <1>8 DEF Containers, WaitTypeOK
<1>12. NextIsApart' /\ Phases'
  BY <1>1, <1>2, <1>4, <1>8, DestroyedTypes DEF IInv, NextIsApart, Phases
<1>13. ReadySet = Range(runq) /\ ReadySet' = Range(runq')
  BY <1>1, <1>4 DEF ReadySet
<1>14. Left(t)
  BY <1>1, <1>6, <1>7, <1>8, <1>13, DestroyedTypes DEF Left
<1>15. QED
  BY <1>8, <1>10, <1>11, <1>12, <1>14 DEF Rest, Effect

(* A step of none of the calls *)
LEMMA StutterKeeps == ASSUME IInv, UNCHANGED vars PROVE Rest' /\ Effect
<1>1. /\ UNCHANGED <<kind, phase, ids, alive, running, futex, preemptive, scopes, runq, next, single,
                     waiters, suspended, lfCount, lfMarked>>
      /\ UNCHANGED <<prior, nextPrior, initPrior, estimate, changes>>
  BY DEF vars, control, kernel, lockFree, priorities
<1>2. TypeOK'
  BY <1>1 DEF IInv, TypeOK
<1>3. Containers' /\ WaitersAreParked'
  BY <1>1, WaitersKept DEF IInv, Containers
<1>4. NextIsApart' /\ Phases'
  BY <1>1 DEF IInv, NextIsApart, Phases
<1>5. Still
  BY <1>1 DEF Still, ReadySet
<1>6. QED
  BY <1>2, <1>3, <1>4, <1>5 DEF Rest, Effect

(* Every step keeps the invariant and has one of the effects. *)
LEMMA StepKeeps == ASSUME BurnsAreSafe, IInv, [Next]_vars PROVE IInv' /\ Effect
<1>1. Rest' /\ Effect
  <2>1. ASSUME NEW t \in Thread, ThreadCall(t) PROVE Rest' /\ Effect
    BY <2>1, InterruptKeeps, YieldKeeps, ScopeCallsKeep, ExitKeeps, SwitchToKeeps, ParkKeeps,
       FutexWakeOneKeeps, FutexWakeAllKeeps DEF ThreadCall
  <2>2. ASSUME NEW t \in Thread, Spawn(t) \/ WakeWaiter(t) \/ Burn(t) PROVE Rest' /\ Effect
    BY <2>2, SpawnKeeps, WakeWaiterKeeps, BurnKeeps
  <2>3. QED
    BY <2>1, <2>2, StopLoopKeeps, StartKeeps, PickNextKeeps, BurnAllKeeps, StutterKeeps DEF Next
<1>2. OnePlace'
  BY <1>1, EffectKeepsPlaces DEF IInv
<1>3. QED
  BY <1>1, <1>2 DEF Rest, IInv

(* Initially there are no threads. *)
LEMMA InitKeeps == ASSUME Init PROVE IInv
<1> USE ConstantsAssumption DEF Init
<1>1. None \notin Thread /\ None \notin Futex
  BY DEF Thread
<1>2. \A f \in Futex : single[f] = None /\ waiters[f] = NoQueue /\ Waiting(f) = <<>>
  BY DEF Waiting
<1>3. TypeOK
  <2>1. initPrior \in [DOMAIN initPrior -> Nat \ {0}]
    OBVIOUS
  <2>2. /\ futex \in [Thread -> Futex \cup {None}] /\ preemptive \in [Thread -> BOOLEAN]
        /\ scopes \in [Thread -> Nat] /\ prior \in [Thread -> Int]
    OBVIOUS
  <2>3. QED
    BY <2>1, <2>2 DEF TypeOK
<1>4. Containers
  BY <1>2, SmallQueues DEF Containers
<1>5. WaitersAreParked
  BY <1>1, <1>2, SmallQueues DEF WaitersAreParked
<1>6. ReadySet = {} /\ Range(suspended) = {}
  BY SmallQueues DEF ReadySet
<1>7. OnePlace
  <2>1. Placed({}, {}, None, {}, futex)
    BY <1>1 DEF Placed
  <2>2. QED
    BY <1>6, <2>1 DEF OnePlace
<1>8. NextIsApart /\ Phases
  BY DEF NextIsApart, Phases
<1>9. QED
  BY <1>3, <1>4, <1>5, <1>7, <1>8 DEF IInv

(* The inductive invariant of the schedulers: each thread is in one place, once; the waiters of
   a futex are those whose Thread::futex says so; the thread that goes on next is apart from the
   run queue; no verification has failed. Runs of PCT and of the cooperative scheduler end
   without threads to burn. *)
THEOREM SchedulersInvariant == ASSUME BurnsAreSafe PROVE Spec => []IInv
<1>1. Init => IInv
  BY InitKeeps
<1>2. IInv /\ [Next]_vars => IInv'
  BY StepKeeps
<1>3. QED
  BY <1>1, <1>2, PTL DEF Spec

(* Type correctness of the schedulers *)
THEOREM SchedulersTypeCorrect == ASSUME BurnsAreSafe PROVE Spec => []TypeOK
<1>1. IInv => TypeOK
  BY DEF IInv
<1>2. QED
  BY <1>1, SchedulersInvariant, PTL

(* No WHEELS_VERIFY of the queues of the schedulers and of the futexes fails: a waiter that is
   woken by a timer or burnt is in the queue of its futex, and the queues are empty when the loop
   ends, the futexes are destroyed and the next simulation starts. *)
THEOREM NoVerifyFails == ASSUME BurnsAreSafe PROVE Spec => []VerifiesHold
<1>1. IInv => VerifiesHold
  BY DEF IInv, Phases, VerifiesHold
<1>2. QED
  BY <1>1, SchedulersInvariant, PTL

-----------------------------------------------------------------------------
(* The contract of IScheduler *)

(* The place of a thread by the sets that OnePlace is about *)
PlaceIn(R, r, S, x, t) ==
  IF t \in R THEN {"ready"}
  ELSE IF r = t THEN {"running"}
  ELSE IF t \in S THEN {"held"}
  ELSE IF x[t] # None THEN {x[t]} ELSE {}

Places == [t \in Thread |-> PlaceIn(ReadySet, running, Range(suspended), futex, t)]

(* The containers have a thread in the one place where the invariant has it. *)
LEMMA PlacesAre == ASSUME IInv PROVE [t \in Thread |-> PlacesOf(t)] = Places
<1>1. SUFFICES ASSUME NEW t \in Thread
               PROVE  PlacesOf(t) = PlaceIn(ReadySet, running, Range(suspended), futex, t)
  BY DEF Places
<1>2. {"ready" : i \in {j \in DOMAIN runq : runq[j] = t}} = IF t \in Range(runq) THEN {"ready"} ELSE {}
  BY DEF Range
<1>3. {"held" : i \in {j \in DOMAIN suspended : suspended[j] = t}}
        = IF t \in Range(suspended) THEN {"held"} ELSE {}
  BY DEF Range
<1>4. {f \in Futex : t \in Range(Waiting(f))} = IF futex[t] # None THEN {futex[t]} ELSE {}
  <2>1. \A f \in Futex : t \in Range(Waiting(f)) <=> futex[t] = f
    BY DEF IInv, WaitersAreParked
  <2>2. futex[t] \in Futex \cup {None} /\ None \notin Futex
    BY Facts DEF IInv, TypeOK
  <2>3. QED
    BY <2>1, <2>2
<1>5. t \in ReadySet <=> t \in Range(runq) \/ (t = next /\ kind # "coop")
  BY Facts DEF ReadySet
<1>6. PlacesOf(t) = (IF t \in ReadySet THEN {"ready"} ELSE {})
                      \cup (IF t = running THEN {"running"} ELSE {})
                      \cup (IF t \in Range(suspended) THEN {"held"} ELSE {})
                      \cup (IF futex[t] # None THEN {futex[t]} ELSE {})
  <2>1. PICK w : w = {f \in Futex : t \in Range(Waiting(f))}
    OBVIOUS
  <2>2. PICK h : h = {"held" : i \in {j \in DOMAIN suspended : suspended[j] = t}}
    OBVIOUS
  <2>3. PICK r : r = {"ready" : i \in {j \in DOMAIN runq : runq[j] = t}}
    OBVIOUS
  <2>4. PlacesOf(t) = r \cup (IF t = next /\ kind # "coop" THEN {"ready"} ELSE {})
                        \cup (IF t = running THEN {"running"} ELSE {}) \cup h \cup w
    BY <2>1, <2>2, <2>3, Zenon DEF PlacesOf
  <2>5. r \cup (IF t = next /\ kind # "coop" THEN {"ready"} ELSE {})
          = IF t \in ReadySet THEN {"ready"} ELSE {}
    BY <1>2, <1>5, <2>3
  <2>6. QED
    BY <1>3, <1>4, <2>1, <2>2, <2>4, <2>5
<1>7. /\ t \in ReadySet => running # t /\ t \notin Range(suspended) /\ futex[t] = None
      /\ running = t => t \notin Range(suspended) /\ futex[t] = None
      /\ t \in Range(suspended) => futex[t] = None
  BY DEF IInv, OnePlace, Placed
<1>8. QED
  BY <1>6, <1>7 DEF PlaceIn

PlacesMatch == [t \in Thread |-> PlacesOf(t)] = Places

(* So they do after a step. *)
LEMMA PlacesAreThen == IInv' => PlacesMatch'
<1>1. IInv => PlacesMatch
  BY PlacesAre DEF PlacesMatch
<1>2. QED
  BY <1>1, PTL

(* Every effect is a step of the contract, or none. *)
LEMMA EffectIsContractStep ==
  ASSUME IInv, Effect,
         NEW p, p = Places, NEW q, q = Places',
         p = [t \in Thread |-> PlacesOf(t)], q = [t \in Thread |-> PlacesOf(t)]'
  PROVE  Contract!Next \/ UNCHANGED <<[t \in Thread |-> PlacesOf(t)], alive>>
<1>1. PICK R : R = ReadySet
  OBVIOUS
<1>2. PICK S : S = Range(suspended)
  OBVIOUS
<1>3. PICK Q : Q = ReadySet'
  OBVIOUS
<1>4. PICK Z : Z = Range(suspended)'
  OBVIOUS
<1>5. p = [t \in Thread |-> PlaceIn(R, running, S, futex, t)]
  BY <1>1, <1>2 DEF Places
<1>6. q = [t \in Thread |-> PlaceIn(Q, running', Z, futex', t)]
  BY <1>3, <1>4 DEF Places
<1>7. Placed(alive, R, running, S, futex)
  BY <1>1, <1>2 DEF IInv, OnePlace
<1>8. /\ futex \in [Thread -> Futex \cup {None}] /\ running \in Thread \cup {None}
      /\ None \notin Thread /\ None \notin Futex
      /\ "ready" \notin Futex /\ "running" \notin Futex /\ "held" \notin Futex
  BY Facts, ConstantsAssumption DEF IInv, TypeOK
<1>9. \A t \in Thread : p[t] = PlaceIn(R, running, S, futex, t)
  BY <1>5
<1>10. \A t \in Thread : q[t] = PlaceIn(Q, running', Z, futex', t)
  BY <1>6
<1>11. p \in [Thread -> SUBSET (Futex \cup {"ready", "running", "held"})]
  BY <1>5, <1>8 DEF PlaceIn
<1>12. CASE Still
  <2>1. Q = R /\ Z = S /\ running' = running /\ futex' = futex /\ alive' = alive
    BY <1>1, <1>2, <1>3, <1>4, <1>12 DEF Still
  <2>2. q = p
    BY <1>5, <1>6, <2>1
  <2>3. QED
    BY <2>1, <2>2
<1>13. ASSUME NEW t \in Thread, Spawned(t) PROVE Contract!Spawn(t)
  <2>1. /\ t \notin alive /\ alive' = alive \cup {t} /\ Q = R \cup {t}
        /\ running' = running /\ Z = S /\ futex' = futex
    BY <1>1, <1>2, <1>3, <1>4, <1>13 DEF Spawned
  <2>2. p[t] = {}
    BY <1>7, <1>9, <2>1 DEF Placed, PlaceIn
  <2>3. \A u \in Thread : q[u] = IF u = t THEN {"ready"} ELSE p[u]
    BY <1>9, <1>10, <2>1 DEF PlaceIn
  <2>4. q = [p EXCEPT ![t] = {"ready"}]
    BY <1>5, <1>6, <2>3
  <2>5. QED
    BY <2>1, <2>2, <2>4 DEF Contract!Spawn, Contract!Move, Contract!Nowhere, Contract!Ready
<1>14. ASSUME NEW t \in Thread, Dispatched(t) PROVE alive' = alive /\ Contract!Dispatch(t)
  <2>1. /\ running = None /\ t \in R /\ running' = t /\ Q = R \ {t}
        /\ alive' = alive /\ Z = S /\ futex' = futex
    BY <1>1, <1>2, <1>3, <1>4, <1>14 DEF Dispatched
  <2>2. p[t] = {"ready"} /\ \A u \in Thread : p[u] # {"running"}
    BY <1>8, <1>9, <2>1 DEF PlaceIn
  <2>3. \A u \in Thread : q[u] = IF u = t THEN {"running"} ELSE p[u]
    BY <1>8, <1>9, <1>10, <2>1 DEF PlaceIn
  <2>4. q = [p EXCEPT ![t] = {"running"}]
    BY <1>5, <1>6, <2>3
  <2>5. QED
    BY <2>1, <2>2, <2>4 DEF Contract!Dispatch, Contract!Move, Contract!Running, Contract!Ready
<1>15. ASSUME NEW t \in Thread, Requeued(t) PROVE alive' = alive /\ Contract!Requeue(t)
  <2>1. /\ running = t /\ running' = None /\ Q = R \cup {t}
        /\ alive' = alive /\ Z = S /\ futex' = futex
    BY <1>1, <1>2, <1>3, <1>4, <1>15 DEF Requeued
  <2>2. p[t] = {"running"}
    BY <1>7, <1>9, <2>1 DEF Placed, PlaceIn
  <2>3. \A u \in Thread : q[u] = IF u = t THEN {"ready"} ELSE p[u]
    BY <1>8, <1>9, <1>10, <2>1 DEF PlaceIn
  <2>4. q = [p EXCEPT ![t] = {"ready"}]
    BY <1>5, <1>6, <2>3
  <2>5. QED
    BY <2>1, <2>2, <2>4 DEF Contract!Requeue, Contract!Move, Contract!Running, Contract!Ready
<1>16. ASSUME NEW t \in Thread, Suspends(t) PROVE alive' = alive /\ Contract!Hold(t)
  <2>1. /\ running = t /\ running' = None /\ Z = S \cup {t}
        /\ alive' = alive /\ Q = R /\ futex' = futex
    BY <1>1, <1>2, <1>3, <1>4, <1>16 DEF Suspends
  <2>2. p[t] = {"running"} /\ t \notin R
    BY <1>7, <1>9, <2>1 DEF Placed, PlaceIn
  <2>3. \A u \in Thread : q[u] = IF u = t THEN {"held"} ELSE p[u]
    BY <1>8, <1>9, <1>10, <2>1, <2>2 DEF PlaceIn
  <2>4. q = [p EXCEPT ![t] = {"held"}]
    BY <1>5, <1>6, <2>3
  <2>5. QED
    BY <2>1, <2>2, <2>4 DEF Contract!Hold, Contract!Move, Contract!Running, Contract!Held
<1>17. ASSUME NEW t \in Thread, Resumed(t) PROVE alive' = alive /\ Contract!Release(t)
  <2>1. /\ t \in S /\ Z = S \ {t} /\ Q = R \cup {t}
        /\ alive' = alive /\ running' = running /\ futex' = futex
    BY <1>1, <1>2, <1>3, <1>4, <1>17 DEF Resumed
  <2>2. p[t] = {"held"}
    BY <1>7, <1>9, <2>1 DEF Placed, PlaceIn
  <2>3. \A u \in Thread : q[u] = IF u = t THEN {"ready"} ELSE p[u]
    BY <1>9, <1>10, <2>1 DEF PlaceIn
  <2>4. q = [p EXCEPT ![t] = {"ready"}]
    BY <1>5, <1>6, <2>3
  <2>5. QED
    BY <2>1, <2>2, <2>4 DEF Contract!Release, Contract!Move, Contract!Held, Contract!Ready
<1>18. ASSUME NEW t \in Thread, NEW f \in Futex, Parked(t, f)
       PROVE  alive' = alive /\ Contract!Park(t, f)
  <2>1. /\ running = t /\ running' = None /\ futex' = [futex EXCEPT ![t] = f]
        /\ alive' = alive /\ Q = R /\ Z = S
    BY <1>1, <1>2, <1>3, <1>4, <1>18 DEF Parked
  <2>2. p[t] = {"running"} /\ t \notin R /\ t \notin S
    BY <1>7, <1>9, <2>1 DEF Placed, PlaceIn
  <2>3. futex'[t] = f /\ f # None /\ \A u \in Thread : u # t => futex'[u] = futex[u]
    BY <1>8, <2>1
  <2>4. \A u \in Thread : q[u] = IF u = t THEN {f} ELSE p[u]
    BY <1>8, <1>9, <1>10, <2>1, <2>2, <2>3 DEF PlaceIn
  <2>5. q = [p EXCEPT ![t] = {f}]
    BY <1>5, <1>6, <2>4
  <2>6. QED
    BY <2>1, <2>2, <2>5 DEF Contract!Park, Contract!Move, Contract!Running
<1>19. ASSUME NEW t \in Thread, Woken(t)
       PROVE  alive' = alive /\ \E f \in Futex : Contract!Wake(t, f)
  <2>1. /\ futex[t] # None /\ futex' = [futex EXCEPT ![t] = None] /\ Q = R \cup {t}
        /\ alive' = alive /\ running' = running /\ Z = S
    BY <1>1, <1>2, <1>3, <1>4, <1>19 DEF Woken
  <2>2. PICK f \in Futex : f = futex[t]
    BY <1>8, <2>1
  <2>3. p[t] = {f}
    BY <1>7, <1>9, <2>1, <2>2 DEF Placed, PlaceIn
  <2>4. \A u \in Thread : u # t => futex'[u] = futex[u]
    BY <1>8, <2>1
  <2>5. \A u \in Thread : q[u] = IF u = t THEN {"ready"} ELSE p[u]
    <3>1. Q = R \cup {t} /\ running' = running /\ Z = S
      BY <2>1
    <3>2. QED
      BY <1>9, <1>10, <2>4, <3>1 DEF PlaceIn
  <2>6. q = [p EXCEPT ![t] = {"ready"}]
    BY <1>5, <1>6, <2>5
  <2>7. Contract!Wake(t, f)
    BY <2>3, <2>6 DEF Contract!Wake, Contract!Move, Contract!Ready
  <2>8. QED
    BY <2>1, <2>7
<1>20. ASSUME NEW t \in Thread, Left(t) PROVE Contract!Leave(t)
  <2>1. /\ t \in alive /\ alive' = alive \ {t} /\ Q = R \ {t} /\ Z = S \ {t}
        /\ running' = IF running = t THEN None ELSE running
        /\ futex' = [futex EXCEPT ![t] = None]
    BY <1>1, <1>2, <1>3, <1>4, <1>20 DEF Left
  <2>2. futex'[t] = None /\ \A u \in Thread : u # t => futex'[u] = futex[u]
    BY <1>8, <2>1
  <2>3. \A u \in Thread : q[u] = IF u = t THEN {} ELSE p[u]
    BY <1>8, <1>9, <1>10, <2>1, <2>2 DEF PlaceIn
  <2>4. q = [p EXCEPT ![t] = {}]
    BY <1>5, <1>6, <2>3
  <2>5. QED
    BY <2>1, <2>4 DEF Contract!Leave, Contract!Nowhere
<1>21. ASSUME NEW f \in Futex, AllWoken(f) PROVE alive' = alive /\ Contract!WakeAll(f)
  <2>1. /\ futex' = [u \in Thread |-> IF futex[u] = f THEN None ELSE futex[u]]
        /\ Q = R \cup {u \in Thread : futex[u] = f}
        /\ alive' = alive /\ running' = running /\ Z = S
    BY <1>1, <1>2, <1>3, <1>4, <1>21 DEF AllWoken
  <2>2. \A u \in Thread : p[u] = {f} <=> futex[u] = f
    BY <1>7, <1>8, <1>9 DEF Placed, PlaceIn
  <2>3. \A u \in Thread : q[u] = IF p[u] = {f} THEN {"ready"} ELSE p[u]
    BY <1>9, <1>10, <2>1, <2>2 DEF PlaceIn
  <2>4. q = [u \in Thread |-> IF p[u] = {f} THEN {"ready"} ELSE p[u]]
    BY <1>6, <2>3
  <2>5. QED
    BY <2>1, <2>4 DEF Contract!WakeAll, Contract!Ready
<1>22. QED
  BY <1>12, <1>13, <1>14, <1>15, <1>16, <1>17, <1>18, <1>19, <1>20, <1>21
  DEF Effect, Contract!Next

(* Every step of a scheduler is a step of the contract, or leaves every thread where it is. *)
LEMMA StepImplements ==
  ASSUME BurnsAreSafe, IInv, [Next]_vars
  PROVE  [Contract!Next]_<<[t \in Thread |-> PlacesOf(t)], alive>>
<1>1. IInv' /\ Effect
  BY StepKeeps
<1>2. [t \in Thread |-> PlacesOf(t)] = Places
  BY PlacesAre
<1>3. [t \in Thread |-> PlacesOf(t)]' = Places'
  BY <1>1, PlacesAreThen DEF PlacesMatch
<1>4. QED
  BY <1>1, <1>2, <1>3, EffectIsContractStep

(* All schedulers implement the contract of IScheduler, for any number of threads, futexes and
   simulations: a thread is in one place at a time, only threads that can run are picked, only
   waiters of the futex are woken, and nothing of a thread is left when it has exited or has been
   burnt. *)
THEOREM SchedulersImplementContract == ASSUME BurnsAreSafe PROVE Spec => ImplementsScheduler
<1>1. ASSUME Init PROVE Contract!Init
  <2>1. [t \in Thread |-> PlacesOf(t)] = Places
    BY <1>1, InitKeeps, PlacesAre
  <2>2. ReadySet = {} /\ Range(suspended) = {}
    BY <1>1, SmallQueues DEF Init, ReadySet
  <2>3. ASSUME NEW t \in Thread PROVE PlaceIn(ReadySet, running, Range(suspended), futex, t) = {}
    BY <1>1, <2>2, ConstantsAssumption DEF PlaceIn, Init, Thread
  <2>4. Places = [t \in Thread |-> {}]
    BY <2>3 DEF Places
  <2>5. QED
    BY <1>1, <2>1, <2>4 DEF Contract!Init, Contract!Nowhere, Init
<1>2. IInv /\ [Next]_vars => [Contract!Next]_<<[t \in Thread |-> PlacesOf(t)], alive>>
  BY StepImplements
<1>3. QED
  BY <1>1, <1>2, SchedulersInvariant, PTL DEF Spec, ImplementsScheduler, Contract!Spec

-----------------------------------------------------------------------------
(* The lock-free adversary of the random scheduler *)

LockFree == {t \in Thread : scopes[t] # 0}

(* lf_thread_count_ is the number of threads in a scope, where scopes are not nested, only such
   threads are suspended, and not all of them. *)
LfInv ==
  /\ \A t \in Thread : scopes[t] <= 1 /\ (scopes[t] # 0 => t \in alive)
  /\ phase = "run" =>
       /\ lfCount = Cardinality(LockFree)
       /\ Range(suspended) \subseteq LockFree
       /\ suspended # <<>> => Len(suspended) < lfCount

(* A sequence has at most as many elements as it is long. *)
LEMMA RangeIsSmall ==
  ASSUME NEW q, IsQueue(q) PROVE IsFiniteSet(Range(q)) /\ Cardinality(Range(q)) <= Len(q)
<1>1. q \in [1 .. Len(q) -> Range(q)] /\ Len(q) \in Nat
  <2>1. q \in [1 .. Len(q) -> Thread] /\ Len(q) \in Nat
    BY QueueFacts
  <2>2. \A i \in 1 .. Len(q) : q[i] \in Range(q)
    BY QueueFacts
  <2>3. QED
    BY <2>1, <2>2
<1>2. IsFiniteSet(1 .. Len(q)) /\ Cardinality(1 .. Len(q)) = Len(q)
  <2>1. PICK n \in Nat : n = Len(q)
    BY <1>1
  <2>2. 1 \in Int /\ n \in Int
    OBVIOUS
  <2>3. IsFiniteSet(1 .. n) /\ Cardinality(1 .. n) = IF 1 > n THEN 0 ELSE n - 1 + 1
    BY <2>2, FS_Interval
  <2>4. QED
    BY <2>1, <2>3
<1>3. q \in Surjection(1 .. Len(q), Range(q))
  <2>1. PICK D : D = 1 .. Len(q)
    OBVIOUS
  <2>2. PICK R : R = Range(q)
    OBVIOUS
  <2>3. q \in [D -> R] /\ \A t \in R : \E i \in D : q[i] = t
    BY <1>1, <2>1, <2>2, QueueFacts
  <2>4. q \in Surjection(D, R)
    BY <2>3, Zenon DEF Surjection
  <2>5. QED
    BY <2>1, <2>2, <2>4
<1>4. QED
  BY <1>2, <1>3, FS_Surjection

(* The set of threads in a scope is finite, grows by one and shrinks by one. *)
LEMMA LockFreeCount ==
  /\ IsFiniteSet(LockFree) /\ Cardinality(LockFree) \in Nat
  /\ \A t \in Thread : t \notin LockFree => Cardinality(LockFree \cup {t}) = Cardinality(LockFree) + 1
  /\ \A t \in Thread : t \in LockFree => Cardinality(LockFree \ {t}) = Cardinality(LockFree) - 1
<1>1. IsFiniteSet(Thread)
  BY FS_Interval, ConstantsAssumption DEF Thread
<1>2. IsFiniteSet(LockFree)
  BY <1>1, FS_Subset DEF LockFree
<1>3. QED
  BY <1>2, FS_CardinalityType, FS_AddElement, FS_RemoveElement

(* The scopes and the suspended threads are left alone, *)
LEMMA LfKept ==
  ASSUME LfInv, UNCHANGED <<scopes, lfCount, suspended>>,
         phase' = "run" => phase = "run",
         \A t \in Thread : scopes[t] # 0 => t \in alive'
  PROVE  LfInv'
<1>1. LockFree' = LockFree
  BY DEF LockFree
<1>2. QED
  BY <1>1 DEF LfInv

(* ... or threads are suspended and resumed; LfResume keeps one of the others running, *)
LEMMA LfResumed ==
  ASSUME IInv, LfInv, phase = "run", LfResume
  PROVE  /\ Range(suspended') \subseteq Range(suspended)
         /\ suspended' # <<>> => suspended # <<>> /\ Len(suspended') = Len(suspended) - 1
<1>1. CASE suspended = <<>>
  BY <1>1 DEF LfResume
<1>2. CASE suspended # <<>>
  <2>1. PICK i \in DOMAIN suspended : suspended' = Dropped(suspended, i)
    BY <1>2 DEF LfResume
  <2>2. /\ Range(suspended') = Range(suspended) \ {suspended[i]}
        /\ Len(suspended') = Len(suspended) - 1
    BY <2>1, Facts, DroppedRemoves
  <2>3. QED
    BY <1>2, <2>2
<1>3. QED
  BY <1>1, <1>2

(* ... a thread enters a scope, *)
LEMMA EnterScopeLf ==
  ASSUME Nesting <= 1, IInv, LfInv, NEW t \in Thread, EnterScope(t) PROVE LfInv'
<1>1. /\ phase = "run" /\ t \in alive /\ scopes' = [scopes EXCEPT ![t] = @ + 1]
      /\ lfCount' = lfCount + 1 /\ suspended' = suspended /\ alive' = alive
      /\ scopes[t] < Nesting /\ scopes \in [Thread -> Nat] /\ lfCount \in Int
  BY DEF EnterScope, Caller, IInv, TypeOK
<1>2. scopes[t] = 0
  BY <1>1, ConstantsAssumption
<1>3. scopes'[t] = 1 /\ \A u \in Thread : u # t => scopes'[u] = scopes[u]
  BY <1>1, <1>2
<1>4. LockFree' = LockFree \cup {t} /\ t \notin LockFree
  BY <1>2, <1>3 DEF LockFree
<1>5. lfCount = Cardinality(LockFree) /\ Range(suspended) \subseteq LockFree
      /\ (suspended # <<>> => Len(suspended) < lfCount)
  BY <1>1 DEF LfInv
<1>6. Cardinality(LockFree') = lfCount'
  BY <1>1, <1>4, <1>5, LockFreeCount
<1>7. suspended' # <<>> => Len(suspended') < lfCount'
  BY <1>1, <1>5, Facts, QueueFacts
<1>8. \A u \in Thread : scopes'[u] <= 1 /\ (scopes'[u] # 0 => u \in alive')
  BY <1>1, <1>3 DEF LfInv
<1>9. Range(suspended') \subseteq LockFree'
  BY <1>1, <1>4, <1>5
<1>10. QED
  BY <1>6, <1>7, <1>8, <1>9 DEF LfInv

(* ... leaves it, and one of the suspended threads goes on, *)
LEMMA LeaveScopeLf ==
  ASSUME IInv, LfInv, NEW t \in Thread, LeaveScope(t) PROVE LfInv'
<1>1. /\ phase = "run" /\ t \in alive /\ scopes' = [scopes EXCEPT ![t] = @ - 1]
      /\ alive' = alive /\ scopes[t] > 0 /\ scopes \in [Thread -> Nat] /\ lfCount \in Int
  BY DEF LeaveScope, Caller, IInv, TypeOK
<1>2. scopes[t] = 1
  BY <1>1 DEF LfInv
<1>3. lfCount' = lfCount - 1 /\ LfResume
  BY <1>2 DEF LeaveScope
<1>4. scopes'[t] = 0 /\ \A u \in Thread : u # t => scopes'[u] = scopes[u]
  BY <1>1, <1>2
<1>5. LockFree' = LockFree \ {t} /\ t \in LockFree
  BY <1>2, <1>4 DEF LockFree
<1>6. lfCount = Cardinality(LockFree) /\ Range(suspended) \subseteq LockFree
      /\ (suspended # <<>> => Len(suspended) < lfCount)
  BY <1>1 DEF LfInv
<1>7. Cardinality(LockFree') = lfCount'
  BY <1>3, <1>5, <1>6, LockFreeCount
<1>8. t \notin Range(suspended)
  BY CallerFacts DEF LeaveScope
<1>9. /\ Range(suspended') \subseteq Range(suspended)
      /\ suspended' # <<>> => suspended # <<>> /\ Len(suspended') = Len(suspended) - 1
  BY <1>1, <1>3, LfResumed
<1>10. suspended' # <<>> => Len(suspended') < lfCount'
  BY <1>1, <1>3, <1>6, <1>9, Facts, QueueFacts
<1>11. \A u \in Thread : scopes'[u] <= 1 /\ (scopes'[u] # 0 => u \in alive')
  BY <1>1, <1>4 DEF LfInv
<1>12. Range(suspended') \subseteq LockFree'
  BY <1>5, <1>6, <1>8, <1>9
<1>13. QED
  BY <1>7, <1>10, <1>11, <1>12 DEF LfInv

(* ... reports progress, *)
LEMMA ProgressLf ==
  ASSUME IInv, LfInv, NEW t \in Thread, Progress(t) PROVE LfInv'
<1>1. /\ phase = "run" /\ UNCHANGED <<alive, scopes, lfCount, phase>>
      /\ LfResume \/ UNCHANGED <<suspended, runq>>
  BY DEF Progress, Caller, control, kernel
<1>2. CASE UNCHANGED <<suspended, runq>>
  BY <1>1, <1>2, LfKept DEF LfInv
<1>3. CASE LfResume
  <2>1. /\ Range(suspended') \subseteq Range(suspended)
        /\ suspended' # <<>> => suspended # <<>> /\ Len(suspended') = Len(suspended) - 1
    BY <1>1, <1>3, LfResumed
  <2>2. LockFree' = LockFree
    BY <1>1 DEF LockFree
  <2>3. Len(suspended) \in Nat /\ lfCount \in Int
    BY Facts, QueueFacts DEF IInv, TypeOK
  <2>4. QED
    BY <1>1, <2>1, <2>2, <2>3 DEF LfInv
<1>4. QED
  BY <1>1, <1>2, <1>3

(* ... or is suspended, unless it is the last one. *)
LEMMA InterruptLf ==
  ASSUME IInv, LfInv, NEW t \in Thread, Interrupt(t) PROVE LfInv'
<1>1. phase = "run" /\ UNCHANGED <<alive, scopes, phase>>
  BY DEF Interrupt, Caller, control
<1>2. CASE UNCHANGED lockFree
  BY <1>1, <1>2, LfKept DEF LfInv, lockFree
<1>3. CASE ToLfSuspend(t) /\ suspended' = Append(suspended, t) /\ lfCount' = lfCount
  <2>1. suspended \in Seq(Thread) /\ Len(suspended) \in Nat /\ lfCount \in Int
    BY Facts, QueueFacts DEF IInv, TypeOK
  <2>2. Len(suspended') < lfCount'
    BY <1>3, <2>1 DEF ToLfSuspend
  <2>3. Range(suspended') = Range(suspended) \cup {t}
    BY <1>1, <1>3, Facts, CallerFacts, AppendAdds DEF Interrupt
  <2>4. t \in LockFree
    BY <1>3 DEF ToLfSuspend, LockFree
  <2>5. LockFree' = LockFree
    BY <1>1 DEF LockFree
  <2>6. QED
    BY <1>1, <1>3, <2>2, <2>3, <2>4, <2>5 DEF LfInv
<1>4. QED
  BY <1>2, <1>3 DEF Interrupt

(* A thread that ends is in no scope, *)
LEMMA ExitLf ==
  ASSUME IInv, LfInv, NEW t \in Thread, Exit(t) PROVE LfInv'
<1>1. /\ phase = "run" /\ scopes[t] = 0 /\ Destroyed(t) /\ UNCHANGED <<suspended, lfCount>>
      /\ scopes \in [Thread -> Nat]
  BY DEF Exit, Caller, IInv, TypeOK
<1>2. scopes' = scopes /\ alive' = alive \ {t}
  BY <1>1 DEF Destroyed
<1>3. QED
  BY <1>1, <1>2, LfKept DEF LfInv

(* ... and one that is burnt leaves its scopes, but there is no adversary any more. *)
LEMMA BurnLf ==
  ASSUME IInv, LfInv, NEW t \in Thread, Burn(t) PROVE LfInv'
<1>1. phase' # "run"
  BY DEF Burn
<1>2. /\ scopes' = [scopes EXCEPT ![t] = 0] /\ alive' = alive \ {t}
      /\ scopes \in [Thread -> Nat]
  BY DEF Burn, Destroyed, IInv, TypeOK
<1>3. \A u \in Thread : scopes'[u] = IF u = t THEN 0 ELSE scopes[u]
  BY <1>2
<1>4. QED
  BY <1>1, <1>2, <1>3 DEF LfInv

(* The next simulation starts with no thread in a scope. *)
LEMMA StartLf == ASSUME IInv, LfInv, Start PROVE LfInv'
<1>1. alive = {} /\ UNCHANGED <<alive, scopes>> /\ suspended' = <<>> /\ lfCount' = 0
  BY DEF Start, IInv, Phases
<1>2. \A t \in Thread : scopes[t] = 0
  BY <1>1 DEF LfInv
<1>3. LockFree' = {}
  BY <1>1, <1>2 DEF LockFree
<1>4. QED
  BY <1>1, <1>2, <1>3, FS_EmptySet, SmallQueues DEF LfInv

(* The kernel does not touch scopes. *)
LEMMA KernelLf ==
  ASSUME IInv, LfInv, NEW t \in Thread,
         \/ Spawn(t) \/ WakeWaiter(t) \/ StopLoop \/ PickNext \/ BurnAll \/ UNCHANGED vars
  PROVE  LfInv'
<1>1. UNCHANGED <<scopes, lfCount, suspended>> /\ alive \subseteq alive'
  <2>1. CASE Spawn(t) \/ WakeWaiter(t)
    BY <2>1 DEF Spawn, WakeWaiter, lockFree
  <2>2. CASE StopLoop \/ BurnAll \/ UNCHANGED vars
    BY <2>2 DEF StopLoop, BurnAll, vars, kernel, lockFree
  <2>3. CASE PickNext
    BY <2>3 DEF PickNext, PickRandom, PickDfs, PickPct, PickCoop, Runs, lockFree
  <2>4. QED
    BY <2>1, <2>2, <2>3
<1>2. phase' = "run" => phase = "run"
  BY DEF Spawn, WakeWaiter, StopLoop, PickNext, BurnAll, vars, control
<1>3. QED
  BY <1>1, <1>2, LfKept DEF LfInv

(* Every step keeps the invariant of the adversary. *)
LEMMA StepLf == ASSUME Nesting <= 1, IInv, LfInv, [Next]_vars PROVE LfInv'
<1>1. ASSUME NEW t \in Thread, ThreadCall(t) PROVE LfInv'
  <2>1. ASSUME NEW f \in Futex, Park(t, f) \/ FutexWakeOne(t, f) \/ FutexWakeAll(t, f) PROVE LfInv'
    <3>1. UNCHANGED <<alive, scopes, phase, lfCount, suspended>>
      BY <2>1 DEF Park, FutexWakeOne, FutexWakeAll, control, lockFree
    <3>2. QED
      BY <3>1, LfKept DEF LfInv
  <2>2. CASE Yield(t) \/ SetPreemptive(t)
    <3>1. UNCHANGED <<alive, scopes, phase, lfCount, suspended>>
      BY <2>2 DEF Yield, SetPreemptive, control, lockFree
    <3>2. QED
      BY <3>1, LfKept DEF LfInv
  <2>3. ASSUME NEW u \in Thread, SwitchTo(t, u) PROVE LfInv'
    <3>1. UNCHANGED <<alive, scopes, phase, lfCount, suspended>>
      BY <2>3 DEF SwitchTo, control, lockFree
    <3>2. QED
      BY <3>1, LfKept DEF LfInv
  <2>4. QED
    BY <1>1, <2>1, <2>2, <2>3, InterruptLf, EnterScopeLf, LeaveScopeLf, ProgressLf, ExitLf
    DEF ThreadCall
<1>2. ASSUME NEW t \in Thread, Spawn(t) \/ WakeWaiter(t) \/ Burn(t) PROVE LfInv'
  BY <1>2, KernelLf, BurnLf
<1>3. 1 \in Thread
  BY ConstantsAssumption DEF Thread
<1>4. CASE StopLoop \/ PickNext \/ BurnAll \/ UNCHANGED vars
  BY <1>3, <1>4, KernelLf
<1>5. QED
  BY <1>1, <1>2, <1>4, StartLf DEF Next

(* The lock-free adversary of the random scheduler leaves a lock-free thread running, for any
   number of threads and any limit, provided that LockFreeScopes are not nested: with nested ones
   lf_thread_count_ counts too many (see the README). *)
THEOREM AdversaryLeavesOneRunning ==
  ASSUME BurnsAreSafe, Nesting <= 1 PROVE Spec => []SomeLockFreeThreadRuns
<1>1. ASSUME Init PROVE LfInv
  <2>1. \A t \in Thread : scopes[t] = 0
    BY <1>1 DEF Init
  <2>2. LockFree = {}
    BY <2>1 DEF LockFree
  <2>3. QED
    BY <1>1, <2>1, <2>2, FS_EmptySet, SmallQueues DEF LfInv, Init
<1>2. IInv /\ LfInv /\ [Next]_vars => LfInv'
  BY StepLf
<1>3. ASSUME IInv, LfInv PROVE SomeLockFreeThreadRuns
  <2>1. SUFFICES ASSUME phase = "run", suspended # <<>>
                 PROVE  \E t \in alive : scopes[t] # 0 /\ t \notin Range(suspended)
    BY DEF SomeLockFreeThreadRuns
  <2>2. Len(suspended) < Cardinality(LockFree)
    BY <1>3, <2>1 DEF LfInv
  <2>3. IsFiniteSet(Range(suspended)) /\ Cardinality(Range(suspended)) <= Len(suspended)
    BY <1>3, Facts, RangeIsSmall
  <2>4. PICK t \in LockFree : t \notin Range(suspended)
    <3>1. SUFFICES ASSUME LockFree \subseteq Range(suspended) PROVE FALSE
      OBVIOUS
    <3>2. Cardinality(LockFree) <= Cardinality(Range(suspended))
      BY <2>3, <3>1, FS_Subset
    <3>3. Len(suspended) \in Nat /\ Cardinality(Range(suspended)) \in Nat
      BY <1>3, <2>3, Facts, QueueFacts, FS_CardinalityType
    <3>4. QED
      BY <2>2, <2>3, <3>2, <3>3, LockFreeCount
  <2>5. QED
    BY <1>3, <2>4 DEF LockFree, LfInv
<1>4. QED
  BY <1>1, <1>2, <1>3, SchedulersInvariant, PTL DEF Spec

-----------------------------------------------------------------------------
(* The priorities of PCT *)

(* Initial priorities are positive and different, the others are handed out below zero, each once;
   so two threads never have the same priority. *)
PriorInv ==
  /\ IsInjective(initPrior) /\ nextPrior <= 0
  /\ kind = "pct" => \A t \in alive :
       /\ prior[t] > nextPrior
       /\ prior[t] <= 0 \/ (t \in DOMAIN initPrior /\ prior[t] = initPrior[t])
       /\ \A u \in alive : prior[t] = prior[u] => t = u

(* The types of what the invariant is about *)
LEMMA PriorTypes ==
  ASSUME IInv
  PROVE  /\ prior \in [Thread -> Int] /\ nextPrior \in Int /\ alive \subseteq Thread
         /\ \A i \in DOMAIN initPrior : initPrior[i] \in Nat \ {0}
  BY DEF IInv, TypeOK

(* A thread falls below all others, *)
LEMMA LoweredPrior ==
  ASSUME IInv, PriorInv, NEW t \in Thread, Lowered(t), UNCHANGED <<kind, initPrior>>,
         alive' \subseteq alive \cup {t}
  PROVE  PriorInv'
<1>1. /\ prior \in [Thread -> Int] /\ nextPrior \in Int /\ alive \subseteq Thread
      /\ prior' = [prior EXCEPT ![t] = nextPrior] /\ nextPrior' = nextPrior - 1
  BY PriorTypes DEF Lowered
<1>2. \A u \in Thread : prior'[u] = IF u = t THEN nextPrior ELSE prior[u]
  BY <1>1
<1>3. nextPrior' <= 0 /\ IsInjective(initPrior')
  BY <1>1 DEF PriorInv
<1>4. ASSUME kind = "pct", NEW u \in alive'
      PROVE  /\ prior'[u] > nextPrior'
             /\ prior'[u] <= 0 \/ (u \in DOMAIN initPrior /\ prior'[u] = initPrior[u])
             /\ \A v \in alive' : prior'[u] = prior'[v] => u = v
  <2>1. \A v \in alive' : v # t => v \in alive /\ prior[v] > nextPrior /\ prior'[v] = prior[v]
    BY <1>1, <1>2, <1>4 DEF PriorInv
  <2>2. prior'[t] = nextPrior /\ \A v \in Thread : prior[v] \in Int
    BY <1>1, <1>2
  <2>3. prior'[u] > nextPrior'
    BY <1>1, <1>2, <1>4, <2>1, <2>2
  <2>4. prior'[u] <= 0 \/ (u \in DOMAIN initPrior /\ prior'[u] = initPrior[u])
    BY <1>1, <1>4, <2>1, <2>2 DEF PriorInv
  <2>5. \A v \in alive' : prior'[u] = prior'[v] => u = v
    BY <1>1, <1>4, <2>1, <2>2 DEF PriorInv
  <2>6. QED
    BY <2>3, <2>4, <2>5
<1>5. QED
  BY <1>3, <1>4 DEF PriorInv

(* ... or gets the priority drawn for it, *)
LEMMA InitialPrior ==
  ASSUME IInv, PriorInv, NEW t \in Thread, t \notin alive, t \in DOMAIN initPrior,
         prior' = [prior EXCEPT ![t] = initPrior[t]], alive' = alive \cup {t},
         UNCHANGED <<kind, initPrior, nextPrior>>
  PROVE  PriorInv'
<1>1. /\ prior \in [Thread -> Int] /\ nextPrior \in Int /\ alive \subseteq Thread
      /\ \A i \in DOMAIN initPrior : initPrior[i] \in Nat \ {0}
  BY PriorTypes
<1>2. prior'[t] = initPrior[t] /\ \A u \in Thread : u # t => prior'[u] = prior[u]
  BY <1>1
<1>3. ASSUME kind = "pct", NEW u \in alive'
      PROVE  /\ prior'[u] > nextPrior'
             /\ prior'[u] <= 0 \/ (u \in DOMAIN initPrior /\ prior'[u] = initPrior[u])
  BY <1>1, <1>2, <1>3 DEF PriorInv
<1>4. ASSUME kind = "pct", NEW u \in alive PROVE initPrior[t] # prior[u]
  BY <1>1, <1>4 DEF PriorInv, IsInjective
<1>5. ASSUME kind = "pct", NEW u \in alive', NEW v \in alive', prior'[u] = prior'[v] PROVE u = v
  BY <1>1, <1>2, <1>4, <1>5 DEF PriorInv
<1>6. QED
  BY <1>3, <1>5 DEF PriorInv

(* ... or a thread goes, or nothing happens to priorities. *)
LEMMA KeptPrior ==
  ASSUME PriorInv, UNCHANGED <<kind, initPrior, nextPrior>>, alive' \subseteq alive,
         \A u \in alive' : prior'[u] = prior[u]
  PROVE  PriorInv'
  BY DEF PriorInv

(* Other kinds have no priorities. *)
LEMMA NoPrior ==
  ASSUME PriorInv, kind # "pct", UNCHANGED <<kind, initPrior, nextPrior>> PROVE PriorInv'
  BY DEF PriorInv

(* A new thread gets a priority of its own. *)
LEMMA SpawnPrior == ASSUME IInv, PriorInv, NEW t \in Thread, Spawn(t) PROVE PriorInv'
<1>1. /\ alive' = alive \cup {t} /\ UNCHANGED <<kind, initPrior>> /\ t \notin alive
  BY DEF Spawn, control, IInv, Phases, TypeOK
<1>2. CASE kind # "pct" /\ UNCHANGED <<prior, nextPrior, estimate>>
  BY <1>1, <1>2, NoPrior
<1>3. CASE /\ t \in DOMAIN initPrior /\ prior' = [prior EXCEPT ![t] = initPrior[t]]
           /\ UNCHANGED <<nextPrior, estimate>>
  BY <1>1, <1>3, InitialPrior
<1>4. CASE Lowered(t)
  BY <1>1, <1>4, LoweredPrior
<1>5. QED
  BY <1>2, <1>3, <1>4 DEF Spawn

(* A change point hands out a new one, *)
LEMMA PickNextPrior == ASSUME IInv, PriorInv, PickNext PROVE PriorInv'
<1>1. kind' = kind
  BY DEF PickNext, control
<1>2. CASE PickRandom \/ PickDfs \/ PickCoop
  <2>1. UNCHANGED <<alive, prior, nextPrior, initPrior>>
    BY <1>2 DEF PickRandom, PickDfs, PickCoop, Runs, priorities
  <2>2. QED
    BY <1>1, <2>1, KeptPrior
<1>3. CASE PickPct
  <2>1. UNCHANGED <<alive, initPrior>>
    BY <1>3 DEF PickPct, Runs
  <2>2. UNCHANGED <<prior, nextPrior>> \/ (next # None /\ Lowered(next))
    BY <1>3 DEF PickPct, ChangePoint
  <2>3. next \in Thread \cup {None}
    BY DEF IInv, TypeOK
  <2>4. QED
    BY <1>1, <2>1, <2>2, <2>3, KeptPrior, LoweredPrior
<1>4. QED
  BY <1>2, <1>3 DEF PickNext

(* ... and so does a yield; other calls change none. *)
LEMMA ThreadCallPrior == ASSUME IInv, PriorInv, NEW t \in Thread, ThreadCall(t) PROVE PriorInv'
<1>1. CASE Interrupt(t) \/ EnterScope(t) \/ LeaveScope(t) \/ Progress(t) \/ SetPreemptive(t)
  <2>1. UNCHANGED <<kind, alive, prior, nextPrior, initPrior>>
    BY <1>1
    DEF Interrupt, EnterScope, LeaveScope, Progress, SetPreemptive, control, kernel, priorities
  <2>2. QED
    BY <2>1, KeptPrior
<1>2. ASSUME NEW f \in Futex, Park(t, f) \/ FutexWakeOne(t, f) \/ FutexWakeAll(t, f) PROVE PriorInv'
  <2>1. UNCHANGED <<kind, alive, prior, nextPrior, initPrior>>
    BY <1>2 DEF Park, FutexWakeOne, FutexWakeAll, control, priorities
  <2>2. QED
    BY <2>1, KeptPrior
<1>3. ASSUME NEW u \in Thread, SwitchTo(t, u) PROVE PriorInv'
  <2>1. UNCHANGED <<kind, alive, prior, nextPrior, initPrior>>
    BY <1>3 DEF SwitchTo, control, priorities
  <2>2. QED
    BY <2>1, KeptPrior
<1>4. CASE Yield(t)
  <2>1. UNCHANGED <<kind, alive, initPrior>> /\ (Lowered(t) \/ UNCHANGED <<prior, nextPrior>>)
    BY <1>4 DEF Yield, control
  <2>2. QED
    BY <2>1, KeptPrior, LoweredPrior
<1>5. CASE Exit(t)
  <2>1. /\ Destroyed(t) /\ UNCHANGED <<kind, nextPrior, initPrior>> /\ prior \in [Thread -> Int]
        /\ alive \subseteq Thread
    BY <1>5, PriorTypes DEF Exit
  <2>2. QED
    BY <2>1, KeptPrior DEF Destroyed
<1>6. QED
  BY <1>1, <1>2, <1>3, <1>4, <1>5 DEF ThreadCall

(* The next simulation draws a permutation. *)
LEMMA StartPrior == ASSUME IInv, PriorInv, Start PROVE PriorInv'
<1>1. alive' = {} /\ kind' = kind
  BY DEF Start, IInv, Phases
<1>2. IsInjective(initPrior') /\ nextPrior' <= 0
  <2>1. CASE kind = "pct"
    <3>1. ResetPriorities
      BY <2>1 DEF Start
    <3>2. IsInjective(initPrior')
      BY <3>1, Zenon DEF ResetPriorities
    <3>3. nextPrior' = 0
      BY <3>1, Zenon DEF ResetPriorities
    <3>4. QED
      BY <3>2, <3>3
  <2>2. CASE kind # "pct"
    BY <2>2 DEF Start, priorities, PriorInv
  <2>3. QED
    BY <2>1, <2>2
<1>3. QED
  BY <1>1, <1>2 DEF PriorInv

(* Every step keeps the priorities apart. *)
LEMMA StepPrior == ASSUME IInv, PriorInv, [Next]_vars PROVE PriorInv'
<1>1. ASSUME NEW t \in Thread, WakeWaiter(t) PROVE PriorInv'
  <2>1. UNCHANGED <<kind, alive, prior, nextPrior, initPrior>>
    BY <1>1 DEF WakeWaiter, priorities
  <2>2. QED
    BY <2>1, KeptPrior
<1>2. ASSUME NEW t \in Thread, Burn(t) PROVE PriorInv'
  <2>1. /\ Destroyed(t) /\ UNCHANGED <<kind, nextPrior, initPrior>> /\ prior \in [Thread -> Int]
        /\ alive \subseteq Thread
    BY <1>2, PriorTypes DEF Burn
  <2>2. QED
    BY <2>1, KeptPrior DEF Destroyed
<1>3. CASE StopLoop \/ BurnAll \/ UNCHANGED vars
  <2>1. UNCHANGED <<kind, alive, prior, nextPrior, initPrior>>
    BY <1>3 DEF StopLoop, BurnAll, vars, control, kernel, priorities
  <2>2. QED
    BY <2>1, KeptPrior
<1>4. QED
  BY <1>1, <1>2, <1>3, SpawnPrior, PickNextPrior, ThreadCallPrior, StartPrior DEF Next

(* No queued thread has a higher priority than the one picked, unless that is not preemptive. *)
PicksHighest ==
  kind = "pct" /\ running = None /\ running' # None =>
    \/ ~preemptive[running']
    \/ \A i \in DOMAIN runq' : prior'[runq'[i]] < prior'[running']

(* One that is at least as high as all others is higher: priorities are different. *)
LEMMA HighestIsHigher ==
  ASSUME IInv, IInv', PriorInv', kind' = "pct", NEW t \in Thread, Picks(t),
         \A u \in ReadySet : prior'[u] <= prior'[t]
  PROVE  \A i \in DOMAIN runq' : prior'[runq'[i]] < prior'[running']
<1>1. SUFFICES ASSUME NEW i \in DOMAIN runq' PROVE prior'[runq'[i]] < prior'[t]
  BY DEF Picks
<1>2. PICK u : u = runq'[i]
  OBVIOUS
<1>3. u \in Range(runq')
  BY <1>2 DEF Range
<1>4. u \in ReadySet /\ u # t
  BY <1>3 DEF Picks
<1>5. u \in Thread
  BY <1>3, QueueFacts DEF Picks
<1>6. u \in alive /\ t \in alive
  BY <1>4, <1>5 DEF Picks, IInv, OnePlace, Placed
<1>7. alive' = alive /\ prior'[u] \in Int /\ prior'[t] \in Int
  BY <1>5 DEF Picks
<1>8. prior'[u] # prior'[t]
  BY <1>4, <1>6, <1>7 DEF PriorInv
<1>9. QED
  BY <1>2, <1>4, <1>7, <1>8

(* PCT picks the thread with the highest priority. *)
LEMMA PickPctHighest ==
  ASSUME IInv, IInv', PriorInv, PriorInv', running = None, PickPct, kind' = "pct"
  PROVE  PicksHighest
<1>1. PICK t : Picks(t)
  BY PickPctPicks
<1>2. t \in Thread /\ running' = t /\ kind = "pct"
  BY <1>1 DEF Picks, PickPct
<1>3. SUFFICES ASSUME preemptive[t] PROVE \A u \in ReadySet : prior'[u] <= prior'[t]
  BY <1>1, <1>2, HighestIsHigher DEF PicksHighest
<1>4. CASE next # None /\ ~Outranked /\ Runs(next) /\ UNCHANGED <<runq, prior, nextPrior, changes>>
  <2>1. t = next /\ preemptive[next]
    BY <1>2, <1>3, <1>4 DEF Runs
  <2>2. \A i \in DOMAIN runq : ~(prior[next] < prior[runq[i]])
    BY <1>4, <2>1 DEF Outranked
  <2>3. \A u \in Range(runq) : ~(prior[next] < prior[u])
    BY <2>2 DEF Range
  <2>4. \A u \in ReadySet : u \in Range(runq) \/ u = next
    BY DEF ReadySet
  <2>5. prior \in [Thread -> Int] /\ Range(runq) \subseteq Thread /\ next \in Thread
    BY <1>2, <2>1, PriorTypes, Facts
  <2>6. QED
    BY <1>4, <2>1, <2>3, <2>4, <2>5
<1>5. ASSUME NEW q, IsQueue(q), \A u \in ReadySet : u \in Range(q),
             NEW i \in Highest(q), Runs(q[i])
      PROVE  \A u \in ReadySet : prior'[u] <= prior'[t]
  <2>1. t = q[i]
    BY <1>2, <1>5 DEF Runs
  <2>2. \A j \in DOMAIN q : prior'[q[j]] <= prior'[q[i]]
    BY <1>5 DEF Highest
  <2>3. QED
    BY <1>5, <2>1, <2>2 DEF Range
<1>6. ASSUME next # None, NEW i \in Highest(Append(runq, next)), Runs(Append(runq, next)[i])
      PROVE  \A u \in ReadySet : prior'[u] <= prior'[t]
  <2>1. PICK q : q = Append(runq, next)
    OBVIOUS
  <2>2. next \in Thread /\ next \notin Range(runq)
    BY <1>2, <1>6 DEF IInv, TypeOK, NextIsApart
  <2>3. IsQueue(q) /\ Range(q) = Range(runq) \cup {next}
    BY <2>1, <2>2, Facts, AppendAdds
  <2>4. \A u \in ReadySet : u \in Range(q)
    BY <2>3 DEF ReadySet
  <2>5. i \in Highest(q) /\ Runs(q[i])
    BY <1>6, <2>1
  <2>6. QED
    BY <1>5, <2>3, <2>4, <2>5
<1>7. ASSUME next = None, NEW i \in Highest(runq), Runs(runq[i])
      PROVE  \A u \in ReadySet : prior'[u] <= prior'[t]
  <2>1. \A u \in ReadySet : u \in Range(runq)
    BY <1>7 DEF ReadySet
  <2>2. QED
    BY <1>5, <1>7, <2>1, Facts
<1>8. QED
  BY <1>4, <1>6, <1>7 DEF PickPct

(* Only PickNext lets a thread run. *)
LEMMA StepPicksHighest ==
  ASSUME IInv, IInv', PriorInv, PriorInv', [Next]_vars PROVE PicksHighest
<1>1. SUFFICES ASSUME kind = "pct", running = None, running' # None PROVE PicksHighest
  BY DEF PicksHighest
<1>2. None \notin Thread
  BY Facts
<1>3. \A t \in Thread : ~Caller(t)
  BY <1>1, <1>2 DEF Caller
<1>4. ASSUME NEW t \in Thread, ThreadCall(t) PROVE FALSE
  BY <1>3, <1>4
  DEF ThreadCall, Interrupt, Yield, EnterScope, LeaveScope, Progress, SetPreemptive, Exit, SwitchTo,
      Park, FutexWakeOne, FutexWakeAll
<1>5. ASSUME NEW t \in Thread, Spawn(t) \/ WakeWaiter(t) \/ Burn(t) PROVE FALSE
  BY <1>1, <1>5 DEF Spawn, WakeWaiter, Burn
<1>6. CASE StopLoop \/ Start \/ BurnAll \/ UNCHANGED vars
  BY <1>1, <1>6 DEF StopLoop, Start, BurnAll, vars, kernel
<1>7. CASE PickNext
  <2>1. kind' = "pct" /\ PickPct
    BY <1>1, <1>7 DEF PickNext, PickRandom, PickDfs, PickCoop, control
  <2>2. QED
    BY <1>1, <2>1, PickPctHighest
<1>8. QED
  BY <1>4, <1>5, <1>6, <1>7 DEF Next

(* The PCT scheduler runs the thread with the highest priority, strictly: through spawns beyond
   the estimate, yields, change points and wake-ups no two threads get the same priority. For any
   number of threads and change points. *)
THEOREM PctRunsHighestPriority == ASSUME BurnsAreSafe PROVE Spec => HighestPriorityRuns
<1>1. ASSUME Init PROVE PriorInv
  BY <1>1 DEF Init, PriorInv, IsInjective
<1>2. IInv /\ PriorInv /\ [Next]_vars => PriorInv'
  BY StepPrior
<1>3. IInv /\ IInv' /\ PriorInv /\ PriorInv' /\ [Next]_vars => [PicksHighest]_vars
  BY StepPicksHighest
<1>4. QED
  BY <1>1, <1>2, <1>3, SchedulersInvariant, PTL DEF Spec, HighestPriorityRuns, PicksHighest
==============================================================================
