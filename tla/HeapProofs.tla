----------------------------- MODULE HeapProofs -----------------------------
(***************************************************************************)
(* Proofs about the isolated memory, for every size of the segment, of the *)
(* stacks, of the index and of its blocks. The inductive invariant says    *)
(* that blocks follow each other from the index up to the end of the heap  *)
(* and that stacks, in use or pooled, follow each other from there to the  *)
(* end of the segment; that each free list holds the available blocks of   *)
(* its class once; that only live allocations of the program have a size;  *)
(* and that the statistics count them. The same case split over the        *)
(* actions gives the refinement of the contract of malloc and free.        *)
(*                                                                         *)
(* The second part is about static and thread-local variables: whatever is *)
(* set, linked, under construction or in a slot is where the loops of      *)
(* DestroyVars, BurnVars and tls::Manager::Destroy will still come to it,  *)
(* or it was registered, or taken, too late for them.                      *)
(***************************************************************************)
EXTENDS MCMemory, FiniteSetTheorems, SequenceTheorems, TLAPS

(* Every set of naturals that is not empty has a least element, *)
LEMMA LeastNatural ==
  ASSUME NEW S \in SUBSET Nat, S # {} PROVE \E m \in S : \A n \in S : m <= n
<1> DEFINE R == OpToRel(<, Nat)
<1>1. \A m, n \in Nat : <<m, n>> \in R <=> m < n
  BY DEF OpToRel
<1>2. IsWellFoundedOn(R, Nat)
  BY NatLessThanWellFounded
<1> HIDE DEF R
<1>3. \E m \in S : \A n \in S : ~(<<n, m>> \in R)
  BY <1>2, WFMin
<1>4. PICK m \in S : \A n \in S : ~(<<n, m>> \in R)
  BY <1>3
<1>5. ASSUME NEW n \in S PROVE m <= n
  <2>1. m \in Nat /\ n \in Nat
    OBVIOUS
  <2>2. ~(n < m)
    BY <1>1, <1>4, <2>1, Zenon
  <2>3. QED
    BY <2>1, <2>2
<1>6. QED
  BY <1>5

(* ... and a greatest one, if it has a bound. *)
LEMMA GreatestNatural ==
  ASSUME NEW S \in SUBSET Nat, S # {}, NEW b \in Nat, \A n \in S : n <= b
  PROVE  \E m \in S : \A n \in S : m >= n
<1> DEFINE D == {b - n : n \in S}
<1>1. D \in SUBSET Nat /\ D # {}
  <2>1. \A n \in S : b - n \in Nat
    OBVIOUS
  <2>2. QED
    BY <2>1
<1>2. PICK d \in D : \A e \in D : d <= e
  BY <1>1, LeastNatural
<1>3. PICK m \in S : d = b - m
  OBVIOUS
<1>4. ASSUME NEW n \in S PROVE m >= n
  <2>1. b - n \in D
    OBVIOUS
  <2>2. b - m <= b - n /\ m \in Nat /\ n \in Nat
    BY <1>2, <1>3, <2>1
  <2>3. QED
    BY <2>2
<1>5. QED
  BY <1>4

(* Induction over the natural numbers, and over the subsets of a finite set *)
LEMMA NumbersInduction ==
  ASSUME NEW W, 0 \in W, \A n \in Nat : n \in W => n + 1 \in W PROVE Nat \subseteq W
<1> DEFINE S == {n \in Nat : n \notin W}
<1>1. ASSUME S # {} PROVE FALSE
  <2>1. PICK m \in S : \A n \in S : m <= n
    BY <1>1, LeastNatural
  <2>2. m \in Nat /\ m # 0
    OBVIOUS
  <2>3. PICK p : p = m - 1
    OBVIOUS
  <2>4. p \in Nat /\ p + 1 = m /\ ~(m <= p)
    BY <2>2, <2>3
  <2>5. p \notin S
    BY <2>1, <2>4
  <2>6. QED
    BY <2>1, <2>4, <2>5
<1>2. QED
  BY <1>1

(* ... a set W holds a subset if it holds it with any element removed. *)
LEMMA SubsetInduction ==
  ASSUME NEW T, IsFiniteSet(T), NEW W,
         \A s \in SUBSET T : (\A x \in s : s \ {x} \in W) => s \in W
  PROVE  SUBSET T \subseteq W
<1> DEFINE N == {n \in Nat : \A s \in SUBSET T : Cardinality(s) = n => s \in W}
<1>1. \A s \in SUBSET T : IsFiniteSet(s) /\ Cardinality(s) \in Nat
  BY FS_Subset, FS_CardinalityType
<1>2. 0 \in N
  <2>1. ASSUME NEW s \in SUBSET T, Cardinality(s) = 0 PROVE s \in W
    <3>1. s = {}
      BY <1>1, <2>1, FS_EmptySet
    <3>2. QED
      BY <3>1
  <2>2. QED
    BY <2>1
<1>3. ASSUME NEW n \in Nat, n \in N PROVE n + 1 \in N
  <2>1. ASSUME NEW s \in SUBSET T, Cardinality(s) = n + 1 PROVE s \in W
    <3>1. ASSUME NEW x \in s PROVE s \ {x} \in W
      <4>1. Cardinality(s \ {x}) = n
        BY <1>1, <2>1, FS_RemoveElement
      <4>2. QED
        BY <1>3, <4>1
    <3>2. QED
      BY <3>1
  <2>2. QED
    BY <2>1
<1> HIDE DEF N
<1>4. Nat \subseteq N
  BY <1>2, <1>3, NumbersInduction
<1>5. QED
  BY <1>1, <1>4 DEF N

-----------------------------------------------------------------------------
(* The sum of sizes that LeakReportIsExact is about *)

Bytes(B, S) == MapThenSumSet(LAMBDA b : B[b].userSize, S)

First(s) == CHOOSE x \in s : TRUE

(* g is the function that the sum is computed by, on the subsets of a set. *)
Iterates(g, B, D) ==
  g = [s \in D |-> IF s = {} THEN 0 ELSE B[First(s)].userSize + g[s \ {First(s)}]]

Sized(B, S) == \A x \in S : B[x].userSize \in Nat

(* The element a fold takes first is an element. *)
LEMMA FirstOf == ASSUME NEW s, s # {} PROVE First(s) \in s
  BY DEF First

(* There is such a function: built up by the number of elements. *)
LEMMA SumExists ==
  ASSUME NEW B, NEW S, IsFiniteSet(S) PROVE \E g : Iterates(g, B, SUBSET S)
<1> DEFINE D(n) == {s \in SUBSET S : Cardinality(s) <= n}
           W == {n \in Nat : \E g : Iterates(g, B, D(n))}
<1>1. \A s \in SUBSET S : /\ IsFiniteSet(s) /\ Cardinality(s) \in Nat
                          /\ Cardinality(s) <= Cardinality(S)
                          /\ (Cardinality(s) = 0 <=> s = {})
  BY FS_Subset, FS_CardinalityType, FS_EmptySet
<1>2. 0 \in W
  <2>1. \A s \in D(0) : s = {}
    BY <1>1
  <2>2. Iterates([s \in D(0) |-> 0], B, D(0))
    BY <2>1 DEF Iterates
  <2>3. QED
    BY <2>2
<1>3. ASSUME NEW n \in Nat, n \in W PROVE n + 1 \in W
  <2>1. PICK g : Iterates(g, B, D(n))
    BY <1>3
  <2>2. PICK m \in Nat : m = n + 1
    OBVIOUS
  <2> DEFINE h == [s \in D(m) |-> IF s = {} THEN 0 ELSE B[First(s)].userSize + g[s \ {First(s)}]]
  <2>3. \A s \in D(n) : s \in D(m)
    BY <1>1, <2>2
  <2>4. \A s \in D(n) : h[s] = g[s]
    BY <2>1, <2>3 DEF Iterates
  <2>5. ASSUME NEW s \in D(m), s # {} PROVE s \ {First(s)} \in D(n)
    <3>1. First(s) \in s /\ s \in SUBSET S /\ Cardinality(s) <= m
      BY <2>5, FirstOf
    <3>2. Cardinality(s \ {First(s)}) = Cardinality(s) - 1 /\ Cardinality(s) \in Nat
      BY <1>1, <3>1, FS_RemoveElement
    <3>3. QED
      BY <2>2, <3>1, <3>2
  <2>6. \A s \in D(m) : h[s] = IF s = {} THEN 0 ELSE B[First(s)].userSize + h[s \ {First(s)}]
    BY <2>4, <2>5
  <2>7. h = [s \in D(m) |-> h[s]]
    OBVIOUS
  <2> HIDE DEF h, D
  <2>8. Iterates(h, B, D(m))
    BY <2>6, <2>7 DEF Iterates
  <2>9. QED
    BY <2>2, <2>8
<1>4. Nat \subseteq W
  <2> HIDE DEF W
  <2>1. QED
    BY <1>2, <1>3, NumbersInduction
<1>5. PICK c \in Nat : c = Cardinality(S)
  BY FS_CardinalityType
<1>6. D(c) = SUBSET S
  BY <1>1, <1>5
<1>7. \E g : Iterates(g, B, D(c))
  BY <1>4
<1>8. QED
  BY <1>6, <1>7

(* The sum of the library's fold is the value of a function over the subsets. *)
LEMMA SumComputed ==
  ASSUME NEW B, NEW S, IsFiniteSet(S)
  PROVE  \E g : Iterates(g, B, SUBSET S) /\ Bytes(B, S) = g[S]
<1>1. Bytes(B, S) = (CHOOSE g : Iterates(g, B, SUBSET S))[S]
  BY DEF Bytes, MapThenSumSet, MapThenFoldSet, Iterates, First
<1>2. PICK h : h = CHOOSE g : Iterates(g, B, SUBSET S)
  OBVIOUS
<1>3. Iterates(h, B, SUBSET S)
  BY <1>2, SumExists
<1>4. QED
  BY <1>1, <1>2, <1>3

(* A step of the function *)
LEMMA SumStep ==
  ASSUME NEW g, NEW B, NEW S, Iterates(g, B, SUBSET S)
  PROVE  \A s \in SUBSET S :
           g[s] = IF s = {} THEN 0 ELSE B[First(s)].userSize + g[s \ {First(s)}]
  BY DEF Iterates

(* Sums are numbers, *)
LEMMA SumTyped ==
  ASSUME NEW g, NEW B, NEW S, IsFiniteSet(S), Sized(B, S), Iterates(g, B, SUBSET S)
  PROVE  \A s \in SUBSET S : g[s] \in Nat
<1> DEFINE W == {s \in SUBSET S : g[s] \in Nat}
<1>1. ASSUME NEW s \in SUBSET S, \A x \in s : s \ {x} \in W PROVE s \in W
  <2>1. CASE s = {}
    <3>1. g[s] = 0
      BY <2>1, SumStep
    <3>2. QED
      BY <3>1
  <2>2. CASE s # {}
    <3>1. First(s) \in s
      BY <2>2, FirstOf
    <3>2. g[s \ {First(s)}] \in Nat /\ B[First(s)].userSize \in Nat
      BY <1>1, <3>1 DEF Sized
    <3>3. g[s] = B[First(s)].userSize + g[s \ {First(s)}]
      BY <2>2, SumStep
    <3>4. QED
      BY <3>2, <3>3
  <2>3. QED
    BY <2>1, <2>2
<1> HIDE DEF W
<1>2. SUBSET S \subseteq W
  BY <1>1, SubsetInduction
<1>3. QED
  BY <1>2 DEF W

(* ... whichever element is taken first, *)
LEMMA SumAny ==
  ASSUME NEW g, NEW B, NEW S, IsFiniteSet(S), Sized(B, S), Iterates(g, B, SUBSET S)
  PROVE  \A s \in SUBSET S : \A x \in s : g[s] = B[x].userSize + g[s \ {x}]
<1> DEFINE W == {s \in SUBSET S : \A x \in s : g[s] = B[x].userSize + g[s \ {x}]}
<1>1. ASSUME NEW s \in SUBSET S, \A x \in s : s \ {x} \in W PROVE s \in W
  <2>1. ASSUME NEW x \in s PROVE g[s] = B[x].userSize + g[s \ {x}]
    <3>1. PICK y : y = First(s)
      OBVIOUS
    <3>2. y \in s /\ g[s] = B[y].userSize + g[s \ {y}]
      <4>1. s # {} /\ s \in SUBSET S
        OBVIOUS
      <4>2. g[s] = IF s = {} THEN 0 ELSE B[First(s)].userSize + g[s \ {First(s)}]
        BY SumStep, Zenon
      <4>3. QED
        BY <3>1, <4>1, <4>2, FirstOf
    <3>3. CASE x = y
      BY <3>2, <3>3
    <3>4. CASE x # y
      <4>1. PICK r : r = (s \ {y}) \ {x}
        OBVIOUS
      <4>2. r = (s \ {x}) \ {y}
        BY <4>1
      <4>3. g[s \ {y}] = B[x].userSize + g[r]
        BY <1>1, <3>2, <3>4, <4>1
      <4>4. g[s \ {x}] = B[y].userSize + g[r]
        BY <1>1, <3>2, <3>4, <4>2
      <4>5. g[r] \in Nat /\ B[x].userSize \in Nat /\ B[y].userSize \in Nat
        BY <3>2, <4>1, SumTyped DEF Sized
      <4>6. QED
        BY <3>2, <4>3, <4>4, <4>5
    <3>5. QED
      BY <3>3, <3>4
  <2>2. QED
    BY <2>1
<1> HIDE DEF W
<1>2. SUBSET S \subseteq W
  BY <1>1, SubsetInduction
<1>3. QED
  BY <1>2 DEF W

(* ... and depend on the sizes only. *)
LEMMA SumAgrees ==
  ASSUME NEW g, NEW B, NEW S, NEW h, NEW C, NEW U, NEW T, T \subseteq S, T \subseteq U,
         IsFiniteSet(T), Iterates(g, B, SUBSET S), Iterates(h, C, SUBSET U),
         \A x \in T : B[x].userSize = C[x].userSize
  PROVE  g[T] = h[T]
<1>1. \A s \in SUBSET S :
        g[s] = IF s = {} THEN 0 ELSE B[First(s)].userSize + g[s \ {First(s)}]
  BY SumStep
<1>2. \A s \in SUBSET U :
        h[s] = IF s = {} THEN 0 ELSE C[First(s)].userSize + h[s \ {First(s)}]
  BY SumStep
<1> DEFINE W == {s \in SUBSET T : g[s] = h[s]}
<1>3. ASSUME NEW s \in SUBSET T, \A x \in s : s \ {x} \in W PROVE s \in W
  <2>1. s \in SUBSET S /\ s \in SUBSET U
    OBVIOUS
  <2>2. g[s] = IF s = {} THEN 0 ELSE B[First(s)].userSize + g[s \ {First(s)}]
    BY <1>1, <2>1
  <2>3. h[s] = IF s = {} THEN 0 ELSE C[First(s)].userSize + h[s \ {First(s)}]
    BY <1>2, <2>1
  <2>4. ASSUME s # {}
        PROVE  /\ g[s \ {First(s)}] = h[s \ {First(s)}]
               /\ B[First(s)].userSize = C[First(s)].userSize
    <3>1. First(s) \in s
      BY <2>4, FirstOf
    <3>2. QED
      BY <1>3, <3>1
  <2>5. QED
    BY <2>2, <2>3, <2>4
<1> HIDE DEF W
<1>4. SUBSET T \subseteq W
  BY <1>3, SubsetInduction
<1>5. QED
  BY <1>4 DEF W

(* Nothing is allocated in no block, *)
LEMMA BytesNone == ASSUME NEW B PROVE Bytes(B, {}) = 0
<1>1. PICK g : Iterates(g, B, SUBSET {}) /\ Bytes(B, {}) = g[{}]
  BY SumComputed, FS_EmptySet
<1>2. g[{}] = 0
  BY <1>1, SumStep
<1>3. QED
  BY <1>1, <1>2

(* ... the sum depends only on the sizes of its blocks, *)
LEMMA BytesAgree ==
  ASSUME NEW B, NEW C, NEW S, IsFiniteSet(S), \A x \in S : B[x].userSize = C[x].userSize
  PROVE  Bytes(B, S) = Bytes(C, S)
<1>1. PICK g : Iterates(g, B, SUBSET S) /\ Bytes(B, S) = g[S]
  BY SumComputed
<1>2. PICK h : Iterates(h, C, SUBSET S) /\ Bytes(C, S) = h[S]
  BY SumComputed
<1>3. S \subseteq S
  OBVIOUS
<1>4. g[S] = h[S]
  BY <1>1, <1>2, <1>3, SumAgrees
<1>5. QED
  BY <1>1, <1>2, <1>4

(* ... and a block can be taken out of it. *)
LEMMA BytesRemove ==
  ASSUME NEW B, NEW S, IsFiniteSet(S), Sized(B, S), NEW x \in S
  PROVE  /\ Bytes(B, S) \in Nat /\ Bytes(B, S \ {x}) \in Nat
         /\ Bytes(B, S) = B[x].userSize + Bytes(B, S \ {x})
<1>1. PICK R : R = S \ {x}
  OBVIOUS
<1>2. IsFiniteSet(R) /\ R \subseteq S /\ R \subseteq R
  BY <1>1, FS_RemoveElement
<1>3. PICK g : Iterates(g, B, SUBSET S) /\ Bytes(B, S) = g[S]
  BY SumComputed
<1>4. PICK h : Iterates(h, B, SUBSET R) /\ Bytes(B, R) = h[R]
  BY <1>2, SumComputed
<1>5. g[R] = h[R]
  BY <1>2, <1>3, <1>4, SumAgrees
<1>6. S \in SUBSET S /\ R \in SUBSET S
  BY <1>2
<1>7. g[S] = B[x].userSize + g[R]
  BY <1>1, <1>3, <1>6, SumAny
<1>8. g[S] \in Nat /\ g[R] \in Nat
  BY <1>3, <1>6, SumTyped
<1>9. QED
  BY <1>1, <1>3, <1>4, <1>5, <1>7, <1>8

-----------------------------------------------------------------------------
(* Sizes and classes *)

(* Powers of two are natural numbers: the number of subsets of a set. *)
LEMMA PowerNat == ASSUME NEW k \in Nat PROVE 2 ^ k \in Nat
<1>1. IsFiniteSet(1 .. k) /\ Cardinality(1 .. k) = k
  BY FS_Interval
<1>2. 2 ^ k = Cardinality(SUBSET (1 .. k)) /\ IsFiniteSet(SUBSET (1 .. k))
  BY <1>1, FS_SUBSET
<1>3. QED
  BY <1>2, FS_CardinalityType

(* BlockSize of a class is a number, *)
LEMMA BlockSizeNat == ASSUME NEW k \in Class PROVE BlockSize(k) \in Nat /\ TotalSize(k) \in Nat \ {0}
  BY PowerNat, HeapAssumption DEF Class, BlockSize, TotalSize, Header

(* ... and GetSizeClass finds a class that is large enough. *)
LEMMA Classified ==
  ASSUME NEW n \in Nat, n <= 2 ^ MaxClass
  PROVE  GetSizeClass(n) \in Class /\ n <= BlockSize(GetSizeClass(n))
<1> DEFINE K == {k \in Class : BlockSize(k) >= n}
<1>1. K \in SUBSET Nat
  BY DEF Class
<1>2. MaxClass \in K
  BY HeapAssumption, PowerNat DEF Class, BlockSize
<1>3. PICK m \in K : \A k \in K : m <= k
  BY <1>1, <1>2, LeastNatural
<1>4. Min(K) \in K
  BY <1>3 DEF Min
<1>5. QED
  BY <1>4, BlockSizeNat DEF GetSizeClass

-----------------------------------------------------------------------------
(* What the operations on free lists and on the pool do to their elements *)

(* A block pushed at the back, *)
LEMMA PushedBack ==
  ASSUME NEW q \in Seq(Nat), NEW b \in Nat
  PROVE  /\ Append(q, b) \in Seq(Nat) /\ Len(Append(q, b)) = Len(q) + 1
         /\ Range(Append(q, b)) = Range(q) \cup {b}
         /\ IsInjective(q) /\ b \notin Range(q) => IsInjective(Append(q, b))
<1>1. /\ Append(q, b) \in Seq(Nat) /\ Len(Append(q, b)) = Len(q) + 1
      /\ \A i \in 1 .. Len(q) : Append(q, b)[i] = q[i]
      /\ Append(q, b)[Len(q) + 1] = b
  BY AppendProperties
<1>2. DOMAIN Append(q, b) = 1 .. (Len(q) + 1) /\ DOMAIN q = 1 .. Len(q) /\ Len(q) \in Nat
  BY <1>1
<1>3. Range(Append(q, b)) = Range(q) \cup {b}
  BY <1>1, <1>2 DEF Range
<1>4. ASSUME IsInjective(q), b \notin Range(q) PROVE IsInjective(Append(q, b))
  BY <1>1, <1>2, <1>4 DEF Range, IsInjective
<1>5. QED
  BY <1>1, <1>3, <1>4

(* ... a block pushed at the front, *)
LEMMA PushedFront ==
  ASSUME NEW q \in Seq(Nat), NEW b \in Nat
  PROVE  /\ <<b>> \o q \in Seq(Nat) /\ Len(<<b>> \o q) = Len(q) + 1
         /\ Range(<<b>> \o q) = Range(q) \cup {b}
         /\ IsInjective(q) /\ b \notin Range(q) => IsInjective(<<b>> \o q)
<1> DEFINE r == <<b>> \o q
<1>1. /\ r \in Seq(Nat) /\ Len(r) = Len(q) + 1
      /\ r[1] = b
      /\ \A i \in 1 .. Len(q) : r[i + 1] = q[i]
  OBVIOUS
<1>2. DOMAIN r = 1 .. (Len(q) + 1) /\ DOMAIN q = 1 .. Len(q) /\ Len(q) \in Nat
  BY <1>1
<1> HIDE DEF r
<1>3. \A i \in DOMAIN r : i = 1 \/ (i - 1 \in DOMAIN q /\ r[i] = q[i - 1])
  BY <1>1, <1>2
<1>4. Range(r) = Range(q) \cup {b}
  <2>1. Range(r) \subseteq Range(q) \cup {b}
    BY <1>1, <1>3 DEF Range
  <2>2. b \in Range(r)
    BY <1>1, <1>2 DEF Range
  <2>3. ASSUME NEW i \in DOMAIN q PROVE q[i] \in Range(r)
    <3>1. i + 1 \in DOMAIN r /\ r[i + 1] = q[i]
      BY <1>1, <1>2
    <3>2. QED
      BY <3>1 DEF Range
  <2>4. QED
    BY <2>1, <2>2, <2>3 DEF Range
<1>5. ASSUME IsInjective(q), b \notin Range(q) PROVE IsInjective(r)
  <2>1. \A i \in DOMAIN q : q[i] # b
    BY <1>5 DEF Range
  <2>2. \A a, c \in DOMAIN q : q[a] = q[c] => a = c
    BY <1>5 DEF IsInjective
  <2>3. ASSUME NEW a \in DOMAIN r, NEW c \in DOMAIN r, r[a] = r[c] PROVE a = c
    <3>1. CASE a = 1 \/ c = 1
      BY <1>1, <1>3, <2>1, <2>3, <3>1
    <3>2. CASE a # 1 /\ c # 1
      <4>1. a - 1 = c - 1
        BY <1>3, <2>2, <2>3, <3>2
      <4>2. QED
        BY <1>2, <4>1
    <3>3. QED
      BY <3>1, <3>2
  <2>4. QED
    BY <2>3 DEF IsInjective
<1>6. QED
  BY <1>1, <1>4, <1>5 DEF r

(* ... the first one taken, *)
LEMMA PoppedFront ==
  ASSUME NEW q \in Seq(Nat), q # <<>>, IsInjective(q)
  PROVE  /\ Tail(q) \in Seq(Nat) /\ Len(Tail(q)) = Len(q) - 1 /\ Head(q) \in Range(q)
         /\ Range(Tail(q)) = Range(q) \ {Head(q)} /\ IsInjective(Tail(q))
<1> DEFINE r == Tail(q)
           n == Len(q)
<1>1. /\ r \in Seq(Nat) /\ Len(r) = n - 1 /\ n \in Nat \ {0}
      /\ \A i \in 1 .. Len(r) : r[i] = q[i + 1]
  BY HeadTailProperties, EmptySeq
<1>2. DOMAIN r = 1 .. (n - 1) /\ DOMAIN q = 1 .. n
  BY <1>1
<1>3. Head(q) = q[1]
  OBVIOUS
<1> HIDE DEF r, n
<1>4. \A a, c \in DOMAIN q : q[a] = q[c] => a = c
  BY DEF IsInjective
<1>5. \A i \in DOMAIN r : i + 1 \in DOMAIN q /\ r[i] = q[i + 1] /\ i + 1 # 1
  BY <1>1, <1>2
<1>6. 1 \in DOMAIN q
  BY <1>1, <1>2
<1>7. Range(r) = Range(q) \ {q[1]}
  <2>1. ASSUME NEW i \in DOMAIN r PROVE r[i] \in Range(q) \ {q[1]}
    BY <1>4, <1>5, <1>6 DEF Range
  <2>2. ASSUME NEW i \in DOMAIN q, q[i] # q[1] PROVE q[i] \in Range(r)
    <3>1. i # 1 /\ i \in 1 .. n
      BY <1>2, <2>2
    <3>2. i - 1 \in 1 .. (n - 1) /\ (i - 1) + 1 = i
      BY <1>1, <3>1
    <3>3. i - 1 \in DOMAIN r /\ r[i - 1] = q[i]
      BY <1>1, <1>2, <3>2
    <3>4. QED
      BY <3>3 DEF Range
  <2>3. QED
    BY <2>1, <2>2 DEF Range
<1>8. IsInjective(r)
  <2>1. ASSUME NEW a \in DOMAIN r, NEW c \in DOMAIN r, r[a] = r[c] PROVE a = c
    <3>1. a + 1 = c + 1
      BY <1>4, <1>5, <2>1
    <3>2. QED
      BY <1>2, <3>1
  <2>2. QED
    BY <2>1 DEF IsInjective
<1>9. QED
  BY <1>1, <1>3, <1>6, <1>7, <1>8 DEF r, n, Range

(* ... and one taken from the middle, which the last replaces. *)
LEMMA Popped ==
  ASSUME NEW q \in Seq(Nat), NEW i \in DOMAIN q, IsInjective(q)
  PROVE  /\ TryPop(q, i) \in Seq(Nat) /\ Len(TryPop(q, i)) = Len(q) - 1
         /\ Range(TryPop(q, i)) = Range(q) \ {q[i]} /\ IsInjective(TryPop(q, i))
<1> DEFINE r == TryPop(q, i)
           n == Len(q)
<1>1. n \in Nat /\ DOMAIN q = 1 .. n /\ i \in 1 .. n
  OBVIOUS
<1>2. /\ r \in Seq(Nat) /\ Len(r) = n - 1
      /\ \A j \in 1 .. (n - 1) : r[j] = IF j = i THEN q[n] ELSE q[j]
  <2> DEFINE e == [q EXCEPT ![i] = q[n]]
  <2>1. \A j \in 1 .. n : e[j] = IF j = i THEN q[n] ELSE q[j]
    BY <1>1
  <2>2. \A j \in 1 .. (n - 1) : e[j] \in Nat
    BY <1>1, <2>1
  <2> HIDE DEF e
  <2>3. /\ SubSeq(e, 1, n - 1) \in Seq(Nat)
        /\ Len(SubSeq(e, 1, n - 1)) = IF 1 <= n - 1 THEN (n - 1) - 1 + 1 ELSE 0
        /\ \A j \in 1 .. ((n - 1) - 1 + 1) : SubSeq(e, 1, n - 1)[j] = e[1 + j - 1]
    BY <1>1, <2>2, SubSeqProperties
  <2>4. r = SubSeq(e, 1, n - 1)
    BY DEF TryPop, e
  <2>5. \A j \in 1 .. (n - 1) : SubSeq(e, 1, n - 1)[j] = e[j]
    BY <1>1, <2>3
  <2>6. QED
    BY <1>1, <2>1, <2>3, <2>4, <2>5
<1> HIDE DEF r
<1>3. DOMAIN r = 1 .. (n - 1)
  BY <1>2
<1> HIDE DEF n
<1>4. Range(r) = Range(q) \ {q[i]}
  <2>1. ASSUME NEW j \in DOMAIN r PROVE r[j] \in Range(q) \ {q[i]}
    <3>1. j \in DOMAIN q /\ n \in DOMAIN q /\ j # n
      BY <1>1, <1>3
    <3>2. \A a, c \in DOMAIN q : q[a] = q[c] => a = c
      BY DEF IsInjective
    <3>3. CASE j = i
      <4>1. r[j] = q[n] /\ q[n] # q[i]
        BY <1>2, <1>3, <3>1, <3>2, <3>3
      <4>2. QED
        BY <3>1, <4>1 DEF Range
    <3>4. CASE j # i
      <4>1. r[j] = q[j] /\ q[j] # q[i]
        BY <1>2, <1>3, <3>1, <3>2, <3>4
      <4>2. QED
        BY <3>1, <4>1 DEF Range
    <3>5. QED
      BY <3>3, <3>4
  <2>2. ASSUME NEW j \in DOMAIN q, q[j] # q[i] PROVE q[j] \in Range(r)
    <3>1. CASE j = n
      <4>1. i \in DOMAIN r /\ r[i] = q[j]
        BY <1>1, <1>2, <1>3, <2>2, <3>1
      <4>2. QED
        BY <4>1 DEF Range
    <3>2. CASE j # n
      <4>1. j \in DOMAIN r /\ r[j] = q[j]
        BY <1>1, <1>2, <1>3, <2>2, <3>2
      <4>2. QED
        BY <4>1 DEF Range
    <3>3. QED
      BY <3>1, <3>2
  <2>3. QED
    BY <2>1, <2>2 DEF Range
<1>5. IsInjective(r)
  <2>1. \A a, c \in DOMAIN q : q[a] = q[c] => a = c
    BY DEF IsInjective
  <2>2. ASSUME NEW a \in DOMAIN r, NEW c \in DOMAIN r, r[a] = r[c] PROVE a = c
    <3>1. a \in DOMAIN q /\ c \in DOMAIN q /\ n \in DOMAIN q /\ a # n /\ c # n
      BY <1>1, <1>3
    <3>2. /\ r[a] = IF a = i THEN q[n] ELSE q[a]
          /\ r[c] = IF c = i THEN q[n] ELSE q[c]
      BY <1>2, <1>3
    <3>3. QED
      BY <2>1, <2>2, <3>1, <3>2
  <2>3. QED
    BY <2>2 DEF IsInjective
<1>6. QED
  BY <1>2, <1>4, <1>5 DEF r, n

-----------------------------------------------------------------------------
(* The inductive invariant *)

Block == [addr : Nat, klass : Class, state : {"allocated", "available"}, service : BOOLEAN,
          userSize : Nat]

Stat == [allocs : Nat, frees : Nat, userAllocated : Nat, userFreed : Nat]

TypeOK ==
  /\ phase \in {"off", "boot", "run", "aborted", "dead"}
  /\ up \in Nat /\ down \in Nat
  /\ blocks \in Seq(Block)
  /\ lists \in [Class -> [buf : Seq(Nat), capacity : Nat]]
  /\ stat \in Stat
  /\ stacks \in SUBSET Nat /\ IsFiniteSet(stacks)
  /\ pool \in Seq(Nat)

End(b) == blocks[b].addr + TotalSize(blocks[b].klass)

Placed == stacks \cup Range(pool)

Available(k) == {b \in DOMAIN blocks : ~IsAllocated(b) /\ blocks[b].klass = k}

(* Blocks follow each other from the index up to up, below the stacks, *)
HeapLayout ==
  /\ up <= down /\ down <= Segment
  /\ \A b \in DOMAIN blocks : Base <= blocks[b].addr /\ End(b) <= up
  /\ \A a, b \in DOMAIN blocks : a < b => End(a) <= blocks[b].addr

(* ... and stacks from down to the end of the segment, each used or in the pool once. *)
StackLayout ==
  /\ \A s \in Placed : down <= s /\ s + StackSize <= Segment
  /\ \A s, t \in Placed : s < t => s + StackSize <= t
  /\ stacks \cap Range(pool) = {} /\ IsInjective(pool)

(* What the phases of a simulation start from. *)
Phases ==
  /\ phase \in {"off", "boot"} => blocks = <<>>
  /\ phase = "off" => stacks = {} /\ pool = <<>> /\ up = 0 /\ down = Segment
  /\ phase \in {"run", "aborted"} => Base <= up

(* A user size fits, and only an allocation of the program has one. *)
UserSizes ==
  \A b \in DOMAIN blocks :
    /\ blocks[b].userSize <= BlockSize(blocks[b].klass)
    /\ blocks[b].service \/ ~IsAllocated(b) => blocks[b].userSize = 0

(* FreeListsAreExact, in every phase *)
ListsAreExact ==
  \A k \in Class :
    /\ Range(lists[k].buf) = Available(k)
    /\ IsInjective(lists[k].buf)
    /\ Len(lists[k].buf) <= lists[k].capacity

(* The statistics count the allocations of the program. *)
CountIsExact == phase # "dead" => stat.allocs = stat.frees + Cardinality(Live)

IInv ==
  /\ TypeOK
  /\ HeapLayout
  /\ StackLayout
  /\ Phases
  /\ UserSizes
  /\ ListsAreExact
  /\ CountIsExact

-----------------------------------------------------------------------------
(* The state of the heap before the first allocation *)
NoBlocks == blocks = <<>> /\ lists = [k \in Class |-> EmptyList] /\ stat = NoStat

HeapTyped ==
  /\ blocks \in Seq(Block)
  /\ lists \in [Class -> [buf : Seq(Nat), capacity : Nat]]
  /\ stat \in Stat

(* Without blocks everything about them holds. *)
LEMMA NoBlocksKeep == NoBlocks => HeapTyped /\ UserSizes /\ ListsAreExact /\ CountIsExact
<1> SUFFICES ASSUME NoBlocks PROVE HeapTyped /\ UserSizes /\ ListsAreExact /\ CountIsExact
  OBVIOUS
<1> USE DEF NoBlocks
<1>1. DOMAIN blocks = {} /\ blocks \in Seq(Block)
  OBVIOUS
<1>2. lists \in [Class -> [buf : Seq(Nat), capacity : Nat]] /\ stat \in Stat
  BY DEF EmptyList, NoStat, Stat
<1>3. UserSizes
  BY <1>1 DEF UserSizes
<1>4. ListsAreExact
  <2> DEFINE e == <<>>
  <2>1. Len(e) = 0 /\ Range(e) = {} /\ IsInjective(e)
    BY DEF Range, IsInjective
  <2>2. \A k \in Class : Available(k) = {}
    BY <1>1 DEF Available
  <2>3. \A k \in Class : lists[k].buf = e /\ lists[k].capacity = 0
    BY DEF EmptyList
  <2> HIDE DEF e, NoBlocks
  <2>4. ASSUME NEW k \in Class
        PROVE  /\ Range(lists[k].buf) = Available(k) /\ IsInjective(lists[k].buf)
               /\ Len(lists[k].buf) <= lists[k].capacity
    <3>1. lists[k].buf = e /\ lists[k].capacity = 0 /\ Available(k) = {}
      BY <2>2, <2>3
    <3>2. Range(lists[k].buf) = Available(k) /\ IsInjective(lists[k].buf)
      BY <2>1, <3>1, Zenon
    <3>3. Len(lists[k].buf) <= lists[k].capacity
      BY <2>1, <3>1
    <3>4. QED
      BY <3>2, <3>3
  <2>5. QED
    BY <2>4 DEF ListsAreExact
<1>5. CountIsExact
  <2>1. Live = {}
    BY <1>1 DEF Live
  <2>2. QED
    BY <2>1, FS_EmptySet DEF CountIsExact, NoStat
<1>6. QED
  BY <1>1, <1>2, <1>3, <1>4, <1>5 DEF HeapTyped

(* The initial states satisfy the invariant. *)
LEMMA HeapInit == Init => IInv
<1> SUFFICES ASSUME Init PROVE IInv
  OBVIOUS
<1> USE HeapAssumption DEF Init
<1>1. TypeOK
  BY NoBlocksKeep, FS_EmptySet DEF TypeOK, NoBlocks, HeapTyped
<1>2. HeapLayout /\ Phases
  BY DEF HeapLayout, Phases
<1>3. StackLayout
  BY DEF StackLayout, Placed, Range, IsInjective
<1>4. QED
  BY <1>1, <1>2, <1>3, NoBlocksKeep DEF IInv, NoBlocks

(* The program's blocks are finitely many. *)
LEMMA LiveFinite == ASSUME TypeOK PROVE IsFiniteSet(Live) /\ Cardinality(Live) \in Nat
<1>1. IsFiniteSet(DOMAIN blocks)
  <2>1. DOMAIN blocks = 1 .. Len(blocks) /\ Len(blocks) \in Nat
    BY DEF TypeOK
  <2>2. QED
    BY <2>1, FS_Interval
<1>2. Live \in SUBSET DOMAIN blocks
  BY DEF Live
<1>3. QED
  BY <1>1, <1>2, FS_Subset, FS_CardinalityType

-----------------------------------------------------------------------------
(* The life of a simulation, and a process that dies *)

(* A step that touches neither blocks nor lists nor statistics. *)
LEMMA HeapSame ==
  ASSUME IInv, UNCHANGED <<blocks, lists, stat>>, phase' = "dead" \/ phase # "dead"
  PROVE  HeapTyped' /\ UserSizes' /\ ListsAreExact' /\ CountIsExact'
<1> USE DEF IInv
<1>1. HeapTyped' /\ UserSizes'
  BY DEF TypeOK, HeapTyped, UserSizes, IsAllocated
<1>2. ListsAreExact'
  <2>1. \A k \in Class : Available(k)' = Available(k)
    BY DEF Available, IsAllocated
  <2>2. QED
    BY <2>1 DEF ListsAreExact
<1>3. CountIsExact'
  <2>1. Live' = Live
    BY DEF Live, IsAllocated
  <2>2. QED
    BY <2>1 DEF CountIsExact
<1>4. QED
  BY <1>1, <1>2, <1>3

(* A simulation that dies leaves its memory as it is. *)
LEMMA DiesKeeps == ASSUME IInv, Dies PROVE IInv'
<1> USE DEF IInv, Dies, heap
<1>1. TypeOK' /\ Phases'
  BY DEF TypeOK, Phases
<1>2. HeapLayout'
  BY DEF HeapLayout, End
<1>3. StackLayout'
  BY DEF StackLayout, Placed
<1>4. QED
  BY <1>1, <1>2, <1>3, HeapSame

(* The stack of the main thread is the first. *)
LEMMA StartKeeps == ASSUME IInv, Start PROVE IInv'
<1>1. CASE SpaceLeft < StackSize
  BY <1>1, DiesKeeps DEF Start
<1>2. CASE ~(SpaceLeft < StackSize)
  <2>1. /\ phase = "off" /\ phase' = "boot" /\ down' = down - StackSize
        /\ stacks' = {down - StackSize} /\ UNCHANGED <<up, blocks, lists, stat, pool>>
    BY <1>2 DEF Start, heap
  <2>2. blocks = <<>> /\ stacks = {} /\ pool = <<>> /\ up = 0 /\ down = Segment
    BY <2>1 DEF IInv, Phases
  <2>3. down - StackSize \in Nat /\ down' + StackSize = Segment /\ down' <= Segment
    BY <1>2, <2>1, <2>2, HeapAssumption DEF SpaceLeft
  <2>4. HeapTyped' /\ UserSizes' /\ ListsAreExact' /\ CountIsExact'
    BY <2>1, HeapSame
  <2>5. TypeOK'
    BY <2>1, <2>3, <2>4, FS_Singleton DEF IInv, TypeOK, HeapTyped
  <2>6. HeapLayout' /\ Phases'
    BY <2>1, <2>2, <2>3 DEF HeapLayout, Phases
  <2>7. StackLayout'
    <3>1. Range(pool') = {} /\ IsInjective(pool') /\ Placed' = {down'}
      BY <2>1, <2>2 DEF Range, IsInjective, Placed
    <3>2. down' \in Nat
      BY <2>1, <2>3
    <3> DEFINE d == down'
    <3>3. d \in Nat /\ d + StackSize <= Segment /\ Placed' = {d}
      BY <2>3, <3>1, <3>2, HeapAssumption
    <3> HIDE DEF d
    <3>4. \A s \in {d} : d <= s /\ s + StackSize <= Segment
      BY <3>3
    <3>5. \A s, t \in {d} : s < t => s + StackSize <= t
      BY <3>3
    <3>6. QED
      BY <3>1, <3>3, <3>4, <3>5 DEF StackLayout, d
  <2>8. QED
    BY <2>4, <2>5, <2>6, <2>7 DEF IInv
<1>3. QED
  BY <1>1, <1>2

(* The boot block and the index come first. *)
LEMMA InitMallocKeeps == ASSUME IInv, InitMalloc PROVE IInv'
<1>1. CASE Base > SpaceLeft
  BY <1>1, DiesKeeps DEF InitMalloc
<1>2. CASE ~(Base > SpaceLeft)
  <2>1. /\ phase' = "run" /\ up' = up + Base
        /\ NoBlocks' /\ UNCHANGED <<down, stacks, pool>>
    BY <1>2 DEF InitMalloc, NoBlocks
  <2>2. HeapTyped' /\ UserSizes' /\ ListsAreExact' /\ CountIsExact'
    BY <2>1, NoBlocksKeep, PTL
  <2>3. up' \in Nat /\ Base <= up' /\ up' <= down'
    <3>1. up \in Nat /\ down \in Nat /\ BootSize \in Nat /\ IndexSize \in Nat /\ down' = down
      BY <2>1, HeapAssumption DEF IInv, TypeOK
    <3>2. QED
      BY <1>2, <2>1, <3>1 DEF Base, SpaceLeft
  <2>4. TypeOK'
    BY <2>1, <2>2, <2>3 DEF IInv, TypeOK, HeapTyped
  <2>5. HeapLayout' /\ Phases'
    BY <2>1, <2>3 DEF IInv, HeapLayout, Phases, NoBlocks
  <2>6. StackLayout'
    BY <2>1 DEF IInv, StackLayout, Placed
  <2>7. QED
    BY <2>2, <2>4, <2>5, <2>6 DEF IInv
<1>3. QED
  BY <1>1, <1>2

(* A burnt simulation leaves the segment empty. *)
LEMMA BurnKeeps == ASSUME IInv, Burn PROVE IInv'
<1>1. /\ phase' = "off" /\ up' = 0 /\ down' = Segment
      /\ stacks' = {} /\ pool' = <<>> /\ NoBlocks'
  BY DEF Burn, NoBlocks
<1>2. HeapTyped' /\ UserSizes' /\ ListsAreExact' /\ CountIsExact'
  BY <1>1, NoBlocksKeep, PTL
<1>3. TypeOK'
  BY <1>1, <1>2, FS_EmptySet, HeapAssumption DEF TypeOK, HeapTyped
<1>4. HeapLayout' /\ Phases'
  BY <1>1, HeapAssumption DEF HeapLayout, Phases, NoBlocks
<1>5. StackLayout'
  BY <1>1 DEF StackLayout, Placed, Range, IsInjective
<1>6. QED
  BY <1>2, <1>3, <1>4, <1>5 DEF IInv

(* Stacks come from the pool or from the end of the free memory. *)
LEMMA AllocateStackKeeps == ASSUME IInv, AllocateStack PROVE IInv'
<1>1. CASE pool # <<>>
  <2>1. /\ stacks' = stacks \cup {Head(pool)} /\ pool' = Tail(pool)
        /\ UNCHANGED <<phase, up, down, blocks, lists, stat>> /\ phase = "run"
    BY <1>1 DEF AllocateStack, heap
  <2>2. /\ Tail(pool) \in Seq(Nat) /\ Head(pool) \in Range(pool)
        /\ Range(Tail(pool)) = Range(pool) \ {Head(pool)} /\ IsInjective(Tail(pool))
    BY <1>1, PoppedFront DEF IInv, TypeOK, StackLayout
  <2>3. Range(pool) \in SUBSET Nat
    BY RangeOfSeq DEF IInv, TypeOK
  <2>4. HeapTyped' /\ UserSizes' /\ ListsAreExact' /\ CountIsExact'
    BY <2>1, HeapSame
  <2>5. TypeOK'
    BY <2>1, <2>2, <2>3, <2>4, FS_AddElement DEF IInv, TypeOK, HeapTyped
  <2>6. HeapLayout' /\ Phases'
    BY <2>1 DEF IInv, HeapLayout, Phases, End
  <2>7. StackLayout'
    <3>1. Placed' = Placed
      BY <2>1, <2>2 DEF Placed
    <3>2. stacks' \cap Range(pool') = {}
      BY <2>1, <2>2 DEF IInv, StackLayout
    <3>3. QED
      BY <2>1, <2>2, <3>1, <3>2 DEF IInv, StackLayout
  <2>8. QED
    BY <2>4, <2>5, <2>6, <2>7 DEF IInv
<1>2. CASE pool = <<>> /\ SpaceLeft < StackSize
  BY <1>2, DiesKeeps DEF AllocateStack
<1>3. CASE pool = <<>> /\ ~(SpaceLeft < StackSize)
  <2>1. /\ down' = down - StackSize /\ stacks' = stacks \cup {down - StackSize}
        /\ UNCHANGED <<phase, up, blocks, lists, stat, pool>> /\ phase = "run"
    BY <1>3 DEF AllocateStack, heap
  <2>2. /\ down - StackSize \in Nat /\ up <= down - StackSize
        /\ down' < down /\ down' + StackSize = down
    BY <1>3, <2>1, HeapAssumption DEF IInv, TypeOK, SpaceLeft
  <2>3. HeapTyped' /\ UserSizes' /\ ListsAreExact' /\ CountIsExact'
    BY <2>1, HeapSame
  <2>4. TypeOK'
    BY <2>1, <2>2, <2>3, FS_AddElement DEF IInv, TypeOK, HeapTyped
  <2>5. HeapLayout' /\ Phases'
    BY <2>1, <2>2, HeapAssumption DEF IInv, TypeOK, HeapLayout, Phases, End
  <2>6. StackLayout'
    <3>1. Range(pool) = {} /\ pool' = pool
      BY <1>3, <2>1 DEF Range
    <3>2. Placed = stacks /\ Placed' = stacks \cup {down'}
      BY <2>1, <3>1 DEF Placed
    <3>3. \A s \in stacks : s \in Nat /\ down <= s /\ s + StackSize <= Segment
      BY <3>2 DEF IInv, TypeOK, StackLayout
    <3>4. down' \in Nat /\ down \in Nat /\ down <= Segment
      BY <2>1, <2>2 DEF IInv, TypeOK, HeapLayout
    <3> DEFINE d == down'
    <3>5. d \in Nat /\ d < down /\ d + StackSize = down /\ StackSize \in Nat /\ Segment \in Nat
      BY <2>2, <3>4, HeapAssumption
    <3>6. \A s, t \in stacks : s < t => s + StackSize <= t
      BY <3>2 DEF IInv, StackLayout
    <3> HIDE DEF d
    <3>7. \A s \in stacks \cup {d} : d <= s /\ s + StackSize <= Segment
      BY <3>3, <3>4, <3>5
    <3>8. \A s, t \in stacks \cup {d} : s < t => s + StackSize <= t
      BY <3>3, <3>4, <3>5, <3>6
    <3>9. Placed' = stacks \cup {d} /\ down' = d
      BY <3>2 DEF d
    <3>10. QED
      BY <2>1, <3>1, <3>7, <3>8, <3>9 DEF IInv, StackLayout
  <2>7. QED
    BY <2>3, <2>4, <2>5, <2>6 DEF IInv
<1>4. QED
  BY <1>1, <1>2, <1>3

(* A freed stack moves to the pool. *)
LEMMA FreeStackKeeps == ASSUME NEW s \in stacks, IInv, FreeStack(s) PROVE IInv'
<1>1. /\ stacks' = stacks \ {s} /\ pool' = <<s>> \o pool
      /\ UNCHANGED <<phase, up, down, blocks, lists, stat>> /\ phase = "run"
  BY DEF FreeStack, heap
<1>2. s \in Nat /\ s \notin Range(pool)
  BY DEF IInv, TypeOK, StackLayout
<1>3. /\ <<s>> \o pool \in Seq(Nat) /\ Range(<<s>> \o pool) = Range(pool) \cup {s}
      /\ IsInjective(<<s>> \o pool)
  BY <1>2, PushedFront DEF IInv, TypeOK, StackLayout
<1>4. HeapTyped' /\ UserSizes' /\ ListsAreExact' /\ CountIsExact'
  BY <1>1, HeapSame
<1>5. TypeOK'
  BY <1>1, <1>3, <1>4, FS_RemoveElement DEF IInv, TypeOK, HeapTyped
<1>6. HeapLayout' /\ Phases'
  BY <1>1 DEF IInv, HeapLayout, Phases, End
<1>7. StackLayout'
  <2>1. Placed' = Placed
    BY <1>1, <1>3 DEF Placed
  <2>2. stacks' \cap Range(pool') = {}
    BY <1>1, <1>3 DEF IInv, StackLayout
  <2>3. QED
    BY <1>1, <1>3, <2>1, <2>2 DEF IInv, StackLayout
<1>8. QED
  BY <1>4, <1>5, <1>6, <1>7 DEF IInv

-----------------------------------------------------------------------------
(* Allocation and free *)

(* What a call does to the program's allocations: a block is handed out, taken back, or nothing. *)
Handed(x, size) ==
  /\ x \in DOMAIN blocks' /\ x \notin Live /\ Live' = Live \cup {x}
  /\ blocks'[x].userSize = size
  /\ \A b \in Live : blocks'[b] = blocks[b]
  /\ phase # "dead"
  /\ stat'.userAllocated = stat.userAllocated + size /\ stat'.userFreed = stat.userFreed

TakenBack(x) ==
  /\ x \in Live /\ Live' = Live \ {x}
  /\ \A b \in Live : b # x => blocks'[b] = blocks[b]
  /\ phase # "dead"
  /\ stat'.userAllocated = stat.userAllocated
  /\ stat'.userFreed = stat.userFreed + blocks[x].userSize

Untouched ==
  /\ Live' = Live /\ \A b \in Live : blocks'[b] = blocks[b]
  /\ phase' = "dead" \/ (phase # "dead" /\ UNCHANGED stat)

Emptied == Live' = {} /\ stat' = NoStat

(* Members of a sequence of blocks are blocks. *)
LEMMA BlockOf == ASSUME NEW B \in Seq(Block), NEW i \in DOMAIN B PROVE B[i] \in Block
  BY ElementOfSeq, LenProperties

(* A sequence of blocks with one more block, *)
LEMMA Grown ==
  ASSUME NEW B \in Seq(Block), NEW nb \in Block
  PROVE  /\ Append(B, nb) \in Seq(Block) /\ DOMAIN B = 1 .. Len(B) /\ Len(B) \in Nat
         /\ DOMAIN Append(B, nb) = DOMAIN B \cup {Len(B) + 1}
         /\ \A i \in DOMAIN B : Append(B, nb)[i] = B[i]
         /\ Append(B, nb)[Len(B) + 1] = nb
<1>1. /\ Append(B, nb) \in Seq(Block) /\ Len(Append(B, nb)) = Len(B) + 1
      /\ \A i \in 1 .. Len(B) : Append(B, nb)[i] = B[i]
      /\ Append(B, nb)[Len(B) + 1] = nb
  BY AppendProperties
<1>2. Len(B) \in Nat /\ DOMAIN B = 1 .. Len(B) /\ DOMAIN Append(B, nb) = 1 .. (Len(B) + 1)
  BY <1>1, LenProperties
<1>3. 1 .. (Len(B) + 1) = (1 .. Len(B)) \cup {Len(B) + 1}
  BY <1>2
<1>4. QED
  BY <1>1, <1>2, <1>3

(* ... or with one of them changed. *)
LEMMA Replaced ==
  ASSUME NEW B \in Seq(Block), NEW b \in DOMAIN B, NEW nb \in Block
  PROVE  /\ [B EXCEPT ![b] = nb] \in Seq(Block)
         /\ DOMAIN [B EXCEPT ![b] = nb] = DOMAIN B
         /\ \A i \in DOMAIN B : [B EXCEPT ![b] = nb][i] = IF i = b THEN nb ELSE B[i]
<1>1. DOMAIN B = 1 .. Len(B)
  BY LenProperties
<1>2. QED
  BY <1>1, ExceptSeq

(* Blocks that stay where they are keep the layout, *)
LEMMA LayoutKept ==
  ASSUME IInv, UNCHANGED <<up, down>>, DOMAIN blocks' = DOMAIN blocks,
         \A b \in DOMAIN blocks : /\ blocks'[b].addr = blocks[b].addr
                                  /\ blocks'[b].klass = blocks[b].klass
  PROVE  HeapLayout'
  BY DEF IInv, HeapLayout, End

(* ... and so does a block that NewBlock puts behind them. *)
LEMMA LayoutGrown ==
  ASSUME IInv, NEW k \in Class, Fits(k), phase = "run",
         up' = up + TotalSize(k), down' = down,
         DOMAIN blocks' = DOMAIN blocks \cup {Len(blocks) + 1},
         \A b \in DOMAIN blocks : /\ blocks'[b].addr = blocks[b].addr
                                  /\ blocks'[b].klass = blocks[b].klass,
         blocks'[Len(blocks) + 1].addr = up, blocks'[Len(blocks) + 1].klass = k
  PROVE  HeapLayout' /\ up' \in Nat /\ Base <= up'
<1>0. PICK n \in Nat : n = Len(blocks) + 1
  BY LenProperties DEF IInv, TypeOK
<1>1. /\ up \in Nat /\ down \in Nat /\ Segment \in Nat /\ TotalSize(k) \in Nat \ {0}
      /\ Base \in Nat /\ Base <= up /\ down <= Segment
  <2>1. Segment \in Nat /\ Base \in Nat
    BY HeapAssumption DEF Base
  <2>2. up \in Nat /\ down \in Nat
    BY DEF IInv, TypeOK
  <2>3. Base <= up
    BY DEF IInv, Phases
  <2>4. down <= Segment
    BY DEF IInv, HeapLayout
  <2>5. TotalSize(k) \in Nat \ {0}
    BY BlockSizeNat
  <2>6. QED
    BY <2>1, <2>2, <2>3, <2>4, <2>5
<1>2. up' \in Nat /\ up <= up' /\ up' <= down
  BY <1>1 DEF Fits, SpaceLeft, Header
<1>3. \A b \in DOMAIN blocks : b \in Nat /\ b < n
  BY <1>0, LenProperties DEF IInv, TypeOK
<1>4. \A b \in DOMAIN blocks : End(b)' = End(b) /\ blocks'[b].addr = blocks[b].addr
  BY DEF End
<1>5. End(n)' = up' /\ blocks'[n].addr = up
  <2>1. blocks'[n].addr = up /\ blocks'[n].klass = k /\ up' = up + TotalSize(k)
    BY <1>0
  <2>2. End(n)' = blocks'[n].addr + TotalSize(blocks'[n].klass)
    BY DEF End, TotalSize, BlockSize
  <2>3. QED
    BY <2>1, <2>2, Zenon
<1>6. \A b \in DOMAIN blocks : End(b) \in Nat /\ End(b) <= up /\ Base <= blocks[b].addr
  <2>1. ASSUME NEW b \in DOMAIN blocks PROVE End(b) \in Nat
    <3>1. blocks[b] \in Block
      BY ElementOfSeq, LenProperties DEF IInv, TypeOK
    <3>2. blocks[b].addr \in Nat /\ blocks[b].klass \in Class
      BY <3>1 DEF Block
    <3>3. QED
      BY <3>2, BlockSizeNat DEF End
  <2>2. QED
    BY <2>1 DEF IInv, HeapLayout
<1>7. \A b \in DOMAIN blocks' : Base <= blocks'[b].addr /\ End(b)' <= up'
  <2>1. \A b \in DOMAIN blocks : Base <= blocks'[b].addr /\ End(b)' <= up'
    BY <1>1, <1>2, <1>4, <1>6
  <2>2. Base <= blocks'[n].addr /\ End(n)' <= up'
    BY <1>1, <1>2, <1>5
  <2>3. DOMAIN blocks' = DOMAIN blocks \cup {n}
    BY <1>0
  <2>4. QED
    BY <2>1, <2>2, <2>3
<1>8. ASSUME NEW a \in DOMAIN blocks', NEW b \in DOMAIN blocks', a < b
      PROVE  End(a)' <= blocks'[b].addr
  <2>1. CASE b = n
    <3>1. a \in DOMAIN blocks
      BY <1>3, <1>8, <2>1 DEF IInv, TypeOK
    <3>2. QED
      BY <1>4, <1>5, <1>6, <2>1, <3>1
  <2>2. CASE b \in DOMAIN blocks
    <3>1. a \in DOMAIN blocks
      BY <1>3, <1>8, <2>2 DEF IInv, TypeOK
    <3>2. QED
      BY <1>4, <1>8, <2>2, <3>1 DEF IInv, HeapLayout
  <2>3. QED
    BY <1>0, <2>1, <2>2
<1>9. QED
  BY <1>1, <1>2, <1>7, <1>8 DEF HeapLayout

(* The stacks do not take part. *)
LEMMA StacksKept ==
  ASSUME IInv, UNCHANGED <<down, stacks, pool>> PROVE StackLayout'
  BY DEF IInv, StackLayout, Placed

(* Counted counts one more allocation. *)
LEMMA CountedStat ==
  ASSUME stat \in Stat, NEW size \in Nat
  PROVE  /\ Counted(size) \in Stat /\ Counted(size).allocs = stat.allocs + 1
         /\ Counted(size).frees = stat.frees
         /\ Counted(size).userAllocated = stat.userAllocated + size
         /\ Counted(size).userFreed = stat.userFreed
<1> DEFINE a == stat.allocs + 1
           u == stat.userAllocated + size
<1>1. a \in Nat /\ u \in Nat
  BY DEF Stat
<1>2. Counted(size) = [stat EXCEPT !.allocs = a, !.userAllocated = u]
  BY DEF Counted, Stat
<1> HIDE DEF a, u
<1>3. /\ [stat EXCEPT !.allocs = a, !.userAllocated = u] \in Stat
      /\ [stat EXCEPT !.allocs = a, !.userAllocated = u].allocs = a
      /\ [stat EXCEPT !.allocs = a, !.userAllocated = u].frees = stat.frees
      /\ [stat EXCEPT !.allocs = a, !.userAllocated = u].userAllocated = u
      /\ [stat EXCEPT !.allocs = a, !.userAllocated = u].userFreed = stat.userFreed
  BY <1>1 DEF Stat
<1>4. QED
  BY <1>2, <1>3 DEF a, u

(* A block of the free list is handed out again. *)
LEMMA ReuseKeeps ==
  ASSUME IInv, phase = "run", NEW size \in Nat, NEW k \in Class, size <= BlockSize(k),
         NEW i \in DOMAIN lists[k].buf,
         lists' = [lists EXCEPT ![k].buf = TryPop(@, i)],
         blocks' = [blocks EXCEPT ![lists[k].buf[i]] =
                      [@ EXCEPT !.state = "allocated", !.service = FALSE, !.userSize = size]],
         stat' = Counted(size), UNCHANGED <<phase, up, down, stacks, pool>>
  PROVE  IInv' /\ \E b : Handed(b, size)
<1>0. PICK x : x = lists[k].buf[i]
  OBVIOUS
<1> DEFINE nb == [blocks[x] EXCEPT !.state = "allocated", !.service = FALSE, !.userSize = size]
<1>1. x \in Available(k)
  BY <1>0 DEF IInv, ListsAreExact, Range
<1>2. x \in DOMAIN blocks /\ ~IsAllocated(x) /\ blocks[x].klass = k /\ blocks[x] \in Block
  BY <1>1 DEF IInv, TypeOK, Available
<1>3. /\ nb \in Block /\ nb.addr = blocks[x].addr /\ nb.klass = k /\ nb.state = "allocated"
      /\ nb.service = FALSE /\ nb.userSize = size
  BY <1>2 DEF Block
<1>4. blocks' = [blocks EXCEPT ![x] = nb]
  BY <1>0
<1> HIDE DEF nb
<1>5. /\ blocks' \in Seq(Block) /\ DOMAIN blocks' = DOMAIN blocks
      /\ \A b \in DOMAIN blocks : blocks'[b] = IF b = x THEN nb ELSE blocks[b]
  <2>1. blocks \in Seq(Block)
    BY DEF IInv, TypeOK
  <2>2. /\ [blocks EXCEPT ![x] = nb] \in Seq(Block)
        /\ DOMAIN [blocks EXCEPT ![x] = nb] = DOMAIN blocks
        /\ \A b \in DOMAIN blocks :
             [blocks EXCEPT ![x] = nb][b] = IF b = x THEN nb ELSE blocks[b]
    <3>1. x \in DOMAIN blocks /\ nb \in Block
      BY <1>2, <1>3
    <3>2. QED
      BY <2>1, <3>1, Replaced, Zenon
  <2>3. QED
    BY <1>4, <2>2, Zenon
<1> DEFINE q == lists[k].buf
<1>6. q \in Seq(Nat) /\ IsInjective(q) /\ Range(q) = Available(k) /\ Len(q) <= lists[k].capacity
      /\ lists[k].capacity \in Nat /\ lists[k] \in [buf : Seq(Nat), capacity : Nat]
  BY DEF IInv, TypeOK, ListsAreExact
<1>7. /\ TryPop(q, i) \in Seq(Nat) /\ Len(TryPop(q, i)) = Len(q) - 1
      /\ Range(TryPop(q, i)) = Available(k) \ {x} /\ IsInjective(TryPop(q, i))
  BY <1>0, <1>6, Popped
<1>8. /\ lists'[k].buf = TryPop(q, i) /\ lists'[k].capacity = lists[k].capacity
      /\ \A j \in Class : j # k => lists'[j] = lists[j]
      /\ lists' \in [Class -> [buf : Seq(Nat), capacity : Nat]]
  BY <1>6, <1>7 DEF IInv, TypeOK
<1>9. /\ stat' \in Stat /\ stat'.allocs = stat.allocs + 1 /\ stat'.frees = stat.frees
      /\ stat'.userAllocated = stat.userAllocated + size /\ stat'.userFreed = stat.userFreed
  BY CountedStat DEF IInv, TypeOK
<1> HIDE DEF q
<1>10. TypeOK'
  BY <1>5, <1>8, <1>9 DEF IInv, TypeOK
<1>11. HeapLayout' /\ StackLayout' /\ Phases'
  <2>1. \A b \in DOMAIN blocks : /\ blocks'[b].addr = blocks[b].addr
                                 /\ blocks'[b].klass = blocks[b].klass
    BY <1>2, <1>3, <1>5
  <2>2. QED
    BY <1>5, <2>1, LayoutKept, StacksKept DEF IInv, Phases
<1>12. UserSizes'
  BY <1>2, <1>3, <1>5 DEF IInv, UserSizes, IsAllocated
<1>13. ListsAreExact'
  <2>1. ASSUME NEW j \in Class PROVE Available(j)' = IF j = k THEN Available(k) \ {x} ELSE Available(j)
    BY <1>2, <1>3, <1>5 DEF Available, IsAllocated
  <2>2. ASSUME NEW j \in Class, j # k
        PROVE  /\ Range(lists'[j].buf) = Available(j)' /\ IsInjective(lists'[j].buf)
               /\ Len(lists'[j].buf) <= lists'[j].capacity
    BY <1>8, <2>1, <2>2 DEF IInv, ListsAreExact
  <2>3. /\ Range(lists'[k].buf) = Available(k)' /\ IsInjective(lists'[k].buf)
        /\ Len(lists'[k].buf) <= lists'[k].capacity
    <3>1. Available(k)' = Available(k) \ {x}
      BY <2>1
    <3>2. Range(lists'[k].buf) = Available(k)' /\ IsInjective(lists'[k].buf)
      BY <1>7, <1>8, <3>1, Zenon
    <3>3. Len(lists'[k].buf) = Len(q) - 1 /\ lists'[k].capacity = lists[k].capacity
      BY <1>7, <1>8, Zenon
    <3>4. Len(q) \in Nat
      BY <1>6, LenProperties
    <3>5. QED
      BY <1>6, <3>2, <3>3, <3>4
  <2>4. QED
    BY <2>2, <2>3 DEF ListsAreExact
<1>14. Handed(x, size)
  <2>1. Live' = Live \cup {x} /\ x \notin Live
    BY <1>2, <1>3, <1>5 DEF Live, IsAllocated
  <2>2. \A b \in Live : b \in DOMAIN blocks
    BY DEF Live
  <2>3. QED
    BY <1>2, <1>3, <1>5, <1>9, <2>1, <2>2 DEF Handed
<1>15. CountIsExact'
  <2>1. Live' = Live \cup {x} /\ x \notin Live
    BY <1>14 DEF Handed
  <2>2. Cardinality(Live') = Cardinality(Live) + 1 /\ Cardinality(Live) \in Nat
    BY <2>1, LiveFinite, FS_AddElement DEF IInv
  <2>3. QED
    <3>1. stat.frees \in Nat
      BY DEF IInv, TypeOK, Stat
    <3>2. stat.allocs = stat.frees + Cardinality(Live)
      BY DEF IInv, CountIsExact
    <3>3. QED
      BY <1>9, <2>2, <3>1, <3>2 DEF CountIsExact
<1>16. IInv'
  BY <1>10, <1>11, <1>12, <1>13, <1>15 DEF IInv
<1>17. QED
  BY <1>14, <1>16

(* A step that leaves the blocks alone, or after which nothing is promised, is untouched. *)
LEMMA BlocksUntouched ==
  ASSUME UNCHANGED blocks, phase' = "dead" \/ (phase # "dead" /\ UNCHANGED stat) PROVE Untouched
  BY DEF Untouched, Live, IsAllocated

(* A new block is put behind the others, or the process dies. *)
LEMMA ExtendKeeps ==
  ASSUME IInv, phase = "run", NEW size \in Nat, NEW k \in Class, size <= BlockSize(k),
         Extend(k, size)
  PROVE  IInv' /\ (Untouched \/ \E b : Handed(b, size))
<1>1. CASE ~(Fits(k) /\ HasRoom)
  BY <1>1, DiesKeeps, BlocksUntouched DEF Extend, Dies, heap
<1>2. CASE Fits(k) /\ HasRoom
  <2> DEFINE nb == NewBlock(k, FALSE, size)
  <2>1. /\ blocks' = Append(blocks, nb) /\ up' = up + TotalSize(k) /\ stat' = Counted(size)
        /\ UNCHANGED <<phase, down, lists, stacks, pool>>
    BY <1>2 DEF Extend
  <2>2. /\ nb \in Block /\ nb.addr = up /\ nb.klass = k /\ nb.state = "allocated"
        /\ nb.service = FALSE /\ nb.userSize = size
    BY DEF IInv, TypeOK, Block, NewBlock
  <2> HIDE DEF nb
  <2>3. PICK n \in Nat : n = Len(blocks) + 1
    BY LenProperties DEF IInv, TypeOK
  <2>4. /\ blocks' \in Seq(Block) /\ DOMAIN blocks' = DOMAIN blocks \cup {n}
        /\ \A b \in DOMAIN blocks : blocks'[b] = blocks[b]
        /\ blocks'[n] = nb /\ n \notin DOMAIN blocks
    <3>1. blocks \in Seq(Block)
      BY DEF IInv, TypeOK
    <3>2. /\ Append(blocks, nb) \in Seq(Block) /\ DOMAIN blocks = 1 .. Len(blocks)
          /\ Len(blocks) \in Nat
          /\ DOMAIN Append(blocks, nb) = DOMAIN blocks \cup {Len(blocks) + 1}
          /\ \A i \in DOMAIN blocks : Append(blocks, nb)[i] = blocks[i]
          /\ Append(blocks, nb)[Len(blocks) + 1] = nb
      BY <2>2, <3>1, Grown
    <3>3. n \notin DOMAIN blocks
      BY <2>3, <3>2
    <3>4. QED
      BY <2>1, <2>3, <3>2, <3>3
  <2>5. /\ stat' \in Stat /\ stat'.allocs = stat.allocs + 1 /\ stat'.frees = stat.frees
        /\ stat'.userAllocated = stat.userAllocated + size /\ stat'.userFreed = stat.userFreed
    BY <2>1, CountedStat DEF IInv, TypeOK
  <2>6. HeapLayout' /\ up' \in Nat /\ Base <= up'
    BY <1>2, <2>1, <2>2, <2>3, <2>4, LayoutGrown
  <2>7. TypeOK'
    BY <2>1, <2>4, <2>5, <2>6 DEF IInv, TypeOK
  <2>8. StackLayout' /\ Phases'
    BY <2>1, <2>6, StacksKept DEF IInv, Phases
  <2>9. UserSizes'
    BY <2>2, <2>4 DEF IInv, UserSizes, IsAllocated
  <2>10. ListsAreExact'
    <3>1. \A j \in Class : Available(j)' = Available(j)
      BY <2>2, <2>4 DEF Available, IsAllocated
    <3>2. QED
      BY <2>1, <3>1 DEF IInv, ListsAreExact
  <2>11. Handed(n, size)
    <3>1. Live' = Live \cup {n} /\ n \notin Live
      BY <2>2, <2>4 DEF Live, IsAllocated
    <3>2. \A b \in Live : b \in DOMAIN blocks
      BY DEF Live
    <3>3. QED
      BY <2>2, <2>4, <2>5, <3>1, <3>2 DEF Handed
  <2>12. CountIsExact'
    <3>1. Live' = Live \cup {n} /\ n \notin Live
      BY <2>11 DEF Handed
    <3>2. Cardinality(Live') = Cardinality(Live) + 1 /\ Cardinality(Live) \in Nat
      BY <3>1, LiveFinite, FS_AddElement DEF IInv
    <3>3. QED
      <4>1. stat.frees \in Nat
        BY DEF IInv, TypeOK, Stat
      <4>2. stat.allocs = stat.frees + Cardinality(Live)
        BY DEF IInv, CountIsExact
      <4>3. QED
        BY <2>5, <3>2, <4>1, <4>2 DEF CountIsExact
  <2>13. IInv'
    BY <2>6, <2>7, <2>8, <2>9, <2>10, <2>12 DEF IInv
  <2>14. QED
    BY <2>11, <2>13
<1>3. QED
  BY <1>1, <1>2

(* An allocation keeps the invariant and hands out a block, or fails. *)
LEMMA MallocKeeps ==
  ASSUME IInv, NEW size \in Sizes, Malloc(size)
  PROVE  IInv' /\ (Untouched \/ \E b : Handed(b, size))
<1>1. PICK k : k = GetSizeClass(size)
  OBVIOUS
<1>2. size \in Nat /\ k \in Class /\ size <= BlockSize(k)
  BY <1>1, Classified, HeapAssumption
<1>3. phase = "run" /\ IF lists[k].buf # <<>> THEN Reuse(k, size) ELSE Extend(k, size)
  BY <1>1 DEF Malloc
<1>4. CASE Extend(k, size)
  BY <1>2, <1>3, <1>4, ExtendKeeps
<1>5. CASE Reuse(k, size)
  BY <1>2, <1>3, <1>5, ReuseKeeps DEF Reuse
<1>6. QED
  BY <1>3, <1>4, <1>5

(* A free is counted with the size of the allocation. *)
LEMMA FreedStat ==
  ASSUME stat \in Stat, NEW b, blocks[b] \in Block,
         stat' = [stat EXCEPT !.frees = @ + 1, !.userFreed = @ + blocks[b].userSize]
  PROVE  /\ stat' \in Stat /\ stat'.allocs = stat.allocs /\ stat'.frees = stat.frees + 1
         /\ stat'.userAllocated = stat.userAllocated
         /\ stat'.userFreed = stat.userFreed + blocks[b].userSize
<1> DEFINE f == stat.frees + 1
           u == stat.userFreed + blocks[b].userSize
<1>1. f \in Nat /\ u \in Nat
  <2>1. blocks[b].userSize \in Nat
    BY DEF Block
  <2>2. stat.frees \in Nat /\ stat.userFreed \in Nat
    BY DEF Stat
  <2>3. QED
    BY <2>1, <2>2
<1>2. stat' = [stat EXCEPT !.frees = f, !.userFreed = u]
  BY DEF Stat
<1> HIDE DEF f, u
<1>3. /\ [stat EXCEPT !.frees = f, !.userFreed = u] \in Stat
      /\ [stat EXCEPT !.frees = f, !.userFreed = u].allocs = stat.allocs
      /\ [stat EXCEPT !.frees = f, !.userFreed = u].frees = f
      /\ [stat EXCEPT !.frees = f, !.userFreed = u].userAllocated = stat.userAllocated
      /\ [stat EXCEPT !.frees = f, !.userFreed = u].userFreed = u
  BY <1>1 DEF Stat
<1>4. QED
  BY <1>2, <1>3 DEF f, u

(* What a free does to the accounts of the blocks: E is empty, or holds the new buffer. *)
LEMMA FreedAccounts ==
  ASSUME IInv, phase = "run", phase' = phase, NEW b \in Live, NEW E, E \cap DOMAIN blocks = {},
         blocks' \in Seq(Block), DOMAIN blocks' = DOMAIN blocks \cup E,
         \A i \in DOMAIN blocks : i # b => blocks'[i] = blocks[i],
         blocks'[b].klass = blocks[b].klass, blocks'[b].state = "available",
         blocks'[b].userSize = 0,
         \A e \in E : /\ blocks'[e].state = "allocated" /\ blocks'[e].service
                       /\ blocks'[e].userSize = 0,
         stat' = [stat EXCEPT !.frees = @ + 1, !.userFreed = @ + blocks[b].userSize],
         NEW k \in Class, k = blocks[b].klass, NEW c \in Nat, Len(lists[k].buf) + 1 <= c,
         lists' = [lists EXCEPT ![k] = [buf |-> Append(lists[k].buf, b), capacity |-> c]]
  PROVE  HeapTyped' /\ UserSizes' /\ ListsAreExact' /\ CountIsExact' /\ TakenBack(b)
<1>1. /\ b \in DOMAIN blocks /\ IsAllocated(b) /\ ~blocks[b].service
      /\ \A i \in DOMAIN blocks : blocks[i] \in Block /\ i \in Nat
  BY ElementOfSeq, LenProperties DEF IInv, TypeOK, Live
<1>2. /\ stat' \in Stat /\ stat'.allocs = stat.allocs /\ stat'.frees = stat.frees + 1
      /\ stat'.userAllocated = stat.userAllocated
      /\ stat'.userFreed = stat.userFreed + blocks[b].userSize
  BY <1>1, FreedStat DEF IInv, TypeOK
<1>3. PICK q : q = lists[k].buf
  OBVIOUS
<1>4. q \in Seq(Nat) /\ IsInjective(q) /\ Range(q) = Available(k)
  BY <1>3 DEF IInv, TypeOK, ListsAreExact
<1>5. b \notin Range(q)
  BY <1>1, <1>4 DEF Available
<1>6. /\ Append(q, b) \in Seq(Nat) /\ Len(Append(q, b)) = Len(q) + 1
      /\ Range(Append(q, b)) = Available(k) \cup {b} /\ IsInjective(Append(q, b))
  BY <1>1, <1>4, <1>5, PushedBack
<1>7. /\ lists'[k].buf = Append(q, b) /\ lists'[k].capacity = c
      /\ \A j \in Class : j # k => lists'[j] = lists[j]
      /\ lists' \in [Class -> [buf : Seq(Nat), capacity : Nat]]
  BY <1>3, <1>6 DEF IInv, TypeOK
<1>8. UserSizes'
  <2>1. ASSUME NEW i \in DOMAIN blocks, i # b
        PROVE  /\ blocks'[i].userSize <= BlockSize(blocks'[i].klass)
               /\ (blocks'[i].service \/ ~IsAllocated(i)') => blocks'[i].userSize = 0
    <3>1. blocks'[i] = blocks[i]
      BY <2>1
    <3>2. QED
      BY <3>1 DEF IInv, UserSizes, IsAllocated
  <2>2. ASSUME NEW i \in DOMAIN blocks', blocks'[i].userSize = 0
        PROVE  /\ blocks'[i].userSize <= BlockSize(blocks'[i].klass)
               /\ (blocks'[i].service \/ ~IsAllocated(i)') => blocks'[i].userSize = 0
    <3>1. PICK B \in Seq(Block) : B = blocks'
      OBVIOUS
    <3>2. B[i] \in Block
      BY <3>1, BlockOf, Zenon
    <3>3. PICK j : j = blocks'[i].klass
      OBVIOUS
    <3>4. j \in Class
      BY <3>1, <3>2, <3>3 DEF Block
    <3>5. BlockSize(j) \in Nat
      BY <3>4, BlockSizeNat
    <3>6. QED
      BY <2>2, <3>3, <3>5
  <2>3. QED
    BY <2>1, <2>2 DEF UserSizes
<1>9. ListsAreExact'
  <2>1. Available(k)' = Available(k) \cup {b}
    BY <1>1 DEF Available, IsAllocated
  <2>2. ASSUME NEW j \in Class, j # k PROVE Available(j)' = Available(j)
    BY <1>1, <2>2 DEF Available, IsAllocated
  <2>3. ASSUME NEW j \in Class, j # k
        PROVE  /\ Range(lists'[j].buf) = Available(j)' /\ IsInjective(lists'[j].buf)
               /\ Len(lists'[j].buf) <= lists'[j].capacity
    BY <1>7, <2>2, <2>3 DEF IInv, ListsAreExact
  <2>4. Range(lists'[k].buf) = Available(k)' /\ IsInjective(lists'[k].buf)
    BY <1>6, <1>7, <2>1, Zenon
  <2>5. Len(lists'[k].buf) <= lists'[k].capacity
    <3>1. Len(lists'[k].buf) = Len(q) + 1 /\ lists'[k].capacity = c
      BY <1>6, <1>7, Zenon
    <3>2. QED
      BY <1>3, <3>1
  <2>6. QED
    BY <2>3, <2>4, <2>5 DEF ListsAreExact
<1>10. TakenBack(b)
  <2>1. Live' = Live \ {b}
    BY <1>1 DEF Live, IsAllocated
  <2>2. \A i \in Live : i \in DOMAIN blocks
    BY DEF Live
  <2>3. QED
    BY <1>2, <2>1, <2>2 DEF TakenBack
<1>11. CountIsExact'
  <2>1. Live' = Live \ {b}
    BY <1>10 DEF TakenBack
  <2>2. Cardinality(Live') = Cardinality(Live) - 1 /\ Cardinality(Live) \in Nat
    BY <2>1, LiveFinite, FS_RemoveElement DEF IInv
  <2>3. QED
    BY <1>2, <2>2 DEF IInv, TypeOK, Stat, CountIsExact
<1>12. QED
  BY <1>2, <1>7, <1>8, <1>9, <1>10, <1>11 DEF HeapTyped

(* A larger buffer has a class, and room for one more block: a full buffer holds one position of *)
(* each available block, and the index has room for two blocks more than those. *)
LEMMA BufferFits ==
  ASSUME IInv, NEW b \in Live, HasRoom, NEW k \in Class, Len(lists[k].buf) >= lists[k].capacity
  PROVE  LET grown == NewCapacity(lists[k].capacity)
         IN  grown \in Nat /\ Len(lists[k].buf) + 1 <= grown /\ BufferClass(grown) \in Class
<1>1. PICK q, c : q = lists[k].buf /\ c = lists[k].capacity
  OBVIOUS
<1>2. q \in Seq(Nat) /\ c \in Nat
  BY <1>1 DEF IInv, TypeOK
<1>3. IsInjective(q) /\ Range(q) = Available(k) /\ Len(q) = c
  <2>1. IsInjective(q) /\ Range(q) = Available(k) /\ Len(q) <= c
    BY <1>1 DEF IInv, ListsAreExact
  <2>2. Len(q) >= c /\ Len(q) \in Nat
    BY <1>1, <1>2, LenProperties
  <2>3. QED
    BY <1>2, <2>1, <2>2
<1>4. c + 2 <= IndexCapacity
  <2>1. PICK n \in Nat : n = Len(blocks) /\ DOMAIN blocks = 1 .. n
    BY LenProperties DEF IInv, TypeOK
  <2> DEFINE T == (1 .. n) \ {b}
  <2>2. b \in 1 .. n /\ b \notin Available(k) /\ Available(k) \subseteq 1 .. n
    BY <2>1 DEF Live, Available
  <2>3. IsFiniteSet(1 .. n) /\ Cardinality(1 .. n) = n
    BY FS_Interval
  <2>4. IsFiniteSet(T) /\ Cardinality(T) = n - 1
    BY <2>2, <2>3, FS_RemoveElement
  <2>5. q \in Injection(1 .. c, T)
    <3>1. DOMAIN q = 1 .. c
      BY <1>2, <1>3, LenProperties
    <3>2. \A i \in 1 .. c : q[i] \in T
      BY <1>3, <2>2, <3>1 DEF Range
    <3>3. q \in [1 .. c -> Nat]
      BY <1>2, <3>1
    <3> HIDE DEF T
    <3>4. q \in [1 .. c -> T]
      BY <3>2, <3>3
    <3>5. \A i, j \in 1 .. c : q[i] = q[j] => i = j
      BY <1>3, <3>1 DEF IsInjective
    <3>6. QED
      BY <3>4, <3>5 DEF Injection, IsInjective
  <2>6. Cardinality(1 .. c) <= Cardinality(T)
    BY <2>4, <2>5, FS_Injection DEF ExistsInjection
  <2>7. Cardinality(1 .. c) = c
    BY <1>2, FS_Interval
  <2>8. n < IndexCapacity /\ IndexCapacity \in Nat
    BY <2>1, HeapAssumption DEF HasRoom
  <2>9. QED
    BY <1>2, <2>4, <2>6, <2>7, <2>8
<1>5. PICK p \in Nat : p = 2 ^ MaxClass
  BY PowerNat, HeapAssumption
<1>6. c <= p /\ Initial \in Nat \ {0} /\ Initial <= p
  <2>1. IndexCapacity <= 2 + p /\ IndexCapacity \in Nat /\ Initial \in Nat \ {0} /\ Initial <= p
    BY <1>5, HeapAssumption
  <2>2. QED
    BY <1>2, <1>4, <2>1
<1>7. PICK g : g = NewCapacity(c)
  OBVIOUS
<1>8. g \in Nat /\ c + 1 <= g /\ (g + 1) \div 2 \in Nat /\ (g + 1) \div 2 <= p
  <2>1. CASE c = 0
    <3>1. g = Initial
      BY <1>7, <2>1 DEF NewCapacity
    <3>2. QED
      BY <1>6, <2>1, <3>1
  <2>2. CASE c # 0
    <3>1. g = c * 2
      BY <1>7, <2>2 DEF NewCapacity
    <3>2. (g + 1) \div 2 = c
      BY <1>2, <3>1
    <3>3. QED
      BY <1>2, <1>6, <2>2, <3>1, <3>2
  <2>3. QED
    BY <2>1, <2>2
<1>9. BufferClass(g) \in Class
  <2>1. ToUnits(g) \in Nat /\ ToUnits(g) <= 2 ^ MaxClass
    BY <1>5, <1>8 DEF ToUnits
  <2>2. QED
    BY <2>1, Classified DEF BufferClass
<1>10. QED
  BY <1>1, <1>3, <1>7, <1>8, <1>9

(* The block of the program moves to the free list of its class. *)
LEMMA FreeKeeps ==
  ASSUME IInv, NEW b \in DOMAIN blocks, Free(b)
  PROVE  IInv' /\ (Untouched \/ TakenBack(b))
<1>1. CASE ~IsAllocated(b)
  <2>1. phase = "run" /\ phase' = "aborted" /\ UNCHANGED <<up, down, blocks, lists, stat, stacks, pool>>
    BY <1>1 DEF Free, heap
  <2>2. HeapTyped' /\ UserSizes' /\ ListsAreExact' /\ CountIsExact'
    BY <2>1, HeapSame
  <2>3. TypeOK' /\ Phases'
    BY <2>1 DEF IInv, TypeOK, Phases
  <2>4. HeapLayout'
    BY <2>1, LayoutKept
  <2>5. QED
    BY <2>1, <2>2, <2>3, <2>4, StacksKept, BlocksUntouched DEF IInv
<1>2. CASE IsAllocated(b)
  <2>1. PICK k : k = blocks[b].klass
    OBVIOUS
  <2>2. /\ phase = "run" /\ b \in Live /\ Push(b, k)
        /\ stat' = [stat EXCEPT !.frees = @ + 1, !.userFreed = @ + blocks[b].userSize]
    BY <1>2, <2>1 DEF Free, Live
  <2>3. /\ blocks \in Seq(Block) /\ blocks[b] \in Block /\ k \in Class
        /\ lists[k] \in [buf : Seq(Nat), capacity : Nat] /\ Len(lists[k].buf) \in Nat
    <3>1. blocks \in Seq(Block) /\ lists \in [Class -> [buf : Seq(Nat), capacity : Nat]]
      BY DEF IInv, TypeOK
    <3>2. blocks[b] \in Block
      BY <3>1, ElementOfSeq, LenProperties
    <3>3. k \in Class
      BY <2>1, <3>2 DEF Block
    <3>4. lists[k] \in [buf : Seq(Nat), capacity : Nat]
      BY <3>1, <3>3
    <3>5. QED
      BY <3>1, <3>2, <3>3, <3>4, LenProperties
  <2> DEFINE nb == [blocks[b] EXCEPT !.state = "available", !.userSize = 0]
  <2>4. /\ nb \in Block /\ nb.addr = blocks[b].addr /\ nb.klass = k
        /\ nb.state = "available" /\ nb.userSize = 0
    BY <2>1, <2>3 DEF Block
  <2>5. Freed(b) = [blocks EXCEPT ![b] = nb]
    BY DEF Freed
  <2>6. /\ Freed(b) \in Seq(Block) /\ DOMAIN Freed(b) = DOMAIN blocks
        /\ \A i \in DOMAIN blocks : Freed(b)[i] = IF i = b THEN nb ELSE blocks[i]
    BY <2>3, <2>4, <2>5, Replaced
  <2> HIDE DEF nb
  <2>7. CASE Len(lists[k].buf) < lists[k].capacity
    <3>1. /\ blocks' = Freed(b) /\ lists' = [lists EXCEPT ![k].buf = Append(@, b)]
          /\ UNCHANGED <<phase, up, down, stacks, pool>>
      BY <2>2, <2>7 DEF Push
    <3>2. PICK c \in Nat : c = lists[k].capacity
      BY <2>3
    <3>3. lists' = [lists EXCEPT ![k] = [buf |-> Append(lists[k].buf, b), capacity |-> c]]
      <4>1. PICK x : x = Append(lists[k].buf, b)
        OBVIOUS
      <4>2. [lists[k] EXCEPT !.buf = x] = [buf |-> x, capacity |-> c]
        BY <2>3, <3>2
      <4>3. lists' = [lists EXCEPT ![k] = [lists[k] EXCEPT !.buf = x]]
        BY <3>1, <4>1
      <4>4. QED
        BY <4>1, <4>2, <4>3, Zenon
    <3>4. Len(lists[k].buf) + 1 <= c
      BY <2>3, <2>7, <3>2
    <3>5. HeapTyped' /\ UserSizes' /\ ListsAreExact' /\ CountIsExact' /\ TakenBack(b)
      <4>1. /\ blocks' \in Seq(Block) /\ DOMAIN blocks' = DOMAIN blocks \cup {}
            /\ \A i \in DOMAIN blocks : i # b => blocks'[i] = blocks[i]
            /\ blocks'[b].klass = blocks[b].klass /\ blocks'[b].state = "available"
            /\ blocks'[b].userSize = 0
        BY <2>1, <2>4, <2>6, <3>1
      <4>2. {} \cap DOMAIN blocks = {}
        OBVIOUS
      <4>3. QED
        BY <2>1, <2>2, <2>3, <3>1, <3>2, <3>3, <3>4, <4>1, <4>2, FreedAccounts
    <3>6. TypeOK' /\ Phases'
      BY <2>2, <3>1, <3>5 DEF IInv, TypeOK, HeapTyped, Phases
    <3>7. HeapLayout'
      <4>1. \A i \in DOMAIN blocks : /\ blocks'[i].addr = blocks[i].addr
                                      /\ blocks'[i].klass = blocks[i].klass
        BY <2>1, <2>4, <2>6, <3>1
      <4>2. QED
        BY <2>6, <3>1, <4>1, LayoutKept
    <3>8. QED
      BY <3>1, <3>5, <3>6, <3>7, StacksKept DEF IInv
  <2>8. CASE Len(lists[k].buf) >= lists[k].capacity
    <3>1. PICK g : g = NewCapacity(lists[k].capacity)
      OBVIOUS
    <3>2. CASE ~(Fits(BufferClass(g)) /\ HasRoom)
      <4>1. phase' = "dead" /\ UNCHANGED <<up, down, blocks, lists, stacks, pool>>
        BY <2>2, <2>3, <2>8, <3>1, <3>2 DEF Push
      <4>2. stat' \in Stat
        BY <2>2, <2>3, FreedStat DEF IInv, TypeOK
      <4>3. TypeOK' /\ Phases'
        BY <4>1, <4>2 DEF IInv, TypeOK, Phases
      <4>4. HeapLayout'
        BY <4>1, LayoutKept
      <4>5. UserSizes'
        BY <4>1 DEF IInv, UserSizes, IsAllocated
      <4>6. ListsAreExact'
        <5>1. \A j \in Class : Available(j)' = Available(j)
          BY <4>1 DEF Available, IsAllocated
        <5>2. QED
          BY <4>1, <5>1 DEF IInv, ListsAreExact
      <4>7. CountIsExact'
        BY <4>1 DEF CountIsExact
      <4>8. QED
        BY <4>1, <4>3, <4>4, <4>5, <4>6, <4>7, StacksKept, BlocksUntouched DEF IInv
    <3>3. CASE Fits(BufferClass(g)) /\ HasRoom
      <4>1. PICK m : m = BufferClass(g)
        OBVIOUS
      <4>2. g \in Nat /\ Len(lists[k].buf) + 1 <= g /\ m \in Class
        BY <2>2, <2>3, <2>8, <3>1, <3>3, <4>1, BufferFits
      <4> DEFINE sb == NewBlock(m, TRUE, 0)
      <4>3. /\ blocks' = Append(Freed(b), sb) /\ up' = up + TotalSize(m)
            /\ lists' = [lists EXCEPT ![k] = [buf |-> Append(lists[k].buf, b), capacity |-> g]]
            /\ UNCHANGED <<phase, down, stacks, pool>>
        <5>1. ~(Len(lists[k].buf) < lists[k].capacity)
          BY <2>3, <2>8
        <5>2. QED
          BY <2>2, <3>1, <3>3, <4>1, <5>1, Zenon DEF Push
      <4>4. /\ sb \in Block /\ sb.addr = up /\ sb.klass = m /\ sb.state = "allocated"
            /\ sb.service = TRUE /\ sb.userSize = 0
        BY <4>2 DEF IInv, TypeOK, Block, NewBlock
      <4> HIDE DEF sb
      <4>5. PICK n \in Nat : n = Len(blocks) + 1 /\ Len(Freed(b)) + 1 = n
        BY <2>3, <2>6, LenProperties
      <4>6. /\ blocks' \in Seq(Block) /\ DOMAIN blocks' = DOMAIN blocks \cup {n}
            /\ \A i \in DOMAIN blocks : blocks'[i] = Freed(b)[i]
            /\ blocks'[n] = sb /\ n \notin DOMAIN blocks
        <5>1. /\ Append(Freed(b), sb) \in Seq(Block)
              /\ DOMAIN Append(Freed(b), sb) = DOMAIN Freed(b) \cup {Len(Freed(b)) + 1}
              /\ \A i \in DOMAIN Freed(b) : Append(Freed(b), sb)[i] = Freed(b)[i]
              /\ Append(Freed(b), sb)[Len(Freed(b)) + 1] = sb
          BY <2>6, <4>4, Grown
        <5>2. n \notin DOMAIN blocks
          BY <2>3, <4>5, LenProperties
        <5>3. QED
          BY <2>6, <4>3, <4>5, <5>1, <5>2
      <4>7. HeapTyped' /\ UserSizes' /\ ListsAreExact' /\ CountIsExact' /\ TakenBack(b)
        <5>1. /\ \A i \in DOMAIN blocks : i # b => blocks'[i] = blocks[i]
              /\ blocks'[b].klass = blocks[b].klass /\ blocks'[b].state = "available"
              /\ blocks'[b].userSize = 0
          BY <2>1, <2>4, <2>6, <4>6
        <5>2. {n} \cap DOMAIN blocks = {}
          BY <4>6
        <5>3. \A e \in {n} : /\ blocks'[e].state = "allocated" /\ blocks'[e].service
                              /\ blocks'[e].userSize = 0
          BY <4>4, <4>6
        <5>4. QED
          BY <2>1, <2>2, <2>3, <4>2, <4>3, <4>6, <5>1, <5>2, <5>3, FreedAccounts
      <4>8. HeapLayout' /\ up' \in Nat /\ Base <= up'
        <5>1. \A i \in DOMAIN blocks : /\ blocks'[i].addr = blocks[i].addr
                                        /\ blocks'[i].klass = blocks[i].klass
          BY <2>1, <2>4, <2>6, <4>6
        <5>2. blocks'[Len(blocks) + 1].addr = up /\ blocks'[Len(blocks) + 1].klass = m
          BY <4>4, <4>5, <4>6
        <5>3. QED
          BY <2>2, <3>3, <4>1, <4>2, <4>3, <4>5, <4>6, <5>1, <5>2, LayoutGrown
      <4>9. TypeOK' /\ Phases'
        BY <2>2, <4>3, <4>7, <4>8 DEF IInv, TypeOK, HeapTyped, Phases
      <4>10. QED
        BY <4>3, <4>7, <4>8, <4>9, StacksKept DEF IInv
    <3>4. QED
      BY <3>2, <3>3
  <2>9. QED
    BY <2>3, <2>7, <2>8
<1>3. QED
  BY <1>1, <1>2

-----------------------------------------------------------------------------
(* Theorems *)

(* Every step keeps the invariant, and does to the program's allocations what Effect says. *)
Effect ==
  \/ Untouched
  \/ \E size \in Sizes : \E b : Handed(b, size)
  \/ \E b \in DOMAIN blocks : TakenBack(b)
  \/ Emptied

(* Every step keeps the invariant and has one of the effects. *)
LEMMA NextKeeps == IInv /\ [Next]_vars => IInv' /\ Effect
<1> SUFFICES ASSUME IInv, [Next]_vars PROVE IInv' /\ Effect
  OBVIOUS
<1>1. CASE Start
  <2>1. UNCHANGED blocks /\ (phase' = "dead" \/ (phase # "dead" /\ UNCHANGED stat))
    BY <1>1 DEF Start, Dies, heap
  <2>2. QED
    BY <1>1, <2>1, StartKeeps, BlocksUntouched DEF Effect
<1>2. CASE InitMalloc
  <2>1. \/ UNCHANGED blocks /\ phase' = "dead"
        \/ blocks' = <<>> /\ stat' = NoStat
    BY <1>2 DEF InitMalloc, Dies, heap
  <2>2. blocks' = <<>> => Live' = {}
    BY DEF Live
  <2>3. QED
    BY <1>2, <2>1, <2>2, InitMallocKeeps, BlocksUntouched DEF Effect, Emptied
<1>3. CASE Burn
  <2>1. Emptied
    BY <1>3 DEF Burn, Live, Emptied
  <2>2. QED
    BY <1>3, <2>1, BurnKeeps DEF Effect
<1>4. CASE AllocateStack
  <2>1. UNCHANGED blocks /\ (phase' = "dead" \/ (phase # "dead" /\ UNCHANGED stat))
    BY <1>4 DEF AllocateStack, Dies, heap
  <2>2. QED
    BY <1>4, <2>1, AllocateStackKeeps, BlocksUntouched DEF Effect
<1>5. CASE \E s \in stacks : FreeStack(s)
  <2>1. UNCHANGED blocks /\ phase # "dead" /\ UNCHANGED stat
    BY <1>5 DEF FreeStack, heap
  <2>2. QED
    BY <1>5, <2>1, FreeStackKeeps, BlocksUntouched DEF Effect
<1>6. CASE \E size \in Sizes : Malloc(size)
  BY <1>6, MallocKeeps DEF Effect
<1>7. CASE \E b \in DOMAIN blocks : Free(b)
  BY <1>7, FreeKeeps DEF Effect
<1>8. CASE UNCHANGED vars
  <2>1. UNCHANGED <<phase, up, down, blocks, lists, stat, stacks, pool>>
    BY <1>8 DEF vars
  <2>2. TypeOK' /\ Phases'
    BY <2>1 DEF IInv, TypeOK, Phases
  <2>3. HeapTyped' /\ UserSizes' /\ ListsAreExact'
    <3>1. \A j \in Class : Available(j)' = Available(j)
      BY <2>1 DEF Available, IsAllocated
    <3>2. QED
      BY <2>1, <3>1 DEF IInv, TypeOK, HeapTyped, UserSizes, IsAllocated, ListsAreExact
  <2>4. CountIsExact'
    <3>1. Live' = Live
      BY <2>1 DEF Live, IsAllocated
    <3>2. QED
      BY <2>1, <3>1 DEF IInv, CountIsExact
  <2>5. QED
    BY <2>1, <2>2, <2>3, <2>4, LayoutKept, StacksKept, BlocksUntouched DEF IInv, Effect
<1>9. QED
  BY <1>1, <1>2, <1>3, <1>4, <1>5, <1>6, <1>7, <1>8 DEF Next

(* The invariant holds throughout: for every size of the segment, of stacks and of the index. *)
THEOREM HeapInvariant == Spec => []IInv
  BY HeapInit, NextKeeps, PTL DEF Spec

(* The state keeps its types: addresses and sizes never become negative. *)
THEOREM HeapTypeCorrect == Spec => []TypeOK
<1>1. IInv => TypeOK
  BY DEF IInv
<1>2. QED
  BY <1>1, HeapInvariant, PTL

(* The statistics add up the sizes of the live allocations. *)
BytesAreExact == phase # "dead" => stat.userAllocated = stat.userFreed + Bytes(blocks, Live)

(* The live blocks are finitely many, each with a size. *)
LEMMA LiveSized == IInv => IsFiniteSet(Live) /\ Sized(blocks, Live)
  BY LiveFinite, BlockOf DEF IInv, TypeOK, Live, Sized, Block

(* The sum of the live sizes follows every effect. *)
LEMMA BytesKept == IInv /\ IInv' /\ Effect /\ BytesAreExact => BytesAreExact'
<1> SUFFICES ASSUME IInv, IInv', Effect, BytesAreExact, phase' # "dead"
             PROVE  stat'.userAllocated = stat'.userFreed + Bytes(blocks', Live')
  BY DEF BytesAreExact
<1>1. IsFiniteSet(Live) /\ Sized(blocks, Live)
  BY LiveSized
<1>2. IsFiniteSet(Live') /\ Sized(blocks', Live')
  <2>1. (IsFiniteSet(Live) /\ Sized(blocks, Live))'
    BY LiveSized, PTL
  <2>2. QED
    BY <2>1 DEF Sized
<1>3. /\ stat.userAllocated \in Nat /\ stat.userFreed \in Nat
      /\ phase # "dead" => stat.userAllocated = stat.userFreed + Bytes(blocks, Live)
  BY DEF IInv, TypeOK, Stat, BytesAreExact
<1>4. CASE Untouched
  <2>1. Live' = Live /\ phase # "dead" /\ stat' = stat
    BY <1>4 DEF Untouched
  <2>2. \A x \in Live : blocks'[x].userSize = blocks[x].userSize
    BY <1>4 DEF Untouched
  <2>3. Bytes(blocks', Live) = Bytes(blocks, Live)
    BY <1>1, <2>2, BytesAgree
  <2>4. QED
    BY <1>3, <2>1, <2>3
<1>5. CASE Emptied
  <2>1. Bytes(blocks', {}) = 0
    BY BytesNone
  <2>2. QED
    BY <1>5, <2>1 DEF Emptied, NoStat
<1>6. ASSUME NEW size \in Sizes, NEW x, Handed(x, size)
      PROVE  stat'.userAllocated = stat'.userFreed + Bytes(blocks', Live')
  <2>1. /\ x \in Live' /\ Live' \ {x} = Live /\ blocks'[x].userSize = size /\ phase # "dead"
        /\ stat'.userAllocated = stat.userAllocated + size /\ stat'.userFreed = stat.userFreed
    BY <1>6 DEF Handed
  <2>2. \A y \in Live : blocks'[y].userSize = blocks[y].userSize
    BY <1>6 DEF Handed
  <2>3. Bytes(blocks', Live) = Bytes(blocks, Live)
    BY <1>1, <2>2, BytesAgree
  <2>4. /\ Bytes(blocks', Live' \ {x}) \in Nat
        /\ Bytes(blocks', Live') = blocks'[x].userSize + Bytes(blocks', Live' \ {x})
    BY <1>2, <2>1, BytesRemove
  <2>5. size \in Nat /\ stat.userAllocated \in Nat /\ stat.userFreed \in Nat
    BY <1>3, HeapAssumption
  <2>6. PICK b \in Nat : b = Bytes(blocks, Live)
    BY <2>1, <2>3, <2>4
  <2>7. Bytes(blocks', Live') = size + b
    BY <2>1, <2>3, <2>4, <2>6
  <2>8. stat.userAllocated = stat.userFreed + b
    BY <1>3, <2>1, <2>6
  <2>9. stat.userAllocated + size = stat.userFreed + (size + b)
    BY <2>5, <2>8
  <2>10. QED
    BY <2>1, <2>7, <2>9
<1>7. ASSUME NEW x, TakenBack(x)
      PROVE  stat'.userAllocated = stat'.userFreed + Bytes(blocks', Live')
  <2>1. /\ x \in Live /\ Live' = Live \ {x} /\ phase # "dead"
        /\ stat'.userAllocated = stat.userAllocated
        /\ stat'.userFreed = stat.userFreed + blocks[x].userSize
    BY <1>7 DEF TakenBack
  <2>2. \A y \in Live' : blocks'[y].userSize = blocks[y].userSize
    BY <1>7, <2>1 DEF TakenBack
  <2>3. Bytes(blocks', Live') = Bytes(blocks, Live')
    BY <1>2, <2>2, BytesAgree
  <2>4. /\ Bytes(blocks, Live \ {x}) \in Nat
        /\ Bytes(blocks, Live) = blocks[x].userSize + Bytes(blocks, Live \ {x})
    BY <1>1, <2>1, BytesRemove
  <2>5. blocks[x].userSize \in Nat
    BY <1>1, <2>1 DEF Sized
  <2>6. QED
    BY <1>3, <2>1, <2>3, <2>4, <2>5
<1>8. QED
  BY <1>4, <1>5, <1>6, <1>7 DEF Effect

(* BookkeepingIsExact: the free lists, and the leak report, which counts exactly the live *)
(* allocations of the program and their bytes (allocator.hpp, simulator.cpp CheckMemory). *)
THEOREM AccountsAreExact == Spec => []BookkeepingIsExact
<1>1. Init => BytesAreExact
  <2> SUFFICES ASSUME Init PROVE BytesAreExact
    OBVIOUS
  <2>1. Live = {}
    BY DEF Init, Live
  <2>2. QED
    BY <2>1, BytesNone DEF Init, NoStat, BytesAreExact
<1>2. IInv /\ BytesAreExact /\ [Next]_vars => BytesAreExact'
  BY NextKeeps, BytesKept
<1>3. IInv /\ BytesAreExact => BookkeepingIsExact
  <2> SUFFICES ASSUME IInv, BytesAreExact PROVE BookkeepingIsExact
    OBVIOUS
  <2>1. FreeListsAreExact
    BY DEF IInv, ListsAreExact, FreeListsAreExact, Available
  <2>2. ASSUME phase = "run"
        PROVE  LeakCount = Cardinality(Live) /\ LeakBytes = Bytes(blocks, Live)
    <3>1. /\ stat.allocs \in Nat /\ stat.frees \in Nat
          /\ stat.userAllocated \in Nat /\ stat.userFreed \in Nat
      BY DEF IInv, TypeOK, Stat
    <3>2. /\ stat.allocs = stat.frees + Cardinality(Live)
          /\ stat.userAllocated = stat.userFreed + Bytes(blocks, Live)
      BY <2>2 DEF IInv, CountIsExact, BytesAreExact
    <3>3. Cardinality(Live) \in Nat
      BY LiveFinite DEF IInv
    <3>4. Bytes(blocks, Live) \in Int
      <4>1. IsFiniteSet(Live) /\ Sized(blocks, Live)
        BY LiveSized
      <4>2. CASE Live = {}
        BY <4>2, BytesNone
      <4>3. CASE Live # {}
        <5>1. PICK x \in Live : TRUE
          BY <4>3
        <5>2. Bytes(blocks, Live) \in Nat
          BY <4>1, BytesRemove
        <5>3. QED
          BY <5>2
      <4>4. QED
        BY <4>2, <4>3
    <3>5. QED
      BY <3>1, <3>2, <3>3, <3>4 DEF LeakCount, LeakBytes
  <2>3. LeakReportIsExact
    BY <2>2 DEF LeakReportIsExact, Bytes
  <2>4. QED
    BY <2>1, <2>3 DEF BookkeepingIsExact
<1>4. QED
  BY <1>1, <1>2, <1>3, HeapInvariant, PTL DEF Spec

(* Where a block begins and ends, and how two blocks lie to each other *)
LEMMA BlockPlace ==
  ASSUME IInv, NEW b \in DOMAIN blocks
  PROVE  /\ blocks[b] \in Block /\ blocks[b].addr \in Nat /\ blocks[b].userSize \in Nat
         /\ End(b) \in Nat /\ End(b) = Data(b) + BlockSize(blocks[b].klass)
         /\ Data(b) \in Nat /\ Data(b) = blocks[b].addr + 1 /\ blocks[b].addr < End(b)
         /\ UserDataEnd(b) \in Nat /\ UserDataEnd(b) = Data(b) + blocks[b].userSize
         /\ UserDataEnd(b) <= End(b)
         /\ Base <= blocks[b].addr /\ End(b) <= up /\ End(b) <= Segment
<1>1. blocks[b] \in Block
  BY BlockOf DEF IInv, TypeOK
<1>2. PICK a, u, k : a = blocks[b].addr /\ u = blocks[b].userSize /\ k = blocks[b].klass
  OBVIOUS
<1>3. a \in Nat /\ u \in Nat /\ k \in Class
  BY <1>1, <1>2 DEF Block
<1>4. PICK z \in Nat : z = BlockSize(k)
  BY <1>3, BlockSizeNat
<1>5. u <= z
  BY <1>2, <1>4 DEF IInv, UserSizes
<1>6. /\ Data(b) = a + 1 /\ End(b) = a + (z + 1) /\ UserDataEnd(b) = (a + 1) + u
      /\ BlockSize(blocks[b].klass) = z
  BY <1>2, <1>4 DEF Data, End, UserDataEnd, TotalSize, Header
<1>7. Base <= a /\ End(b) <= up /\ up <= down /\ down <= Segment
  BY <1>2 DEF IInv, HeapLayout
<1>8. up \in Nat /\ down \in Nat /\ Segment \in Nat
  BY HeapAssumption DEF IInv, TypeOK
<1>9. End(b) \in Nat /\ End(b) <= Segment
  BY <1>3, <1>4, <1>6, <1>7, <1>8
<1>10. /\ a + (z + 1) = (a + 1) + z /\ (a + 1) + u \in Nat /\ a + 1 \in Nat /\ a < a + (z + 1)
       /\ (a + 1) + u <= a + (z + 1)
  BY <1>3, <1>4, <1>5
<1>11. QED
  BY <1>1, <1>2, <1>3, <1>6, <1>7, <1>9, <1>10

(* Of two blocks one ends before the other begins. *)
LEMMA BlockOrder ==
  ASSUME IInv, NEW a \in DOMAIN blocks, NEW b \in DOMAIN blocks, a # b
  PROVE  \/ a < b /\ End(a) <= blocks[b].addr
         \/ b < a /\ End(b) <= blocks[a].addr
<1>1. a \in Nat /\ b \in Nat
  BY LenProperties DEF IInv, TypeOK
<1>2. a < b \/ b < a
  BY <1>1
<1>3. QED
  BY <1>2 DEF IInv, HeapLayout

(* AccessIsExact: Lookup finds the block of an address, and Access allows exactly what lies in one *)
(* live allocation (index.hpp Lookup, allocator.hpp Access). *)
LEMMA LookupFinds ==
  ASSUME IInv, NEW b \in DOMAIN blocks, NEW addr \in Nat, Data(b) <= addr, addr < UserDataEnd(b)
  PROVE  Lookup(addr) = b
<1>1. PICK n \in Nat : n = Len(blocks) /\ DOMAIN blocks = 1 .. n
  BY LenProperties DEF IInv, TypeOK
<1>2. b \in Nat /\ 1 <= b /\ b <= n /\ 1 \in DOMAIN blocks /\ n \in DOMAIN blocks /\ blocks # <<>>
  BY <1>1
<1>3. Data(1) <= addr
  <2>1. CASE b = 1
    BY <2>1
  <2>2. CASE b # 1
    <3>1. End(1) <= blocks[b].addr
      BY <1>2, <2>2, BlockOrder
    <3>2. /\ Data(1) \in Nat /\ UserDataEnd(1) <= End(1) /\ UserDataEnd(1) = Data(1) + blocks[1].userSize
          /\ blocks[1].userSize \in Nat /\ End(1) \in Nat
      BY <1>2, BlockPlace
    <3>3. blocks[b].addr \in Nat /\ Data(b) = blocks[b].addr + 1
      BY BlockPlace
    <3>4. QED
      BY <3>1, <3>2, <3>3
  <2>3. QED
    BY <2>1, <2>2
<1>4. addr < UserDataEnd(n)
  <2>1. CASE b = n
    BY <2>1
  <2>2. CASE b # n
    <3>1. End(b) <= blocks[n].addr
      BY <1>2, <2>2, BlockOrder
    <3>2. /\ Data(n) = blocks[n].addr + 1 /\ UserDataEnd(n) = Data(n) + blocks[n].userSize
          /\ blocks[n].userSize \in Nat /\ blocks[n].addr \in Nat
      BY <1>2, BlockPlace
    <3>3. UserDataEnd(b) <= End(b) /\ UserDataEnd(b) \in Nat /\ End(b) \in Nat
      BY BlockPlace
    <3>4. QED
      BY <3>1, <3>2, <3>3
  <2>3. QED
    BY <2>1, <2>2
<1> DEFINE C == {c \in DOMAIN blocks : blocks[c].addr < addr}
<1>5. b \in C
  <2>1. blocks[b].addr \in Nat /\ Data(b) = blocks[b].addr + 1
    BY BlockPlace
  <2>2. QED
    BY <2>1
<1>6. ASSUME NEW c \in C PROVE c \in Nat /\ c <= b
  <2>1. c \in Nat
    BY <1>1
  <2>2. ASSUME c > b PROVE FALSE
    <3>1. End(b) <= blocks[c].addr
      BY <1>2, <2>1, <2>2, BlockOrder
    <3>2. blocks[c].addr \in Nat
      BY BlockPlace
    <3>3. UserDataEnd(b) <= End(b) /\ UserDataEnd(b) \in Nat /\ End(b) \in Nat
      BY BlockPlace
    <3>4. blocks[c].addr < addr
      OBVIOUS
    <3>5. QED
      BY <3>1, <3>2, <3>3, <3>4
  <2>3. QED
    BY <1>2, <2>1, <2>2
<1>7. PICK m : m = Max(C)
  OBVIOUS
<1> HIDE DEF C
<1>8. m \in C /\ \A c \in C : m >= c
  BY <1>5, <1>6, <1>7 DEF Max
<1>9. m = b
  BY <1>2, <1>5, <1>6, <1>8
<1>10. Data(1) \in Nat /\ UserDataEnd(n) \in Nat /\ Data(b) \in Nat /\ UserDataEnd(b) \in Nat
  BY <1>2, BlockPlace
<1>11. ~(addr < Data(1) \/ addr >= UserDataEnd(Len(blocks))) /\ addr >= Data(b)
  BY <1>1, <1>3, <1>4, <1>10
<1>12. Max({c \in DOMAIN blocks : blocks[c].addr < addr}) = b
  BY <1>7, <1>9 DEF C
<1>13. QED
  BY <1>2, <1>11, <1>12 DEF Lookup

(* Lookup finds a block whose data begins at or before the address. *)
LEMMA LookupIsInside ==
  ASSUME IInv, NEW addr \in Nat, Lookup(addr) # 0
  PROVE  Lookup(addr) \in DOMAIN blocks /\ Data(Lookup(addr)) <= addr
<1>1. PICK n \in Nat : n = Len(blocks) /\ DOMAIN blocks = 1 .. n
  BY LenProperties DEF IInv, TypeOK
<1> DEFINE C == {c \in DOMAIN blocks : blocks[c].addr < addr}
<1>2. blocks # <<>> /\ ~(addr < Data(1))
  BY DEF Lookup
<1>3. 1 \in DOMAIN blocks
  <2>1. n # 0
    BY <1>1, <1>2, EmptySeq DEF IInv, TypeOK
  <2>2. QED
    BY <1>1, <2>1
<1>4. 1 \in C
  <2>1. Data(1) = blocks[1].addr + 1 /\ blocks[1].addr \in Nat
    BY <1>3, BlockPlace
  <2>2. QED
    BY <1>2, <1>3, <2>1
<1>5. C \in SUBSET Nat /\ \A c \in C : c <= n
  BY <1>1
<1>6. PICK m : m = Max(C)
  OBVIOUS
<1>7. m \in C
  <2>1. \E g \in C : \A c \in C : g >= c
    BY <1>4, <1>5, GreatestNatural
  <2> HIDE DEF C
  <2>2. QED
    BY <1>6, <2>1 DEF Max
<1>8. m \in DOMAIN blocks
  BY <1>7
<1>9. Lookup(addr) = IF addr >= Data(m) /\ addr < UserDataEnd(m) THEN m ELSE 0
  BY <1>2, <1>6 DEF Lookup
<1>10. Lookup(addr) = m /\ addr >= Data(m)
  BY <1>9
<1>11. Data(m) \in Nat
  BY <1>8, BlockPlace
<1>12. QED
  BY <1>8, <1>10, <1>11

(* The check of an access, in every state of every simulation, accepts exactly the accesses
   that lie in a live allocation (index.hpp Lookup, allocator.hpp Access). *)
THEOREM AccessChecksAreExact == Spec => []AccessIsExact
<1>1. IInv => AccessIsExact
  <2> SUFFICES ASSUME IInv, NEW addr \in 0 .. Segment, NEW size \in 1 .. 2 ^ MaxClass
               PROVE  Access(addr, size) <=>
                        \E r \in Allocations : r.addr <= addr /\ addr + size <= r.addr + r.size
    BY DEF AccessIsExact
  <2>1. addr \in Nat /\ size \in Nat /\ size >= 1
    BY HeapAssumption, PowerNat
  <2>2. ASSUME Access(addr, size)
        PROVE  \E r \in Allocations : r.addr <= addr /\ addr + size <= r.addr + r.size
    <3>1. PICK b : b = Lookup(addr)
      OBVIOUS
    <3>2. b # 0 /\ IsAllocated(b) /\ addr + size <= UserDataEnd(b)
      BY <2>2, <3>1 DEF Access
    <3>3. b \in DOMAIN blocks /\ Data(b) <= addr
      BY <2>1, <3>1, <3>2, LookupIsInside
    <3>4. UserDataEnd(b) = Data(b) + blocks[b].userSize /\ Data(b) \in Nat
      BY <3>3, BlockPlace
    <3>5. blocks[b].userSize # 0
      BY <2>1, <3>2, <3>3, <3>4
    <3>6. b \in Live
      BY <3>2, <3>3, <3>5 DEF IInv, UserSizes, Live
    <3> DEFINE r == [addr |-> Data(b), size |-> blocks[b].userSize]
    <3>7. r \in Allocations
      BY <3>6 DEF Allocations
    <3>8. r.addr <= addr /\ addr + size <= r.addr + r.size
      BY <3>2, <3>3, <3>4
    <3>9. QED
      BY <3>7, <3>8
  <2>3. ASSUME NEW r \in Allocations, r.addr <= addr, addr + size <= r.addr + r.size
        PROVE  Access(addr, size)
    <3>1. PICK b \in Live : r = [addr |-> Data(b), size |-> blocks[b].userSize]
      BY DEF Allocations
    <3>2. b \in DOMAIN blocks /\ IsAllocated(b)
      BY DEF Live
    <3>3. /\ Data(b) \in Nat /\ UserDataEnd(b) = Data(b) + blocks[b].userSize
          /\ UserDataEnd(b) \in Nat
      BY <3>2, BlockPlace
    <3>4. Data(b) <= addr /\ addr + size <= UserDataEnd(b)
      BY <2>3, <3>1, <3>3
    <3>5. addr < UserDataEnd(b)
      BY <2>1, <3>3, <3>4
    <3>6. Lookup(addr) = b
      BY <2>1, <3>2, <3>4, <3>5, LookupFinds
    <3>7. b # 0
      BY <3>2, LenProperties DEF IInv, TypeOK
    <3>8. QED
      BY <3>2, <3>4, <3>6, <3>7 DEF Access
  <2>4. QED
    BY <2>2, <2>3
<1>2. QED
  BY <1>1, HeapInvariant, PTL

(* As many ranges as there are things to place: the values of an injective function *)
LEMMA InjectionCounted ==
  ASSUME NEW S, IsFiniteSet(S), NEW f, f = [x \in S |-> f[x]],
         \A x, y \in S : f[x] = f[y] => x = y
  PROVE  IsFiniteSet(Range(f)) /\ Cardinality(Range(f)) = Cardinality(S)
<1>1. DOMAIN f = S
  OBVIOUS
<1>2. f \in [S -> Range(f)]
  BY <1>1 DEF Range
<1>3. f \in Surjection(S, Range(f))
  BY <1>1, <1>2 DEF Surjection, Range
<1>4. f \in Injection(S, Range(f))
  BY <1>1, <1>2 DEF Injection, IsInjective
<1>5. QED
  BY <1>3, <1>4, FS_Surjection

BlockRanges == {<<blocks[b].addr, Data(b) + BlockSize(blocks[b].klass)>> : b \in DOMAIN blocks}

StackRanges == {<<s, s + StackSize>> : s \in Placed}

(* Ranges of blocks *)
LEMMA BlocksPlaced ==
  ASSUME IInv
  PROVE  /\ IsFiniteSet(BlockRanges) /\ Cardinality(BlockRanges) = Len(blocks)
         /\ \A r \in BlockRanges : /\ r[1] \in Nat /\ r[2] \in Nat
                                   /\ Base <= r[1] /\ r[1] < r[2] /\ r[2] <= up
         /\ \A r, s \in BlockRanges : r # s => r[2] <= s[1] \/ s[2] <= r[1]
<1> DEFINE f == [b \in DOMAIN blocks |-> <<blocks[b].addr, End(b)>>]
<1>1. PICK n \in Nat : n = Len(blocks) /\ DOMAIN blocks = 1 .. n
  BY LenProperties DEF IInv, TypeOK
<1>2. \A b \in DOMAIN blocks : End(b) = Data(b) + BlockSize(blocks[b].klass)
  BY BlockPlace
<1>3. BlockRanges = {<<blocks[b].addr, End(b)>> : b \in DOMAIN blocks}
  BY <1>2 DEF BlockRanges
<1>4. ASSUME NEW a \in DOMAIN blocks, NEW b \in DOMAIN blocks, f[a] = f[b] PROVE a = b
  <2>1. blocks[a].addr = blocks[b].addr
    BY <1>4
  <2>2. ASSUME a # b PROVE FALSE
    <3>1. End(a) <= blocks[b].addr \/ End(b) <= blocks[a].addr
      BY <2>2, BlockOrder
    <3>2. /\ blocks[a].addr \in Nat /\ End(a) \in Nat /\ blocks[a].addr < End(a)
          /\ blocks[b].addr \in Nat /\ End(b) \in Nat /\ blocks[b].addr < End(b)
      BY BlockPlace
    <3>3. QED
      BY <2>1, <3>1, <3>2
  <2>3. QED
    BY <2>2
<1>5. Range(f) = BlockRanges
  BY <1>3 DEF Range
<1>6. IsFiniteSet(DOMAIN blocks) /\ Cardinality(DOMAIN blocks) = n
  <2>1. IsFiniteSet(1 .. n) /\ Cardinality(1 .. n) = n
    BY FS_Interval
  <2>2. QED
    BY <1>1, <2>1
<1>7. f = [b \in DOMAIN blocks |-> f[b]]
  OBVIOUS
<1> HIDE DEF f
<1>8. IsFiniteSet(BlockRanges) /\ Cardinality(BlockRanges) = n
  BY <1>4, <1>5, <1>6, <1>7, InjectionCounted
<1>9. ASSUME NEW r \in BlockRanges
      PROVE  /\ r[1] \in Nat /\ r[2] \in Nat /\ Base <= r[1] /\ r[1] < r[2] /\ r[2] <= up
  <2>1. PICK b \in DOMAIN blocks : r = <<blocks[b].addr, End(b)>>
    BY <1>3
  <2>2. QED
    BY <2>1, BlockPlace
<1>10. ASSUME NEW r \in BlockRanges, NEW s \in BlockRanges, r # s
       PROVE  r[2] <= s[1] \/ s[2] <= r[1]
  <2>1. PICK a \in DOMAIN blocks : r = <<blocks[a].addr, End(a)>>
    BY <1>3
  <2>2. PICK b \in DOMAIN blocks : s = <<blocks[b].addr, End(b)>>
    BY <1>3
  <2>3. a # b
    BY <1>10, <2>1, <2>2
  <2>4. QED
    BY <2>1, <2>2, <2>3, BlockOrder
<1>11. QED
  BY <1>1, <1>8, <1>9, <1>10

(* Ranges of stacks *)
LEMMA StacksPlaced ==
  ASSUME IInv
  PROVE  /\ IsFiniteSet(StackRanges) /\ Cardinality(StackRanges) = Cardinality(stacks) + Len(pool)
         /\ \A r \in StackRanges : /\ r[1] \in Nat /\ r[2] \in Nat
                                   /\ down <= r[1] /\ r[1] < r[2] /\ r[2] <= Segment
         /\ \A r, s \in StackRanges : r # s => r[2] <= s[1] \/ s[2] <= r[1]
<1> DEFINE f == [s \in Placed |-> <<s, s + StackSize>>]
<1>1. PICK n \in Nat : n = Len(pool) /\ DOMAIN pool = 1 .. n /\ pool = [i \in 1 .. n |-> pool[i]]
  BY LenProperties DEF IInv, TypeOK
<1>2. IsFiniteSet(Range(pool)) /\ Cardinality(Range(pool)) = n
  <2>1. IsFiniteSet(1 .. n) /\ Cardinality(1 .. n) = n
    BY FS_Interval
  <2>2. \A i, j \in 1 .. n : pool[i] = pool[j] => i = j
    BY <1>1 DEF IInv, StackLayout, IsInjective
  <2>3. QED
    BY <1>1, <2>1, <2>2, InjectionCounted
<1>3. IsFiniteSet(Placed) /\ Cardinality(Placed) = Cardinality(stacks) + n
  <2>1. IsFiniteSet(stacks) /\ stacks \cap Range(pool) = {}
    BY DEF IInv, TypeOK, StackLayout
  <2>2. /\ IsFiniteSet(stacks \cup Range(pool))
        /\ Cardinality(stacks \cup Range(pool)) =
              Cardinality(stacks) + Cardinality(Range(pool)) - Cardinality(stacks \cap Range(pool))
    BY <1>2, <2>1, FS_Union
  <2>3. Cardinality(stacks) \in Nat /\ Cardinality(stacks \cap Range(pool)) = 0
    BY <2>1, FS_CardinalityType, FS_EmptySet
  <2>4. QED
    BY <1>2, <2>2, <2>3 DEF Placed
<1>4. \A s \in Placed : s \in Nat /\ down <= s /\ s + StackSize <= Segment
  <2>1. Range(pool) \in SUBSET Nat /\ stacks \in SUBSET Nat
    BY RangeOfSeq DEF IInv, TypeOK
  <2>2. \A s \in Placed : s \in Nat
    BY <2>1 DEF Placed
  <2>3. QED
    BY <2>2 DEF IInv, StackLayout
<1>5. Range(f) = StackRanges
  BY DEF Range, StackRanges
<1>6. f = [s \in Placed |-> f[s]] /\ \A s, t \in Placed : f[s] = f[t] => s = t
  OBVIOUS
<1> HIDE DEF f
<1>7. IsFiniteSet(StackRanges) /\ Cardinality(StackRanges) = Cardinality(stacks) + n
  BY <1>3, <1>5, <1>6, InjectionCounted
<1>8. StackSize \in Nat \ {0}
  BY HeapAssumption
<1>9. ASSUME NEW r \in StackRanges
      PROVE  /\ r[1] \in Nat /\ r[2] \in Nat /\ down <= r[1] /\ r[1] < r[2] /\ r[2] <= Segment
  <2>1. PICK s \in Placed : r = <<s, s + StackSize>>
    BY DEF StackRanges
  <2>2. QED
    BY <1>4, <1>8, <2>1
<1>10. ASSUME NEW r \in StackRanges, NEW s \in StackRanges, r # s
       PROVE  r[2] <= s[1] \/ s[2] <= r[1]
  <2>1. PICK a \in Placed : r = <<a, a + StackSize>>
    BY DEF StackRanges
  <2>2. PICK b \in Placed : s = <<b, b + StackSize>>
    BY DEF StackRanges
  <2>3. a \in Nat /\ b \in Nat /\ a # b
    BY <1>4, <1>10, <2>1, <2>2
  <2>4. a < b \/ b < a
    BY <2>3
  <2>5. a + StackSize <= b \/ b + StackSize <= a
    BY <2>4 DEF IInv, StackLayout
  <2>6. QED
    BY <2>1, <2>2, <2>5
<1>11. QED
  BY <1>1, <1>7, <1>9, <1>10

(* MemoryIsDisjoint: blocks, stacks and the allocator's own memory lie inside the segment and *)
(* never overlap (shared_segment.hpp, brk.hpp, stack_allocator.hpp). *)
THEOREM SegmentIsDividedUp == Spec => []MemoryIsDisjoint
<1>1. IInv => MemoryIsDisjoint
  <2> SUFFICES ASSUME IInv, phase \in {"run", "aborted"}
               PROVE  /\ Cardinality(Ranges) = Len(blocks) + Cardinality(stacks) + Len(pool)
                                                 + (IF phase = "run" THEN 1 ELSE 0)
                      /\ \A r \in Ranges : 0 <= r[1] /\ r[2] <= Segment
                      /\ \A r, s \in Ranges : r # s => r[2] <= s[1] \/ s[2] <= r[1]
    BY DEF MemoryIsDisjoint
  <2>1. PICK o : o = <<0, Base>>
    OBVIOUS
  <2>2. PICK K : K = IF phase = "run" THEN {o} ELSE {}
    OBVIOUS
  <2>3. PICK B, T : B = BlockRanges /\ T = StackRanges
    OBVIOUS
  <2>4. Ranges = (B \cup T) \cup K
    BY <2>1, <2>2, <2>3 DEF Ranges, BlockRanges, StackRanges, Placed, Base
  <2>5. /\ Base \in Nat /\ up \in Nat /\ down \in Nat /\ Segment \in Nat
        /\ Base <= up /\ up <= down /\ down <= Segment
    <3>1. Base \in Nat /\ Segment \in Nat
      BY HeapAssumption DEF Base
    <3>2. QED
      BY <3>1 DEF IInv, TypeOK, Phases, HeapLayout
  <2>6. /\ IsFiniteSet(B) /\ Cardinality(B) = Len(blocks)
        /\ \A r \in B : r[1] \in Nat /\ r[2] \in Nat /\ Base <= r[1] /\ r[1] < r[2] /\ r[2] <= up
        /\ \A r, s \in B : r # s => r[2] <= s[1] \/ s[2] <= r[1]
    BY <2>3, BlocksPlaced
  <2>7. /\ IsFiniteSet(T) /\ Cardinality(T) = Cardinality(stacks) + Len(pool)
        /\ \A r \in T : /\ r[1] \in Nat /\ r[2] \in Nat
                         /\ down <= r[1] /\ r[1] < r[2] /\ r[2] <= Segment
        /\ \A r, s \in T : r # s => r[2] <= s[1] \/ s[2] <= r[1]
    BY <2>3, StacksPlaced
  <2>8. o[1] = 0 /\ o[2] = Base /\ K \subseteq {o}
    BY <2>1, <2>2
  <2>9. \A r \in B, s \in T : r[2] <= s[1] /\ r # s
    BY <2>5, <2>6, <2>7
  <2>10. \A r \in B \cup T : o[2] <= r[1] /\ r # o
    BY <2>5, <2>6, <2>7, <2>8
  <2>11. Cardinality(Ranges) = Len(blocks) + Cardinality(stacks) + Len(pool)
                                  + (IF phase = "run" THEN 1 ELSE 0)
    <3>1. B \cap T = {} /\ o \notin B \cup T
      BY <2>9, <2>10
    <3>2. /\ Len(blocks) \in Nat /\ Len(pool) \in Nat /\ Cardinality(stacks) \in Nat
          /\ Cardinality({}) = 0
      BY LenProperties, FS_CardinalityType, FS_EmptySet DEF IInv, TypeOK
    <3>3. IsFiniteSet(B \cup T) /\ Cardinality(B \cup T) = Len(blocks) + (Cardinality(stacks) + Len(pool))
      <4>1. /\ IsFiniteSet(B \cup T)
            /\ Cardinality(B \cup T) = Cardinality(B) + Cardinality(T) - Cardinality(B \cap T)
        BY <2>6, <2>7, FS_Union
      <4>2. Cardinality(B \cap T) = 0
        BY <3>1, <3>2
      <4>3. QED
        BY <2>6, <2>7, <3>2, <4>1, <4>2
    <3>4. CASE phase = "run"
      <4>1. Ranges = (B \cup T) \cup {o}
        BY <2>2, <2>4, <3>4
      <4>2. Cardinality(Ranges) = Cardinality(B \cup T) + 1
        BY <3>1, <3>3, <4>1, FS_AddElement
      <4>3. QED
        BY <3>2, <3>3, <3>4, <4>2
    <3>5. CASE phase # "run"
      <4>1. Ranges = B \cup T
        BY <2>2, <2>4, <3>5
      <4>2. QED
        BY <3>2, <3>3, <3>5, <4>1
    <3>6. QED
      BY <3>4, <3>5
  <2>12. ASSUME NEW r \in Ranges PROVE 0 <= r[1] /\ r[2] <= Segment
    <3>1. CASE r \in B
      BY <2>5, <2>6, <3>1
    <3>2. CASE r \in T
      BY <2>7, <3>2
    <3>3. CASE r = o
      BY <2>5, <2>8, <3>3
    <3>4. QED
      BY <2>4, <2>8, <3>1, <3>2, <3>3
  <2>13. ASSUME NEW r \in Ranges, NEW s \in Ranges, r # s PROVE r[2] <= s[1] \/ s[2] <= r[1]
    <3>1. r \in B \/ r \in T \/ r = o
      BY <2>4, <2>8
    <3>2. s \in B \/ s \in T \/ s = o
      BY <2>4, <2>8
    <3>3. QED
      BY <2>6, <2>7, <2>9, <2>10, <2>13, <3>1, <3>2
  <2>14. QED
    BY <2>11, <2>12, <2>13
<1>2. QED
  BY <1>1, HeapInvariant, PTL

-----------------------------------------------------------------------------
(* The contract of malloc and free *)

Allocation(b) == [addr |-> Data(b), size |-> blocks[b].userSize]

(* Two live allocations do not touch each other. *)
LEMMA AllocationsApart ==
  IInv => \A a, b \in Live : a # b => Contract!Apart(Allocation(a), Allocation(b))
<1> SUFFICES ASSUME IInv, NEW a \in Live, NEW b \in Live, a # b
             PROVE  Contract!Apart(Allocation(a), Allocation(b))
  OBVIOUS
<1>1. a \in DOMAIN blocks /\ b \in DOMAIN blocks
  BY DEF Live
<1>2. End(a) <= blocks[b].addr \/ End(b) <= blocks[a].addr
  BY <1>1, BlockOrder
<1>3. /\ blocks[a].addr \in Nat /\ blocks[a].userSize \in Nat /\ End(a) \in Nat
      /\ Data(a) = blocks[a].addr + 1 /\ UserDataEnd(a) = Data(a) + blocks[a].userSize
      /\ UserDataEnd(a) <= End(a) /\ Data(a) \in Nat /\ UserDataEnd(a) \in Nat
  BY <1>1, BlockPlace
<1>4. /\ blocks[b].addr \in Nat /\ blocks[b].userSize \in Nat /\ End(b) \in Nat
      /\ Data(b) = blocks[b].addr + 1 /\ UserDataEnd(b) = Data(b) + blocks[b].userSize
      /\ UserDataEnd(b) <= End(b) /\ Data(b) \in Nat /\ UserDataEnd(b) \in Nat
  BY <1>1, BlockPlace
<1>5. Data(a) # Data(b) /\ (UserDataEnd(a) <= Data(b) \/ UserDataEnd(b) <= Data(a))
  BY <1>2, <1>3, <1>4
<1>6. /\ Allocation(a).addr = Data(a) /\ Allocation(a).size = blocks[a].userSize
      /\ Allocation(b).addr = Data(b) /\ Allocation(b).size = blocks[b].userSize
  BY DEF Allocation
<1>7. QED
  BY <1>3, <1>4, <1>5, <1>6 DEF Contract!Apart

(* The address of an allocation lies in the segment. *)
LEMMA AllocationPlace == IInv => \A b \in Live : Data(b) \in 0 .. Segment
<1> SUFFICES ASSUME IInv, NEW b \in Live PROVE Data(b) \in 0 .. Segment
  OBVIOUS
<1>1. b \in DOMAIN blocks
  BY DEF Live
<1>2. /\ Data(b) \in Nat /\ UserDataEnd(b) = Data(b) + blocks[b].userSize /\ blocks[b].userSize \in Nat
      /\ UserDataEnd(b) <= End(b) /\ End(b) \in Nat /\ End(b) <= Segment
  BY <1>1, BlockPlace
<1>3. Segment \in Nat
  BY HeapAssumption
<1>4. QED
  BY <1>2, <1>3

(* ImplementsHeap: malloc hands out memory that no live allocation touches, free takes back a live *)
(* one, a burnt simulation takes all, and nothing else changes what is live (memory.cpp). *)
LEMMA StepImplements == IInv /\ IInv' /\ Effect => [Contract!Next]_Allocations
<1> SUFFICES ASSUME IInv, IInv', Effect PROVE [Contract!Next]_Allocations
  OBVIOUS
<1>1. Allocations = {Allocation(b) : b \in Live}
  BY DEF Allocations, Allocation
<1>2. Allocations' = {Allocation(b)' : b \in Live'}
  BY DEF Allocations, Allocation
<1>3. ASSUME NEW b, blocks'[b] = blocks[b] PROVE Allocation(b)' = Allocation(b)
  BY <1>3 DEF Allocation, Data
<1>4. CASE Untouched
  <2>1. Live' = Live /\ \A b \in Live : Allocation(b)' = Allocation(b)
    BY <1>3, <1>4 DEF Untouched
  <2>2. Allocations' = Allocations
    BY <1>1, <1>2, <2>1
  <2>3. QED
    BY <2>2
<1>5. CASE Emptied
  <2>1. Allocations' = {}
    BY <1>2, <1>5 DEF Emptied
  <2>2. Contract!Burn
    BY <2>1 DEF Contract!Burn
  <2>3. QED
    BY <2>2 DEF Contract!Next
<1>6. ASSUME NEW size \in Sizes, NEW x, Handed(x, size) PROVE Contract!Next
  <2>1. /\ x \notin Live /\ Live' = Live \cup {x} /\ blocks'[x].userSize = size
        /\ \A b \in Live : Allocation(b)' = Allocation(b)
    BY <1>3, <1>6 DEF Handed
  <2>2. PICK d : d = Data(x)'
    OBVIOUS
  <2>3. PICK r : r = [addr |-> d, size |-> size]
    OBVIOUS
  <2>4. Allocation(x)' = r
    BY <2>1, <2>2, <2>3 DEF Allocation
  <2>5. Allocations' = Allocations \cup {r}
    BY <1>1, <1>2, <2>1, <2>4
  <2>6. d \in 0 .. Segment
    <3>1. (\A b \in Live : Data(b) \in 0 .. Segment)'
      BY AllocationPlace, PTL
    <3>2. QED
      BY <2>1, <2>2, <3>1
  <2>7. \A s \in Allocations : Contract!Apart(s, r)
    <3>1. (\A a, b \in Live : a # b => Contract!Apart(Allocation(a), Allocation(b)))'
      BY AllocationsApart, PTL
    <3>2. ASSUME NEW b \in Live PROVE Contract!Apart(Allocation(b), r)
      <4>1. Contract!Apart(Allocation(b), Allocation(x))'
        BY <2>1, <3>1
      <4>2. QED
        BY <2>1, <2>4, <4>1 DEF Contract!Apart
    <3>3. QED
      BY <1>1, <3>2
  <2>8. Contract!Malloc(d, size)
    BY <2>3, <2>5, <2>7 DEF Contract!Malloc
  <2>9. QED
    BY <2>6, <2>8 DEF Contract!Next
<1>7. ASSUME NEW x, TakenBack(x) PROVE Contract!Next
  <2>1. /\ x \in Live /\ Live' = Live \ {x}
        /\ \A b \in Live : b # x => Allocation(b)' = Allocation(b)
    BY <1>3, <1>7 DEF TakenBack
  <2>2. PICK r : r = Allocation(x)
    OBVIOUS
  <2>3. \A b \in Live : b # x => Allocation(b) # r
    <3>1. ASSUME NEW b \in Live, b # x PROVE Allocation(b) # r
      <4>1. Contract!Apart(Allocation(b), Allocation(x))
        BY <2>1, <3>1, AllocationsApart
      <4>2. QED
        BY <2>2, <4>1 DEF Contract!Apart
    <3>2. QED
      BY <3>1
  <2>4. Allocations' = Allocations \ {r}
    BY <1>1, <1>2, <2>1, <2>2, <2>3
  <2>5. Contract!Free(r)
    BY <1>1, <2>1, <2>2, <2>4 DEF Contract!Free
  <2>6. QED
    BY <1>1, <2>1, <2>2, <2>5 DEF Contract!Next
<1>8. QED
  BY <1>4, <1>5, <1>6, <1>7 DEF Effect

(* The allocator, with its splits, free lists and pooled stacks, implements the contract of
   malloc and free: allocations that are apart, and each freed once. *)
THEOREM AllocatorImplementsHeap == Spec => ImplementsHeap
<1>1. Init => Contract!Init
  BY DEF Init, Contract!Init, Allocations, Live
<1>2. IInv /\ [Next]_vars => [Contract!Next]_Allocations
  BY NextKeeps, StepImplements
<1>3. QED
  BY <1>1, <1>2, HeapInvariant, PTL DEF Spec, ImplementsHeap, Contract!Spec

-----------------------------------------------------------------------------
(* Static and thread-local variables *)

Running == step \in {"main", "locals", "globals"}

Destroying == step \in {"locals", "globals"}

(* Between two simulations there are no threads. *)
OffIsEmpty ==
  step = "off" => /\ dtor = None /\ leaked = {}
                  /\ \A t \in Thread : ctor[t] = <<>> /\ slots[t] = {} /\ at[t] = 0

(* DestroyVars runs destructors after main has returned. Simulations are counted. *)
StepsAreCounted ==
  /\ step \in {"main", "panic"} => dtor = None
  /\ Running => run >= 1
  /\ \A v \in St!Var : var[v] # None => var[v] <= run

(* A variable that is set will be found by the loop of DestroyVars that comes to it, or by BurnVars,
   unless it came too late. *)
IsGlobal(v, n) == \E i \in 1 .. n : v = Globals[i]
IsLocal(v, n) == \E i \in 1 .. n : v = locals[i]

SetIsFound ==
  /\ step = "off" =>
       \A v \in St!Var : var[v] # None => <<var[v], v>> \in late
  /\ step = "main" =>
       \A v \in St!Var : var[v] # None =>
         IsGlobal(v, Len(Globals)) \/ IsLocal(v, Len(locals)) \/ <<var[v], v>> \in late
  /\ step = "locals" =>
       /\ cursor <= Len(locals)
       /\ \A v \in St!Var : var[v] # None =>
            IsGlobal(v, Len(Globals)) \/ IsLocal(v, cursor) \/ <<var[v], v>> \in late
  /\ step = "globals" =>
       /\ cursor <= Len(Globals)
       /\ \A v \in St!Var : var[v] # None => IsGlobal(v, cursor) \/ <<var[v], v>> \in late

(* A constructor in progress is the only one of its variable, which is linked, not set, and ahead of
   the loop over the locals; or it came too late. *)
InProgress(t, i) ==
  /\ var[ctor[t][i]] = None
  /\ \/ step = "main" /\ IsLocal(ctor[t][i], Len(locals))
     \/ step = "locals" /\ IsLocal(ctor[t][i], cursor)
  /\ \A u \in Thread : \A j \in 1 .. Len(ctor[u]) : ctor[u][j] = ctor[t][i] => u = t /\ j = i

CtorsAreFound ==
  Running => \A t \in Thread : \A i \in 1 .. Len(ctor[t]) :
               <<run, ctor[t][i]>> \in late \/ InProgress(t, i)

(* What is linked when the locals have been unlinked came too late. *)
LinkedIsLate ==
  step \in {"off", "globals"} =>
    \A i \in 1 .. Len(locals) : \E r \in 1 .. run : <<r, locals[i]>> \in late

(* A thread-local variable with a key is in the table, and so is every slot in use. *)
InTable(v) == \E i \in 1 .. Len(table) : v = table[i]

KeysAreKnown ==
  /\ Running => \A v \in St!Var : v \in ThreadLocal /\ var[v] = run => InTable(v)
  /\ \A t \in Thread : \A i \in slots[t] : i \in 1 .. Len(table)

(* A slot where Destroy has been was taken there. *)
PassedIsBehind ==
  /\ \A t \in Thread : \A i \in slots[t] : i <= at[t] => <<t, i>> \in behind
  /\ Destroying => \A i \in slots[Main] : <<Main, i>> \in behind
  /\ leaked \subseteq behind

StaticsInv ==
  /\ St!TypeOK
  /\ OffIsEmpty
  /\ StepsAreCounted
  /\ SetIsFound
  /\ CtorsAreFound
  /\ LinkedIsLate
  /\ KeysAreKnown
  /\ PassedIsBehind

(* The sequences of the model and their elements *)
LEMMA Elements == ASSUME NEW A, NEW q \in Seq(A) PROVE St!Range(q) = {q[i] : i \in 1 .. Len(q)}
  BY DEF St!Range

(* The globals are a sequence of variables. *)
LEMMA GlobalsTyped ==
  /\ Globals \in Seq(St!Var) /\ Len(Globals) \in Nat
  /\ \A v : v \in St!Range(Globals) <=> IsGlobal(v, Len(Globals))
<1>1. Globals \in Seq(St!Range(Globals))
  BY StaticsAssumption DEF St!StaticsConstants
<1>2. \A v : v \in St!Range(Globals) <=> IsGlobal(v, Len(Globals))
  BY <1>1, Elements DEF IsGlobal
<1>3. St!Range(Globals) \subseteq St!Var
  BY DEF St!Var
<1>4. \A i \in 1 .. Len(Globals) : Globals[i] \in St!Var
  BY <1>1, <1>3
<1>5. QED
  BY <1>1, <1>2, <1>4

(* ConstructGlobalVars hands out the keys one after the other; g[k] are those of the first k
   globals, up to n. *)
HandsOut(g, n) ==
  g = [k \in 0 .. n |-> IF k = 0 THEN <<>>
                        ELSE IF Globals[k] \in ThreadLocal THEN Append(g[k - 1], Globals[k])
                        ELSE g[k - 1]]

(* There is such a function. *)
LEMMA KeysExist == \A n \in Nat : \E g : HandsOut(g, n)
<1> DEFINE W == {n \in Nat : \E g : HandsOut(g, n)}
<1>1. 0 \in W
  <2>1. HandsOut([k \in 0 .. 0 |-> <<>>], 0)
    BY DEF HandsOut
  <2>2. QED
    BY <2>1
<1>2. ASSUME NEW n \in Nat, n \in W PROVE n + 1 \in W
  <2>1. PICK g : HandsOut(g, n)
    BY <1>2
  <2>2. PICK m \in Nat : m = n + 1
    OBVIOUS
  <2> DEFINE h == [k \in 0 .. m |-> IF k = 0 THEN <<>>
                                    ELSE IF Globals[k] \in ThreadLocal THEN Append(g[k - 1], Globals[k])
                                    ELSE g[k - 1]]
  <2>3. \A k \in 0 .. n : h[k] = g[k]
    <3>1. \A k \in 0 .. n : g[k] = IF k = 0 THEN <<>>
                                   ELSE IF Globals[k] \in ThreadLocal THEN Append(g[k - 1], Globals[k])
                                   ELSE g[k - 1]
      BY <2>1 DEF HandsOut
    <3>2. \A k \in 0 .. n : k \in 0 .. m
      BY <2>2
    <3>3. QED
      BY <3>1, <3>2, Zenon
  <2>4. ASSUME NEW k \in 0 .. m
        PROVE  h[k] = IF k = 0 THEN <<>>
                      ELSE IF Globals[k] \in ThreadLocal THEN Append(h[k - 1], Globals[k])
                      ELSE h[k - 1]
    <3>1. k # 0 => k - 1 \in 0 .. n
      BY <2>2
    <3>2. k # 0 => h[k - 1] = g[k - 1]
      BY <2>3, <3>1, Zenon
    <3>3. h[k] = IF k = 0 THEN <<>>
                 ELSE IF Globals[k] \in ThreadLocal THEN Append(g[k - 1], Globals[k])
                 ELSE g[k - 1]
      BY Zenon
    <3> HIDE DEF h
    <3>4. QED
      BY <3>2, <3>3, Zenon
  <2>5. h = [k \in 0 .. m |-> h[k]]
    OBVIOUS
  <2> HIDE DEF h
  <2>6. HandsOut(h, m)
    BY <2>4, <2>5 DEF HandsOut
  <2>7. QED
    BY <2>2, <2>6
<1> HIDE DEF W
<1>3. Nat \subseteq W
  BY <1>1, <1>2, NumbersInduction
<1>4. QED
  BY <1>3 DEF W

(* All thread-local globals get one. *)
LEMMA KeysAreComplete ==
  /\ St!Keys[Len(Globals)] \in Seq(St!Var)
  /\ \A i \in 1 .. Len(Globals) :
       Globals[i] \in ThreadLocal =>
         \E j \in 1 .. Len(St!Keys[Len(Globals)]) : Globals[i] = St!Keys[Len(Globals)][j]
<1>1. HandsOut(St!Keys, Len(Globals))
  <2>1. St!Keys = CHOOSE g : HandsOut(g, Len(Globals))
    BY DEF St!Keys, HandsOut
  <2>2. QED
    BY <2>1, GlobalsTyped, KeysExist
<1>2. PICK g : g = St!Keys
  OBVIOUS
<1>3. PICK N \in Nat : N = Len(Globals)
  BY GlobalsTyped
<1> DEFINE Good(k) == /\ g[k] \in Seq(St!Var)
                      /\ \A i \in 1 .. k : Globals[i] \in ThreadLocal =>
                           \E j \in 1 .. Len(g[k]) : Globals[i] = g[k][j]
           W == {k \in Nat : k <= N => Good(k)}
<1>4. \A k \in 0 .. N : g[k] = IF k = 0 THEN <<>>
                               ELSE IF Globals[k] \in ThreadLocal THEN Append(g[k - 1], Globals[k])
                               ELSE g[k - 1]
  BY <1>1, <1>2, <1>3 DEF HandsOut
<1>5. \A k \in 1 .. N : Globals[k] \in St!Var
  BY <1>3, GlobalsTyped
<1>6. 0 \in W
  <2>1. g[0] = <<>>
    BY <1>4
  <2>2. g[0] \in Seq(St!Var)
    BY <2>1
  <2>3. QED
    BY <2>2
<1>7. ASSUME NEW k \in Nat, k \in W PROVE k + 1 \in W
  <2> SUFFICES ASSUME k + 1 <= N PROVE Good(k + 1)
    OBVIOUS
  <2>1. PICK m \in 1 .. N : m = k + 1 /\ m - 1 = k
    OBVIOUS
  <2>2. Good(k)
    BY <1>7
  <2>3. PICK old : old = g[k]
    OBVIOUS
  <2>4. g[m] = IF Globals[m] \in ThreadLocal THEN Append(old, Globals[m]) ELSE old
    BY <1>4, <2>1, <2>3
  <2>5. /\ old \in Seq(St!Var)
        /\ \A i \in 1 .. k : Globals[i] \in ThreadLocal => \E j \in 1 .. Len(old) : Globals[i] = old[j]
    BY <2>2, <2>3
  <2>6. CASE Globals[m] \in ThreadLocal
    <3>1. g[m] = Append(old, Globals[m])
      BY <2>4, <2>6
    <3>2. /\ g[m] \in Seq(St!Var) /\ Len(g[m]) = Len(old) + 1 /\ g[m][Len(old) + 1] = Globals[m]
          /\ \A j \in 1 .. Len(old) : g[m][j] = old[j]
      BY <1>5, <2>5, <3>1
    <3>3. Len(old) \in Nat
      BY <2>5
    <3>4. ASSUME NEW i \in 1 .. m, Globals[i] \in ThreadLocal
          PROVE  \E j \in 1 .. Len(g[m]) : Globals[i] = g[m][j]
      <4>1. CASE i = m
        BY <3>2, <3>3, <4>1
      <4>2. CASE i # m
        <5>1. i \in 1 .. k
          BY <2>1, <4>2
        <5>2. PICK j \in 1 .. Len(old) : Globals[i] = old[j]
          BY <2>5, <3>4, <5>1
        <5>3. j \in 1 .. Len(g[m])
          BY <3>2, <3>3
        <5>4. QED
          BY <3>2, <5>2, <5>3
      <4>3. QED
        BY <4>1, <4>2
    <3>5. QED
      BY <2>1, <3>2, <3>4
  <2>7. CASE Globals[m] \notin ThreadLocal
    <3>1. g[m] = old
      BY <2>4, <2>7
    <3>2. \A i \in 1 .. m : Globals[i] \in ThreadLocal => i \in 1 .. k
      BY <2>1, <2>7
    <3>3. QED
      BY <2>1, <2>5, <3>1, <3>2
  <2>8. QED
    BY <2>6, <2>7
<1> HIDE DEF W
<1>8. Nat \subseteq W
  BY <1>6, <1>7, NumbersInduction
<1>9. Good(N)
  BY <1>8 DEF W
<1>10. QED
  BY <1>2, <1>3, <1>9

(* A sequence without its last element: an element of a sequence stays where it is. *)
LEMMA ShorterSequence ==
  ASSUME NEW S, NEW q \in Seq(S), Len(q) # 0, NEW r, r = SubSeq(q, 1, Len(q) - 1)
  PROVE  r \in Seq(S) /\ Len(r) = Len(q) - 1 /\ \A i \in 1 .. Len(r) : r[i] = q[i]
<1>1. Len(q) \in Nat /\ Len(q) - 1 \in Nat /\ 1 <= Len(q) /\ Len(q) - 1 <= Len(q)
  OBVIOUS
<1>2. \A i \in 1 .. Len(q) - 1 : q[i] \in S
  BY <1>1
<1>3. PICK n \in Int : n = Len(q) - 1
  BY <1>1
<1>4. /\ SubSeq(q, 1, n) \in Seq(S)
      /\ Len(SubSeq(q, 1, n)) = IF 1 <= n THEN n - 1 + 1 ELSE 0
      /\ \A i \in 1 .. n - 1 + 1 : SubSeq(q, 1, n)[i] = q[1 + i - 1]
  <2>1. \A i \in 1 .. n : q[i] \in S
    BY <1>2, <1>3
  <2>2. 1 \in Int
    OBVIOUS
  <2>3. QED
    BY <2>1, <2>2, SubSeqProperties
<1>5. r = SubSeq(q, 1, n)
  BY <1>3
<1>6. n \in Nat /\ n - 1 + 1 = n /\ \A i \in 1 .. n : 1 + i - 1 = i
  BY <1>1, <1>3
<1>7. /\ r \in Seq(S) /\ Len(r) = IF 1 <= n THEN n ELSE 0
      /\ \A i \in 1 .. n : r[i] = q[i]
  BY <1>4, <1>5, <1>6, Zenon
<1>8. Len(r) = n
  BY <1>6, <1>7
<1>9. QED
  BY <1>3, <1>7, <1>8

(* The initial states satisfy the invariant. *)
LEMMA StaticsInit == St!Init => StaticsInv
<1> SUFFICES ASSUME St!Init PROVE StaticsInv
  OBVIOUS
<1> USE DEF St!Init
<1>1. St!TypeOK
  BY StaticsAssumption DEF St!TypeOK, St!StaticsConstants
<1>2. OffIsEmpty /\ StepsAreCounted /\ SetIsFound
  BY DEF OffIsEmpty, StepsAreCounted, SetIsFound, Running
<1>3. CtorsAreFound /\ LinkedIsLate
  BY DEF CtorsAreFound, LinkedIsLate, Running
<1>4. KeysAreKnown /\ PassedIsBehind
  BY DEF KeysAreKnown, PassedIsBehind, Running, Destroying
<1>5. QED
  BY <1>1, <1>2, <1>3, <1>4 DEF StaticsInv

(* A panic ends everything. *)
LEMMA PanicsKeep == ASSUME StaticsInv, St!Panics PROVE StaticsInv'
<1> USE DEF StaticsInv, St!Panics, St!program
<1>1. St!TypeOK'
  BY DEF St!TypeOK
<1>2. OffIsEmpty' /\ StepsAreCounted' /\ SetIsFound' /\ CtorsAreFound' /\ LinkedIsLate'
  BY DEF OffIsEmpty, StepsAreCounted, SetIsFound, CtorsAreFound, LinkedIsLate, Running
<1>3. KeysAreKnown' /\ PassedIsBehind'
  BY DEF KeysAreKnown, PassedIsBehind, Running, Destroying
<1>4. QED
  BY <1>1, <1>2, <1>3

(* A simulation starts; then the globals are set, the thread-local ones with a key in the new table.
   What an earlier simulation left has come too late. *)
LEMMA ConstructKeeps == ASSUME StaticsInv, St!ConstructGlobalVars PROVE StaticsInv'
<1> USE DEF StaticsInv, St!ConstructGlobalVars
<1>1. /\ \A t \in Thread : ctor[t] = <<>> /\ slots[t] = {}
      /\ dtor = None /\ leaked = {}
  BY DEF OffIsEmpty
<1>2. run \in Nat /\ run' = run + 1 /\ None \notin Nat
  BY StaticsAssumption DEF St!TypeOK, St!StaticsConstants
<1>3. St!TypeOK'
  <2>1. table' \in Seq(St!Var)
    BY KeysAreComplete
  <2>2. var' \in [St!Var -> Nat \cup {None}]
    BY <1>2 DEF St!TypeOK
  <2>3. QED
    BY <1>2, <2>1, <2>2, StaticsAssumption DEF St!TypeOK, St!StaticsConstants
<1>4. ASSUME NEW v \in St!Var
      PROVE  \/ IsGlobal(v, Len(Globals)) /\ var'[v] = run'
             \/ var'[v] = None
             \/ <<var'[v], v>> \in late /\ var'[v] \in 0 .. run
  <2>1. IsGlobal(v, Len(Globals)) => var'[v] = run'
    BY GlobalsTyped
  <2>2. ~IsGlobal(v, Len(Globals)) => var'[v] = var[v]
    BY GlobalsTyped
  <2>3. var[v] # None => var[v] \in 0 .. run /\ <<var[v], v>> \in late
    BY <1>2 DEF SetIsFound, StepsAreCounted, St!TypeOK
  <2>4. QED
    BY <2>1, <2>2, <2>3
<1>5. OffIsEmpty' /\ SetIsFound'
  BY <1>4 DEF OffIsEmpty, SetIsFound, IsGlobal, IsLocal
<1>6. StepsAreCounted'
  <2>1. 0 .. run \subseteq 0 .. run' /\ run' \in 0 .. run' /\ run' >= 1
    BY <1>2
  <2>2. ASSUME NEW v \in St!Var, var'[v] # None PROVE var'[v] \in 0 .. run'
    BY <1>4, <2>1, <2>2
  <2>3. QED
    BY <1>1, <2>1, <2>2 DEF StepsAreCounted
<1>7. CtorsAreFound' /\ LinkedIsLate'
  BY <1>1 DEF CtorsAreFound, LinkedIsLate
<1>8. KeysAreKnown'
  <2>1. ASSUME NEW v \in St!Var, v \in ThreadLocal, IsGlobal(v, Len(Globals)) PROVE InTable(v)'
    BY <2>1, KeysAreComplete DEF IsGlobal, InTable
  <2>2. ASSUME NEW v \in St!Var, var'[v] = run' PROVE IsGlobal(v, Len(Globals))
    <3>1. run' \notin 0 .. run /\ run' # None
      BY <1>2
    <3>2. QED
      BY <1>4, <2>2, <3>1
  <2>3. QED
    BY <1>1, <2>1, <2>2 DEF KeysAreKnown
<1>9. PassedIsBehind'
  BY <1>1 DEF PassedIsBehind, Destroying
<1>10. QED
  BY <1>3, <1>5, <1>6, <1>7, <1>8, <1>9

(* Threads act while a simulation runs. *)
LEMMA ActiveRuns ==
  ASSUME StaticsInv, NEW t, St!Active(t)
  PROVE  Running /\ (step = "main" \/ Destroying)
  BY DEF StaticsInv, St!Active, OffIsEmpty, StepsAreCounted, Running, Destroying, St!TypeOK

(* A slot is initialised. Where Destroy has been this is remembered. *)
LEMMA TouchKeeps ==
  ASSUME StaticsInv, NEW t \in Thread, NEW i \in Nat, St!Touch(t, i), UNCHANGED <<step, at, leaked>>,
         step # "off", NEW n \in Nat, i \in 1 .. n, Len(table) <= n
  PROVE  /\ slots' \in [Thread -> SUBSET Nat] /\ behind' \subseteq Thread \X Nat
         /\ \A u \in Thread : \A j \in slots'[u] : j \in 1 .. n
         /\ PassedIsBehind'
<1> USE DEF StaticsInv, St!Touch
<1>1. slots \in [Thread -> SUBSET Nat] /\ behind \subseteq Thread \X Nat /\ at \in [Thread -> Nat]
  BY DEF St!TypeOK
<1>2. slots' \in [Thread -> SUBSET Nat] /\ behind' \subseteq Thread \X Nat /\ behind \subseteq behind'
  BY <1>1
<1>3. \A u \in Thread : \A j \in slots'[u] : j \in slots[u] \/ (u = t /\ j = i)
  BY <1>1
<1>4. Len(table) \in Nat
  BY DEF St!TypeOK
<1>5. \A u \in Thread : \A j \in slots'[u] : j \in 1 .. n
  <2>1. ASSUME NEW u \in Thread, NEW j \in slots[u] PROVE j \in 1 .. n
    <3>1. j \in 1 .. Len(table)
      BY DEF KeysAreKnown
    <3>2. QED
      BY <1>4, <3>1
  <2>2. QED
    BY <1>3, <2>1
<1>6. i <= at[t] => <<t, i>> \in behind'
  BY <1>1
<1>7. Destroying /\ t = Main => <<t, i>> \in behind'
  BY <1>1 DEF Destroying
<1>8. PassedIsBehind'
  <2>1. \A u \in Thread : \A j \in slots'[u] : j <= at[u] => <<u, j>> \in behind'
    BY <1>2, <1>3, <1>6 DEF PassedIsBehind
  <2>2. Destroying => \A j \in slots'[Main] : <<Main, j>> \in behind'
    <3>1. Main \in Thread
      BY StaticsAssumption DEF St!StaticsConstants
    <3>2. QED
      BY <1>2, <1>3, <1>7, <3>1 DEF PassedIsBehind
  <2>3. leaked' \subseteq behind'
    BY <1>2 DEF PassedIsBehind
  <2>4. QED
    BY <2>1, <2>2, <2>3 DEF PassedIsBehind, Destroying
<1>9. QED
  BY <1>2, <1>5, <1>8

(* A step that leaves the variables and their registration alone keeps what is said of them. *)
LEMMA RegistrationStays ==
  ASSUME StaticsInv, UNCHANGED <<run, step, var, locals, ctor, table, cursor, dtor, late>>
  PROVE  /\ StepsAreCounted' /\ SetIsFound' /\ CtorsAreFound' /\ LinkedIsLate'
         /\ Running' => \A v \in St!Var : v \in ThreadLocal /\ var'[v] = run' => InTable(v)'
<1> USE DEF StaticsInv
<1>1. \A v, n : (IsLocal(v, n)' <=> IsLocal(v, n)) /\ (IsGlobal(v, n)' <=> IsGlobal(v, n))
                /\ (InTable(v)' <=> InTable(v))
  BY DEF IsLocal, IsGlobal, InTable
<1>2. StepsAreCounted' /\ LinkedIsLate' /\ (Running' <=> Running)
  BY DEF StepsAreCounted, LinkedIsLate, Running
<1>3. SetIsFound'
  BY <1>1 DEF SetIsFound
<1>4. CtorsAreFound'
  BY DEF CtorsAreFound, InProgress, IsLocal, Running
<1>5. QED
  BY <1>1, <1>2, <1>3, <1>4 DEF KeysAreKnown

(* Nothing happens. *)
LEMMA StaticsStutter == ASSUME StaticsInv, UNCHANGED St!vars PROVE StaticsInv'
<1> USE DEF StaticsInv, St!vars
<1>1. St!TypeOK' /\ OffIsEmpty'
  BY DEF St!TypeOK, OffIsEmpty
<1>2. PassedIsBehind'
  BY DEF PassedIsBehind, Destroying
<1>3. KeysAreKnown'
  BY RegistrationStays DEF KeysAreKnown
<1>4. QED
  BY <1>1, <1>2, <1>3, RegistrationStays

(* A variable is linked: it will be found, or it came too late. *)
LEMMA LinkKeeps ==
  ASSUME StaticsInv, Running, NEW v \in Locals, var[v] = None, v \notin St!Range(locals),
         locals' = Append(locals, v), late' = IF step = "main" THEN late ELSE late \cup {<<run, v>>},
         UNCHANGED <<run, step, cursor, dtor>>,
         NEW t \in Thread,
         \/ v \in Slow /\ UNCHANGED var /\ ctor' = [ctor EXCEPT ![t] = Append(@, v)]
         \/ UNCHANGED ctor /\ var' = [var EXCEPT ![v] = run]
  PROVE  StepsAreCounted' /\ SetIsFound' /\ CtorsAreFound' /\ LinkedIsLate'
<1> USE DEF StaticsInv
<1>1. /\ locals \in Seq(Locals) /\ Len(locals) \in Nat /\ run \in Nat /\ run >= 1 /\ cursor \in Nat
      /\ var \in [St!Var -> Nat \cup {None}] /\ ctor \in [Thread -> Seq(Slow)] /\ v \in St!Var
      /\ None \notin Nat
  BY StaticsAssumption DEF St!TypeOK, St!StaticsConstants, St!Var, StepsAreCounted
<1>2. /\ Len(locals') = Len(locals) + 1 /\ locals'[Len(locals) + 1] = v
      /\ \A i \in 1 .. Len(locals) : locals'[i] = locals[i]
  BY <1>1
<1>3. ASSUME NEW w, NEW n \in Nat, n <= Len(locals), IsLocal(w, n)
      PROVE  IsLocal(w, n)' /\ IsLocal(w, Len(locals))' /\ w # v
  <2>1. PICK i \in 1 .. n : w = locals[i]
    BY <1>3 DEF IsLocal
  <2>2. i \in 1 .. Len(locals) /\ i \in 1 .. Len(locals')
    BY <1>1, <1>2, <1>3
  <2>3. w # v
    BY <1>1, <2>1, <2>2, Elements
  <2>4. QED
    BY <1>2, <2>1, <2>2, <2>3 DEF IsLocal
<1>4. IsLocal(v, Len(locals))'
  BY <1>1, <1>2 DEF IsLocal
<1>5. late \subseteq late' /\ (step # "main" => <<run, v>> \in late')
  OBVIOUS
<1>6. \A w \in St!Var : var'[w] = var[w] \/ (w = v /\ var'[w] = run)
  BY <1>1
<1>7. StepsAreCounted'
  <2>1. run <= run
    BY <1>1
  <2>2. QED
    BY <1>6, <2>1 DEF StepsAreCounted, Running
<1>8. SetIsFound'
  <2>1. CASE step = "main"
    <3>1. \A w \in St!Var : var[w] # None =>
            IsGlobal(w, Len(Globals)) \/ IsLocal(w, Len(locals)) \/ <<var[w], w>> \in late
      BY <2>1 DEF SetIsFound
    <3>2. ASSUME NEW w \in St!Var, var'[w] # None
          PROVE  IsGlobal(w, Len(Globals)) \/ IsLocal(w, Len(locals))' \/ <<var'[w], w>> \in late'
      BY <1>1, <1>3, <1>4, <1>5, <1>6, <3>1, <3>2
    <3>3. QED
      BY <2>1, <3>2 DEF SetIsFound, IsGlobal, IsLocal
  <2>2. CASE step = "locals"
    <3>1. /\ cursor <= Len(locals)
          /\ \A w \in St!Var : var[w] # None =>
               IsGlobal(w, Len(Globals)) \/ IsLocal(w, cursor) \/ <<var[w], w>> \in late
      BY <2>2 DEF SetIsFound
    <3>2. ASSUME NEW w \in St!Var, var'[w] # None
          PROVE  IsGlobal(w, Len(Globals)) \/ IsLocal(w, cursor)' \/ <<var'[w], w>> \in late'
      BY <1>1, <1>3, <1>5, <1>6, <2>2, <3>1, <3>2
    <3>3. cursor' <= Len(locals')
      BY <1>1, <1>2, <3>1
    <3>4. QED
      BY <2>2, <3>2, <3>3 DEF SetIsFound, IsGlobal, IsLocal
  <2>3. CASE step = "globals"
    <3>1. /\ cursor <= Len(Globals)
          /\ \A w \in St!Var : var[w] # None => IsGlobal(w, cursor) \/ <<var[w], w>> \in late
      BY <2>3 DEF SetIsFound
    <3>2. ASSUME NEW w \in St!Var, var'[w] # None
          PROVE  IsGlobal(w, cursor) \/ <<var'[w], w>> \in late'
      BY <1>5, <1>6, <2>3, <3>1, <3>2
    <3>3. QED
      BY <2>3, <3>1, <3>2 DEF SetIsFound, IsGlobal
  <2>4. QED
    BY <2>1, <2>2, <2>3 DEF Running, SetIsFound
<1>9. CtorsAreFound'
  <2> SUFFICES ASSUME NEW u \in Thread, NEW i \in 1 .. Len(ctor'[u])
               PROVE  <<run, ctor'[u][i]>> \in late' \/ InProgress(u, i)'
    BY DEF CtorsAreFound
  <2>1. ASSUME NEW x \in Thread, NEW j \in 1 .. Len(ctor'[x])
        PROVE  \/ j \in 1 .. Len(ctor[x]) /\ ctor'[x][j] = ctor[x][j]
               \/ /\ x = t /\ j = Len(ctor[x]) + 1 /\ ctor'[x][j] = v
                  /\ UNCHANGED var
    <3>1. ctor[x] \in Seq(Slow)
      BY <1>1
    <3>2. CASE x = t /\ v \in Slow /\ UNCHANGED var /\ ctor'[x] = Append(ctor[x], v)
      <4>1. /\ Len(ctor'[x]) = Len(ctor[x]) + 1 /\ ctor'[x][Len(ctor[x]) + 1] = v
            /\ \A k \in 1 .. Len(ctor[x]) : ctor'[x][k] = ctor[x][k]
        BY <3>1, <3>2
      <4>2. j = Len(ctor[x]) + 1 \/ j \in 1 .. Len(ctor[x])
        BY <3>1, <4>1
      <4>3. QED
        BY <3>2, <4>1, <4>2
    <3>3. CASE ctor'[x] = ctor[x]
      BY <3>3
    <3>4. QED
      BY <1>1, <3>2, <3>3
  <2>2. ASSUME NEW x \in Thread, NEW j \in 1 .. Len(ctor[x])
        PROVE  <<run, ctor[x][j]>> \in late \/ InProgress(x, j)
    BY DEF CtorsAreFound
  <2>3. ASSUME NEW x \in Thread, NEW j \in 1 .. Len(ctor[x]), InProgress(x, j),
               NEW c, c = ctor[x][j]
        PROVE  /\ c # v
               /\ \/ step' = "main" /\ IsLocal(c, Len(locals))'
                  \/ step' = "locals" /\ IsLocal(c, cursor)'
    <3>1. Len(locals) <= Len(locals)
      BY <1>1
    <3>2. step = "locals" => cursor <= Len(locals)
      BY DEF SetIsFound
    <3>3. \/ step = "main" /\ IsLocal(c, Len(locals))
          \/ step = "locals" /\ IsLocal(c, cursor)
      BY <2>3 DEF InProgress
    <3>4. QED
      BY <1>1, <1>3, <3>1, <3>2, <3>3
  <2>4. CASE i \in 1 .. Len(ctor[u]) /\ ctor'[u][i] = ctor[u][i]
    <3>1. CASE <<run, ctor[u][i]>> \in late
      BY <1>5, <2>4, <3>1
    <3>2. CASE InProgress(u, i)
      <4>1. ctor[u][i] \in St!Var
        <5>1. Slow \subseteq St!Var
          BY StaticsAssumption DEF St!StaticsConstants, St!Var
        <5>2. ctor[u] \in Seq(Slow)
          BY <1>1
        <5>3. QED
          BY <2>4, <5>1, <5>2
      <4>2. var'[ctor'[u][i]] = None
        BY <1>6, <2>3, <2>4, <3>2, <4>1 DEF InProgress
      <4>3. ASSUME NEW x \in Thread, NEW j \in 1 .. Len(ctor'[x]), ctor'[x][j] = ctor'[u][i]
            PROVE  x = u /\ j = i
        BY <2>1, <2>3, <2>4, <3>2, <4>3 DEF InProgress
      <4>4. \/ step' = "main" /\ IsLocal(ctor[u][i], Len(locals))'
            \/ step' = "locals" /\ IsLocal(ctor[u][i], cursor)'
        <5>1. PICK c : c = ctor[u][i] /\ c = ctor'[u][i]
          BY <2>4
        <5>2. \/ step' = "main" /\ IsLocal(c, Len(locals))'
              \/ step' = "locals" /\ IsLocal(c, cursor)'
          BY <2>3, <2>4, <3>2, <5>1
        <5>3. QED
          BY <5>1, <5>2 DEF IsLocal
      <4>5. QED
        BY <2>4, <4>2, <4>3, <4>4 DEF InProgress, IsLocal
    <3>3. QED
      BY <2>2, <2>4, <3>1, <3>2
  <2>5. CASE u = t /\ i = Len(ctor[u]) + 1 /\ ctor'[u][i] = v /\ UNCHANGED var
    <3>1. CASE step # "main"
      BY <1>5, <2>5, <3>1
    <3>2. CASE step = "main" /\ <<run, v>> \notin late
      <4>1. ASSUME NEW x \in Thread, NEW j \in 1 .. Len(ctor'[x]), ctor'[x][j] = v
            PROVE  x = u /\ j = i
        BY <2>1, <2>2, <2>3, <2>5, <3>2, <4>1
      <4>2. QED
        BY <1>4, <2>5, <3>2, <4>1 DEF InProgress, IsLocal
    <3>3. QED
      BY <1>5, <2>5, <3>1, <3>2
  <2>6. QED
    BY <2>1, <2>4, <2>5
<1>10. LinkedIsLate'
  <2> SUFFICES ASSUME step = "globals", NEW i \in 1 .. Len(locals')
               PROVE  \E r \in 1 .. run : <<r, locals'[i]>> \in late'
    BY DEF LinkedIsLate, Running
  <2>1. run \in 1 .. run
    BY <1>1
  <2>2. CASE i = Len(locals) + 1
    BY <1>2, <1>5, <2>1, <2>2
  <2>3. CASE i # Len(locals) + 1
    <3>1. i \in 1 .. Len(locals)
      BY <1>1, <1>2, <2>3
    <3>2. QED
      BY <1>2, <1>5, <3>1 DEF LinkedIsLate
  <2>4. QED
    BY <2>2, <2>3
<1>11. QED
  BY <1>7, <1>8, <1>9, <1>10

(* Visits of variables that have not been constructed in this simulation, *)
LEMMA FirstVisitKeeps ==
  ASSUME StaticsInv, NEW t \in Thread, NEW v \in St!Var, St!FirstVisit(t, v) PROVE StaticsInv'
<1>1. CASE St!Panics
  BY <1>1, PanicsKeep
<1>2. CASE ~St!Panics
  <2> USE DEF StaticsInv
  <2>1. /\ v \in Locals /\ var[v] = None /\ v \notin St!Range(locals) /\ locals' = Append(locals, v)
        /\ late' = IF step = "main" THEN late ELSE late \cup {<<run, v>>}
        /\ UNCHANGED <<run, step, alive, at, leaked, cursor, dtor>>
    BY <1>2 DEF St!FirstVisit
  <2>2. \/ v \in Slow /\ ctor' = [ctor EXCEPT ![t] = Append(@, v)] /\ UNCHANGED <<var, table, slots, behind>>
        \/ /\ v \notin Slow /\ var' = [var EXCEPT ![v] = run] /\ UNCHANGED ctor
           /\ \/ /\ v \in ThreadLocal /\ table' = Append(table, v) /\ St!Touch(t, Len(table) + 1)
              \/ v \notin ThreadLocal /\ UNCHANGED <<table, slots, behind>>
    BY <1>2 DEF St!FirstVisit
  <2>3. Running /\ step # "off"
    BY ActiveRuns DEF St!FirstVisit, Running
  <2>4. StepsAreCounted' /\ SetIsFound' /\ CtorsAreFound' /\ LinkedIsLate'
    BY <2>1, <2>2, <2>3, LinkKeeps
  <2>5. table \in Seq(St!Var) /\ Len(table) \in Nat /\ Len(table) + 1 \in Nat
    BY DEF St!TypeOK
  <2>6. /\ slots' \in [Thread -> SUBSET Nat] /\ behind' \subseteq Thread \X Nat /\ PassedIsBehind'
        /\ table' \in Seq(St!Var)
        /\ \A u \in Thread : \A i \in slots'[u] : i \in 1 .. Len(table')
    <3>1. CASE v \in ThreadLocal /\ table' = Append(table, v) /\ St!Touch(t, Len(table) + 1)
      <4>1. Len(table') = Len(table) + 1 /\ Len(table) <= Len(table') /\ Len(table') \in 1 .. Len(table')
        BY <2>5, <3>1
      <4>2. /\ slots' \in [Thread -> SUBSET Nat] /\ behind' \subseteq Thread \X Nat /\ PassedIsBehind'
            /\ \A u \in Thread : \A i \in slots'[u] : i \in 1 .. Len(table')
        BY <2>1, <2>3, <2>5, <3>1, <4>1, TouchKeeps
      <4>3. QED
        BY <2>5, <3>1, <4>2
    <3>2. CASE UNCHANGED <<table, slots, behind>>
      BY <2>1, <3>2 DEF St!TypeOK, KeysAreKnown, PassedIsBehind, Destroying
    <3>3. QED
      BY <2>2, <3>1, <3>2
  <2>7. St!TypeOK'
    <3>1. locals' \in Seq(Locals)
      BY <2>1 DEF St!TypeOK
    <3>2. ctor' \in [Thread -> Seq(Slow)]
      <4>1. ctor \in [Thread -> Seq(Slow)] /\ ctor[t] \in Seq(Slow)
        BY DEF St!TypeOK
      <4>2. v \in Slow => Append(ctor[t], v) \in Seq(Slow)
        BY <4>1
      <4>3. QED
        BY <2>2, <4>1, <4>2
    <3>3. var' \in [St!Var -> Nat \cup {None}]
      BY <2>2 DEF St!TypeOK
    <3>4. late' \subseteq Nat \X St!Var
      BY <2>1 DEF St!TypeOK
    <3>5. QED
      BY <2>1, <2>6, <3>1, <3>2, <3>3, <3>4 DEF St!TypeOK
  <2>8. KeysAreKnown'
    <3>1. ASSUME NEW w \in St!Var, w \in ThreadLocal, var'[w] = run PROVE InTable(w)'
      <4>1. CASE table' = Append(table, v)
        <5>1. /\ Len(table') = Len(table) + 1 /\ table'[Len(table) + 1] = v
              /\ \A i \in 1 .. Len(table) : table'[i] = table[i]
          BY <2>5, <4>1
        <5>2. Len(table) + 1 \in 1 .. Len(table') /\ \A i \in 1 .. Len(table) : i \in 1 .. Len(table')
          BY <2>5, <5>1
        <5>3. w = v => InTable(w)'
          BY <5>1, <5>2 DEF InTable
        <5>4. InTable(w) => InTable(w)'
          BY <5>1, <5>2 DEF InTable
        <5>5. w # v => InTable(w)
          BY <2>2, <2>3, <3>1 DEF KeysAreKnown, St!TypeOK
        <5>6. QED
          BY <5>3, <5>4, <5>5
      <4>2. CASE UNCHANGED table /\ (UNCHANGED var \/ (v \notin ThreadLocal /\ var' = [var EXCEPT ![v] = run]))
        <5>1. var[w] = run
          BY <3>1, <4>2 DEF St!TypeOK
        <5>2. QED
          BY <2>3, <3>1, <4>2, <5>1 DEF KeysAreKnown, InTable
      <4>3. QED
        BY <2>2, <4>1, <4>2
    <3>2. QED
      BY <2>1, <2>6, <3>1 DEF KeysAreKnown
  <2>9. OffIsEmpty'
    BY <2>1, <2>3 DEF OffIsEmpty
  <2>10. QED
    BY <2>4, <2>6, <2>7, <2>8, <2>9
<1>3. QED
  BY <1>1, <1>2

(* ... and the ends of their constructors *)
LEMMA ConstructedKeeps ==
  ASSUME StaticsInv, NEW t \in Thread, St!Constructed(t) PROVE StaticsInv'
<1> USE DEF StaticsInv
<1>1. PICK n : n = Len(ctor[t])
  OBVIOUS
<1>2. PICK c : c = ctor[t][n]
  OBVIOUS
<1>3. /\ ctor \in [Thread -> Seq(Slow)] /\ ctor[t] \in Seq(Slow) /\ n \in Nat /\ n \in 1 .. n /\ c \in Slow
      /\ var \in [St!Var -> Nat \cup {None}] /\ run \in Nat
  <2>1. ctor[t] \in Seq(Slow) /\ ctor[t] # <<>>
    BY DEF St!TypeOK, St!Constructed
  <2>2. n \in Nat /\ n # 0
    BY <1>1, <2>1
  <2>3. QED
    BY <1>1, <1>2, <2>1, <2>2 DEF St!TypeOK
<1>4. c \in St!Var /\ c \notin ThreadLocal
  BY <1>3, StaticsAssumption DEF St!StaticsConstants, St!Var
<1>5. /\ var' = [var EXCEPT ![c] = run] /\ ctor' = [ctor EXCEPT ![t] = SubSeq(ctor[t], 1, n - 1)]
      /\ UNCHANGED <<run, step, alive, locals, table, slots, at, leaked, cursor, dtor, behind, late>>
  BY <1>1, <1>2 DEF St!Constructed, St!Last, St!Front
<1>6. Running /\ step # "off"
  BY ActiveRuns DEF St!Constructed, Running
<1>7. /\ ctor'[t] \in Seq(Slow) /\ Len(ctor'[t]) = n - 1
      /\ \A i \in 1 .. Len(ctor'[t]) : ctor'[t][i] = ctor[t][i]
  <2>1. ctor'[t] = SubSeq(ctor[t], 1, Len(ctor[t]) - 1)
    BY <1>1, <1>3, <1>5
  <2>2. Len(ctor[t]) # 0
    BY <1>1, <1>3
  <2>3. QED
    BY <1>1, <1>3, <2>1, <2>2, ShorterSequence
<1>8. ASSUME NEW u \in Thread, NEW i \in 1 .. Len(ctor'[u])
      PROVE  i \in 1 .. Len(ctor[u]) /\ ctor'[u][i] = ctor[u][i] /\ ~(u = t /\ i = n)
  <2>1. CASE u = t
    BY <1>1, <1>3, <1>7, <2>1
  <2>2. CASE u # t
    BY <1>3, <1>5, <2>2
  <2>3. QED
    BY <2>1, <2>2
<1>9. <<run, c>> \in late \/ InProgress(t, n)
  BY <1>1, <1>2, <1>3, <1>6 DEF CtorsAreFound
<1>10. \A w \in St!Var : var'[w] = IF w = c THEN run ELSE var[w]
  BY <1>3, <1>4, <1>5
<1>11. St!TypeOK' /\ OffIsEmpty'
  <2>1. ctor' \in [Thread -> Seq(Slow)]
    BY <1>3, <1>5, <1>7
  <2>2. QED
    BY <1>3, <1>5, <1>6, <2>1 DEF St!TypeOK, OffIsEmpty
<1>12. StepsAreCounted' /\ LinkedIsLate'
  BY <1>3, <1>5, <1>10 DEF StepsAreCounted, LinkedIsLate, Running
<1>13. SetIsFound'
  <2>1. /\ step = "main" => IsLocal(c, Len(locals)) \/ <<run, c>> \in late
        /\ step = "locals" => IsLocal(c, cursor) \/ <<run, c>> \in late
        /\ step = "globals" => <<run, c>> \in late
    BY <1>2, <1>9 DEF InProgress
  <2>2. \A w, m : IsLocal(w, m)' <=> IsLocal(w, m)
    BY <1>5 DEF IsLocal
  <2>3. ASSUME step = "main" PROVE SetIsFound'
    BY <1>5, <1>10, <2>1, <2>3 DEF SetIsFound, IsLocal, IsGlobal
  <2>4. ASSUME step = "locals" PROVE SetIsFound'
    BY <1>5, <1>10, <2>1, <2>4 DEF SetIsFound, IsLocal, IsGlobal
  <2>5. ASSUME step = "globals" PROVE SetIsFound'
    BY <1>5, <1>10, <2>1, <2>5 DEF SetIsFound, IsLocal, IsGlobal
  <2>6. QED
    BY <1>6, <2>3, <2>4, <2>5 DEF Running
<1>14. CtorsAreFound'
  <2> SUFFICES ASSUME NEW u \in Thread, NEW i \in 1 .. Len(ctor'[u]), <<run, ctor'[u][i]>> \notin late
               PROVE  InProgress(u, i)'
    BY <1>5 DEF CtorsAreFound
  <2>1. i \in 1 .. Len(ctor[u]) /\ ctor'[u][i] = ctor[u][i] /\ ~(u = t /\ i = n)
    BY <1>8
  <2>2. InProgress(u, i)
    BY <1>6, <2>1 DEF CtorsAreFound
  <2>3. ctor[u][i] \in St!Var /\ ctor[u][i] # c
    <3>1. ctor[u][i] # c
      BY <1>1, <1>2, <1>3, <2>1, <2>2 DEF InProgress
    <3>2. ctor[u] \in Seq(Slow) /\ Slow \subseteq St!Var
      BY <1>3, StaticsAssumption DEF St!StaticsConstants, St!Var
    <3>3. QED
      BY <2>1, <3>1, <3>2
  <2>4. var'[ctor'[u][i]] = None
    BY <1>10, <2>1, <2>2, <2>3 DEF InProgress
  <2>5. ASSUME NEW x \in Thread, NEW j \in 1 .. Len(ctor'[x]), ctor'[x][j] = ctor'[u][i]
        PROVE  x = u /\ j = i
    BY <1>8, <2>1, <2>2, <2>5 DEF InProgress
  <2>6. \/ step' = "main" /\ IsLocal(ctor[u][i], Len(locals))'
        \/ step' = "locals" /\ IsLocal(ctor[u][i], cursor)'
    BY <1>5, <2>1, <2>2 DEF InProgress, IsLocal
  <2>7. QED
    BY <2>1, <2>4, <2>5, <2>6 DEF InProgress, IsLocal
<1>15. KeysAreKnown' /\ PassedIsBehind'
  <2>1. ASSUME NEW w \in St!Var, w \in ThreadLocal, var'[w] = run' PROVE InTable(w)'
    BY <1>4, <1>5, <1>6, <1>10, <2>1 DEF KeysAreKnown, InTable
  <2>2. QED
    BY <1>5, <2>1 DEF KeysAreKnown, PassedIsBehind, Destroying
<1>16. QED
  BY <1>11, <1>12, <1>13, <1>14, <1>15

(* The key of a thread-local variable is its last place in the table. *)
LEMMA KeyIsKnown ==
  ASSUME table \in Seq(St!Var), NEW v, InTable(v) PROVE St!Key(v) \in 1 .. Len(table)
<1> DEFINE C == {i \in 1 .. Len(table) : table[i] = v}
<1>1. Len(table) \in Nat /\ DOMAIN table = 1 .. Len(table)
  OBVIOUS
<1>2. C \in SUBSET Nat /\ C # {} /\ \A i \in C : i <= Len(table)
  BY <1>1 DEF InTable
<1>3. PICK m \in C : \A i \in C : m >= i
  <2> HIDE DEF C
  <2>1. QED
    BY <1>1, <1>2, GreatestNatural
<1>4. m \in DOMAIN table /\ table[m] = v /\ \A j \in DOMAIN table : table[j] = v => j <= m
  <2>1. ASSUME NEW j \in DOMAIN table, table[j] = v PROVE j <= m
    <3>1. j \in C
      BY <1>1, <2>1
    <3>2. m >= j /\ m \in Nat /\ j \in Nat
      BY <1>2, <1>3, <3>1
    <3>3. QED
      BY <3>2
  <2>2. QED
    BY <1>1, <2>1
<1>5. QED
  BY <1>1, <1>4 DEF St!Key

(* Later visits and accesses *)
LEMMA AccessSlotKeeps ==
  ASSUME StaticsInv, NEW t \in Thread, NEW v \in St!Var, St!AccessSlot(t, v) PROVE StaticsInv'
<1> USE DEF StaticsInv
<1>1. /\ v \in ThreadLocal /\ var[v] = run /\ St!Touch(t, St!Key(v))
      /\ UNCHANGED <<run, step, alive, var, locals, ctor, table, at, leaked, cursor, dtor, late>>
  BY DEF St!AccessSlot
<1>2. Running /\ step # "off"
  BY ActiveRuns DEF St!AccessSlot, Running
<1>3. table \in Seq(St!Var) /\ Len(table) \in Nat /\ Len(table) <= Len(table)
  BY DEF St!TypeOK
<1>4. InTable(v)
  BY <1>1, <1>2 DEF KeysAreKnown
<1>5. St!Key(v) \in 1 .. Len(table) /\ St!Key(v) \in Nat
  BY <1>3, <1>4, KeyIsKnown
<1>6. /\ slots' \in [Thread -> SUBSET Nat] /\ behind' \subseteq Thread \X Nat /\ PassedIsBehind'
      /\ \A u \in Thread : \A i \in slots'[u] : i \in 1 .. Len(table)
  BY <1>1, <1>2, <1>3, <1>5, TouchKeeps
<1>7. St!TypeOK' /\ OffIsEmpty'
  BY <1>1, <1>2, <1>6 DEF St!TypeOK, OffIsEmpty
<1>8. KeysAreKnown'
  BY <1>1, <1>6, RegistrationStays DEF KeysAreKnown
<1>9. QED
  BY <1>1, <1>6, <1>7, <1>8, RegistrationStays

(* A thread starts. *)
LEMMA SpawnKeeps == ASSUME StaticsInv, NEW t \in Thread, St!Spawn(t) PROVE StaticsInv'
<1> USE DEF StaticsInv, St!Spawn
<1>1. St!TypeOK' /\ OffIsEmpty'
  BY DEF St!TypeOK, OffIsEmpty
<1>2. KeysAreKnown' /\ PassedIsBehind'
  BY RegistrationStays DEF KeysAreKnown, PassedIsBehind, Destroying
<1>3. QED
  BY <1>1, <1>2, RegistrationStays

(* A leaving thread destroys its next slot: the slots that stay behind it were already there. *)
LEMMA DestroySlotKeeps ==
  ASSUME StaticsInv, NEW t \in Thread, St!DestroySlot(t) PROVE StaticsInv'
<1> USE DEF StaticsInv
<1>1. PICK i \in St!Ahead(t) :
        /\ \A j \in St!Ahead(t) : i <= j
        /\ slots' = [slots EXCEPT ![t] = @ \ {i}] /\ at' = [at EXCEPT ![t] = i]
  BY DEF St!DestroySlot
<1>2. UNCHANGED <<run, step, alive, var, locals, ctor, table, leaked, cursor, dtor, behind, late>>
  BY DEF St!DestroySlot
<1>3. step # "off"
  BY ActiveRuns DEF St!DestroySlot, St!Leaves, Running
<1>4. slots \in [Thread -> SUBSET Nat] /\ at \in [Thread -> Nat] /\ Len(table) \in Nat
  BY DEF St!TypeOK
<1>5. i \in slots[t] /\ i \in Nat /\ at[t] \in Nat /\ at[t] < i
  BY <1>4 DEF St!Ahead
<1>6. \A u \in Thread : slots'[u] \subseteq slots[u]
  BY <1>1, <1>4
<1>7. St!TypeOK' /\ OffIsEmpty'
  BY <1>1, <1>2, <1>3, <1>4, <1>5 DEF St!TypeOK, OffIsEmpty
<1>8. KeysAreKnown'
  BY <1>2, <1>6, RegistrationStays DEF KeysAreKnown
<1>9. PassedIsBehind'
  <2>1. ASSUME NEW u \in Thread, NEW j \in slots'[u], j <= at'[u] PROVE <<u, j>> \in behind'
    <3>1. j \in slots[u]
      BY <1>6
    <3>2. CASE u = t
      <4>1. j # i /\ at'[u] = i
        BY <1>1, <1>4, <3>2
      <4>2. j \in 1 .. Len(table)
        BY <3>1 DEF KeysAreKnown
      <4>3. j < i
        BY <1>4, <1>5, <2>1, <4>1, <4>2
      <4>4. j \notin St!Ahead(t)
        BY <1>1, <1>4, <1>5, <4>2, <4>3
      <4>5. j <= at[t]
        BY <1>4, <1>5, <3>1, <3>2, <4>2, <4>4 DEF St!Ahead
      <4>6. QED
        BY <1>2, <3>1, <3>2, <4>5 DEF PassedIsBehind
    <3>3. CASE u # t
      BY <1>1, <1>2, <1>4, <2>1, <3>1, <3>3 DEF PassedIsBehind
    <3>4. QED
      BY <3>2, <3>3
  <2>2. Destroying' => \A j \in slots'[Main] : <<Main, j>> \in behind'
    <3>1. Main \in Thread
      BY StaticsAssumption DEF St!StaticsConstants
    <3>2. QED
      BY <1>2, <1>6, <3>1 DEF PassedIsBehind, Destroying
  <2>3. QED
    BY <1>2, <2>1, <2>2 DEF PassedIsBehind
<1>10. QED
  BY <1>2, <1>7, <1>8, <1>9, RegistrationStays

(* When the loop of Destroy has come to its end, what a thread has left was taken behind it. *)
LEMMA NoneAhead ==
  ASSUME StaticsInv, NEW t \in Thread, St!Ahead(t) = {}
  PROVE  \A i \in slots[t] : <<t, i>> \in behind
<1> USE DEF StaticsInv
<1> SUFFICES ASSUME NEW i \in slots[t] PROVE <<t, i>> \in behind
  OBVIOUS
<1>1. at[t] \in Nat /\ Len(table) \in Nat
  BY DEF St!TypeOK
<1>2. i \in 1 .. Len(table)
  BY DEF KeysAreKnown
<1>3. i <= at[t]
  BY <1>1, <1>2 DEF St!Ahead
<1>4. QED
  BY <1>3 DEF PassedIsBehind

(* A thread other than main exits, *)
LEMMA ThreadExitKeeps ==
  ASSUME StaticsInv, NEW t \in Thread, St!ThreadExit(t) PROVE StaticsInv'
<1> USE DEF StaticsInv
<1>1. /\ t # Main /\ St!Ahead(t) = {} /\ leaked' = leaked \cup ({t} \X slots[t])
      /\ slots' = [slots EXCEPT ![t] = {}] /\ at' = [at EXCEPT ![t] = 0] /\ alive' = alive \ {t}
      /\ UNCHANGED <<run, step, var, locals, ctor, table, cursor, dtor, behind, late>>
  BY DEF St!ThreadExit
<1>2. step # "off"
  BY ActiveRuns DEF St!ThreadExit, St!Leaves, Running
<1>3. slots \in [Thread -> SUBSET Nat] /\ at \in [Thread -> Nat]
  BY DEF St!TypeOK
<1>4. leaked' \subseteq behind
  BY <1>1, NoneAhead DEF PassedIsBehind
<1>5. St!TypeOK' /\ OffIsEmpty'
  BY <1>1, <1>2, <1>3, <1>4 DEF St!TypeOK, OffIsEmpty
<1>6. KeysAreKnown'
  BY <1>1, <1>3, RegistrationStays DEF KeysAreKnown
<1>7. PassedIsBehind'
  <2>1. \A u \in Thread : \A j \in slots'[u] : j \in slots[u] /\ u # t /\ at'[u] = at[u]
    BY <1>1, <1>3
  <2>2. slots'[Main] = slots[Main]
    BY <1>1, <1>3, StaticsAssumption DEF St!StaticsConstants
  <2>3. QED
    BY <1>1, <1>4, <2>1, <2>2 DEF PassedIsBehind, Destroying
<1>8. QED
  BY <1>1, <1>5, <1>6, <1>7, RegistrationStays

(* ... and main returns. The loop over the locals starts behind the last of them. *)
LEMMA MainReturnsKeeps == ASSUME StaticsInv, St!MainReturns PROVE StaticsInv'
<1> USE DEF StaticsInv
<1>1. /\ step = "main" /\ St!Ahead(Main) = {} /\ at' = [at EXCEPT ![Main] = 0]
      /\ step' = "locals" /\ cursor' = Len(locals)
      /\ UNCHANGED <<run, alive, var, locals, ctor, table, slots, leaked, dtor, behind, late>>
  BY DEF St!MainReturns, St!Leaves
<1>2. Main \in Thread /\ Len(locals) \in Nat /\ at \in [Thread -> Nat] /\ Running
  BY <1>1, StaticsAssumption DEF St!StaticsConstants, St!TypeOK, Running
<1>3. St!TypeOK' /\ OffIsEmpty' /\ StepsAreCounted' /\ LinkedIsLate'
  BY <1>1, <1>2 DEF St!TypeOK, OffIsEmpty, StepsAreCounted, LinkedIsLate, Running
<1>4. SetIsFound'
  BY <1>1, <1>2 DEF SetIsFound, IsGlobal, IsLocal
<1>5. CtorsAreFound'
  <2> SUFFICES ASSUME NEW u \in Thread, NEW i \in 1 .. Len(ctor[u]), <<run, ctor[u][i]>> \notin late
               PROVE  InProgress(u, i)'
    BY <1>1 DEF CtorsAreFound
  <2>1. InProgress(u, i)
    BY <1>2 DEF CtorsAreFound
  <2>2. QED
    BY <1>1, <2>1 DEF InProgress, IsLocal
<1>6. KeysAreKnown'
  BY <1>1, <1>2 DEF KeysAreKnown, InTable, Running
<1>7. PassedIsBehind'
  <2>1. \A j \in slots[Main] : <<Main, j>> \in behind
    BY <1>1, <1>2, NoneAhead
  <2>2. ASSUME NEW u \in Thread, NEW j \in slots[u], j <= at'[u] PROVE <<u, j>> \in behind
    BY <1>1, <1>2, <2>1, <2>2 DEF PassedIsBehind
  <2>3. QED
    BY <1>1, <2>1, <2>2 DEF PassedIsBehind
<1>8. QED
  BY <1>3, <1>4, <1>5, <1>6, <1>7

(* A local is destroyed; the constructors in progress are those of others. *)
LEMMA DestroyLocalKeeps == ASSUME StaticsInv, St!DestroyLocal PROVE StaticsInv'
<1>1. CASE St!Panics
  BY <1>1, PanicsKeep
<1>2. CASE ~St!Panics
  <2> USE DEF StaticsInv
  <2>1. PICK x : x = locals[cursor]
    OBVIOUS
  <2>2. step = "locals" /\ cursor > 0 /\ St!Dtor(x) /\ (x \in ThreadLocal \/ var[x] = run)
    BY <1>2, <2>1 DEF St!DestroyLocal
  <2>3. PICK n \in Nat : n = cursor - 1 /\ cursor = n + 1 /\ cursor \in Nat /\ cursor <= Len(locals)
    BY <2>2 DEF SetIsFound, St!TypeOK
  <2>4. x \in Locals /\ x \in St!Var /\ None \notin Nat /\ run \in Nat /\ Slow \subseteq St!Var \ ThreadLocal
    <3>1. locals \in Seq(Locals) /\ Len(locals) \in Nat
      BY DEF St!TypeOK
    <3>2. QED
      BY <2>1, <2>3, <3>1, StaticsAssumption DEF St!StaticsConstants, St!Var, St!TypeOK
  <2>5. /\ var' = [var EXCEPT ![x] = None] /\ cursor' = n /\ dtor' \in St!Var \cup {None}
        /\ UNCHANGED <<run, step, alive, locals, ctor, table, slots, at, leaked, behind, late>>
    BY <2>2, <2>3, <2>4 DEF St!Dtor
  <2>6. \A w \in St!Var : var'[w] = IF w = x THEN None ELSE var[w]
    BY <2>4, <2>5 DEF St!TypeOK
  <2>7. ASSUME NEW w, IsLocal(w, cursor), w # x PROVE IsLocal(w, n)
    <3>1. PICK i \in 1 .. cursor : w = locals[i]
      BY <2>7 DEF IsLocal
    <3>2. i \in 1 .. n
      BY <2>1, <2>3, <2>7, <3>1
    <3>3. QED
      BY <3>1, <3>2 DEF IsLocal
  <2>8. St!TypeOK' /\ OffIsEmpty' /\ LinkedIsLate'
    BY <2>2, <2>4, <2>5 DEF St!TypeOK, OffIsEmpty, LinkedIsLate
  <2>9. StepsAreCounted'
    BY <2>2, <2>5, <2>6 DEF StepsAreCounted, Running
  <2>10. SetIsFound'
    <3>1. ASSUME NEW w \in St!Var, var'[w] # None
          PROVE  IsGlobal(w, Len(Globals)) \/ IsLocal(w, n) \/ <<var'[w], w>> \in late
      BY <2>2, <2>6, <2>7, <3>1 DEF SetIsFound
    <3>2. n <= Len(locals)
      <4>1. Len(locals) \in Nat
        BY DEF St!TypeOK
      <4>2. QED
        BY <2>3, <4>1
    <3>3. QED
      BY <2>2, <2>5, <3>1, <3>2 DEF SetIsFound, IsGlobal, IsLocal
  <2>11. CtorsAreFound'
    <3> SUFFICES ASSUME NEW u \in Thread, NEW i \in 1 .. Len(ctor[u]), <<run, ctor[u][i]>> \notin late
                 PROVE  InProgress(u, i)'
      BY <2>5 DEF CtorsAreFound
    <3>1. InProgress(u, i)
      BY <2>2 DEF CtorsAreFound, Running
    <3>2. PICK c \in St!Var \ ThreadLocal : c = ctor[u][i]
      <4>1. ctor[u] \in Seq(Slow)
        BY DEF St!TypeOK
      <4>2. QED
        BY <2>4, <4>1
    <3>3. var[c] = None /\ IsLocal(c, cursor)
      BY <2>2, <3>1, <3>2 DEF InProgress
    <3>4. c # x
      BY <2>2, <2>4, <3>2, <3>3
    <3>5. var'[c] = None /\ IsLocal(c, n)
      BY <2>6, <2>7, <3>2, <3>3, <3>4
    <3>6. QED
      BY <2>2, <2>5, <3>1, <3>2, <3>5 DEF InProgress, IsLocal
  <2>12. KeysAreKnown' /\ PassedIsBehind'
    <3>1. ASSUME NEW w \in St!Var, w \in ThreadLocal, var'[w] = run' PROVE InTable(w)'
      BY <2>2, <2>4, <2>5, <2>6, <3>1 DEF KeysAreKnown, InTable, Running
    <3>2. QED
      BY <2>5, <3>1 DEF KeysAreKnown, PassedIsBehind, Destroying
  <2>13. QED
    BY <2>8, <2>9, <2>10, <2>11, <2>12
<1>3. QED
  BY <1>1, <1>2

(* The locals are unlinked. *)
LEMMA UnlinkLocalsKeeps == ASSUME StaticsInv, St!UnlinkLocals PROVE StaticsInv'
<1> USE DEF StaticsInv, St!UnlinkLocals
<1>1. Len(Globals) \in Nat /\ Len(Globals) <= Len(Globals)
  BY GlobalsTyped
<1>2. \A w : ~IsLocal(w, cursor)
  BY DEF IsLocal
<1>3. St!TypeOK' /\ OffIsEmpty' /\ StepsAreCounted' /\ LinkedIsLate'
  BY <1>1 DEF St!TypeOK, OffIsEmpty, StepsAreCounted, LinkedIsLate, Running
<1>4. SetIsFound'
  BY <1>1, <1>2 DEF SetIsFound, IsGlobal
<1>5. CtorsAreFound'
  BY <1>2 DEF CtorsAreFound, InProgress, Running
<1>6. KeysAreKnown' /\ PassedIsBehind'
  BY DEF KeysAreKnown, InTable, PassedIsBehind, Running, Destroying
<1>7. QED
  BY <1>3, <1>4, <1>5, <1>6

(* A global is destroyed. *)
LEMMA DestroyGlobalKeeps == ASSUME StaticsInv, St!DestroyGlobal PROVE StaticsInv'
<1> USE DEF StaticsInv
<1>1. PICK x : x = Globals[cursor]
  OBVIOUS
<1>2. step = "globals" /\ cursor > 0 /\ St!Dtor(x)
  BY <1>1 DEF St!DestroyGlobal
<1>3. PICK n \in Nat : n = cursor - 1 /\ cursor = n + 1 /\ cursor \in Nat /\ cursor <= Len(Globals)
  BY <1>2 DEF SetIsFound, St!TypeOK
<1>4. x \in St!Var /\ None \notin Nat /\ run \in Nat
  BY <1>1, <1>3, GlobalsTyped, StaticsAssumption DEF St!StaticsConstants, St!TypeOK
<1>5. /\ var' = [var EXCEPT ![x] = None] /\ cursor' = n /\ dtor' \in St!Var \cup {None}
      /\ UNCHANGED <<run, step, alive, locals, ctor, table, slots, at, leaked, behind, late>>
  BY <1>2, <1>3, <1>4 DEF St!Dtor
<1>6. \A w \in St!Var : var'[w] = IF w = x THEN None ELSE var[w]
  BY <1>4, <1>5 DEF St!TypeOK
<1>7. ASSUME NEW w, IsGlobal(w, cursor), w # x PROVE IsGlobal(w, n)
  <2>1. PICK i \in 1 .. cursor : w = Globals[i]
    BY <1>7 DEF IsGlobal
  <2>2. i \in 1 .. n
    BY <1>1, <1>3, <1>7, <2>1
  <2>3. QED
    BY <2>1, <2>2 DEF IsGlobal
<1>8. St!TypeOK' /\ OffIsEmpty' /\ LinkedIsLate'
  BY <1>2, <1>4, <1>5 DEF St!TypeOK, OffIsEmpty, LinkedIsLate
<1>9. StepsAreCounted'
  BY <1>2, <1>5, <1>6 DEF StepsAreCounted, Running
<1>10. SetIsFound'
  <2>1. ASSUME NEW w \in St!Var, var'[w] # None PROVE IsGlobal(w, n) \/ <<var'[w], w>> \in late
    BY <1>2, <1>6, <1>7, <2>1 DEF SetIsFound
  <2>2. n <= Len(Globals)
    BY <1>3, GlobalsTyped
  <2>3. QED
    BY <1>2, <1>5, <2>1, <2>2 DEF SetIsFound, IsGlobal
<1>11. CtorsAreFound'
  BY <1>2, <1>5 DEF CtorsAreFound, InProgress, Running
<1>12. KeysAreKnown' /\ PassedIsBehind'
  <2>1. ASSUME NEW w \in St!Var, w \in ThreadLocal, var'[w] = run' PROVE InTable(w)'
    BY <1>2, <1>4, <1>5, <1>6, <2>1 DEF KeysAreKnown, InTable, Running
  <2>2. QED
    BY <1>5, <2>1 DEF KeysAreKnown, PassedIsBehind, Destroying
<1>13. QED
  BY <1>8, <1>9, <1>10, <1>11, <1>12

(* A simulation is over. What is set or linked then came too late. *)
LEMMA OverKeeps ==
  ASSUME StaticsInv, St!Over, var' \in [St!Var -> Nat \cup {None}], locals' \in Seq(Locals),
         \A v \in St!Var : var'[v] # None => var'[v] = var[v] /\ <<var[v], v>> \in late,
         \A i \in 1 .. Len(locals') : \E r \in 1 .. run : <<r, locals'[i]>> \in late
  PROVE  StaticsInv'
<1> USE DEF StaticsInv, St!Over
<1>1. St!TypeOK'
  BY DEF St!TypeOK
<1>2. OffIsEmpty' /\ LinkedIsLate' /\ SetIsFound'
  BY DEF OffIsEmpty, LinkedIsLate, SetIsFound
<1>3. StepsAreCounted' /\ CtorsAreFound'
  BY DEF StepsAreCounted, CtorsAreFound, Running
<1>4. KeysAreKnown' /\ PassedIsBehind'
  BY DEF KeysAreKnown, PassedIsBehind, Running, Destroying
<1>5. QED
  BY <1>1, <1>2, <1>3, <1>4

(* BurnVars finds what is set, at any time of a simulation. *)
LEMMA BurnVarsKeeps == ASSUME StaticsInv, Running, St!Burn PROVE StaticsInv'
<1> USE DEF StaticsInv
<1>1. St!Over /\ var' = St!Burnt /\ locals' = <<>>
  BY DEF St!Burn
<1>2. /\ locals \in Seq(Locals) /\ Len(locals) \in Nat /\ Len(Globals) \in Nat /\ cursor \in Nat
      /\ var \in [St!Var -> Nat \cup {None}]
  BY GlobalsTyped DEF St!TypeOK
<1>3. ASSUME NEW v \in St!Var, var'[v] # None PROVE var'[v] = var[v] /\ <<var[v], v>> \in late
  <2>1. var'[v] = var[v] /\ v \notin St!Range(Globals) /\ v \notin St!Range(locals)
    BY <1>1, <1>3 DEF St!Burnt
  <2>2. ~IsGlobal(v, Len(Globals)) /\ ~IsLocal(v, Len(locals))
    BY <1>2, <2>1, GlobalsTyped, Elements DEF IsLocal
  <2>3. step = "locals" => ~IsLocal(v, cursor)
    BY <1>2, <2>2 DEF SetIsFound, IsLocal
  <2>4. step = "globals" => ~IsGlobal(v, cursor)
    BY <1>2, <2>2 DEF SetIsFound, IsGlobal
  <2>5. QED
    BY <1>3, <2>1, <2>2, <2>3, <2>4 DEF SetIsFound, Running
<1>4. var' \in [St!Var -> Nat \cup {None}]
  BY <1>1, <1>2 DEF St!Burnt
<1>5. QED
  BY <1>1, <1>3, <1>4, OverKeeps

(* The main thread exits. *)
LEMMA MainCompletedKeeps == ASSUME StaticsInv, St!MainCompleted PROVE StaticsInv'
<1> USE DEF StaticsInv
<1>1. step = "globals" /\ cursor = 0
  BY DEF St!MainCompleted
<1>2. CASE St!Panics
  BY <1>2, PanicsKeep
<1>3. CASE St!Burn
  BY <1>1, <1>3, BurnVarsKeeps DEF Running
<1>4. CASE St!Over /\ UNCHANGED <<var, locals>>
  <2>1. \A v \in St!Var : var[v] # None => <<var[v], v>> \in late
    BY <1>1 DEF SetIsFound, IsGlobal
  <2>2. \A i \in 1 .. Len(locals) : \E r \in 1 .. run : <<r, locals[i]>> \in late
    BY <1>1 DEF LinkedIsLate
  <2>3. QED
    BY <1>4, <2>1, <2>2, OverKeeps DEF St!TypeOK
<1>5. QED
  BY <1>2, <1>3, <1>4 DEF St!MainCompleted

(* No step breaks the invariant. *)
LEMMA StaticsStep == ASSUME StaticsInv, [St!Next]_(St!vars) PROVE StaticsInv'
<1>1. CASE UNCHANGED St!vars
  BY <1>1, StaticsStutter
<1>2. CASE St!ConstructGlobalVars \/ St!MainReturns
  BY <1>2, ConstructKeeps, MainReturnsKeeps
<1>3. CASE St!DestroyLocal \/ St!UnlinkLocals \/ St!DestroyGlobal \/ St!MainCompleted
  BY <1>3, DestroyLocalKeeps, UnlinkLocalsKeeps, DestroyGlobalKeeps, MainCompletedKeeps
<1>4. CASE St!BurnVars
  BY <1>4, ActiveRuns, BurnVarsKeeps DEF St!BurnVars
<1>5. ASSUME NEW t \in Thread, NEW v \in St!Var,
             St!FirstVisit(t, v) \/ St!AccessSlot(t, v) \/ St!UseDead(t, v)
      PROVE  StaticsInv'
  BY <1>5, FirstVisitKeeps, AccessSlotKeeps, PanicsKeep DEF St!UseDead
<1>6. ASSUME NEW t \in Thread,
             St!Constructed(t) \/ St!Spawn(t) \/ St!DestroyFails(t) \/ St!DestroySlot(t) \/ St!ThreadExit(t)
      PROVE  StaticsInv'
  <2>1. St!DestroyFails(t) => StaticsInv'
    BY PanicsKeep DEF St!DestroyFails
  <2>2. QED
    BY <1>6, <2>1, ConstructedKeeps, SpawnKeeps, DestroySlotKeeps, ThreadExitKeeps
<1>7. QED
  BY <1>1, <1>2, <1>3, <1>4, <1>5, <1>6 DEF St!Next

(* The invariant of the statics: what is set, linked, under construction or in a slot is where the
   loops of DestroyVars, BurnVars and Destroy will come to it, or it is in one of the two histories. *)
THEOREM StaticsInvariant == St!Spec => []StaticsInv
<1>1. StaticsInv /\ [St!Next]_(St!vars) => StaticsInv'
  BY StaticsStep
<1>2. QED
  BY <1>1, StaticsInit, PTL DEF St!Spec

(* A thread that has gone has given back its slots (tls::Manager::Destroy), whichever thread took the
   key and while others take more, except those that destructors took behind the loop. *)
LEMMA SlotsReleased == StaticsInv => St!SlotsAreReleased
BY DEF StaticsInv, PassedIsBehind, Destroying, St!SlotsAreReleased, St!Left

(* However a simulation ends, and with whatever detached threads, a variable that is set or linked
   after it was registered after its main had returned (DestroyVars, BurnVars). *)
LEMMA StaticsReset == StaticsInv => St!StaticsAreReset
<1> SUFFICES ASSUME StaticsInv, step = "off"
             PROVE  /\ \A v \in St!Var : var[v] # None => <<var[v], v>> \in late
                    /\ \A v \in St!Range(locals) : \E r \in 1 .. run : <<r, v>> \in late
  BY DEF St!StaticsAreReset
<1>1. St!Range(locals) = {locals[i] : i \in 1 .. Len(locals)}
  BY Elements DEF StaticsInv, St!TypeOK
<1>2. QED
  BY <1>1 DEF StaticsInv, SetIsFound, LinkedIsLate

(* For any threads, variables, visits and uses by destructors, and however a simulation ends: only
   what is taken or registered behind the loops of tls::Manager::Destroy and of DestroyVars outlives
   its thread or its simulation. *)
THEOREM LatecomersOnly == St!Spec => []OnlyLatecomersStay
<1>1. StaticsInv => OnlyLatecomersStay
  BY SlotsReleased, StaticsReset DEF OnlyLatecomersStay, St!OnlyLatecomersStay
<1>2. QED
  BY <1>1, StaticsInvariant, PTL
=============================================================================
