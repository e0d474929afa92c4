---------------------------- MODULE ExploreProofs ----------------------------
(***************************************************************************)
(* The exploration, for every program and all limits. The first part is    *)
(* about the branches of the depth-first scheduler: the schedules that have *)
(* been run are smaller, in the lexicographic order of their indices, than *)
(* the one that is running, and every alternative of theirs has been taken *)
(* or is still ahead of it. The second part is about programs without      *)
(* waiting: the scheduler's state is determined by the word of picks, and  *)
(* the branches are the questions this word leaves open. The third part is *)
(* about both schedulers, the Recorder and the ReplayScheduler: a failed   *)
(* simulation is repeated.                                                 *)
(***************************************************************************)
EXTENDS Explore, FiniteSetTheorems, SequenceTheorems, TLAPS

(* Every set of naturals that is not empty has a least element, *)
LEMMA LeastNatural ==
  ASSUME NEW S \in SUBSET Nat, S # {} PROVE \E m \in S : \A n \in S : m <= n
<1> DEFINE R == OpToRel(<, Nat)
<1>1. \A m, n \in Nat : <<m, n>> \in R <=> m < n
  BY DEF OpToRel
<1>2. IsWellFoundedOn(R, Nat)
  BY NatLessThanWellFounded
<1> HIDE DEF R
<1>3. \E m \in S : \A n \in S : ~(<<n, m>> \in R)
  BY <1>2, WFMin
<1>4. PICK m \in S : \A n \in S : ~(<<n, m>> \in R)
  BY <1>3
<1>5. ASSUME NEW n \in S PROVE m <= n
  <2>1. m \in Nat /\ n \in Nat
    OBVIOUS
  <2>2. ~(n < m)
    BY <1>1, <1>4, <2>1, Zenon
  <2>3. QED
    BY <2>1, <2>2
<1>6. QED
  BY <1>5

(* ... and a greatest one, if it has a bound. *)
LEMMA GreatestNatural ==
  ASSUME NEW S \in SUBSET Nat, S # {}, NEW b \in Nat, \A n \in S : n <= b
  PROVE  \E m \in S : \A n \in S : m >= n
<1> DEFINE D == {b - n : n \in S}
<1>1. D \in SUBSET Nat /\ D # {}
  <2>1. \A n \in S : b - n \in Nat
    OBVIOUS
  <2>2. QED
    BY <2>1
<1>2. PICK d \in D : \A e \in D : d <= e
  BY <1>1, LeastNatural
<1>3. PICK m \in S : d = b - m
  OBVIOUS
<1>4. ASSUME NEW n \in S PROVE m >= n
  <2>1. b - n \in D
    OBVIOUS
  <2>2. b - m <= b - n /\ m \in Nat /\ n \in Nat
    BY <1>2, <1>3, <2>1
  <2>3. QED
    BY <2>2
<1>5. QED
  BY <1>4

(* Induction over the natural numbers, and over the subsets of a finite set *)
LEMMA NumbersInduction ==
  ASSUME NEW W, 0 \in W, \A n \in Nat : n \in W => n + 1 \in W PROVE Nat \subseteq W
<1> DEFINE S == {n \in Nat : n \notin W}
<1>1. ASSUME S # {} PROVE FALSE
  <2>1. PICK m \in S : \A n \in S : m <= n
    BY <1>1, LeastNatural
  <2>2. m \in Nat /\ m # 0
    OBVIOUS
  <2>3. PICK p : p = m - 1
    OBVIOUS
  <2>4. p \in Nat /\ p + 1 = m /\ ~(m <= p)
    BY <2>2, <2>3
  <2>5. p \notin S
    BY <2>1, <2>4
  <2>6. QED
    BY <2>1, <2>4, <2>5
<1>2. QED
  BY <1>1

-----------------------------------------------------------------------------
(* Branches *)

Question == {"Preempt", "PickNext", "WakeOne", "RandomChoice"}

Branch == {b \in [type : Question, alts : Nat \ {0}, index : Nat] : b.index < b.alts}

(* The first k branches are the same. *)
Same(s, d, k) == \A j \in 1 .. k : j \in DOMAIN s /\ j \in DOMAIN d /\ s[j] = d[j]

(* One of the simulations of S took alternative i at branch k of s. *)
TakenBy(S, s, k, i) == \E e \in S : k \in DOMAIN e[1] /\ Same(e[1], s, k - 1) /\ e[1][k].index = i

(* s follows d: the first branch where they differ is the same one, with a greater index. *)
Before(d, s) ==
  \E k \in DOMAIN d : /\ k \in DOMAIN s /\ Same(d, s, k - 1)
                      /\ d[k].alts = s[k].alts /\ d[k].index < s[k].index

(* Alternative i of branch k of d is not before s. *)
Ahead(s, d, k, i) == k \in DOMAIN s /\ Same(s, d, k - 1) /\ s[k].alts = d[k].alts /\ s[k].index <= i

Schedules(S) == \A e \in S : e[1] \in Seq(Branch)

(* After the n simulations of S, with the schedule s *)
Searched(S, s, n) ==
  /\ IsFiniteSet(S) /\ Cardinality(S) = n /\ Schedules(S) /\ s \in Seq(Branch)
  /\ \A e \in S : Before(e[1], s)
  /\ \A k \in DOMAIN s : \A i \in 0 .. s[k].index - 1 : TakenBy(S, s, k, i)
  /\ \A e \in S : \A k \in DOMAIN e[1] : \A i \in 0 .. e[1][k].alts - 1 :
       TakenBy(S, e[1], k, i) \/ Ahead(s, e[1], k, i)

(* ... when none is left *)
AllTaken(S, n) ==
  /\ IsFiniteSet(S) /\ Cardinality(S) = n /\ Schedules(S)
  /\ \A e \in S : \A k \in DOMAIN e[1] : \A i \in 0 .. e[1][k].alts - 1 : TakenBy(S, e[1], k, i)

(* A branch is a record with an index below its alternatives. *)
LEMMA BranchType ==
  ASSUME NEW b \in Branch
  PROVE  b.alts \in Nat \ {0} /\ b.index \in Nat /\ b.index < b.alts /\ b.type \in Question
         /\ b = [type |-> b.type, alts |-> b.alts, index |-> b.index]
  BY DEF Branch

(* Positions of a sequence *)
LEMMA Positions ==
  ASSUME NEW T, NEW s \in Seq(T)
  PROVE  DOMAIN s = 1 .. Len(s) /\ Len(s) \in Nat /\ \A k \in DOMAIN s : s[k] \in T /\ k \in Nat \ {0}
  OBVIOUS

(* A simulation that takes its first new branch goes left. *)
LEMMA SearchExtends ==
  ASSUME NEW S, NEW s, NEW n, Searched(S, s, n), NEW b \in Branch, b.index = 0
  PROVE  Searched(S, Append(s, b), n)
<1>1. PICK r : r = Append(s, b)
  OBVIOUS
<1>2. s \in Seq(Branch) /\ Schedules(S)
  BY DEF Searched
<1>3. r \in Seq(Branch) /\ DOMAIN s = 1 .. Len(s) /\ Len(s) \in Nat /\ DOMAIN r = 1 .. Len(s) + 1
      /\ r[Len(s) + 1] = b /\ \A k \in DOMAIN s : r[k] = s[k] /\ k \in DOMAIN r
  BY <1>1, <1>2
<1>4. ASSUME NEW d, NEW k \in DOMAIN s, Same(d, s, k - 1) PROVE Same(d, r, k - 1) /\ Same(r, d, k - 1)
  BY <1>3, <1>4 DEF Same
<1>5. ASSUME NEW d, NEW k \in DOMAIN s, Same(s, d, k - 1) PROVE Same(d, r, k - 1) /\ Same(r, d, k - 1)
  BY <1>3, <1>5 DEF Same
<1>6. ASSUME NEW e \in S PROVE Before(e[1], r)
  <2>1. PICK k \in DOMAIN e[1] : /\ k \in DOMAIN s /\ Same(e[1], s, k - 1)
                                 /\ e[1][k].alts = s[k].alts /\ e[1][k].index < s[k].index
    BY <1>6 DEF Searched, Before
  <2>2. k \in DOMAIN r /\ r[k] = s[k] /\ Same(e[1], r, k - 1)
    BY <1>3, <1>4, <2>1
  <2>3. QED
    BY <2>1, <2>2 DEF Before
<1>7. ASSUME NEW k \in DOMAIN r, NEW i \in 0 .. r[k].index - 1 PROVE TakenBy(S, r, k, i)
  <2>1. k \in DOMAIN s /\ r[k] = s[k]
    BY <1>3, <1>7
  <2>2. PICK e \in S : k \in DOMAIN e[1] /\ Same(e[1], s, k - 1) /\ e[1][k].index = i
    BY <2>1 DEF Searched, TakenBy
  <2>3. QED
    BY <1>4, <2>1, <2>2 DEF TakenBy
<1>8. ASSUME NEW e \in S, NEW k \in DOMAIN e[1], NEW i \in 0 .. e[1][k].alts - 1, Ahead(s, e[1], k, i)
      PROVE  Ahead(r, e[1], k, i)
  BY <1>3, <1>5, <1>8 DEF Ahead
<1>9. QED
  BY <1>1, <1>2, <1>3, <1>6, <1>7, <1>8 DEF Searched

(* The deepest branch with an alternative left *)
LEMMA Deepest ==
  ASSUME NEW s \in Seq(Branch), Open(s) # {}
  PROVE  /\ Max(Open(s)) \in DOMAIN s
         /\ s[Max(Open(s))].index + 1 < s[Max(Open(s))].alts
         /\ \A k \in DOMAIN s : k > Max(Open(s)) => s[k].index + 1 = s[k].alts
<1>1. DOMAIN s = 1 .. Len(s) /\ Len(s) \in Nat /\ Open(s) \in SUBSET Nat /\ Open(s) \subseteq DOMAIN s
  BY DEF Open
<1>2. \E m \in Open(s) : \A k \in Open(s) : m >= k
  <2>1. \A k \in Open(s) : k <= Len(s)
    BY <1>1
  <2>2. QED
    BY <1>1, <2>1, GreatestNatural
<1>3. PICK m : m = Max(Open(s))
  OBVIOUS
<1>4. m \in Open(s) /\ \A k \in Open(s) : m >= k
  BY <1>2, <1>3 DEF Max
<1>5. m \in DOMAIN s /\ s[m].index + 1 # s[m].alts
  BY <1>4 DEF Open
<1>6. s[m].index + 1 < s[m].alts
  BY <1>5, BranchType
<1>7. ASSUME NEW k \in DOMAIN s, k > m PROVE s[k].index + 1 = s[k].alts
  <2>1. k \notin Open(s)
    BY <1>1, <1>4, <1>7
  <2>2. QED
    BY <2>1 DEF Open
<1>8. QED
  BY <1>3, <1>5, <1>6, <1>7

(* What Backtrack does: a shorter schedule with a greater index at its end *)
LEMMA Backtracked ==
  ASSUME NEW s \in Seq(Branch), Open(s) # {}
  PROVE  \E m \in DOMAIN s :
           /\ DOMAIN Backtrack(s) = 1 .. m /\ Backtrack(s) \in Seq(Branch) /\ Len(Backtrack(s)) = m
           /\ \A k \in 1 .. m - 1 : Backtrack(s)[k] = s[k]
           /\ Backtrack(s)[m].alts = s[m].alts /\ Backtrack(s)[m].type = s[m].type
           /\ Backtrack(s)[m].index = s[m].index + 1
           /\ \A k \in DOMAIN s : k > m => s[k].index + 1 = s[k].alts
<1>1. PICK m : m = Max(Open(s))
  OBVIOUS
<1>2. m \in DOMAIN s /\ s[m].index + 1 < s[m].alts /\ \A k \in DOMAIN s : k > m => s[k].index + 1 = s[k].alts
  BY <1>1, Deepest
<1>3. PICK p : p = SubSeq(s, 1, m)
  OBVIOUS
<1>4. DOMAIN s = 1 .. Len(s) /\ Len(s) \in Nat /\ m \in Nat \ {0} /\ m <= Len(s)
  BY <1>2
<1>5. p \in Seq(Branch) /\ Len(p) = m /\ \A k \in 1 .. m : p[k] = s[k]
  BY <1>3, <1>4
<1>6. PICK r : r = [p EXCEPT ![m].index = p[m].index + 1]
  OBVIOUS
<1>7. Backtrack(s) = r
  BY <1>1, <1>3, <1>6 DEF Backtrack
<1>8. p[m] \in Branch /\ p[m] = s[m]
  BY <1>4, <1>5
<1>9. PICK b : b = [p[m] EXCEPT !.index = p[m].index + 1]
  OBVIOUS
<1>10. b \in Branch /\ b.alts = s[m].alts /\ b.type = s[m].type /\ b.index = s[m].index + 1
  <2>1. p[m] = [type |-> s[m].type, alts |-> s[m].alts, index |-> s[m].index]
    BY <1>8, BranchType
  <2>2. b = [type |-> s[m].type, alts |-> s[m].alts, index |-> s[m].index + 1]
    BY <1>8, <1>9, <2>1
  <2>3. s[m].alts \in Nat \ {0} /\ s[m].index \in Nat /\ s[m].type \in Question
    BY <1>8, BranchType
  <2>4. QED
    BY <1>2, <2>2, <2>3 DEF Branch
<1>11. DOMAIN p = 1 .. m
  BY <1>5
<1>12. r = [p EXCEPT ![m] = b]
  BY <1>6, <1>9
<1>13. DOMAIN r = 1 .. m /\ r[m] = b /\ \A k \in 1 .. m - 1 : r[k] = p[k]
  BY <1>4, <1>11, <1>12
<1>14. r \in Seq(Branch) /\ Len(r) = m
  BY <1>4, <1>5, <1>10, <1>12
<1>15. QED
  BY <1>2, <1>4, <1>5, <1>7, <1>10, <1>13, <1>14

(* The simulation that has just ended has taken its own alternatives, and of each branch those
   to the left of its own. *)
LEMMA OwnTaken ==
  ASSUME NEW S, NEW s, NEW n, Searched(S, s, n), NEW e, e[1] = s, NEW k \in DOMAIN s,
         NEW i \in Nat, i <= s[k].index
  PROVE  TakenBy(S \cup {e}, s, k, i)
<1>1. s \in Seq(Branch) /\ s[k].index \in Nat /\ k \in Nat /\ DOMAIN s = 1 .. Len(s) /\ Len(s) \in Nat
  BY BranchType DEF Searched
<1>2. CASE i = s[k].index
  <2>1. Same(e[1], s, k - 1)
    BY <1>1 DEF Same
  <2>2. QED
    BY <1>2, <2>1 DEF TakenBy
<1>3. CASE i < s[k].index
  <2>1. i \in 0 .. s[k].index - 1
    BY <1>1, <1>3
  <2>2. TakenBy(S, s, k, i)
    BY <2>1 DEF Searched
  <2>3. QED
    BY <2>2 DEF TakenBy
<1>4. QED
  BY <1>1, <1>2, <1>3

(* The schedule of the simulation that ends is a new one. *)
LEMMA SearchCounts ==
  ASSUME NEW S, NEW s, NEW n \in Nat, Searched(S, s, n), NEW e, e[1] = s
  PROVE  /\ IsFiniteSet(S \cup {e}) /\ Cardinality(S \cup {e}) = n + 1
         /\ Schedules(S \cup {e})
<1>1. e \notin S
  <2>1. SUFFICES ASSUME e \in S PROVE FALSE
    OBVIOUS
  <2>2. Before(s, s)
    BY <2>1 DEF Searched
  <2>3. PICK k \in DOMAIN s : s[k].index < s[k].index
    BY <2>2 DEF Before
  <2>4. s \in Seq(Branch)
    BY DEF Searched
  <2>5. s[k].index \in Nat
    BY <2>4, BranchType
  <2>6. QED
    BY <2>3, <2>5
<1>2. QED
  BY <1>1, FS_AddElement DEF Searched, Schedules

(* More simulations have taken more. *)
LEMMA TakenByMore ==
  ASSUME NEW S, NEW e, NEW s, NEW k, NEW i, TakenBy(S, s, k, i) PROVE TakenBy(S \cup {e}, s, k, i)
  BY DEF TakenBy

(* The last branch that is not ahead any more has just been taken. *)
LEMMA AheadIsTaken ==
  ASSUME NEW S, NEW d, NEW s \in Seq(Branch), NEW e, e[1] = s, NEW k, NEW i \in Nat,
         Ahead(s, d, k, i), i < d[k].alts, s[k].index + 1 = s[k].alts \/ s[k].index = i
  PROVE  TakenBy(S \cup {e}, d, k, i)
<1>1. k \in DOMAIN s /\ Same(s, d, k - 1) /\ s[k].alts = d[k].alts /\ s[k].index <= i
  BY DEF Ahead
<1>2. s[k].index = i
  BY <1>1, BranchType
<1>3. QED
  BY <1>1, <1>2 DEF TakenBy

(* The search goes on after a simulation: Backtrack leaves nothing behind. *)
LEMMA SearchBacktracks ==
  ASSUME NEW S, NEW s, NEW n \in Nat, Searched(S, s, n), NEW e, e[1] = s, Open(s) # {}
  PROVE  Searched(S \cup {e}, Backtrack(s), n + 1)
<1>1. s \in Seq(Branch) /\ Schedules(S)
  BY DEF Searched
<1>2. DOMAIN s = 1 .. Len(s) /\ Len(s) \in Nat
  BY <1>1
<1>3. PICK r : r = Backtrack(s)
  OBVIOUS
<1>4. PICK m \in DOMAIN s :
        /\ DOMAIN r = 1 .. m /\ r \in Seq(Branch)
        /\ \A k \in 1 .. m - 1 : r[k] = s[k]
        /\ r[m].alts = s[m].alts /\ r[m].index = s[m].index + 1
        /\ \A k \in DOMAIN s : k > m => s[k].index + 1 = s[k].alts
  BY <1>1, <1>3, Backtracked
<1>5. m \in Nat \ {0} /\ m \in DOMAIN r /\ s[m].index \in Nat /\ s[m].index < s[m].alts /\ s[m].alts \in Nat
  BY <1>1, <1>2, <1>4, BranchType
<1>6. ASSUME NEW d, NEW k \in 1 .. m, Same(d, s, k - 1) PROVE Same(d, r, k - 1)
  BY <1>2, <1>4, <1>6 DEF Same
<1>7. ASSUME NEW d, NEW k \in 1 .. m, Same(s, d, k - 1) PROVE Same(r, d, k - 1)
  BY <1>2, <1>4, <1>7 DEF Same
<1>8. ASSUME NEW d, NEW k \in 1 .. m, Same(d, s, k - 1), d[k].alts = s[k].alts, k \in DOMAIN d,
             d[k].index < r[k].index
      PROVE  Before(d, r)
  <2>1. k \in DOMAIN r /\ r[k].alts = s[k].alts
    BY <1>4, <1>5
  <2>2. QED
    BY <1>6, <1>8, <2>1 DEF Before
<1>9. Before(s, r)
  <2>1. Same(s, s, m - 1) /\ s[m].index < r[m].index
    BY <1>2, <1>4, <1>5 DEF Same
  <2>2. QED
    BY <1>5, <1>8, <2>1
<1>10. ASSUME NEW d \in S PROVE Before(d[1], r)
  <2>1. PICK k \in DOMAIN d[1] : /\ k \in DOMAIN s /\ Same(d[1], s, k - 1)
                                 /\ d[1][k].alts = s[k].alts /\ d[1][k].index < s[k].index
    BY <1>10 DEF Searched, Before
  <2>2. d[1] \in Seq(Branch) /\ k \in Nat \ {0} /\ d[1][k].index \in Nat /\ s[k].index \in Nat
    <3>1. d[1] \in Seq(Branch) /\ k \in Nat \ {0}
      BY <1>1, <1>2, <2>1 DEF Schedules
    <3>2. d[1][k] \in Branch /\ s[k] \in Branch
      BY <1>1, <2>1, <3>1
    <3>3. QED
      BY <3>1, <3>2, BranchType
  <2>3. CASE k < m
    <3>1. k \in 1 .. m /\ r[k] = s[k]
      BY <1>4, <1>5, <2>2, <2>3
    <3>2. QED
      BY <1>8, <2>1, <3>1
  <2>4. CASE k = m
    <3>1. k \in 1 .. m /\ d[1][k].index < r[k].index
      BY <1>4, <1>5, <2>1, <2>2, <2>4
    <3>2. QED
      BY <1>8, <2>1, <3>1
  <2>5. CASE k > m
    <3>1. m \in DOMAIN d[1] /\ d[1][m] = s[m] /\ Same(d[1], s, m - 1)
      BY <1>5, <2>1, <2>2, <2>5 DEF Same
    <3>2. m \in 1 .. m /\ d[1][m].index < r[m].index
      BY <1>4, <1>5, <3>1
    <3>3. QED
      BY <1>8, <3>1, <3>2
  <2>6. QED
    BY <1>5, <2>2, <2>3, <2>4, <2>5
<1>11. ASSUME NEW k \in DOMAIN r, NEW i \in 0 .. r[k].index - 1 PROVE TakenBy(S \cup {e}, r, k, i)
  <2>1. k \in 1 .. m /\ k \in DOMAIN s /\ i \in Nat /\ i <= s[k].index
    <3>1. k \in 1 .. m /\ k \in DOMAIN s /\ s[k].index \in Nat
      <4>1. k \in 1 .. m /\ k \in DOMAIN s
        BY <1>2, <1>4
      <4>2. s[k] \in Branch
        BY <1>1, <4>1
      <4>3. QED
        BY <4>1, <4>2, BranchType
    <3>2. r[k].index \in {s[k].index, s[k].index + 1}
      BY <1>4, <1>5, <3>1
    <3>3. QED
      BY <3>1, <3>2
  <2>2. TakenBy(S \cup {e}, s, k, i)
    BY <2>1, OwnTaken
  <2>3. QED
    BY <1>6, <2>1, <2>2 DEF TakenBy
<1>12. ASSUME NEW d, d[1] \in Seq(Branch), NEW k \in DOMAIN d[1], NEW i \in 0 .. d[1][k].alts - 1,
              Ahead(s, d[1], k, i)
       PROVE  TakenBy(S \cup {e}, d[1], k, i) \/ Ahead(r, d[1], k, i)
  <2>1. k \in DOMAIN s /\ Same(s, d[1], k - 1) /\ s[k].alts = d[1][k].alts /\ s[k].index <= i
    BY <1>12 DEF Ahead
  <2>2. k \in Nat \ {0} /\ s[k].index \in Nat /\ i \in Nat /\ i < d[1][k].alts
    <3>1. d[1][k] \in Branch /\ s[k] \in Branch
      BY <1>1, <1>12, <2>1
    <3>2. QED
      BY <1>2, <2>1, <3>1, BranchType
  <2>3. CASE k < m
    <3>1. k \in 1 .. m /\ k \in DOMAIN r /\ r[k] = s[k]
      BY <1>4, <1>5, <2>2, <2>3
    <3>2. QED
      BY <1>7, <2>1, <3>1 DEF Ahead
  <2>4. CASE k = m /\ s[k].index # i
    <3>1. k \in 1 .. m /\ k \in DOMAIN r /\ r[k].alts = d[1][k].alts /\ r[k].index <= i
      BY <1>4, <1>5, <2>1, <2>2, <2>4
    <3>2. QED
      BY <1>7, <2>1, <3>1 DEF Ahead
  <2>5. CASE k > m \/ s[k].index = i
    <3>1. s[k].index + 1 = s[k].alts \/ s[k].index = i
      BY <1>4, <2>1, <2>5
    <3>2. QED
      BY <1>1, <1>12, <2>2, <3>1, AheadIsTaken
  <2>6. QED
    BY <1>5, <2>2, <2>3, <2>4, <2>5
<1>13. ASSUME NEW d \in S \cup {e}, NEW k \in DOMAIN d[1], NEW i \in 0 .. d[1][k].alts - 1
       PROVE  TakenBy(S \cup {e}, d[1], k, i) \/ Ahead(r, d[1], k, i)
  <2>1. CASE d \in S
    <3>1. TakenBy(S, d[1], k, i) \/ Ahead(s, d[1], k, i)
      BY <2>1 DEF Searched
    <3>2. d[1] \in Seq(Branch)
      BY <1>1, <2>1 DEF Schedules
    <3>3. TakenBy(S, d[1], k, i) => TakenBy(S \cup {e}, d[1], k, i)
      BY DEF TakenBy
    <3>4. Ahead(s, d[1], k, i) => TakenBy(S \cup {e}, d[1], k, i) \/ Ahead(r, d[1], k, i)
      BY <1>12, <3>2
    <3>5. QED
      BY <3>1, <3>3, <3>4
  <2>2. CASE d = e
    <3>1. s[k].index \in Nat /\ i \in Nat /\ k \in DOMAIN s /\ k \in Nat \ {0}
      BY <1>1, <2>2, BranchType
    <3>2. CASE i <= s[k].index
      BY <2>2, <3>1, <3>2, OwnTaken
    <3>3. CASE i > s[k].index
      <4>1. Same(s, s, k - 1)
        BY <1>2, <3>1 DEF Same
      <4>2. Ahead(s, s, k, i)
        BY <3>1, <3>3, <4>1 DEF Ahead
      <4>3. QED
        BY <1>1, <1>12, <2>2, <4>2
    <3>4. QED
      BY <3>1, <3>2, <3>3
  <2>3. QED
    BY <2>1, <2>2
<1>14. QED
  <2>1. IsFiniteSet(S \cup {e}) /\ Cardinality(S \cup {e}) = n + 1 /\ Schedules(S \cup {e})
    BY SearchCounts
  <2>2. \A d \in S \cup {e} : Before(d[1], r)
    BY <1>9, <1>10
  <2>3. QED
    BY <1>3, <1>4, <1>11, <1>13, <2>1, <2>2 DEF Searched

(* ... and when it ends, nothing is ahead. *)
LEMMA SearchEnds ==
  ASSUME NEW S, NEW s, NEW n \in Nat, Searched(S, s, n), NEW e, e[1] = s, Open(s) = {}
  PROVE  AllTaken(S \cup {e}, n + 1)
<1>1. s \in Seq(Branch) /\ \A k \in DOMAIN s : s[k].index + 1 = s[k].alts
  BY DEF Searched, Open
<1>2. ASSUME NEW d \in S \cup {e}, NEW k \in DOMAIN d[1], NEW i \in 0 .. d[1][k].alts - 1
      PROVE  TakenBy(S \cup {e}, d[1], k, i)
  <2>1. CASE d \in S
    <3>1. TakenBy(S, d[1], k, i) \/ Ahead(s, d[1], k, i)
      BY <2>1 DEF Searched
    <3>2. d[1][k].alts \in Nat /\ i \in Nat /\ i < d[1][k].alts
      BY <2>1, BranchType DEF Searched, Schedules
    <3>3. CASE Ahead(s, d[1], k, i)
      <4>1. s[k].index + 1 = s[k].alts
        BY <1>1, <3>3 DEF Ahead
      <4>2. QED
        BY <1>1, <3>2, <3>3, <4>1, AheadIsTaken
    <3>4. QED
      BY <3>1, <3>3, TakenByMore
  <2>2. CASE d = e
    <3>1. k \in DOMAIN s /\ i \in Nat /\ i <= s[k].index
      BY <1>1, <2>2, BranchType
    <3>2. QED
      BY <2>2, <3>1, OwnTaken
  <2>3. QED
    BY <2>1, <2>2
<1>3. QED
  BY <1>2, SearchCounts DEF AllTaken

-----------------------------------------------------------------------------
(* The specification *)

SimulationTypes ==
  /\ prog \in Programs /\ par \in Params /\ branch \in Nat
  /\ pc \in [Thread -> Nat \ {0}]
  /\ IsFiniteSet(runq) /\ IsFiniteSet(parked) /\ IsFiniteSet(held)

LoopTypes == count \in Nat /\ mode \in {"explore", "record", "replay", "done", "panic"}

(* A failure has a digest, and no simulation of the search is one. *)
Digests ==
  /\ mode = "explore" => bug = <<>>
  /\ mode \in {"record", "replay"} => bug # <<>>

Searches == mode = "explore" /\ par.kind = "dfs" => Searched(seen, schedule, count)

Searchless == Exhausted => AllTaken(seen, count)

BranchInv == SimulationTypes /\ LoopTypes /\ Digests /\ Searches /\ Searchless

(* One branch more, at its first alternative, or none *)
Deepened(s, r) == r = s \/ \E b \in Branch : b.index = 0 /\ r = Append(s, b)

(* A step of a simulation, the end of one of Explore, the end of one of Record, a failed check *)
Quiet ==
  /\ UNCHANGED <<question, loop>>
  /\ mode = "explore" /\ par.kind = "dfs" => Deepened(schedule, schedule')

Ending == \E status \in {"Ok", "Failure", "Pruned"} : Explored(status)

Checking == mode \in {"record", "replay"} /\ \E status \in {"Ok", "Failure"} : Repeated(status)

(* Finite sets with an element or a set of elements more or less *)
LEMMA FiniteOps ==
  ASSUME NEW S, IsFiniteSet(S)
  PROVE  /\ \A e : IsFiniteSet(S \cup {e}) /\ IsFiniteSet(S \ {e})
         /\ \A T : IsFiniteSet(S \ T)
         /\ \A T : IsFiniteSet(T) => IsFiniteSet(S \cup T)
         /\ Cardinality(S) \in Nat
         /\ S # {} => Cardinality(S) \in Nat \ {0}
<1>1. \A e : IsFiniteSet(S \cup {e})
  BY FS_AddElement
<1>2. \A e : IsFiniteSet(S \ {e})
  BY FS_RemoveElement
<1>3. \A T : IsFiniteSet(S \ T)
  <2>1. TAKE T
  <2>2. S \ T \subseteq S
    OBVIOUS
  <2>3. QED
    BY <2>2, FS_Subset
<1>4. \A T : IsFiniteSet(T) => IsFiniteSet(S \cup T)
  BY FS_Union
<1>5. Cardinality(S) \in Nat /\ (S # {} => Cardinality(S) \in Nat \ {0})
  BY FS_CardinalityType, FS_EmptySet
<1>6. QED
  BY <1>1, <1>2, <1>3, <1>4, <1>5

(* The operation of a thread that has not exited *)
LEMMA Operation ==
  ASSUME SimulationTypes, NEW t \in Thread, ~Exited(t)
  PROVE  /\ pc[t] \in DOMAIN prog.code[t] /\ Op(t) \in STRING \X Int
         /\ Op(t)[1] = "choice" => Op(t)[2] \in Nat \ {0}
         /\ Op(t)[1] = "spawn" => Op(t)[2] \in Thread \ {Main}
<1>1. prog \in Programs /\ pc[t] \in Nat \ {0}
  BY DEF SimulationTypes
<1>2. prog.code \in Seq(Seq(STRING \X Int))
  BY <1>1, ProgramsAssumption
<1>3. prog.code[t] \in Seq(STRING \X Int)
  BY <1>2 DEF Thread
<1>4. Len(prog.code[t]) \in Nat /\ DOMAIN prog.code[t] = 1 .. Len(prog.code[t])
  BY <1>3
<1>5. pc[t] \in DOMAIN prog.code[t]
  BY <1>1, <1>4 DEF Exited
<1>6. Op(t) \in STRING \X Int /\ Op(t) = prog.code[t][pc[t]]
  BY <1>3, <1>5 DEF Op
<1>7. Op(t)[2] \in Int
  BY <1>6
<1>8. /\ Op(t)[1] = "choice" => Op(t)[2] >= 1
      /\ Op(t)[1] = "spawn" => Op(t)[2] \in Thread \ {Main}
  BY <1>1, <1>5, <1>6, ProgramsAssumption DEF Thread
<1>9. QED
  BY <1>5, <1>6, <1>7, <1>8

Answer == [schedule : Seq(Branch), branch : Nat, index : Nat]

(* A question to the depth-first scheduler *)
LEMMA ChooseDeepens ==
  ASSUME NEW ch \in Answer, NEW type \in Question, NEW alts \in Nat \ {0}, par.kind = "dfs",
         NEW r \in Choose(ch, type, alts)
  PROVE  /\ r \in Answer /\ r.branch = ch.branch + 1
         /\ \/ r.schedule = ch.schedule
            \/ r.index = 0 /\ \E b \in Branch : b.index = 0 /\ r.schedule = Append(ch.schedule, b)
<1>1. CASE ch.branch < Len(ch.schedule)
  <2>1. PICK k : k = ch.branch + 1
    OBVIOUS
  <2>2. k \in DOMAIN ch.schedule /\ k \in Nat
    BY <1>1, <2>1 DEF Answer
  <2>3. ch.schedule[k].index \in Nat
    BY <2>2, BranchType DEF Answer
  <2>4. r = [schedule |-> ch.schedule, branch |-> k, index |-> ch.schedule[k].index]
    BY <1>1, <2>1 DEF Choose
  <2>5. QED
    BY <2>1, <2>2, <2>3, <2>4 DEF Answer
<1>2. CASE ~(ch.branch < Len(ch.schedule))
  <2>1. r = [schedule |-> Append(ch.schedule, [type |-> type, alts |-> alts, index |-> 0]),
             branch |-> ch.branch + 1, index |-> 0]
    BY <1>2 DEF Choose
  <2>2. [type |-> type, alts |-> alts, index |-> 0] \in Branch
    BY DEF Branch
  <2>3. QED
    BY <2>1, <2>2 DEF Answer
<1>3. QED
  BY <1>1, <1>2

(* ... and Pick, with more than one thread or with one *)
LEMMA PickDeepens ==
  ASSUME NEW ch \in Answer, NEW type \in Question, NEW S, IsFiniteSet(S), S # {},
         par.kind = "dfs", NEW r \in Pick(ch, S, type)
  PROVE  r \in Answer /\ Deepened(ch.schedule, r.schedule)
<1>1. CASE Cardinality(S) = 1
  BY <1>1 DEF Pick, Deepened, Answer
<1>2. CASE Cardinality(S) # 1
  <2>1. r \in Choose(ch, type, Cardinality(S))
    BY <1>2 DEF Pick
  <2>2. Cardinality(S) \in Nat \ {0}
    BY FiniteOps
  <2>3. QED
    BY <2>1, <2>2, ChooseDeepens DEF Deepened
<1>3. QED
  BY <1>1, <1>2

(* The counter of branches, for every scheduler *)
LEMMA ChooseCounts ==
  ASSUME NEW ch, ch.branch \in Nat, NEW type, NEW alts, NEW r \in Choose(ch, type, alts)
  PROVE  r.branch \in Nat
<1>1. CASE ch.branch < Len(ch.schedule)
  <2>1. r.branch = ch.branch + 1
    BY <1>1 DEF Choose
  <2>2. QED
    BY <2>1
<1>2. CASE ~(ch.branch < Len(ch.schedule))
  <2>1. PICK i : r = [schedule |-> Append(ch.schedule, [type |-> type, alts |-> alts, index |-> i]),
                      branch |-> ch.branch + 1, index |-> i]
    BY <1>2 DEF Choose
  <2>2. QED
    BY <2>1
<1>3. QED
  BY <1>1, <1>2

(* What the search asks first *)
LEMMA AskedFirst ==
  ASSUME BranchInv, mode = "explore", par.kind = "dfs" PROVE Asked \in Answer /\ Asked.schedule = schedule
  BY DEF BranchInv, Searches, Searched, Asked, Answer, SimulationTypes

(* Threads and programs stay. *)
LEMMA SameThreads == ASSUME UNCHANGED question PROVE Thread' = Thread
  BY DEF question, Thread

(* PickNext *)
LEMMA PickNextQuiet == ASSUME BranchInv, PickNext PROVE SimulationTypes' /\ (Quiet \/ Panic)
<1>1. CASE Panic
  BY <1>1, SameThreads DEF Panic, BranchInv, SimulationTypes, question, answers, queues, program
<1>2. CASE ~Panic
  <2>1. UNCHANGED <<question, loop, program, parked, shared, held, scoped, marked>>
    BY <1>2 DEF PickNext
  <2>2. Thread' = Thread /\ pc' = pc /\ prog' = prog /\ par' = par /\ parked' = parked /\ held' = held
    BY <2>1, SameThreads DEF question, program
  <2>3. IsFiniteSet(runq) /\ branch \in Nat
    BY DEF BranchInv, SimulationTypes
  <2>4. ASSUME branch' \in Nat, IsFiniteSet(runq'),
               mode = "explore" /\ par.kind = "dfs" => Deepened(schedule, schedule')
        PROVE  SimulationTypes' /\ Quiet
    BY <2>1, <2>2, <2>4 DEF BranchInv, SimulationTypes, Quiet
  <2>5. CASE PickReplay
    <3>1. branch' = branch /\ schedule' = schedule
      BY <2>5 DEF PickReplay, Replayed
    <3>2. IsFiniteSet(runq')
      BY <2>3, <2>5, FiniteOps DEF PickReplay
    <3>3. QED
      BY <2>3, <2>4, <3>1, <3>2 DEF Deepened
  <2>6. CASE PickRandom
    <3>1. par.kind # "dfs"
      BY <2>6 DEF PickRandom
    <3>2. IsFiniteSet(runq')
      <4>1. \A t : IsFiniteSet(runq \ {t})
        BY <2>3, FiniteOps
      <4>2. runq' = runq \/ \E t : runq' = runq \ {t}
        BY <2>6 DEF PickRandom
      <4>3. QED
        BY <2>3, <4>1, <4>2
    <3>3. Asked.branch \in Nat
      BY <2>3 DEF Asked
    <3>4. branch' \in Nat
      <4>1. CASE active # None
        BY <2>6, <3>3, <4>1 DEF PickRandom, Answered
      <4>2. CASE active = None
        <5>1. PICK ch \in Choose(Asked, "PickNext", Cardinality(runq)) : Answered(ch)
          BY <2>6, <4>2 DEF PickRandom
        <5>2. QED
          BY <3>3, <5>1, ChooseCounts DEF Answered
      <4>3. QED
        BY <4>1, <4>2
    <3>5. QED
      BY <2>4, <3>1, <3>2, <3>4
  <2>7. CASE PickDfs
    <3>1. par.kind = "dfs"
      BY <2>7 DEF PickDfs
    <3>2. PICK ch \in (IF active = None THEN {[Asked EXCEPT !.index = 1]} ELSE Preempts) :
            IF ch.index = 0
            THEN Answered(ch) /\ UNCHANGED runq
            ELSE \E pick \in Pick(ch, runq, "PickNext") :
                   /\ Answered(pick)
                   /\ runq' = (runq \ {Nth(runq, pick.index)}) \cup ({active} \ {None})
      BY <2>7 DEF PickDfs
    <3>3. ch.branch \in Nat
      <4>1. Asked.branch \in Nat /\ [Asked EXCEPT !.index = 1].branch \in Nat
        BY <2>3 DEF Asked
      <4>2. QED
        BY <3>2, <4>1, ChooseCounts DEF Preempts
    <3>4. branch' \in Nat
      <4>1. CASE ch.index = 0
        BY <3>2, <3>3, <4>1 DEF Answered
      <4>2. CASE ch.index # 0
        <5>1. PICK pick \in Pick(ch, runq, "PickNext") : Answered(pick)
          BY <3>2, <4>2
        <5>2. pick.branch \in Nat
          <6>1. CASE Cardinality(runq) = 1
            <7>1. pick = [ch EXCEPT !.index = 0]
              BY <5>1, <6>1 DEF Pick
            <7>2. QED
              BY <3>3, <7>1
          <6>2. CASE Cardinality(runq) # 1
            BY <3>3, <5>1, <6>2, ChooseCounts DEF Pick
          <6>3. QED
            BY <6>1, <6>2
        <5>3. QED
          BY <5>1, <5>2 DEF Answered
      <4>3. QED
        BY <4>1, <4>2
    <3>5. IsFiniteSet(runq')
      <4>1. IsFiniteSet({active} \ {None})
        BY FS_Singleton, FiniteOps
      <4>2. \A t : IsFiniteSet((runq \ {t}) \cup ({active} \ {None}))
        BY <2>3, <4>1, FiniteOps
      <4>3. QED
        BY <2>3, <3>2, <4>2
    <3>6. ASSUME mode = "explore" PROVE Deepened(schedule, schedule')
      <4>1. Asked \in Answer /\ Asked.schedule = schedule /\ [Asked EXCEPT !.index = 1] \in Answer
            /\ [Asked EXCEPT !.index = 1].schedule = schedule
        BY <3>1, <3>6, AskedFirst DEF Answer
      <4>2. /\ ch \in Answer
            /\ \/ ch.schedule = schedule
               \/ ch.index = 0 /\ \E b \in Branch : b.index = 0 /\ ch.schedule = Append(schedule, b)
            /\ ch.index # 0 => runq # {}
        <5>1. CASE ch \in Choose(Asked, "Preempt", 2) /\ runq # {}
          <6>1. 2 \in Nat \ {0} /\ "Preempt" \in Question
            BY DEF Question
          <6>2. /\ ch \in Answer
                /\ \/ ch.schedule = Asked.schedule
                   \/ ch.index = 0 /\ \E b \in Branch : b.index = 0 /\ ch.schedule = Append(Asked.schedule, b)
            BY <3>1, <4>1, <5>1, <6>1, ChooseDeepens
          <6>3. QED
            BY <4>1, <5>1, <6>2
        <5>2. CASE ch = [Asked EXCEPT !.index = 1] /\ runq # {}
          BY <4>1, <5>2
        <5>3. CASE ch = Asked
          BY <4>1, <5>3 DEF Asked
        <5>4. QED
          BY <3>2, <5>1, <5>2, <5>3 DEF PickNext, IsIdle, Preempts, Forced
      <4>3. CASE ch.index = 0
        BY <3>2, <4>2, <4>3 DEF Answered, Deepened
      <4>4. CASE ch.index # 0
        <5>1. PICK pick \in Pick(ch, runq, "PickNext") : Answered(pick)
          BY <3>2, <4>4
        <5>2. Deepened(ch.schedule, pick.schedule)
          <6>1. "PickNext" \in Question
            BY DEF Question
          <6>2. QED
            BY <2>3, <3>1, <4>2, <4>4, <5>1, <6>1, PickDeepens
        <5>3. QED
          BY <4>2, <4>4, <5>1, <5>2 DEF Answered
      <4>5. QED
        BY <4>3, <4>4
    <3>7. QED
      BY <2>4, <3>4, <3>5, <3>6
  <2>8. QED
    BY <1>2, <2>5, <2>6, <2>7 DEF PickNext
<1>3. QED
  BY <1>1, <1>2

(* The operations of the running thread that ask nothing *)
LEMMA PlainQuiet ==
  ASSUME BranchInv, NEW t \in Thread,
         Complete(t) \/ Spawn(t) \/ Yield(t) \/ EnterScope(t) \/ LeaveScope(t) \/ Sync(t)
  PROVE  SimulationTypes' /\ Quiet
<1> USE DEF BranchInv, SimulationTypes
<1>1. UNCHANGED <<question, loop>>
  BY DEF Complete, Spawn, Yield, EnterScope, LeaveScope, Sync
<1>2. Thread' = Thread /\ prog' = prog /\ par' = par /\ mode' = mode
  BY <1>1, SameThreads DEF question, loop
<1>3. pc' \in [Thread -> Nat \ {0}]
  <2>1. pc' = pc \/ Done(t)
    BY DEF Complete, Spawn, Yield, EnterScope, LeaveScope, Sync, program, answers
  <2>2. QED
    BY <2>1 DEF Done
<1>4. IsFiniteSet(runq') /\ IsFiniteSet(parked') /\ IsFiniteSet(held')
  <2>0. /\ \A u : IsFiniteSet(parked \cup {u}) /\ IsFiniteSet(held \cup {u}) /\ IsFiniteSet(runq \cup {u})
        /\ IsFiniteSet(runq \cup held)
    BY FS_AddElement, FS_Union
  <2>1. CASE Complete(t)
    <3>1. runq' = runq /\ held' = held /\ (parked' = parked \/ parked' = parked \cup {t})
      BY <2>1 DEF Complete
    <3>2. QED
      BY <2>0, <3>1
  <2>2. CASE Spawn(t) \/ Yield(t) \/ EnterScope(t)
    <3>1. parked' = parked /\ held' = held /\ (runq' = runq \/ \E u : runq' = runq \cup {u})
      BY <2>2 DEF Spawn, Yield, EnterScope
    <3>2. QED
      BY <2>0, <3>1
  <2>3. CASE LeaveScope(t)
    <3>1. held' = {} /\ runq' = runq \cup held /\ parked' = parked
      BY <2>3 DEF LeaveScope
    <3>2. QED
      BY <2>0, <3>1, FS_EmptySet
  <2>4. CASE Sync(t)
    <3>1. parked' = parked
      BY <2>4 DEF Sync
    <3>2. (runq' = runq \/ runq' = runq \cup {t}) /\ (held' = held \/ held' = held \cup {t})
      BY <2>4 DEF Sync, InterruptRandom
    <3>3. QED
      BY <2>0, <3>1, <3>2
  <2>5. QED
    BY <2>1, <2>2, <2>3, <2>4
<1>5. branch' \in Nat /\ (mode = "explore" /\ par.kind = "dfs" => Deepened(schedule, schedule'))
  <2>1. CASE ~Sync(t)
    BY <2>1 DEF Complete, Spawn, Yield, EnterScope, LeaveScope, answers, Deepened
  <2>2. CASE Sync(t) /\ ~InterruptRandom(t)
    BY <2>2 DEF Sync, Deepened
  <2>3. CASE Sync(t) /\ InterruptRandom(t) /\ ~(schedule' = schedule /\ branch' = branch)
    <3>1. par.kind # "dfs"
      BY <2>3 DEF Sync
    <3>2. PICK slice \in Choose(Asked, "Slice", 2) :
            \/ Answered(slice)
            \/ \E lf \in IF ToLfSuspend(t) THEN Choose(slice, "Suspend", 2) ELSE {slice} : Answered(lf)
      BY <2>3 DEF InterruptRandom
    <3>3. slice.branch \in Nat
      <4>1. Asked.branch \in Nat
        BY DEF Asked
      <4>2. QED
        BY <4>1, ChooseCounts
    <3>4. branch' \in Nat
      BY <3>2, <3>3, ChooseCounts DEF Answered
    <3>5. QED
      BY <3>1, <3>4
  <2>4. QED
    BY <2>1, <2>2, <2>3 DEF Deepened
<1>6. QED
  BY <1>1, <1>2, <1>3, <1>4, <1>5 DEF Quiet

(* The operations that ask *)
LEMMA WakeQuiet == ASSUME BranchInv, NEW t \in Thread, Wake(t) PROVE SimulationTypes' /\ (Quiet \/ Panic)
<1> USE DEF BranchInv, SimulationTypes
<1>1. CASE Panic
  BY <1>1, SameThreads DEF Panic, question, answers, queues, program
<1>2. CASE WakeOne(t)
  <2>1. UNCHANGED <<question, loop>> /\ Done(t) /\ held' = held
    BY <1>2 DEF WakeOne
  <2>2. Thread' = Thread /\ prog' = prog /\ par' = par /\ mode' = mode /\ pc' \in [Thread -> Nat \ {0}]
    <3>1. pc' = [pc EXCEPT ![t] = pc[t] + 1]
      BY <2>1 DEF Done
    <3>2. pc' \in [Thread -> Nat \ {0}]
      BY <3>1
    <3>3. UNCHANGED question
      BY <2>1
    <3>4. Thread' = Thread
      BY <3>3, SameThreads
    <3>5. QED
      BY <2>1, <3>2, <3>4 DEF question, loop
  <2>3. IsFiniteSet(runq') /\ IsFiniteSet(parked')
    <3>1. \/ runq' = runq /\ parked' = parked
          \/ runq' = runq \cup parked /\ parked' = {}
          \/ \E w \in parked : runq' = runq \cup {w} /\ parked' = parked \ {w}
      BY <1>2 DEF WakeOne
    <3>2. /\ \A u : IsFiniteSet(runq \cup {u}) /\ IsFiniteSet(parked \ {u})
          /\ IsFiniteSet(runq \cup parked) /\ IsFiniteSet({})
      BY FS_AddElement, FS_RemoveElement, FS_Union, FS_EmptySet
    <3>3. QED
      BY <3>1, <3>2
  <2>4. branch' \in Nat /\ (mode = "explore" /\ par.kind = "dfs" => Deepened(schedule, schedule'))
    <3>1. \/ schedule' = schedule /\ branch' = branch
          \/ parked # {} /\ \E ch \in Pick(Asked, parked, "WakeOne") : Answered(ch)
      BY <1>2 DEF WakeOne, answers, Replayed
    <3>2. CASE schedule' = schedule /\ branch' = branch
      BY <3>2 DEF Deepened
    <3>3. ASSUME NEW ch \in Pick(Asked, parked, "WakeOne"), Answered(ch), parked # {}
          PROVE  branch' \in Nat /\ (mode = "explore" /\ par.kind = "dfs" => Deepened(schedule, schedule'))
      <4>1. Asked.branch \in Nat /\ [Asked EXCEPT !.index = 0].branch \in Nat
        BY DEF Asked
      <4>2. ch.branch \in Nat
        BY <4>1, ChooseCounts DEF Pick
      <4>3. ASSUME mode = "explore", par.kind = "dfs" PROVE Deepened(schedule, schedule')
        <5>1. Asked \in Answer /\ Asked.schedule = schedule /\ "WakeOne" \in Question
          BY <4>3, AskedFirst DEF Question
        <5>2. Deepened(Asked.schedule, ch.schedule)
          BY <3>3, <4>3, <5>1, PickDeepens
        <5>3. QED
          BY <3>3, <5>1, <5>2 DEF Answered
      <4>4. QED
        BY <3>3, <4>2, <4>3 DEF Answered
    <3>4. QED
      BY <3>1, <3>2, <3>3
  <2>5. QED
    BY <2>1, <2>2, <2>3, <2>4 DEF Quiet
<1>3. QED
  BY <1>1, <1>2 DEF Wake

(* ... *)
LEMMA ChoiceQuiet ==
  ASSUME BranchInv, NEW t \in Thread, RandomChoice(t) PROVE SimulationTypes' /\ (Quiet \/ Panic)
<1> USE DEF BranchInv, SimulationTypes
<1>1. CASE Panic
  BY <1>1, SameThreads DEF Panic, question, answers, queues, program
<1>2. CASE Choice(t)
  <2>1. UNCHANGED <<question, loop, queues>> /\ Done(t)
    BY <1>2 DEF Choice
  <2>2. Thread' = Thread /\ prog' = prog /\ par' = par /\ mode' = mode /\ pc' \in [Thread -> Nat \ {0}]
        /\ runq' = runq /\ parked' = parked /\ held' = held
    <3>1. pc' = [pc EXCEPT ![t] = pc[t] + 1]
      BY <2>1 DEF Done
    <3>2. pc' \in [Thread -> Nat \ {0}]
      BY <3>1
    <3>3. UNCHANGED question
      BY <2>1
    <3>4. Thread' = Thread
      BY <3>3, SameThreads
    <3>5. QED
      BY <2>1, <3>2, <3>4 DEF question, loop, queues
  <2>3. branch' \in Nat /\ (mode = "explore" /\ par.kind = "dfs" => Deepened(schedule, schedule'))
    <3>1. \/ schedule' = schedule /\ branch' = branch
          \/ \E ch \in Choose(Asked, "RandomChoice", Op(t)[2]) : Answered(ch)
      BY <1>2 DEF Choice, Replayed
    <3>2. CASE schedule' = schedule /\ branch' = branch
      BY <3>2 DEF Deepened
    <3>3. ASSUME NEW ch \in Choose(Asked, "RandomChoice", Op(t)[2]), Answered(ch)
          PROVE  branch' \in Nat /\ (mode = "explore" /\ par.kind = "dfs" => Deepened(schedule, schedule'))
      <4>1. Asked.branch \in Nat
        BY DEF Asked
      <4>2. ch.branch \in Nat
        BY <4>1, ChooseCounts
      <4>3. ASSUME mode = "explore", par.kind = "dfs" PROVE Deepened(schedule, schedule')
        <5>1. Asked \in Answer /\ Asked.schedule = schedule /\ "RandomChoice" \in Question
          BY <4>3, AskedFirst DEF Question
        <5>2. Op(t)[2] \in Nat \ {0}
          BY Operation DEF RandomChoice, At
        <5>3. Deepened(Asked.schedule, ch.schedule)
          BY <3>3, <4>3, <5>1, <5>2, ChooseDeepens DEF Deepened
        <5>4. QED
          BY <3>3, <5>1, <5>3 DEF Answered
      <4>4. QED
        BY <3>3, <4>2, <4>3 DEF Answered
    <3>4. QED
      BY <3>1, <3>2, <3>3
  <2>4. QED
    BY <2>1, <2>2, <2>3 DEF Quiet
<1>3. QED
  BY <1>1, <1>2 DEF RandomChoice

(* A new simulation, and the end of the exploration, with whatever schedule *)
LEMMA StartTypes ==
  ASSUME SimulationTypes, UNCHANGED question,
         (\E s : StartWith(s)) \/ UNCHANGED <<answers, program, running, queues, limits, word>>
  PROVE  SimulationTypes'
<1>1. Thread' = Thread /\ prog' = prog /\ par' = par
  BY SameThreads DEF question
<1>2. CASE UNCHANGED <<answers, program, running, queues, limits, word>>
  BY <1>1, <1>2 DEF SimulationTypes, answers, program, queues
<1>3. ASSUME NEW s, StartWith(s) PROVE SimulationTypes'
  BY <1>1, <1>3, FS_EmptySet, FS_Singleton DEF SimulationTypes, StartWith
<1>4. QED
  BY <1>2, <1>3

(* The end of a simulation *)
LEMMA EndingTypes == ASSUME SimulationTypes, NEW status, Explored(status) \/ Repeated(status) PROVE SimulationTypes'
<1>1. UNCHANGED question
  BY DEF Explored, Repeated
<1>2. (\E s : StartWith(s)) \/ UNCHANGED <<answers, program, running, queues, limits, word>>
  BY DEF Explored, Repeated
<1>3. QED
  BY <1>1, <1>2, StartTypes

(* Every step is one of these. *)
LEMMA StepKinds ==
  ASSUME BranchInv, [Next]_vars
  PROVE  SimulationTypes' /\ (Quiet \/ Ending \/ Checking \/ Panic)
<1>1. ASSUME NEW t \in Thread, Step(t) PROVE SimulationTypes' /\ (Quiet \/ Ending \/ Panic)
  <2>1. CASE Exit(t) /\ Explored("Pruned")
    BY <2>1, EndingTypes DEF Ending, BranchInv
  <2>2. CASE Exit(t) /\ ~Explored("Pruned")
    <3>1. UNCHANGED <<question, loop, answers, program, queues, preempts, burst, word>>
      BY <2>2 DEF Exit
    <3>2. UNCHANGED question
      BY <3>1
    <3>3. Thread' = Thread
      BY <3>2, SameThreads
    <3>4. SimulationTypes'
      BY <3>1, <3>3 DEF BranchInv, SimulationTypes, question, answers, program, queues
    <3>5. Quiet
      BY <3>1 DEF Quiet, Deepened, answers
    <3>6. QED
      BY <3>4, <3>5
  <2>3. QED
    BY <1>1, <2>1, <2>2, PlainQuiet, WakeQuiet, ChoiceQuiet DEF Step
<1>2. CASE PickNext
  BY <1>2, PickNextQuiet
<1>3. CASE Prune
  BY <1>3, EndingTypes DEF Prune, Ending, BranchInv
<1>4. CASE Finish
  <2>1. Status \in {"Ok", "Failure"}
    BY DEF Status
  <2>2. Explored(Status) \/ Repeated(Status)
    BY <1>4 DEF Finish
  <2>3. Ending \/ Checking
    BY <2>1, <2>2 DEF Ending, Checking, Repeated
  <2>4. QED
    BY <2>2, <2>3, EndingTypes DEF BranchInv
<1>5. CASE UNCHANGED vars
  <2>1. UNCHANGED question
    BY <1>5 DEF vars
  <2>2. Thread' = Thread
    BY <2>1, SameThreads
  <2>3. SimulationTypes'
    BY <1>5, <2>2 DEF BranchInv, SimulationTypes, vars, question, answers, program, queues
  <2>4. Quiet
    BY <1>5 DEF Quiet, Deepened, vars, answers
  <2>5. QED
    BY <2>3, <2>4
<1>6. QED
  BY <1>1, <1>2, <1>3, <1>4, <1>5 DEF Next, Terminating

(* The initial states: nothing has been run, nothing is ahead. *)
LEMMA BranchInit == Init => BranchInv
<1> SUFFICES ASSUME Init PROVE BranchInv
  OBVIOUS
<1>1. SimulationTypes /\ LoopTypes
  <2>1. IsFiniteSet({}) /\ IsFiniteSet({Main})
    BY FS_EmptySet, FS_Singleton
  <2>2. QED
    BY <2>1 DEF Init, SimulationTypes, LoopTypes
<1>2. Digests /\ Searchless
  BY DEF Init, Digests, Searchless, Exhausted
<1>3. Searched({}, <<>>, 0)
  <2>1. IsFiniteSet({}) /\ Cardinality({}) = 0
    BY FS_EmptySet
  <2>2. <<>> \in Seq(Branch) /\ DOMAIN <<>> = {}
    OBVIOUS
  <2>3. QED
    BY <2>1, <2>2 DEF Searched, Schedules
<1>4. QED
  BY <1>1, <1>2, <1>3 DEF Init, BranchInv, Searches

(* The invariant is inductive. *)
LEMMA BranchStep == ASSUME BranchInv, [Next]_vars PROVE BranchInv'
<1>1. SimulationTypes' /\ (Quiet \/ Ending \/ Checking \/ Panic)
  BY StepKinds
<1>2. count \in Nat /\ mode \in {"explore", "record", "replay", "done", "panic"}
  BY DEF BranchInv, LoopTypes
<1>3. CASE Quiet
  <2>1. UNCHANGED <<par, mode, count, seen, bug>>
    BY <1>3 DEF Quiet, question, loop
  <2>2. LoopTypes' /\ Digests' /\ Searchless'
    BY <2>1 DEF BranchInv, LoopTypes, Digests, Searchless, Exhausted
  <2>3. ASSUME mode = "explore", par.kind = "dfs" PROVE Searched(seen, schedule', count)
    <3>1. Searched(seen, schedule, count) /\ Deepened(schedule, schedule')
      BY <1>3, <2>3 DEF BranchInv, Searches, Quiet
    <3>2. QED
      BY <3>1, SearchExtends DEF Deepened
  <2>4. Searches'
    BY <2>1, <2>3 DEF Searches
  <2>5. QED
    BY <1>1, <2>2, <2>4 DEF BranchInv
<1>4. CASE Ending
  <2>1. PICK status \in {"Ok", "Failure", "Pruned"} : Explored(status)
    BY <1>4 DEF Ending
  <2>2. /\ mode = "explore" /\ bug = <<>> /\ count' = count + 1 /\ par' = par
        /\ seen' = IF par.kind = "dfs" THEN seen \cup {<<schedule, word, status>>} ELSE seen
    BY <2>1 DEF Explored, question, BranchInv, Digests
  <2>3. PICK e : e = <<schedule, word, status>>
    OBVIOUS
  <2>4. e[1] = schedule
    BY <2>3
  <2>5. par.kind = "dfs" => Searched(seen, schedule, count)
    BY <2>2 DEF BranchInv, Searches
  <2>6. CASE status = "Failure"
    <3>1. mode' = "record" /\ bug' = <<word, x>>
      BY <2>1, <2>6 DEF Explored
    <3>2. bug' # <<>>
      BY <3>1
    <3>3. QED
      BY <1>1, <1>2, <2>2, <3>1, <3>2
        DEF BranchInv, LoopTypes, Digests, Searches, Searchless, Exhausted
  <2>7. CASE status # "Failure" /\ HasNext(count + 1)
    <3>1. mode' = mode /\ bug' = bug /\ schedule' = NextSchedule
      BY <2>1, <2>7 DEF Explored, StartWith
    <3>2. ASSUME par.kind = "dfs" PROVE Searched(seen', schedule', count')
      <4>1. Open(schedule) # {} /\ schedule' = Backtrack(schedule) /\ seen' = seen \cup {e}
        BY <2>2, <2>3, <2>7, <3>1, <3>2 DEF HasNext, NextSchedule
      <4>2. Searched(seen \cup {e}, Backtrack(schedule), count + 1)
        BY <1>2, <2>4, <2>5, <3>2, <4>1, SearchBacktracks
      <4>3. QED
        BY <2>2, <4>1, <4>2
    <3>3. QED
      BY <1>1, <1>2, <2>2, <3>1, <3>2
        DEF BranchInv, LoopTypes, Digests, Searches, Searchless, Exhausted
  <2>8. CASE status # "Failure" /\ ~HasNext(count + 1)
    <3>1. mode' = "done" /\ bug' = bug
      BY <2>1, <2>8 DEF Explored
    <3>2. ASSUME par.kind = "dfs" PROVE AllTaken(seen', count')
      <4>1. Open(schedule) = {} /\ seen' = seen \cup {e}
        BY <2>2, <2>3, <2>8, <3>2 DEF HasNext
      <4>2. AllTaken(seen \cup {e}, count + 1)
        BY <1>2, <2>4, <2>5, <3>2, <4>1, SearchEnds
      <4>3. QED
        BY <2>2, <4>1, <4>2
    <3>3. QED
      BY <1>1, <1>2, <2>2, <3>1, <3>2
        DEF BranchInv, LoopTypes, Digests, Searches, Searchless, Exhausted
  <2>9. QED
    BY <2>6, <2>7, <2>8
<1>5. CASE Checking
  <2>1. UNCHANGED <<par, count, seen, bug>> /\ mode \in {"record", "replay"} /\ mode' \in {"replay", "done", "panic"}
    BY <1>5 DEF Checking, Repeated, question
  <2>2. bug # <<>>
    BY <2>1 DEF BranchInv, Digests
  <2>3. QED
    BY <1>1, <1>2, <2>1, <2>2 DEF BranchInv, LoopTypes, Digests, Searches, Searchless, Exhausted
<1>6. CASE Panic
  <2>1. mode' = "panic" /\ count' = count
    BY <1>6 DEF Panic
  <2>2. QED
    BY <1>1, <1>2, <2>1 DEF BranchInv, LoopTypes, Digests, Searches, Searchless, Exhausted
<1>7. QED
  BY <1>1, <1>3, <1>4, <1>5, <1>6

(* Explore: the search remembers what is ahead of it, at every step. *)
THEOREM BranchesInvariant == Spec => []BranchInv
<1>1. Init => BranchInv
  BY BranchInit
<1>2. BranchInv /\ [Next]_vars => BranchInv'
  BY BranchStep
<1>3. QED
  BY <1>1, <1>2, PTL DEF Spec

(* The first branches of a schedule as a subsequence *)
LEMMA SameSubSeq ==
  ASSUME NEW s \in Seq(Branch), NEW d \in Seq(Branch), NEW k \in Nat, Same(s, d, k)
  PROVE  SubSeq(s, 1, k) = SubSeq(d, 1, k)
<1>1. k <= Len(s) /\ k <= Len(d)
  <2>1. CASE k = 0
    BY <2>1
  <2>2. CASE k # 0
    <3>1. k \in 1 .. k
      BY <2>2
    <3>2. k \in DOMAIN s /\ k \in DOMAIN d
      BY <3>1 DEF Same
    <3>3. QED
      BY <3>2
  <2>3. QED
    BY <2>1, <2>2
<1>2. PICK p : p = SubSeq(s, 1, k)
  OBVIOUS
<1>3. PICK q : q = SubSeq(d, 1, k)
  OBVIOUS
<1>4. p \in Seq(Branch) /\ Len(p) = k /\ \A j \in 1 .. k : p[j] = s[j]
  BY <1>1, <1>2
<1>5. q \in Seq(Branch) /\ Len(q) = k /\ \A j \in 1 .. k : q[j] = d[j]
  BY <1>1, <1>3
<1>6. \A j \in 1 .. k : p[j] = q[j]
  BY <1>4, <1>5 DEF Same
<1>7. p = q
  BY <1>4, <1>5, <1>6
<1>8. QED
  BY <1>2, <1>3, <1>7

(* DfsScheduler, Backtrack: when the exploration ends without a failure, every alternative of every
   branch that was met has been taken, and no schedule was run twice. *)
THEOREM BranchesAreTaken == Spec => []EveryBranchIsTaken
<1>1. BranchInv => EveryBranchIsTaken
  <2>1. SUFFICES ASSUME BranchInv, Exhausted PROVE EveryBranchIsTaken
    BY DEF EveryBranchIsTaken
  <2>2. AllTaken(seen, count)
    BY <2>1 DEF BranchInv, Searchless
  <2>3. ASSUME NEW e \in seen, NEW k \in DOMAIN e[1], NEW i \in 0 .. e[1][k].alts - 1
        PROVE  \E d \in seen : /\ Len(d[1]) >= k /\ d[1][k].index = i
                               /\ SubSeq(d[1], 1, k - 1) = SubSeq(e[1], 1, k - 1)
    <3>1. PICK d \in seen : k \in DOMAIN d[1] /\ Same(d[1], e[1], k - 1) /\ d[1][k].index = i
      BY <2>2, <2>3 DEF AllTaken, TakenBy
    <3>2. d[1] \in Seq(Branch) /\ e[1] \in Seq(Branch)
      BY <2>2 DEF AllTaken, Schedules
    <3>3. Len(d[1]) >= k /\ k - 1 \in Nat
      BY <3>1, <3>2
    <3>4. SubSeq(d[1], 1, k - 1) = SubSeq(e[1], 1, k - 1)
      BY <3>1, <3>2, <3>3, SameSubSeq
    <3>5. QED
      BY <3>1, <3>3, <3>4
  <2>4. QED
    BY <2>2, <2>3 DEF EveryBranchIsTaken, AllTaken
<1>2. QED
  BY <1>1, BranchesInvariant, PTL

-----------------------------------------------------------------------------
(* Words: the threads in the order in which they are picked. In the lemmas q stands for what
   matters of the question: the steps of each thread and the limits on preemptions. *)

Plan(q) ==
  /\ \E N \in Nat \ {0} : q.n \in [1 .. N -> Nat \ {0}]
  /\ q.mp \in Nat \cup {Unlimited} /\ q.fp \in Nat \cup {Unlimited}

(* The threads that have steps left after the first i picks *)
Left(q, w, i) == {t \in DOMAIN q.n : Count(w, i, t) < q.n[t]}

(* The one that could go on, and those that wait *)
Cur(q, w, i) == IF i > 0 /\ w[i] \in Left(q, w, i) THEN w[i] ELSE None

Rest(q, w, i) == IF i = 0 THEN {Main} ELSE Left(q, w, i) \ {w[i]}

Switches(q, w, n) == {i \in 1 .. n - 1 : w[i] # w[i + 1] /\ w[i] \in Left(q, w, i)}

Cost(q, w, n) == Cardinality(Switches(q, w, n))

Spent(q, w, n) == Reached(Cost(q, w, n), q.mp)

Lasting(q, w, n) == Reached(n, q.fp) /\ \A i \in n - q.fp + 1 .. n : w[i] = w[n]

Due(q, w, n) == Cur(q, w, n) # None /\ Rest(q, w, n) # {} /\ Lasting(q, w, n)

(* Subsets of intervals have a cardinality, which grows with them. *)
LEMMA IntervalSets ==
  ASSUME NEW n \in Int, NEW S \in SUBSET (1 .. n)
  PROVE  IsFiniteSet(S) /\ Cardinality(S) \in Nat /\ \A R \in SUBSET S : Cardinality(R) <= Cardinality(S)
<1>1. IsFiniteSet(1 .. n)
  BY FS_Interval
<1>2. IsFiniteSet(S)
  BY <1>1, FS_Subset
<1>3. QED
  BY <1>2, FS_CardinalityType, FS_Subset

(* Counting: *)
LEMMA CountStep ==
  ASSUME NEW w, NEW t, NEW i \in Nat
  PROVE  /\ Count(w, 0, t) = 0 /\ Count(w, i, t) \in Nat
         /\ Count(w, i + 1, t) = IF w[i + 1] = t THEN Count(w, i, t) + 1 ELSE Count(w, i, t)
<1>1. Count(w, 0, t) = 0
  <2>1. {j \in 1 .. 0 : w[j] = t} = {}
    OBVIOUS
  <2>2. QED
    BY <2>1, FS_EmptySet DEF Count
<1>2. PICK S : S = {j \in 1 .. i : w[j] = t}
  OBVIOUS
<1>3. IsFiniteSet(S) /\ Cardinality(S) \in Nat /\ i + 1 \notin S
  <2>1. S \in SUBSET (1 .. i) /\ i \in Int /\ i + 1 \notin S
    BY <1>2
  <2>2. QED
    BY <2>1, IntervalSets
<1>4. CASE w[i + 1] = t
  <2>1. {j \in 1 .. i + 1 : w[j] = t} = S \cup {i + 1}
    BY <1>2, <1>4
  <2>2. QED
    BY <1>1, <1>2, <1>3, <1>4, <2>1, FS_AddElement DEF Count
<1>5. CASE w[i + 1] # t
  <2>1. {j \in 1 .. i + 1 : w[j] = t} = S
    BY <1>2, <1>5
  <2>2. QED
    BY <1>1, <1>2, <1>3, <1>5, <2>1 DEF Count
<1>6. QED
  BY <1>4, <1>5

(* ... the count grows, *)
LEMMA CountMonotone ==
  ASSUME NEW w, NEW t, NEW i \in Nat, NEW j \in Nat, i <= j PROVE Count(w, i, t) <= Count(w, j, t)
<1>1. {k \in 1 .. i : w[k] = t} \subseteq {k \in 1 .. j : w[k] = t}
  OBVIOUS
<1>2. PICK S : S = {k \in 1 .. j : w[k] = t}
  OBVIOUS
<1>3. S \in SUBSET (1 .. j) /\ j \in Int
  BY <1>2
<1>4. \A R \in SUBSET S : Cardinality(R) <= Cardinality(S)
  BY <1>3, IntervalSets
<1>5. QED
  BY <1>1, <1>2, <1>4 DEF Count

(* ... and depends on the picks so far only. *)
LEMMA CountSame ==
  ASSUME NEW w, NEW v, NEW i \in Nat, Same(w, v, i), NEW t PROVE Count(w, i, t) = Count(v, i, t)
<1>1. {k \in 1 .. i : w[k] = t} = {k \in 1 .. i : v[k] = t}
  BY DEF Same
<1>2. QED
  BY <1>1 DEF Count

(* Fewer picks *)
LEMMA SameLess ==
  ASSUME NEW w, NEW v, NEW i \in Nat, NEW j \in Nat, j <= i, Same(w, v, i) PROVE Same(w, v, j)
  BY DEF Same

(* ... in any order *)
LEMMA SameSym == ASSUME NEW w, NEW v, NEW i, Same(w, v, i) PROVE Same(v, w, i)
  BY DEF Same

(* Everything depends on the picks so far only. *)
LEMMA WordsAgree ==
  ASSUME NEW q, Plan(q), NEW w, NEW v, NEW i \in Nat, Same(w, v, i)
  PROVE  /\ Left(q, w, i) = Left(q, v, i) /\ Cur(q, w, i) = Cur(q, v, i) /\ Rest(q, w, i) = Rest(q, v, i)
         /\ Cost(q, w, i) = Cost(q, v, i) /\ Spent(q, w, i) = Spent(q, v, i)
         /\ Due(q, w, i) <=> Due(q, v, i)
<1>1. \A j \in 0 .. i : Left(q, w, j) = Left(q, v, j)
  <2>1. TAKE j \in 0 .. i
  <2>2. Same(w, v, j) /\ j \in Nat
    BY SameLess
  <2>3. \A t : Count(w, j, t) = Count(v, j, t)
    BY <2>2, CountSame
  <2>4. QED
    BY <2>3 DEF Left
<1>2. \A j \in 1 .. i : w[j] = v[j]
  BY DEF Same
<1>3. i \in 0 .. i /\ (i > 0 => w[i] = v[i])
  BY <1>2
<1>4. Cur(q, w, i) = Cur(q, v, i) /\ Rest(q, w, i) = Rest(q, v, i)
  BY <1>1, <1>3 DEF Cur, Rest
<1>5. Switches(q, w, i) = Switches(q, v, i)
  <2>1. \A j \in 1 .. i - 1 : w[j] = v[j] /\ w[j + 1] = v[j + 1] /\ Left(q, w, j) = Left(q, v, j)
    BY <1>1, <1>2
  <2>2. QED
    BY <2>1 DEF Switches
<1>6. Cur(q, w, i) # None => (Lasting(q, w, i) <=> Lasting(q, v, i))
  <2>1. SUFFICES ASSUME i > 0, Reached(i, q.fp)
                 PROVE  (\A j \in i - q.fp + 1 .. i : w[j] = w[i]) <=> (\A j \in i - q.fp + 1 .. i : v[j] = v[i])
    BY DEF Lasting, Cur
  <2>2. q.fp \in Nat /\ q.fp <= i
    BY <2>1 DEF Reached, Plan
  <2>3. \A j \in i - q.fp + 1 .. i : j \in 1 .. i
    BY <2>2
  <2>4. QED
    BY <1>2, <1>3, <2>1, <2>3
<1>7. QED
  BY <1>1, <1>3, <1>4, <1>5, <1>6 DEF Cost, Spent, Due

(* Preemptions are counted when the thread could have gone on. *)
LEMMA CostStep ==
  ASSUME NEW q, NEW w, NEW n \in Nat
  PROVE  /\ Cost(q, w, 0) = 0 /\ Cost(q, w, n) \in Nat
         /\ Cost(q, w, n + 1) =
              IF n > 0 /\ w[n] # w[n + 1] /\ w[n] \in Left(q, w, n) THEN Cost(q, w, n) + 1 ELSE Cost(q, w, n)
<1>1. Cost(q, w, 0) = 0
  <2>1. Switches(q, w, 0) = {}
    BY DEF Switches
  <2>2. QED
    BY <2>1, FS_EmptySet DEF Cost
<1>2. PICK S : S = Switches(q, w, n)
  OBVIOUS
<1>3. S \in SUBSET (1 .. n - 1) /\ n - 1 \in Int
  BY <1>2 DEF Switches
<1>4. IsFiniteSet(S) /\ Cardinality(S) \in Nat /\ n \notin S
  <2>1. n \notin S
    BY <1>3
  <2>2. QED
    BY <1>3, <2>1, IntervalSets
<1>5. CASE n > 0 /\ w[n] # w[n + 1] /\ w[n] \in Left(q, w, n)
  <2>1. Switches(q, w, n + 1) = S \cup {n}
    BY <1>2, <1>5 DEF Switches
  <2>2. QED
    BY <1>1, <1>2, <1>4, <1>5, <2>1, FS_AddElement DEF Cost
<1>6. CASE ~(n > 0 /\ w[n] # w[n + 1] /\ w[n] \in Left(q, w, n))
  <2>1. Switches(q, w, n + 1) = S
    BY <1>2, <1>6 DEF Switches
  <2>2. QED
    BY <1>1, <1>2, <1>4, <1>6, <2>1 DEF Cost
<1>7. QED
  BY <1>5, <1>6

(* ... and never forgotten. *)
LEMMA CostMonotone ==
  ASSUME NEW q, NEW w, NEW i \in Nat, NEW j \in Nat, i <= j PROVE Cost(q, w, i) <= Cost(q, w, j)
<1>1. Switches(q, w, i) \subseteq Switches(q, w, j)
  BY DEF Switches
<1>2. Switches(q, w, j) \in SUBSET (1 .. j - 1) /\ j - 1 \in Int
  BY DEF Switches
<1>3. QED
  BY <1>1, <1>2, IntervalSets DEF Cost

-----------------------------------------------------------------------------
(* Pick(list): the threads of a set in the order of their numbers *)

Rank(S, t) == Cardinality({u \in S : u < t})

(* The ranks are 0, 1, ..., one of them for each thread. *)
LEMMA Ranks ==
  ASSUME NEW S \in SUBSET Nat, IsFiniteSet(S)
  PROVE  /\ \A t \in S : Rank(S, t) \in 0 .. Cardinality(S) - 1
         /\ \A t, u \in S : Rank(S, t) = Rank(S, u) => t = u
         /\ \A i \in 0 .. Cardinality(S) - 1 : \E t \in S : Rank(S, t) = i
<1>1. PICK n : n = Cardinality(S)
  OBVIOUS
<1>2. n \in Nat
  BY <1>1, FS_CardinalityType
<1>3. \A t : IsFiniteSet({u \in S : u < t}) /\ Rank(S, t) \in Nat /\ Rank(S, t) <= n
  <2>1. TAKE t
  <2>2. {u \in S : u < t} \in SUBSET S
    OBVIOUS
  <2>3. QED
    BY <1>1, <2>2, FS_Subset, FS_CardinalityType DEF Rank
<1>4. ASSUME NEW t \in S PROVE Rank(S, t) \in 0 .. n - 1
  <2>1. PICK A : A = {u \in S : u < t}
    OBVIOUS
  <2>2. A \in SUBSET S /\ A # S
    <3>1. t \in Nat /\ ~(t < t)
      OBVIOUS
    <3>2. QED
      BY <2>1, <3>1
  <2>3. Cardinality(A) # Cardinality(S)
    BY <2>2, FS_Subset
  <2>4. Rank(S, t) # n
    BY <1>1, <2>1, <2>3 DEF Rank
  <2>5. Rank(S, t) \in Nat /\ Rank(S, t) <= n
    BY <1>3
  <2>6. QED
    BY <1>2, <2>4, <2>5
<1>5. ASSUME NEW t \in S, NEW u \in S, t < u PROVE Rank(S, t) # Rank(S, u)
  <2>1. PICK A : A = {v \in S : v < t}
    OBVIOUS
  <2>2. PICK B : B = {v \in S : v < u}
    OBVIOUS
  <2>3. A \in SUBSET B /\ A # B
    <3>1. t \in Nat /\ u \in Nat /\ \A v \in S : v \in Nat
      OBVIOUS
    <3>2. \A v \in S : v < t => v < u
      BY <1>5, <3>1
    <3>3. t \in B /\ t \notin A
      BY <1>5, <2>1, <2>2, <3>1
    <3>4. QED
      BY <2>1, <2>2, <3>2, <3>3
  <2>4. IsFiniteSet(B)
    BY <1>3, <2>2
  <2>5. Cardinality(A) # Cardinality(B)
    BY <2>3, <2>4, FS_Subset
  <2>6. QED
    BY <2>1, <2>2, <2>5 DEF Rank
<1>6. ASSUME NEW t \in S, NEW u \in S, Rank(S, t) = Rank(S, u) PROVE t = u
  <2>1. t \in Nat /\ u \in Nat
    OBVIOUS
  <2>2. ~(t < u) /\ ~(u < t)
    BY <1>5, <1>6
  <2>3. QED
    BY <2>1, <2>2
<1>7. PICK f : f = [t \in S |-> Rank(S, t)]
  OBVIOUS
<1>8. f \in Injection(S, 0 .. n - 1)
  BY <1>4, <1>6, <1>7 DEF Injection, IsInjective
<1>9. IsFiniteSet(0 .. n - 1) /\ Cardinality(0 .. n - 1) = n
  BY <1>2, FS_Interval
<1>10. f \in Surjection(S, 0 .. n - 1)
  BY <1>1, <1>8, <1>9, FS_Injection
<1>11. \A i \in 0 .. n - 1 : \E t \in S : Rank(S, t) = i
  BY <1>7, <1>10 DEF Surjection
<1>12. QED
  BY <1>1, <1>4, <1>6, <1>11

(* Nth is the inverse of the rank. *)
LEMMA NthRank ==
  ASSUME NEW S \in SUBSET Nat, IsFiniteSet(S)
  PROVE  /\ \A i \in 0 .. Cardinality(S) - 1 : Nth(S, i) \in S /\ Rank(S, Nth(S, i)) = i
         /\ \A t \in S : Nth(S, Rank(S, t)) = t
         /\ \A t \in S : Cardinality(S) = 1 => t = Nth(S, 0)
<1>1. ASSUME NEW i \in 0 .. Cardinality(S) - 1 PROVE Nth(S, i) \in S /\ Rank(S, Nth(S, i)) = i
  <2>1. \E t \in S : Cardinality({u \in S : u < t}) = i
    BY Ranks DEF Rank
  <2>2. QED
    BY <2>1 DEF Nth, Rank
<1>2. ASSUME NEW t \in S PROVE Nth(S, Rank(S, t)) = t
  <2>1. PICK i : i = Rank(S, t)
    OBVIOUS
  <2>2. i \in 0 .. Cardinality(S) - 1
    BY <2>1, Ranks
  <2>3. PICK v : v = Nth(S, i)
    OBVIOUS
  <2>4. v \in S /\ Rank(S, v) = Rank(S, t)
    BY <1>1, <2>1, <2>2, <2>3
  <2>5. \A a, b \in S : Rank(S, a) = Rank(S, b) => a = b
    BY Ranks
  <2>6. v = t
    BY <2>4, <2>5
  <2>7. QED
    BY <2>1, <2>3, <2>6
<1>3. ASSUME NEW t \in S, Cardinality(S) = 1 PROVE t = Nth(S, 0)
  <2>1. Rank(S, t) = 0
    <3>1. Rank(S, t) \in 0 .. 1 - 1
      BY <1>3, Ranks
    <3>2. QED
      BY <3>1
  <2>2. QED
    BY <1>2, <2>1
<1>4. QED
  BY <1>1, <1>2, <1>3

-----------------------------------------------------------------------------
(* How a schedule decides on the next thread *)

(* In the set R, from position k on, up to j *)
PickAt(s, k, R, t, j) ==
  IF Cardinality(R) = 1
  THEN j = k /\ t = Nth(R, 0)
  ELSE /\ k + 1 \in DOMAIN s /\ j = k + 1
       /\ s[k + 1].type = "PickNext" /\ s[k + 1].alts = Cardinality(R) /\ t = Nth(R, s[k + 1].index)

(* A thread of the queue is picked, the current one goes on, or the scheduler asks first whether
   to preempt it, or the simulation is stuck and pruned. *)
Kind(q, w, i) ==
  IF Cur(q, w, i) = None THEN "pick"
  ELSE IF Due(q, w, i) THEN IF Spent(q, w, i) THEN "stuck" ELSE "pick"
  ELSE IF Rest(q, w, i) = {} \/ Spent(q, w, i) THEN "stay" ELSE "ask"

Turn(kind, a, R, s, k, t, j) ==
  \/ kind = "pick" /\ R # {} /\ PickAt(s, k, R, t, j)
  \/ kind = "stay" /\ t = a /\ j = k
  \/ /\ kind = "ask" /\ R # {} /\ k + 1 \in DOMAIN s /\ s[k + 1].type = "Preempt" /\ s[k + 1].alts = 2
     /\ \/ s[k + 1].index = 0 /\ t = a /\ j = k + 1
        \/ s[k + 1].index = 1 /\ PickAt(s, k + 1, R, t, j)

Options(kind, a, R) ==
  CASE kind = "pick" -> R [] kind = "stay" -> {a} [] kind = "ask" -> {a} \cup R [] OTHER -> {}

(* The schedule answers the question what follows the first i picks of w. *)
Decides(q, s, w, i, k, j) == Turn(Kind(q, w, i), Cur(q, w, i), Rest(q, w, i), s, k, w[i + 1], j)

(* ... and so every pick: c says how much of it has been used after each. *)
Coded(q, s, w, c) ==
  /\ c \in [0 .. Len(w) -> Nat] /\ c[0] = 0
  /\ \A i \in 0 .. Len(w) - 1 : Decides(q, s, w, i, c[i], c[i + 1])

(* The sets of threads *)
LEMMA PlanFacts ==
  ASSUME NEW q, Plan(q)
  PROVE  /\ DOMAIN q.n \in SUBSET Nat /\ IsFiniteSet(DOMAIN q.n) /\ Main \in DOMAIN q.n /\ None \notin DOMAIN q.n
         /\ \A t \in DOMAIN q.n : q.n[t] \in Nat \ {0}
         /\ \A w : \A i \in Nat : /\ Rest(q, w, i) \in SUBSET Nat /\ IsFiniteSet(Rest(q, w, i))
                                  /\ Rest(q, w, i) \subseteq DOMAIN q.n
                                  /\ Cur(q, w, i) \notin Rest(q, w, i)
<1>1. PICK N \in Nat \ {0} : q.n \in [1 .. N -> Nat \ {0}]
  BY DEF Plan
<1>2. DOMAIN q.n \in SUBSET Nat /\ Main \in DOMAIN q.n /\ \A t \in DOMAIN q.n : q.n[t] \in Nat \ {0}
  BY <1>1 DEF Main
<1>3. IsFiniteSet(DOMAIN q.n)
  BY <1>1, FS_Interval
<1>4. None \notin DOMAIN q.n
  BY <1>2, ProgramsAssumption
<1>5. ASSUME NEW w, NEW i \in Nat
      PROVE  /\ Rest(q, w, i) \in SUBSET Nat /\ IsFiniteSet(Rest(q, w, i))
             /\ Rest(q, w, i) \subseteq DOMAIN q.n /\ Cur(q, w, i) \notin Rest(q, w, i)
  <2>1. Rest(q, w, i) \subseteq DOMAIN q.n
    BY <1>2 DEF Rest, Left
  <2>2. IsFiniteSet(Rest(q, w, i))
    BY <1>3, <2>1, FS_Subset
  <2>3. Cur(q, w, i) \notin Rest(q, w, i)
    BY <1>4, <2>1 DEF Cur, Rest
  <2>4. QED
    BY <1>2, <2>1, <2>2, <2>3
<1>6. QED
  BY <1>2, <1>3, <1>4, <1>5

(* A question that has been asked has an answer, and it is one of the threads of the set. *)
LEMMA PickAtMoves ==
  ASSUME NEW s \in Seq(Branch), NEW k \in Nat, NEW R \in SUBSET Nat, IsFiniteSet(R), R # {}, NEW t, NEW j,
         PickAt(s, k, R, t, j)
  PROVE  j \in Nat /\ k <= j /\ (k = j \/ j \in DOMAIN s) /\ t \in R
<1>1. Cardinality(R) \in Nat \ {0}
  BY FiniteOps
<1>2. CASE Cardinality(R) = 1
  <2>1. 0 \in 0 .. Cardinality(R) - 1
    BY <1>2
  <2>2. QED
    BY <1>2, <2>1, NthRank DEF PickAt
<1>3. CASE Cardinality(R) # 1
  <2>1. k + 1 \in DOMAIN s /\ j = k + 1 /\ s[k + 1].alts = Cardinality(R) /\ t = Nth(R, s[k + 1].index)
    BY <1>3 DEF PickAt
  <2>2. s[k + 1].index \in 0 .. Cardinality(R) - 1
    BY <1>1, <2>1, BranchType
  <2>3. QED
    BY <2>1, <2>2, NthRank
<1>4. QED
  BY <1>2, <1>3

(* The same answers give the same thread, *)
LEMMA PickAtAnswers ==
  ASSUME NEW s, NEW r, NEW k \in Nat, NEW R, NEW t, NEW u, NEW i, NEW j,
         PickAt(s, k, R, t, i), PickAt(r, k, R, u, j), Same(s, r, i)
  PROVE  t = u /\ i = j
<1>1. CASE Cardinality(R) = 1
  BY <1>1 DEF PickAt
<1>2. CASE Cardinality(R) # 1
  <2>1. i = k + 1 /\ j = k + 1 /\ t = Nth(R, s[k + 1].index) /\ u = Nth(R, r[k + 1].index)
    BY <1>2 DEF PickAt
  <2>2. s[k + 1] = r[k + 1]
    BY <2>1 DEF Same
  <2>3. QED
    BY <2>1, <2>2
<1>3. QED
  BY <1>1, <1>2

(* ... and are kept by a schedule that agrees. *)
LEMMA PickAtKeeps ==
  ASSUME NEW s, NEW r, NEW k \in Nat, NEW R, NEW t, NEW i, PickAt(s, k, R, t, i), Same(s, r, i)
  PROVE  PickAt(r, k, R, t, i)
<1>1. CASE Cardinality(R) = 1
  BY <1>1 DEF PickAt
<1>2. CASE Cardinality(R) # 1
  <2>1. i = k + 1 /\ s[k + 1] = r[k + 1] /\ k + 1 \in DOMAIN r
    BY <1>2 DEF PickAt, Same
  <2>2. QED
    BY <1>2, <2>1 DEF PickAt
<1>3. QED
  BY <1>1, <1>2

(* One position more *)
LEMMA SameMore ==
  ASSUME NEW s, NEW r, NEW k \in Nat, Same(s, r, k), k + 1 \in DOMAIN s, k + 1 \in DOMAIN r, s[k + 1] = r[k + 1]
  PROVE  Same(s, r, k + 1)
  BY DEF Same

(* The same thread comes from the same answers. *)
LEMMA PickAtQuestions ==
  ASSUME NEW s \in Seq(Branch), NEW r \in Seq(Branch), NEW k \in Nat, NEW R \in SUBSET Nat, IsFiniteSet(R),
         R # {}, NEW t, NEW i, NEW j, PickAt(s, k, R, t, i), PickAt(r, k, R, t, j), Same(s, r, k)
  PROVE  i = j /\ Same(s, r, i)
<1>1. CASE Cardinality(R) = 1
  BY <1>1 DEF PickAt
<1>2. CASE Cardinality(R) # 1
  <2>1. PICK m : m = k + 1
    OBVIOUS
  <2>2. /\ i = m /\ j = m /\ m \in DOMAIN s /\ m \in DOMAIN r
        /\ s[m].type = "PickNext" /\ r[m].type = "PickNext"
        /\ s[m].alts = Cardinality(R) /\ r[m].alts = Cardinality(R)
        /\ t = Nth(R, s[m].index) /\ t = Nth(R, r[m].index)
    BY <1>2, <2>1 DEF PickAt
  <2>3. s[m] \in Branch /\ r[m] \in Branch
    BY <2>2
  <2>4. s[m].index \in 0 .. Cardinality(R) - 1 /\ r[m].index \in 0 .. Cardinality(R) - 1
    <3>1. /\ s[m].alts \in Nat /\ s[m].index \in Nat /\ s[m].index < s[m].alts
          /\ r[m].alts \in Nat /\ r[m].index \in Nat /\ r[m].index < r[m].alts
      BY <2>3, BranchType
    <3>2. QED
      BY <2>2, <3>1
  <2>5. s[m].index = r[m].index
    <3>1. Rank(R, Nth(R, s[m].index)) = s[m].index
      BY <2>4, NthRank
    <3>2. Rank(R, Nth(R, r[m].index)) = r[m].index
      BY <2>4, NthRank
    <3>3. QED
      BY <2>2, <3>1, <3>2
  <2>6. s[m] = r[m]
    BY <2>2, <2>3, <2>5, BranchType
  <2>7. QED
    BY <2>1, <2>2, <2>6, SameMore
<1>3. QED
  BY <1>1, <1>2

(* The same for the whole turn: it moves on and picks one of its options, *)
LEMMA TurnMoves ==
  ASSUME NEW s \in Seq(Branch), NEW k \in Nat, NEW R \in SUBSET Nat, IsFiniteSet(R), NEW kind, NEW a,
         NEW t, NEW j, Turn(kind, a, R, s, k, t, j)
  PROVE  j \in Nat /\ k <= j /\ (k = j \/ j \in DOMAIN s) /\ t \in Options(kind, a, R)
<1>1. CASE kind = "pick" /\ R # {} /\ PickAt(s, k, R, t, j)
  BY <1>1, PickAtMoves DEF Options
<1>2. CASE kind = "stay" /\ t = a /\ j = k
  BY <1>2 DEF Options
<1>3. CASE kind = "ask" /\ k + 1 \in DOMAIN s /\ t = a /\ j = k + 1
  BY <1>3 DEF Options
<1>4. CASE kind = "ask" /\ R # {} /\ k + 1 \in DOMAIN s /\ PickAt(s, k + 1, R, t, j)
  <2>1. PICK m : m = k + 1
    OBVIOUS
  <2>2. m \in Nat /\ m \in DOMAIN s /\ k <= m
    BY <1>4, <2>1
  <2>3. j \in Nat /\ m <= j /\ (m = j \/ j \in DOMAIN s) /\ t \in R
    BY <1>4, <2>1, <2>2, PickAtMoves
  <2>4. QED
    BY <1>4, <2>2, <2>3 DEF Options
<1>5. QED
  BY <1>1, <1>2, <1>3, <1>4 DEF Turn

(* ... the same answers give the same thread, *)
LEMMA TurnAnswers ==
  ASSUME NEW s \in Seq(Branch), NEW r, NEW k \in Nat, NEW R \in SUBSET Nat, IsFiniteSet(R), NEW kind, NEW a,
         NEW t, NEW u, NEW i, NEW j, Turn(kind, a, R, s, k, t, i), Turn(kind, a, R, r, k, u, j), Same(s, r, i)
  PROVE  t = u /\ i = j
<1>1. CASE kind = "pick"
  BY <1>1, PickAtAnswers DEF Turn
<1>2. CASE kind = "stay"
  BY <1>2 DEF Turn
<1>3. CASE kind = "ask"
  <2>1. PICK m : m = k + 1
    OBVIOUS
  <2>2. R # {} /\ i \in Nat /\ m \in 1 .. i
    <3>1. R # {} /\ m \in Nat /\ m \in DOMAIN s
      BY <1>3, <2>1 DEF Turn
    <3>2. i = m \/ PickAt(s, m, R, t, i)
      BY <1>3, <2>1 DEF Turn
    <3>3. i \in Nat /\ m <= i
      BY <3>1, <3>2, PickAtMoves
    <3>4. QED
      BY <2>1, <3>1, <3>3
  <2>3. s[m] = r[m]
    BY <2>2 DEF Same
  <2>4. CASE s[m].index = 0
    BY <1>3, <2>1, <2>3, <2>4 DEF Turn
  <2>5. CASE s[m].index # 0
    <3>1. PickAt(s, m, R, t, i) /\ PickAt(r, m, R, u, j) /\ m \in Nat
      BY <1>3, <2>1, <2>3, <2>5 DEF Turn
    <3>2. QED
      BY <3>1, PickAtAnswers
  <2>6. QED
    BY <2>4, <2>5
<1>4. QED
  BY <1>1, <1>2, <1>3 DEF Turn

(* ... and are kept by a schedule that agrees, *)
LEMMA TurnKeeps ==
  ASSUME NEW s \in Seq(Branch), NEW r, NEW k \in Nat, NEW R \in SUBSET Nat, IsFiniteSet(R), NEW kind, NEW a,
         NEW t, NEW i, Turn(kind, a, R, s, k, t, i), Same(s, r, i)
  PROVE  Turn(kind, a, R, r, k, t, i)
<1>1. CASE kind = "pick"
  BY <1>1, PickAtKeeps DEF Turn
<1>2. CASE kind = "stay"
  BY <1>2 DEF Turn
<1>3. CASE kind = "ask"
  <2>1. PICK m : m = k + 1
    OBVIOUS
  <2>2. R # {} /\ i \in Nat /\ m \in 1 .. i /\ m \in Nat
    <3>1. R # {} /\ m \in Nat /\ m \in DOMAIN s
      BY <1>3, <2>1 DEF Turn
    <3>2. i = m \/ PickAt(s, m, R, t, i)
      BY <1>3, <2>1 DEF Turn
    <3>3. i \in Nat /\ m <= i
      BY <3>1, <3>2, PickAtMoves
    <3>4. QED
      BY <2>1, <3>1, <3>3
  <2>3. s[m] = r[m] /\ m \in DOMAIN r
    BY <2>2 DEF Same
  <2>4. CASE s[m].index = 0
    BY <1>3, <2>1, <2>3, <2>4 DEF Turn
  <2>5. CASE s[m].index # 0
    <3>1. PickAt(s, m, R, t, i) /\ s[m].index = 1
      BY <1>3, <2>1, <2>5 DEF Turn
    <3>2. PickAt(r, m, R, t, i)
      BY <2>2, <3>1, PickAtKeeps
    <3>3. QED
      BY <1>3, <2>1, <2>3, <3>1, <3>2 DEF Turn
  <2>6. QED
    BY <2>4, <2>5
<1>4. QED
  BY <1>1, <1>2, <1>3 DEF Turn

(* ... and the same thread comes from the same answers. *)
LEMMA TurnQuestions ==
  ASSUME NEW s \in Seq(Branch), NEW r \in Seq(Branch), NEW k \in Nat, NEW R \in SUBSET Nat, IsFiniteSet(R),
         NEW kind, NEW a, a \notin R, NEW t, NEW i, NEW j,
         Turn(kind, a, R, s, k, t, i), Turn(kind, a, R, r, k, t, j), Same(s, r, k)
  PROVE  i = j /\ Same(s, r, i)
<1>1. CASE kind = "pick"
  BY <1>1, PickAtQuestions DEF Turn
<1>2. CASE kind = "stay"
  BY <1>2 DEF Turn
<1>3. CASE kind = "ask"
  <2>1. PICK m : m = k + 1
    OBVIOUS
  <2>2. /\ R # {} /\ m \in DOMAIN s /\ m \in DOMAIN r /\ m \in Nat
        /\ s[m].type = "Preempt" /\ s[m].alts = 2 /\ r[m].type = "Preempt" /\ r[m].alts = 2
        /\ (s[m].index = 0 /\ t = a /\ i = m) \/ (s[m].index = 1 /\ PickAt(s, m, R, t, i))
        /\ (r[m].index = 0 /\ t = a /\ j = m) \/ (r[m].index = 1 /\ PickAt(r, m, R, t, j))
    BY <1>3, <2>1 DEF Turn
  <2>3. s[m] \in Branch /\ r[m] \in Branch
    BY <2>2
  <2>4. PickAt(s, m, R, t, i) \/ PickAt(r, m, R, t, j) => t # a
    BY <2>2, PickAtMoves
  <2>5. s[m].index = r[m].index
    BY <2>2, <2>4
  <2>6. s[m] = r[m]
    BY <2>2, <2>3, <2>5, BranchType
  <2>7. Same(s, r, m)
    BY <2>1, <2>2, <2>6, SameMore
  <2>8. CASE s[m].index = 0
    BY <2>2, <2>5, <2>7, <2>8
  <2>9. CASE s[m].index = 1
    <3>1. PickAt(s, m, R, t, i) /\ PickAt(r, m, R, t, j)
      BY <2>2, <2>5, <2>9
    <3>2. QED
      BY <2>2, <2>7, <3>1, PickAtQuestions
  <2>10. QED
    BY <2>2, <2>8, <2>9
<1>4. QED
  BY <1>1, <1>2, <1>3 DEF Turn

(* The situation after i picks depends on these only. *)
LEMMA SituationAgrees ==
  ASSUME NEW q, Plan(q), NEW w, NEW v, NEW i \in Nat, Same(w, v, i)
  PROVE  Kind(q, w, i) = Kind(q, v, i) /\ Cur(q, w, i) = Cur(q, v, i) /\ Rest(q, w, i) = Rest(q, v, i)
  BY WordsAgree DEF Kind

(* No thread can be picked: all have exited, or the simulation is stuck. *)
Halted(q, w, n) == Options(Kind(q, w, n), Cur(q, w, n), Rest(q, w, n)) = {}

(* A word of the plan q that the schedule s decides on *)
Run(q, s, w, c) == Plan(q) /\ s \in Seq(Branch) /\ w \in Seq(DOMAIN q.n) /\ Coded(q, s, w, c)

(* One pick of it *)
LEMMA RunStep ==
  ASSUME NEW q, NEW s, NEW w, NEW c, Run(q, s, w, c), NEW i \in 0 .. Len(w) - 1
  PROVE  /\ i \in Nat /\ i + 1 \in DOMAIN w /\ i \in 0 .. Len(w) /\ i + 1 \in 0 .. Len(w)
         /\ c[i] \in Nat /\ c[i + 1] \in Nat /\ c[i] <= c[i + 1] /\ (c[i] = c[i + 1] \/ c[i + 1] \in DOMAIN s)
         /\ Decides(q, s, w, i, c[i], c[i + 1])
         /\ w[i + 1] \in Options(Kind(q, w, i), Cur(q, w, i), Rest(q, w, i))
<1>1. i \in Nat /\ i + 1 \in DOMAIN w /\ i \in 0 .. Len(w) /\ i + 1 \in 0 .. Len(w)
  BY DEF Run
<1>2. c[i] \in Nat /\ c[i + 1] \in Nat /\ Decides(q, s, w, i, c[i], c[i + 1])
  BY <1>1 DEF Run, Coded
<1>3. Rest(q, w, i) \in SUBSET Nat /\ IsFiniteSet(Rest(q, w, i))
  BY <1>1, PlanFacts DEF Run
<1>4. s \in Seq(Branch)
  BY DEF Run
<1>5. Turn(Kind(q, w, i), Cur(q, w, i), Rest(q, w, i), s, c[i], w[i + 1], c[i + 1])
  BY <1>2 DEF Decides
<1>6. c[i] <= c[i + 1] /\ (c[i] = c[i + 1] \/ c[i + 1] \in DOMAIN s)
      /\ w[i + 1] \in Options(Kind(q, w, i), Cur(q, w, i), Rest(q, w, i))
  BY <1>2, <1>3, <1>4, <1>5, TurnMoves
<1>7. QED
  BY <1>1, <1>2, <1>6

(* The schedule is used from left to right. *)
LEMMA RunMonotone ==
  ASSUME NEW q, NEW s, NEW w, NEW c, Run(q, s, w, c), NEW i \in 0 .. Len(w), NEW j \in 0 .. Len(w), i <= j
  PROVE  c[i] \in Nat /\ c[j] \in Nat /\ c[i] <= c[j] /\ c[j] <= Len(s)
<1>1. Len(w) \in Nat /\ Len(s) \in Nat /\ DOMAIN s = 1 .. Len(s) /\ c[0] = 0
      /\ \A k \in 0 .. Len(w) : c[k] \in Nat
  BY DEF Run, Coded
<1> DEFINE W == {k \in Nat : k <= Len(w) => c[k] <= Len(s) /\ \A m \in 0 .. k : c[m] <= c[k]}
<1>2. 0 \in W
  <2>1. \A m \in 0 .. 0 : m = 0
    OBVIOUS
  <2>2. QED
    BY <1>1, <2>1
<1>3. ASSUME NEW k \in Nat, k \in W PROVE k + 1 \in W
  <2>1. SUFFICES ASSUME k + 1 <= Len(w) PROVE c[k + 1] <= Len(s) /\ \A m \in 0 .. k + 1 : c[m] <= c[k + 1]
    OBVIOUS
  <2>2. k \in 0 .. Len(w) - 1 /\ k <= Len(w)
    BY <1>1, <2>1
  <2>3. c[k] <= Len(s) /\ \A m \in 0 .. k : c[m] <= c[k]
    BY <1>3, <2>2
  <2>4. c[k] \in Nat /\ c[k + 1] \in Nat /\ c[k] <= c[k + 1] /\ (c[k] = c[k + 1] \/ c[k + 1] \in DOMAIN s)
    BY <2>2, RunStep
  <2>5. c[k + 1] <= Len(s)
    BY <1>1, <2>3, <2>4
  <2>6. ASSUME NEW m \in 0 .. k + 1 PROVE c[m] <= c[k + 1]
    <3>1. CASE m = k + 1
      BY <2>4, <3>1
    <3>2. CASE m \in 0 .. k
      <4>1. m \in 0 .. Len(w)
        BY <1>1, <2>2, <3>2
      <4>2. QED
        BY <1>1, <2>3, <2>4, <3>2, <4>1
    <3>3. QED
      BY <3>1, <3>2
  <2>7. QED
    BY <2>5, <2>6
<1> HIDE DEF W
<1>4. Nat \subseteq W
  BY <1>2, <1>3, NumbersInduction
<1>5. i \in Nat /\ j \in Nat /\ j <= Len(w) /\ i \in 0 .. j
  BY <1>1
<1>6. j \in W
  BY <1>4, <1>5
<1>7. QED
  BY <1>1, <1>5, <1>6 DEF W

(* Simulations are deterministic: as long as the answers of two schedules are the same, so are
   the threads that are picked. *)
LEMMA SameWord ==
  ASSUME NEW q, NEW s, NEW w, NEW c, Run(q, s, w, c), NEW r, NEW v, NEW d, Run(q, r, v, d),
         Halted(q, v, Len(v)), NEW m \in 0 .. Len(w), Same(s, r, c[m])
  PROVE  m <= Len(v) /\ d[m] = c[m] /\ Same(w, v, m)
<1>1. Len(w) \in Nat /\ Len(v) \in Nat /\ DOMAIN w = 1 .. Len(w) /\ DOMAIN v = 1 .. Len(v) /\ m \in Nat
      /\ c[0] = 0 /\ d[0] = 0 /\ Plan(q) /\ s \in Seq(Branch) /\ r \in Seq(Branch)
  BY DEF Run, Coded
<1> DEFINE W == {i \in Nat : i <= m => i <= Len(v) /\ d[i] = c[i] /\ Same(w, v, i)}
<1>2. 0 \in W
  BY <1>1 DEF Same
<1>3. ASSUME NEW i \in Nat, i \in W PROVE i + 1 \in W
  <2>1. SUFFICES ASSUME i + 1 <= m PROVE i + 1 <= Len(v) /\ d[i + 1] = c[i + 1] /\ Same(w, v, i + 1)
    OBVIOUS
  <2>2. i \in 0 .. Len(w) - 1 /\ i <= m /\ i + 1 \in 0 .. Len(w) /\ m \in 0 .. Len(w)
    BY <1>1, <2>1
  <2>3. i <= Len(v) /\ d[i] = c[i] /\ Same(w, v, i)
    BY <1>3, <2>2
  <2>4. PICK k : k = c[i]
    OBVIOUS
  <2>5. PICK k2 : k2 = c[i + 1]
    OBVIOUS
  <2>6. /\ k \in Nat /\ k2 \in Nat /\ Decides(q, s, w, i, k, k2)
        /\ w[i + 1] \in Options(Kind(q, w, i), Cur(q, w, i), Rest(q, w, i))
    BY <2>2, <2>4, <2>5, RunStep
  <2>7. Kind(q, w, i) = Kind(q, v, i) /\ Cur(q, w, i) = Cur(q, v, i) /\ Rest(q, w, i) = Rest(q, v, i)
    BY <1>1, <2>3, SituationAgrees
  <2>8. i # Len(v)
    <3>1. Options(Kind(q, v, i), Cur(q, v, i), Rest(q, v, i)) # {}
      BY <2>6, <2>7
    <3>2. QED
      BY <3>1 DEF Halted
  <2>9. i \in 0 .. Len(v) - 1 /\ i + 1 <= Len(v)
    <3>1. PICK l : l = Len(v)
      OBVIOUS
    <3>2. l \in Nat /\ i <= l /\ i # l
      BY <1>1, <2>3, <2>8, <3>1
    <3>3. i \in 0 .. l - 1 /\ i + 1 <= l
      BY <3>2
    <3>4. QED
      BY <3>1, <3>3
  <2>10. PICK j2 : j2 = d[i + 1]
    OBVIOUS
  <2>11. Decides(q, r, v, i, k, j2)
    BY <2>3, <2>4, <2>9, <2>10, RunStep
  <2>12. Same(s, r, k2)
    <3>1. k2 <= c[m] /\ c[m] \in Nat
      BY <2>1, <2>2, <2>5, RunMonotone
    <3>2. QED
      BY <2>6, <3>1, SameLess
  <2>13. Rest(q, w, i) \in SUBSET Nat /\ IsFiniteSet(Rest(q, w, i))
    BY <1>1, PlanFacts
  <2>14. w[i + 1] = v[i + 1] /\ k2 = j2
    <3>1. PICK R : R = Rest(q, w, i)
      OBVIOUS
    <3>2. PICK a : a = Cur(q, w, i)
      OBVIOUS
    <3>3. PICK kind : kind = Kind(q, w, i)
      OBVIOUS
    <3>4. Turn(kind, a, R, s, k, w[i + 1], k2) /\ Turn(kind, a, R, r, k, v[i + 1], j2)
      BY <2>6, <2>7, <2>11, <3>1, <3>2, <3>3 DEF Decides
    <3>5. R \in SUBSET Nat /\ IsFiniteSet(R)
      BY <2>13, <3>1
    <3>6. QED
      BY <1>1, <2>6, <2>12, <3>4, <3>5, TurnAnswers
  <2>15. Same(w, v, i + 1)
    <3>1. i + 1 \in DOMAIN w /\ i + 1 \in DOMAIN v
      BY <1>1, <2>2, <2>9
    <3>2. QED
      BY <2>3, <2>14, <3>1, SameMore
  <2>16. QED
    BY <2>5, <2>9, <2>10, <2>14, <2>15
<1> HIDE DEF W
<1>4. Nat \subseteq W
  BY <1>2, <1>3, NumbersInduction
<1>5. m \in W /\ m <= m
  BY <1>1, <1>4
<1>6. QED
  BY <1>5 DEF W

(* ... and different schedules give different words. *)
LEMMA SameSchedule ==
  ASSUME NEW q, NEW s, NEW w, NEW c, Run(q, s, w, c), NEW r, NEW d, Run(q, r, w, d)
  PROVE  d[Len(w)] = c[Len(w)] /\ Same(s, r, c[Len(w)])
<1>1. Len(w) \in Nat /\ c[0] = 0 /\ d[0] = 0 /\ Plan(q) /\ s \in Seq(Branch) /\ r \in Seq(Branch)
  BY DEF Run, Coded
<1> DEFINE W == {i \in Nat : i <= Len(w) => d[i] = c[i] /\ Same(s, r, c[i])}
<1>2. 0 \in W
  BY <1>1 DEF Same
<1>3. ASSUME NEW i \in Nat, i \in W PROVE i + 1 \in W
  <2>1. SUFFICES ASSUME i + 1 <= Len(w) PROVE d[i + 1] = c[i + 1] /\ Same(s, r, c[i + 1])
    OBVIOUS
  <2>2. i \in 0 .. Len(w) - 1 /\ i <= Len(w)
    BY <1>1, <2>1
  <2>3. d[i] = c[i] /\ Same(s, r, c[i])
    BY <1>3, <2>2
  <2>4. PICK k : k = c[i]
    OBVIOUS
  <2>5. PICK k2 : k2 = c[i + 1]
    OBVIOUS
  <2>6. PICK j2 : j2 = d[i + 1]
    OBVIOUS
  <2>7. k \in Nat /\ Decides(q, s, w, i, k, k2)
    BY <2>2, <2>4, <2>5, RunStep
  <2>8. Decides(q, r, w, i, k, j2)
    BY <2>2, <2>3, <2>4, <2>6, RunStep
  <2>9. PICK R : R = Rest(q, w, i)
    OBVIOUS
  <2>10. PICK a : a = Cur(q, w, i)
    OBVIOUS
  <2>11. PICK kind : kind = Kind(q, w, i)
    OBVIOUS
  <2>12. R \in SUBSET Nat /\ IsFiniteSet(R) /\ a \notin R
    BY <1>1, <2>9, <2>10, PlanFacts
  <2>13. Turn(kind, a, R, s, k, w[i + 1], k2) /\ Turn(kind, a, R, r, k, w[i + 1], j2)
    BY <2>7, <2>8, <2>9, <2>10, <2>11 DEF Decides
  <2>14. k2 = j2 /\ Same(s, r, k2)
    BY <1>1, <2>3, <2>4, <2>7, <2>12, <2>13, TurnQuestions
  <2>15. QED
    BY <2>5, <2>6, <2>14
<1> HIDE DEF W
<1>4. Nat \subseteq W
  BY <1>2, <1>3, NumbersInduction
<1>5. Len(w) \in W
  BY <1>1, <1>4
<1>6. QED
  BY <1>1, <1>5 DEF W

(* One more pick *)
LEMMA RunExtends ==
  ASSUME NEW q, NEW s, NEW w, NEW c, Run(q, s, w, c), NEW r \in Seq(Branch), Same(s, r, c[Len(w)]),
         NEW t \in DOMAIN q.n, NEW j \in Nat,
         Turn(Kind(q, w, Len(w)), Cur(q, w, Len(w)), Rest(q, w, Len(w)), r, c[Len(w)], t, j)
  PROVE  \E d : Run(q, r, Append(w, t), d) /\ d[Len(w) + 1] = j
<1>1. PICK n : n = Len(w)
  OBVIOUS
<1>2. PICK v : v = Append(w, t)
  OBVIOUS
<1>3. n \in Nat /\ DOMAIN w = 1 .. n /\ Plan(q) /\ s \in Seq(Branch) /\ w \in Seq(DOMAIN q.n)
      /\ c \in [0 .. n -> Nat] /\ c[0] = 0
  BY <1>1 DEF Run, Coded
<1>4. v \in Seq(DOMAIN q.n) /\ Len(v) = n + 1 /\ DOMAIN v = 1 .. n + 1 /\ v[n + 1] = t /\ \A i \in 1 .. n : v[i] = w[i]
  BY <1>1, <1>2, <1>3
<1>5. \A i \in 0 .. n : Same(w, v, i) /\ i \in Nat
  BY <1>3, <1>4 DEF Same
<1>6. PICK d : d = [i \in 0 .. n + 1 |-> IF i <= n THEN c[i] ELSE j]
  OBVIOUS
<1>7. d \in [0 .. n + 1 -> Nat] /\ d[n + 1] = j /\ \A i \in 0 .. n : d[i] = c[i]
  BY <1>3, <1>6
<1>8. ASSUME NEW i \in 0 .. n PROVE Decides(q, r, v, i, d[i], d[i + 1])
  <2>1. Kind(q, w, i) = Kind(q, v, i) /\ Cur(q, w, i) = Cur(q, v, i) /\ Rest(q, w, i) = Rest(q, v, i)
    BY <1>3, <1>5, SituationAgrees
  <2>2. CASE i = n
    BY <1>1, <1>4, <1>7, <2>1, <2>2 DEF Decides
  <2>3. CASE i # n
    <3>1. i \in 0 .. Len(w) - 1 /\ i \in 0 .. n /\ i + 1 \in 0 .. n /\ i + 1 \in 1 .. n
      BY <1>1, <1>3, <2>3
    <3>2. PICK k : k = c[i]
      OBVIOUS
    <3>3. PICK k2 : k2 = c[i + 1]
      OBVIOUS
    <3>4. k \in Nat /\ k2 \in Nat /\ Decides(q, s, w, i, k, k2) /\ d[i] = k /\ d[i + 1] = k2
      BY <1>7, <3>1, <3>2, <3>3, RunStep
    <3>5. Same(s, r, k2)
      <4>1. k2 <= c[n] /\ c[n] \in Nat
        BY <1>1, <3>1, <3>3, RunMonotone
      <4>2. QED
        BY <1>1, <3>4, <4>1, SameLess
    <3>6. Rest(q, w, i) \in SUBSET Nat /\ IsFiniteSet(Rest(q, w, i))
      <4>1. i \in Nat /\ Plan(q)
        BY <1>3, <3>1
      <4>2. QED
        BY <4>1, PlanFacts
    <3>7. Turn(Kind(q, w, i), Cur(q, w, i), Rest(q, w, i), r, k, w[i + 1], k2)
      BY <1>3, <3>4, <3>5, <3>6, TurnKeeps DEF Decides
    <3>8. QED
      BY <1>4, <2>1, <3>1, <3>4, <3>7 DEF Decides
  <2>4. QED
    BY <2>2, <2>3
<1>9. Coded(q, r, v, d)
  <2>1. d[0] = 0 /\ 0 .. Len(v) - 1 = 0 .. n /\ 0 .. Len(v) = 0 .. n + 1
    BY <1>3, <1>4, <1>7
  <2>2. QED
    BY <1>7, <1>8, <2>1 DEF Coded
<1>10. QED
  BY <1>1, <1>2, <1>3, <1>4, <1>7, <1>9 DEF Run

-----------------------------------------------------------------------------
(* The words that the limits allow, and the simulations that produce them *)

Word(q, w) ==
  /\ w \in Seq(DOMAIN q.n) /\ w # <<>> /\ w[1] = Main
  /\ \A t \in DOMAIN q.n : Count(w, Len(w), t) = q.n[t]
  /\ ~Exceeds(Cost(q, w, Len(w)), q.mp)
  /\ \A i \in 1 .. Len(w) - 1 : Due(q, w, i) => w[i + 1] # w[i]

(* A simulation has used its schedule up and has come to an end. *)
Simulated(q, e) ==
  /\ \E c : Run(q, e[1], e[2], c) /\ c[Len(e[2])] = Len(e[1])
  /\ Halted(q, e[2], Len(e[2]))

(* What the limits allow is one of the options of the scheduler at every pick, *)
LEMMA WordOptions ==
  ASSUME NEW q, Plan(q), NEW w, Word(q, w), NEW i \in 0 .. Len(w) - 1
  PROVE  w[i + 1] \in Options(Kind(q, w, i), Cur(q, w, i), Rest(q, w, i))
<1>1. PICK N : N = Len(w)
  OBVIOUS
<1>2. PICK t : t = w[i + 1]
  OBVIOUS
<1>3. N \in Nat /\ i \in Nat /\ i + 1 <= N /\ t \in DOMAIN q.n /\ w \in Seq(DOMAIN q.n) /\ DOMAIN w = 1 .. N
  BY <1>1, <1>2 DEF Word
<1>4. t \in Left(q, w, i)
  <2>1. Count(w, i + 1, t) = Count(w, i, t) + 1 /\ Count(w, i, t) \in Nat
    BY <1>2, <1>3, CountStep
  <2>2. Count(w, i + 1, t) <= Count(w, N, t)
    BY <1>3, CountMonotone
  <2>3. Count(w, N, t) = q.n[t] /\ q.n[t] \in Nat
    BY <1>1, <1>3, PlanFacts DEF Word
  <2>4. QED
    BY <1>3, <2>1, <2>2, <2>3 DEF Left
<1>5. CASE i = 0
  <2>1. Cur(q, w, i) = None /\ Rest(q, w, i) = {Main} /\ t = Main
    BY <1>2, <1>5 DEF Cur, Rest, Word
  <2>2. QED
    BY <1>2, <2>1 DEF Kind, Options
<1>6. CASE i > 0
  <2>1. Rest(q, w, i) = Left(q, w, i) \ {w[i]}
    BY <1>6 DEF Rest
  <2>2. CASE Cur(q, w, i) = None
    <3>1. w[i] \notin Left(q, w, i)
      <4>1. w[i] \in DOMAIN q.n
        BY <1>3, <1>6
      <4>2. w[i] # None
        BY <4>1, PlanFacts
      <4>3. QED
        BY <1>6, <2>2, <4>2 DEF Cur
    <3>2. t \in Rest(q, w, i)
      BY <1>4, <2>1, <3>1
    <3>3. QED
      BY <1>2, <2>2, <3>2 DEF Kind, Options
  <2>3. CASE Cur(q, w, i) # None
    <3>1. Cur(q, w, i) = w[i] /\ w[i] \in Left(q, w, i)
      BY <2>3 DEF Cur
    <3>2. CASE t = w[i]
      <4>1. i \in 1 .. Len(w) - 1
        BY <1>6
      <4>2. ~Due(q, w, i)
        BY <1>2, <3>2, <4>1 DEF Word
      <4>3. QED
        BY <1>2, <2>3, <3>1, <3>2, <4>2 DEF Kind, Options
    <3>3. CASE t # w[i]
      <4>1. t \in Rest(q, w, i)
        BY <1>4, <2>1, <3>3
      <4>2. ~Spent(q, w, i)
        <5>1. Cost(q, w, i + 1) = Cost(q, w, i) + 1 /\ Cost(q, w, i) \in Nat
          BY <1>2, <1>3, <1>6, <3>1, <3>3, CostStep
        <5>2. Cost(q, w, i + 1) <= Cost(q, w, N) /\ Cost(q, w, N) \in Nat
          BY <1>3, CostMonotone, CostStep
        <5>3. ~Exceeds(Cost(q, w, N), q.mp)
          BY <1>1 DEF Word
        <5>4. CASE q.mp = Unlimited
          BY <5>4 DEF Spent, Reached
        <5>5. CASE q.mp # Unlimited
          <6>1. q.mp \in Nat
            BY <5>5 DEF Plan
          <6>2. Cost(q, w, N) <= q.mp
            BY <5>2, <5>3, <5>5, <6>1 DEF Exceeds
          <6>3. ~(Cost(q, w, i) >= q.mp)
            BY <5>1, <5>2, <6>1, <6>2
          <6>4. QED
            BY <6>3 DEF Spent, Reached
        <5>6. QED
          BY <5>4, <5>5
      <4>3. QED
        BY <1>2, <2>3, <4>1, <4>2 DEF Kind, Options
    <3>4. QED
      BY <3>2, <3>3
  <2>4. QED
    BY <2>2, <2>3
<1>7. QED
  BY <1>3, <1>5, <1>6

(* ... and nothing is left at the end. *)
LEMMA WordHalts ==
  ASSUME NEW q, Plan(q), NEW w, Word(q, w) PROVE Halted(q, w, Len(w)) /\ Left(q, w, Len(w)) = {}
<1>1. PICK N : N = Len(w)
  OBVIOUS
<1>2. N \in Nat \ {0}
  BY <1>1, EmptySeq DEF Word
<1>3. Left(q, w, N) = {}
  <2>1. ASSUME NEW t \in DOMAIN q.n PROVE ~(Count(w, N, t) < q.n[t])
    <3>1. Count(w, N, t) = q.n[t] /\ q.n[t] \in Nat
      BY <1>1, PlanFacts DEF Word
    <3>2. QED
      BY <3>1
  <2>2. QED
    BY <2>1 DEF Left
<1>4. Cur(q, w, N) = None /\ Rest(q, w, N) = {}
  BY <1>2, <1>3 DEF Cur, Rest
<1>5. QED
  BY <1>1, <1>3, <1>4 DEF Halted, Kind, Options

(* Two simulations that were given the same answers in the first m picks *)
LEMMA Twin ==
  ASSUME NEW q, NEW e, NEW c, Run(q, e[1], e[2], c), NEW d, Simulated(q, d), NEW m \in 0 .. Len(e[2]),
         ~Halted(q, e[2], m), Same(e[1], d[1], c[m])
  PROVE  /\ m + 1 \in DOMAIN d[2] /\ Same(e[2], d[2], m) /\ d[1] \in Seq(Branch)
         /\ \E j \in Nat : Turn(Kind(q, e[2], m), Cur(q, e[2], m), Rest(q, e[2], m), d[1], c[m], d[2][m + 1], j)
<1>1. PICK f : Run(q, d[1], d[2], f)
  BY DEF Simulated
<1>2. Halted(q, d[2], Len(d[2]))
  BY DEF Simulated
<1>3. PICK s : s = e[1]
  OBVIOUS
<1>4. PICK w : w = e[2]
  OBVIOUS
<1>5. PICK r : r = d[1]
  OBVIOUS
<1>6. PICK v : v = d[2]
  OBVIOUS
<1>7. Run(q, s, w, c) /\ Run(q, r, v, f) /\ Halted(q, v, Len(v)) /\ m \in 0 .. Len(w) /\ Same(s, r, c[m])
  BY <1>1, <1>2, <1>3, <1>4, <1>5, <1>6
<1>8. m <= Len(v) /\ f[m] = c[m] /\ Same(w, v, m)
  BY <1>7, SameWord
<1>9. m \in Nat /\ Plan(q) /\ v \in Seq(DOMAIN q.n) /\ Len(v) \in Nat /\ DOMAIN v = 1 .. Len(v) /\ r \in Seq(Branch)
  BY <1>7 DEF Run
<1>10. Kind(q, w, m) = Kind(q, v, m) /\ Cur(q, w, m) = Cur(q, v, m) /\ Rest(q, w, m) = Rest(q, v, m)
  BY <1>8, <1>9, SituationAgrees
<1>11. m # Len(v)
  <2>1. ~Halted(q, v, m)
    BY <1>4, <1>10 DEF Halted
  <2>2. QED
    BY <1>7, <2>1
<1>12. m \in 0 .. Len(v) - 1 /\ m + 1 \in DOMAIN v
  BY <1>8, <1>9, <1>11
<1>13. f[m + 1] \in Nat /\ Decides(q, r, v, m, f[m], f[m + 1])
  BY <1>7, <1>12, RunStep
<1>14. Turn(Kind(q, w, m), Cur(q, w, m), Rest(q, w, m), r, c[m], v[m + 1], f[m + 1])
  BY <1>8, <1>10, <1>13 DEF Decides
<1>15. QED
  BY <1>3, <1>4, <1>5, <1>6, <1>8, <1>9, <1>12, <1>13, <1>14

(* The transitivity that is needed below *)
LEMMA SameTrans == ASSUME NEW s, NEW r, NEW v, NEW k, Same(s, r, k), Same(r, v, k) PROVE Same(s, v, k)
  BY DEF Same

(* One of the simulations of S takes the t of R at the branch after the first p of s. *)
Leads(S, s, p, R, t) ==
  \E f \in S : Same(s, f[1], p) /\ p + 1 \in DOMAIN f[1] /\ f[1][p + 1].index = Rank(R, t)

(* Every alternative of s has been taken. *)
Tried(S, s) == \A k \in DOMAIN s : \A i \in 0 .. s[k].alts - 1 : TakenBy(S, s, k, i)

(* Of a question for a thread, the answer that leads to t has been given, too. *)
LEMMA PickAlternative ==
  ASSUME NEW S, NEW s, Tried(S, s), NEW p \in Nat, NEW R \in SUBSET Nat, IsFiniteSet(R),
         NEW u, NEW j, PickAt(s, p, R, u, j), NEW t \in R
  PROVE  \/ Cardinality(R) = 1 /\ u = t
         \/ Cardinality(R) # 1 /\ Leads(S, s, p, R, t)
<1>1. CASE Cardinality(R) = 1
  BY <1>1, NthRank DEF PickAt
<1>2. CASE Cardinality(R) # 1
  <2>1. p + 1 \in DOMAIN s /\ s[p + 1].alts = Cardinality(R)
    BY <1>2 DEF PickAt
  <2>2. PICK i : i = Rank(R, t)
    OBVIOUS
  <2>3. i \in 0 .. s[p + 1].alts - 1
    BY <2>1, <2>2, Ranks
  <2>4. TakenBy(S, s, p + 1, i)
    BY <2>1, <2>3 DEF Tried
  <2>5. PICK f \in S : p + 1 \in DOMAIN f[1] /\ Same(f[1], s, (p + 1) - 1) /\ f[1][p + 1].index = i
    BY <2>4 DEF TakenBy
  <2>6. (p + 1) - 1 = p
    OBVIOUS
  <2>7. Same(s, f[1], p)
    BY <2>5, <2>6, SameSym
  <2>8. QED
    BY <1>2, <2>2, <2>5, <2>7 DEF Leads
<1>3. QED
  BY <1>1, <1>2

(* ... and it leads there. *)
LEMMA PickedThere ==
  ASSUME NEW s, NEW p, NEW R \in SUBSET Nat, IsFiniteSet(R), NEW t \in R, NEW u, NEW j, PickAt(s, p, R, u, j),
         Cardinality(R) # 1, s[p + 1].index = Rank(R, t)
  PROVE  u = t
  BY NthRank DEF PickAt

(* If all alternatives have been taken, a simulation that agrees with a word in the first m picks
   has one beside it that agrees in the next one, too. *)
LEMMA NextPick ==
  ASSUME NEW q, Plan(q), NEW S, NEW n, AllTaken(S, n), \A e \in S : Simulated(q, e),
         NEW w, Word(q, w), NEW m \in 0 .. Len(w) - 1, NEW e \in S, m <= Len(e[2]), Same(w, e[2], m)
  PROVE  \E d \in S : m + 1 \in DOMAIN d[2] /\ Same(w, d[2], m + 1)
<1>1. PICK c : Run(q, e[1], e[2], c)
  BY DEF Simulated
<1>2. PICK k : k = c[m]
  OBVIOUS
<1>3. PICK R : R = Rest(q, e[2], m)
  OBVIOUS
<1>4. PICK a : a = Cur(q, e[2], m)
  OBVIOUS
<1>5. PICK kind : kind = Kind(q, e[2], m)
  OBVIOUS
<1>6. PICK t : t = w[m + 1]
  OBVIOUS
<1>7. /\ m \in Nat /\ m \in 0 .. Len(e[2]) /\ m + 1 \in DOMAIN w /\ e[1] \in Seq(Branch) /\ e[2] \in Seq(DOMAIN q.n)
  <2>1. w \in Seq(DOMAIN q.n)
    BY DEF Word
  <2>2. e[1] \in Seq(Branch) /\ e[2] \in Seq(DOMAIN q.n)
    BY <1>1 DEF Run
  <2>3. QED
    BY <2>1, <2>2
<1>8. k \in Nat /\ k <= Len(e[1])
  BY <1>1, <1>2, <1>7, RunMonotone
<1>9. R \in SUBSET Nat /\ IsFiniteSet(R) /\ a \notin R
  BY <1>3, <1>4, <1>7, PlanFacts
<1>10. t \in Options(kind, a, R)
  <2>1. Kind(q, w, m) = kind /\ Cur(q, w, m) = a /\ Rest(q, w, m) = R
    BY <1>3, <1>4, <1>5, <1>7, SituationAgrees
  <2>2. QED
    BY <1>6, <2>1, WordOptions
<1>11. ~Halted(q, e[2], m)
  BY <1>3, <1>4, <1>5, <1>10 DEF Halted
<1>12. ASSUME NEW d \in S, Same(e[1], d[1], k)
       PROVE  /\ m + 1 \in DOMAIN d[2] /\ Same(w, d[2], m) /\ d[1] \in Seq(Branch)
              /\ \E j \in Nat : Turn(kind, a, R, d[1], k, d[2][m + 1], j)
  <2>1. /\ m + 1 \in DOMAIN d[2] /\ Same(e[2], d[2], m) /\ d[1] \in Seq(Branch)
        /\ \E j \in Nat : Turn(Kind(q, e[2], m), Cur(q, e[2], m), Rest(q, e[2], m), d[1], c[m], d[2][m + 1], j)
    BY <1>1, <1>2, <1>7, <1>11, <1>12, Twin
  <2>2. QED
    BY <1>2, <1>3, <1>4, <1>5, <2>1, SameTrans
<1>13. SUFFICES \E d \in S : Same(e[1], d[1], k) /\ d[2][m + 1] = t
  BY <1>6, <1>7, <1>12, SameMore
<1>14. Same(e[1], e[1], k)
  BY <1>7, <1>8 DEF Same
<1>15. PICK j \in Nat : Turn(kind, a, R, e[1], k, e[2][m + 1], j)
  BY <1>12, <1>14
<1>16. CASE kind = "stay"
  <2>1. t = a /\ e[2][m + 1] = a
    BY <1>10, <1>15, <1>16 DEF Options, Turn
  <2>2. QED
    BY <1>14, <2>1
<1>17. CASE kind = "pick"
  <2>1. t \in R /\ R # {} /\ PickAt(e[1], k, R, e[2][m + 1], j)
    BY <1>10, <1>15, <1>17 DEF Options, Turn
  <2>2. CASE e[2][m + 1] = t
    BY <1>14, <2>2
  <2>3. ASSUME Cardinality(R) # 1, NEW f \in S, Same(e[1], f[1], k), f[1][k + 1].index = Rank(R, t)
        PROVE  f[2][m + 1] = t
    <3>1. PICK i \in Nat : Turn(kind, a, R, f[1], k, f[2][m + 1], i)
      BY <1>12, <2>3
    <3>2. PickAt(f[1], k, R, f[2][m + 1], i)
      BY <1>17, <3>1 DEF Turn
    <3>3. QED
      BY <1>9, <2>1, <2>3, <3>2, PickedThere
  <2>4. \/ Cardinality(R) = 1 /\ e[2][m + 1] = t
        \/ Cardinality(R) # 1 /\ Leads(S, e[1], k, R, t)
    <3>1. Tried(S, e[1])
      BY DEF AllTaken, Tried
    <3>2. QED
      BY <1>8, <1>9, <2>1, <3>1, PickAlternative
  <2>5. QED
    BY <2>2, <2>3, <2>4 DEF Leads
<1>18. CASE kind = "ask"
  <2>1. k + 1 \in DOMAIN e[1] /\ e[1][k + 1].alts = 2
    BY <1>15, <1>18 DEF Turn
  <2>2. \A i \in {0, 1} : \E d \in S : Same(e[1], d[1], k) /\ k + 1 \in DOMAIN d[1] /\ d[1][k + 1].index = i
    <3>1. TAKE i \in {0, 1}
    <3>2. i \in 0 .. e[1][k + 1].alts - 1
      BY <2>1
    <3>3. TakenBy(S, e[1], k + 1, i)
      BY <2>1, <3>2 DEF AllTaken
    <3>4. PICK d \in S : k + 1 \in DOMAIN d[1] /\ Same(d[1], e[1], (k + 1) - 1) /\ d[1][k + 1].index = i
      BY <3>3 DEF TakenBy
    <3>5. (k + 1) - 1 = k
      BY <1>8
    <3>6. QED
      BY <3>4, <3>5, SameSym
  <2>3. CASE t = a
    <3>1. PICK d \in S : Same(e[1], d[1], k) /\ d[1][k + 1].index = 0
      BY <2>2
    <3>2. PICK i \in Nat : Turn(kind, a, R, d[1], k, d[2][m + 1], i)
      BY <1>12, <3>1
    <3>3. d[2][m + 1] = a
      BY <1>18, <3>1, <3>2 DEF Turn
    <3>4. QED
      BY <2>3, <3>1, <3>3
  <2>4. CASE t \in R
    <3>1. PICK d \in S : Same(e[1], d[1], k) /\ k + 1 \in DOMAIN d[1] /\ d[1][k + 1].index = 1
      BY <2>2
    <3>2. PICK i \in Nat : Turn(kind, a, R, d[1], k, d[2][m + 1], i)
      BY <1>12, <3>1
    <3>3. PICK p : p = k + 1
      OBVIOUS
    <3>4. p \in Nat /\ PickAt(d[1], p, R, d[2][m + 1], i) /\ d[1][p].index = 1
      BY <1>8, <1>18, <3>1, <3>2, <3>3 DEF Turn
    <3>5. CASE d[2][m + 1] = t
      BY <3>1, <3>5
    <3>6. ASSUME Cardinality(R) # 1, NEW f \in S, Same(d[1], f[1], p), f[1][p + 1].index = Rank(R, t)
          PROVE  Same(e[1], f[1], k) /\ f[2][m + 1] = t
      <4>1. Same(d[1], f[1], k) /\ f[1][p] = d[1][p]
        BY <1>8, <3>3, <3>4, <3>6 DEF Same
      <4>2. Same(e[1], f[1], k)
        BY <3>1, <4>1, SameTrans
      <4>3. PICK h \in Nat : Turn(kind, a, R, f[1], k, f[2][m + 1], h)
        BY <1>12, <4>2
      <4>4. PickAt(f[1], p, R, f[2][m + 1], h)
        BY <1>18, <3>3, <3>4, <4>1, <4>3 DEF Turn
      <4>5. QED
        BY <1>9, <2>4, <3>6, <4>2, <4>4, PickedThere
    <3>7. \/ Cardinality(R) = 1 /\ d[2][m + 1] = t
          \/ Cardinality(R) # 1 /\ Leads(S, d[1], p, R, t)
      <4>1. Tried(S, d[1])
        BY DEF AllTaken, Tried
      <4>2. QED
        BY <1>9, <2>4, <3>4, <4>1, PickAlternative
    <3>8. QED
      BY <3>5, <3>6, <3>7 DEF Leads
  <2>5. QED
    BY <1>10, <1>18, <2>3, <2>4 DEF Options
<1>19. QED
  BY <1>15, <1>16, <1>17, <1>18 DEF Turn

(* Every word that the limits allow has been run. *)
LEMMA WordsAreRun ==
  ASSUME NEW q, Plan(q), NEW S, NEW n, AllTaken(S, n), \A e \in S : Simulated(q, e), S # {},
         NEW w, Word(q, w)
  PROVE  \E e \in S : e[2] = w
<1>1. w \in Seq(DOMAIN q.n) /\ Len(w) \in Nat /\ DOMAIN w = 1 .. Len(w)
  BY DEF Word
<1>2. \A e \in S : e[2] \in Seq(DOMAIN q.n) /\ Len(e[2]) \in Nat /\ DOMAIN e[2] = 1 .. Len(e[2])
  BY DEF Simulated, Run
<1> DEFINE W == {m \in Nat : m <= Len(w) => \E e \in S : m <= Len(e[2]) /\ Same(w, e[2], m)}
<1>3. 0 \in W
  BY <1>2 DEF Same
<1>4. ASSUME NEW m \in Nat, m \in W PROVE m + 1 \in W
  <2>1. SUFFICES ASSUME m + 1 <= Len(w) PROVE \E e \in S : m + 1 <= Len(e[2]) /\ Same(w, e[2], m + 1)
    OBVIOUS
  <2>2. m \in 0 .. Len(w) - 1 /\ m <= Len(w)
    BY <1>1, <2>1
  <2>3. PICK e \in S : m <= Len(e[2]) /\ Same(w, e[2], m)
    BY <1>4, <2>2
  <2>4. PICK d \in S : m + 1 \in DOMAIN d[2] /\ Same(w, d[2], m + 1)
    BY <2>2, <2>3, NextPick
  <2>5. m + 1 <= Len(d[2])
    BY <1>2, <2>4
  <2>6. QED
    BY <2>4, <2>5
<1> HIDE DEF W
<1>5. Nat \subseteq W
  BY <1>3, <1>4, NumbersInduction
<1>6. PICK m : m = Len(w)
  OBVIOUS
<1>7. m \in Nat /\ m \in W /\ m <= Len(w)
  BY <1>1, <1>5, <1>6
<1>8. PICK e \in S : m <= Len(e[2]) /\ Same(w, e[2], m)
  BY <1>7 DEF W
<1>9. PICK v : v = e[2]
  OBVIOUS
<1>10. v \in Seq(DOMAIN q.n) /\ Len(v) \in Nat /\ m <= Len(v) /\ Same(w, v, m)
  BY <1>2, <1>8, <1>9
<1>11. m = Len(v)
  <2>1. SUFFICES ASSUME m # Len(v) PROVE FALSE
    OBVIOUS
  <2>2. m \in 0 .. Len(v) - 1
    BY <1>7, <1>10, <2>1
  <2>3. PICK c : Run(q, e[1], v, c)
    BY <1>9 DEF Simulated
  <2>4. v[m + 1] \in Options(Kind(q, v, m), Cur(q, v, m), Rest(q, v, m))
    BY <2>2, <2>3, RunStep
  <2>5. Kind(q, w, m) = Kind(q, v, m) /\ Cur(q, w, m) = Cur(q, v, m) /\ Rest(q, w, m) = Rest(q, v, m)
    BY <1>7, <1>10, SituationAgrees
  <2>6. Options(Kind(q, w, m), Cur(q, w, m), Rest(q, w, m)) = {}
    BY <1>6, WordHalts DEF Halted
  <2>7. QED
    BY <2>4, <2>5, <2>6
<1>12. \A i \in 1 .. m : w[i] = v[i]
  BY <1>10 DEF Same
<1>13. v = w
  BY <1>1, <1>6, <1>10, <1>11, <1>12
<1>14. QED
  BY <1>9, <1>13

(* A simulation keeps within the steps of the threads and the limit on preemptions. *)
Within(q, w, n) == (\A t \in DOMAIN q.n : Count(w, n, t) <= q.n[t]) /\ ~Exceeds(Cost(q, w, n), q.mp)

(* ... at every pick *)
LEMMA RunCounts ==
  ASSUME NEW q, NEW s, NEW w, NEW c, Run(q, s, w, c), NEW n \in 0 .. Len(w)
  PROVE  Within(q, w, n)
<1>1. Plan(q) /\ w \in Seq(DOMAIN q.n) /\ Len(w) \in Nat
  BY DEF Run
<1>2. \A t \in DOMAIN q.n : q.n[t] \in Nat \ {0}
  BY <1>1, PlanFacts
<1>3. q.mp \in Nat \cup {Unlimited}
  BY <1>1 DEF Plan
<1> DEFINE W == {i \in Nat : i <= Len(w) => Within(q, w, i)}
<1>4. 0 \in W
  <2>1. \A t : Count(w, 0, t) = 0
    BY CountStep
  <2>2. Cost(q, w, 0) = 0
    BY CostStep
  <2>3. QED
    BY <1>2, <1>3, <2>1, <2>2 DEF Exceeds, Within
<1>5. ASSUME NEW i \in Nat, i \in W PROVE i + 1 \in W
  <2>1. SUFFICES ASSUME i + 1 <= Len(w) PROVE Within(q, w, i + 1)
    OBVIOUS
  <2>2. i \in 0 .. Len(w) - 1 /\ i <= Len(w)
    BY <1>1, <2>1
  <2>3. PICK u : u = w[i + 1]
    OBVIOUS
  <2>4. u \in Options(Kind(q, w, i), Cur(q, w, i), Rest(q, w, i))
    BY <2>2, <2>3, RunStep
  <2>5. /\ \A t \in DOMAIN q.n : Count(w, i, t) <= q.n[t]
        /\ ~Exceeds(Cost(q, w, i), q.mp)
    <3>1. Within(q, w, i)
      BY <1>5, <2>2
    <3>2. QED
      BY <3>1 DEF Within
  <2>6. Kind(q, w, i) = "stay" \/ Kind(q, w, i) = "ask" => Cur(q, w, i) \in Left(q, w, i)
    BY DEF Kind, Cur
  <2>7. i > 0 => u \in Left(q, w, i)
    <3>1. u \in Rest(q, w, i) \/ (u = Cur(q, w, i) /\ Kind(q, w, i) \in {"stay", "ask"})
      BY <2>4 DEF Options
    <3>2. QED
      BY <2>6, <3>1 DEF Rest
  <2>8. i = 0 => u = Main
    <3>1. i = 0 => Kind(q, w, i) = "pick" /\ Rest(q, w, i) = {Main}
      BY DEF Kind, Cur, Rest
    <3>2. QED
      BY <2>4, <3>1 DEF Options
  <2>9. u \in DOMAIN q.n /\ Count(w, i, u) < q.n[u]
    <3>1. CASE i = 0
      <4>1. u \in DOMAIN q.n /\ Count(w, 0, u) = 0
        BY <1>1, <2>8, <3>1, PlanFacts, CountStep
      <4>2. QED
        BY <1>2, <3>1, <4>1
    <3>2. CASE i > 0
      BY <2>7, <3>2 DEF Left
    <3>3. QED
      BY <3>1, <3>2
  <2>10. ASSUME NEW t \in DOMAIN q.n PROVE Count(w, i + 1, t) <= q.n[t]
    <3>1. /\ Count(w, i, t) \in Nat
          /\ Count(w, i + 1, t) = IF u = t THEN Count(w, i, t) + 1 ELSE Count(w, i, t)
      BY <2>3, CountStep
    <3>2. q.n[t] \in Nat /\ Count(w, i, t) <= q.n[t]
      BY <1>2, <2>5
    <3>3. QED
      BY <2>9, <3>1, <3>2
  <2>11. ~Exceeds(Cost(q, w, i + 1), q.mp)
    <3>1. /\ Cost(q, w, i) \in Nat
          /\ Cost(q, w, i + 1) =
               IF i > 0 /\ w[i] # u /\ w[i] \in Left(q, w, i) THEN Cost(q, w, i) + 1 ELSE Cost(q, w, i)
      BY <2>3, CostStep
    <3>2. CASE i > 0 /\ w[i] # u /\ w[i] \in Left(q, w, i)
      <4>1. Cur(q, w, i) = w[i] /\ w[i] \in DOMAIN q.n
        BY <3>2 DEF Cur, Left
      <4>2. w[i] # None
        BY <1>1, <4>1, PlanFacts
      <4>3. Kind(q, w, i) # "stay" /\ Kind(q, w, i) # "stuck"
        BY <2>4, <3>2, <4>1 DEF Options
      <4>4. ~Spent(q, w, i)
        BY <4>1, <4>2, <4>3 DEF Kind
      <4>5. QED
        BY <1>3, <3>1, <3>2, <4>4 DEF Spent, Reached, Exceeds
    <3>3. CASE ~(i > 0 /\ w[i] # u /\ w[i] \in Left(q, w, i))
      BY <2>5, <3>1, <3>3
    <3>4. QED
      BY <3>2, <3>3
  <2>12. QED
    BY <2>10, <2>11 DEF Within
<1> HIDE DEF W
<1>6. Nat \subseteq W
  BY <1>4, <1>5, NumbersInduction
<1>7. n \in Nat /\ n <= Len(w)
  BY <1>1
<1>8. QED
  BY <1>6, <1>7 DEF W

(* There is always a first pick, and it is that of main. *)
LEMMA FirstPick ==
  ASSUME NEW q, NEW w, Plan(q)
  PROVE  /\ ~Halted(q, w, 0) /\ Options(Kind(q, w, 0), Cur(q, w, 0), Rest(q, w, 0)) = {Main}
         /\ Kind(q, w, 0) = "pick" /\ Rest(q, w, 0) = {Main}
<1>1. Kind(q, w, 0) = "pick" /\ Rest(q, w, 0) = {Main}
  BY DEF Kind, Cur, Rest
<1>2. QED
  BY <1>1 DEF Options, Halted

(* A simulation that has come to the end of all threads is a word that the limits allow, *)
LEMMA RunIsWord ==
  ASSUME NEW q, NEW e, Simulated(q, e), Left(q, e[2], Len(e[2])) = {} PROVE Word(q, e[2])
<1>1. PICK w : w = e[2]
  OBVIOUS
<1>2. PICK c : Run(q, e[1], w, c)
  BY <1>1 DEF Simulated
<1>3. Plan(q) /\ w \in Seq(DOMAIN q.n) /\ Len(w) \in Nat /\ Halted(q, w, Len(w))
  BY <1>1, <1>2 DEF Run, Simulated
<1>4. Len(w) > 0 /\ w # <<>>
  <2>1. Len(w) # 0
    BY <1>3, FirstPick
  <2>2. QED
    BY <1>3, <2>1
<1>5. \A i \in 0 .. Len(w) - 1 : w[i + 1] \in Options(Kind(q, w, i), Cur(q, w, i), Rest(q, w, i))
  BY <1>2, RunStep
<1>6. w[1] = Main
  <2>1. w[0 + 1] \in Options(Kind(q, w, 0), Cur(q, w, 0), Rest(q, w, 0))
    BY <1>3, <1>4, <1>5
  <2>2. QED
    BY <1>3, <2>1, FirstPick
<1>7. Len(w) \in 0 .. Len(w)
  BY <1>3
<1>8. ASSUME NEW t \in DOMAIN q.n PROVE Count(w, Len(w), t) = q.n[t]
  <2>1. Count(w, Len(w), t) <= q.n[t]
    BY <1>2, <1>7, RunCounts DEF Within
  <2>2. ~(Count(w, Len(w), t) < q.n[t])
    BY <1>1 DEF Left
  <2>3. Count(w, Len(w), t) \in Nat /\ q.n[t] \in Nat
    BY <1>3, CountStep, PlanFacts
  <2>4. QED
    BY <2>1, <2>2, <2>3
<1>9. ~Exceeds(Cost(q, w, Len(w)), q.mp)
  BY <1>2, <1>7, RunCounts DEF Within
<1>10. ASSUME NEW i \in 1 .. Len(w) - 1, Due(q, w, i) PROVE w[i + 1] # w[i]
  <2>1. w[i + 1] \in Options(Kind(q, w, i), Cur(q, w, i), Rest(q, w, i))
    BY <1>3, <1>5
  <2>2. Kind(q, w, i) \in {"stuck", "pick"}
    BY <1>10 DEF Kind, Due
  <2>3. w[i + 1] \in Rest(q, w, i)
    BY <2>1, <2>2 DEF Options
  <2>4. i # 0
    OBVIOUS
  <2>5. QED
    BY <2>3, <2>4 DEF Rest
<1>11. Word(q, w)
  BY <1>3, <1>4, <1>6, <1>8, <1>9, <1>10 DEF Word
<1>12. QED
  BY <1>1, <1>11

(* ... and it has been run only once. *)
LEMMA SameRun ==
  ASSUME NEW q, NEW e, NEW d, Simulated(q, e), Simulated(q, d), e[2] = d[2] PROVE e[1] = d[1]
<1>1. PICK w : w = e[2]
  OBVIOUS
<1>2. PICK c : Run(q, e[1], w, c) /\ c[Len(w)] = Len(e[1])
  BY <1>1 DEF Simulated
<1>3. PICK f : Run(q, d[1], w, f) /\ f[Len(w)] = Len(d[1])
  BY <1>1 DEF Simulated
<1>4. f[Len(w)] = c[Len(w)] /\ Same(e[1], d[1], c[Len(w)])
  BY <1>2, <1>3, SameSchedule
<1>5. PICK s : s = e[1]
  OBVIOUS
<1>6. PICK r : r = d[1]
  OBVIOUS
<1>7. s \in Seq(Branch) /\ r \in Seq(Branch) /\ Len(s) = Len(r) /\ Same(s, r, Len(s))
  BY <1>2, <1>3, <1>4, <1>5, <1>6 DEF Run
<1>8. \A i \in 1 .. Len(s) : s[i] = r[i]
  BY <1>7 DEF Same
<1>9. s = r
  BY <1>7, <1>8
<1>10. QED
  BY <1>5, <1>6, <1>9

-----------------------------------------------------------------------------
(* The reference: the interleavings of the threads' steps *)

StepPairs(q) == UNION {{t} \X (1 .. q.n[t]) : t \in DOMAIN q.n}

(* Each step has one pick: the word counts them. *)
LEMMA StepsArePicked ==
  ASSUME NEW q, Plan(q), NEW w \in Seq(DOMAIN q.n), \A t \in DOMAIN q.n : Count(w, Len(w), t) = q.n[t]
  PROVE  Cardinality(StepPairs(q)) = Len(w)
<1>1. PICK l : l = Len(w)
  OBVIOUS
<1>2. l \in Nat /\ \A i \in 1 .. l : w[i] \in DOMAIN q.n
  BY <1>1
<1>3. PICK g : g = [i \in 1 .. l |-> <<w[i], Count(w, i, w[i])>>]
  OBVIOUS
<1>4. \A i \in 1 .. l : \A t : /\ Count(w, i - 1, t) \in Nat
                               /\ Count(w, i, t) = IF w[i] = t THEN Count(w, i - 1, t) + 1 ELSE Count(w, i - 1, t)
  <2>1. TAKE i \in 1 .. l
  <2>2. TAKE t
  <2>3. PICK j : j = i - 1
    OBVIOUS
  <2>4. j \in Nat /\ j + 1 = i
    BY <1>2, <2>3
  <2>5. Count(w, j, t) \in Nat /\ Count(w, j + 1, t) = IF w[j + 1] = t THEN Count(w, j, t) + 1 ELSE Count(w, j, t)
    BY <2>4, CountStep
  <2>6. QED
    BY <2>3, <2>4, <2>5
<1>5. \A i \in 0 .. l : \A t : Count(w, i, t) \in Nat
  BY <1>2, CountStep
<1>6. ASSUME NEW i \in 1 .. l PROVE g[i] \in StepPairs(q)
  <2>1. PICK t : t = w[i]
    OBVIOUS
  <2>2. t \in DOMAIN q.n /\ Count(w, l, t) = q.n[t]
    BY <1>1, <1>2, <2>1
  <2>3. Count(w, i, t) <= Count(w, l, t)
    BY <1>2, CountMonotone
  <2>4. Count(w, i, t) \in Nat /\ Count(w, i, t) >= 1 /\ q.n[t] \in Nat
    <3>1. Count(w, i - 1, t) \in Nat /\ Count(w, i, t) = Count(w, i - 1, t) + 1
      BY <1>4, <2>1
    <3>2. q.n[t] \in Nat
      BY <2>2, PlanFacts
    <3>3. QED
      BY <3>1, <3>2
  <2>5. Count(w, i, t) \in 1 .. q.n[t]
    BY <2>2, <2>3, <2>4
  <2>6. g[i] \in {t} \X (1 .. q.n[t])
    BY <1>3, <2>1, <2>5
  <2>7. QED
    BY <2>2, <2>6 DEF StepPairs
<1>7. ASSUME NEW i \in 1 .. l, NEW j \in 1 .. l, i < j PROVE g[i] # g[j]
  <2>1. SUFFICES ASSUME w[i] = w[j], Count(w, i, w[i]) = Count(w, j, w[j]) PROVE FALSE
    BY <1>3
  <2>2. PICK k : k = j - 1
    OBVIOUS
  <2>3. i \in Nat /\ k \in Nat /\ i <= k
    BY <1>2, <1>7, <2>2
  <2>4. PICK t : t = w[i]
    OBVIOUS
  <2>5. Count(w, i, t) <= Count(w, k, t)
    BY <2>3, CountMonotone
  <2>6. Count(w, k, t) \in Nat /\ Count(w, j, t) = Count(w, k, t) + 1
    BY <1>4, <2>1, <2>2, <2>4
  <2>7. Count(w, i, t) \in Nat
    BY <1>5, <1>2
  <2>8. QED
    BY <2>1, <2>4, <2>5, <2>6, <2>7
<1>8. ASSUME NEW p \in StepPairs(q) PROVE \E i \in 1 .. l : g[i] = p
  <2>1. PICK t \in DOMAIN q.n : p \in {t} \X (1 .. q.n[t])
    BY DEF StepPairs
  <2>2. PICK k : k = p[2]
    OBVIOUS
  <2>3. p = <<t, k>> /\ k \in 1 .. q.n[t]
    BY <2>1, <2>2
  <2>4. PICK D : D = {i \in 0 .. l : Count(w, i, t) >= k}
    OBVIOUS
  <2>5. l \in D /\ D \in SUBSET Nat
    <3>1. Count(w, l, t) = q.n[t] /\ q.n[t] \in Nat
      BY <1>1, PlanFacts
    <3>2. QED
      BY <1>2, <2>3, <2>4, <3>1
  <2>6. PICK m \in D : \A i \in D : m <= i
    BY <2>5, LeastNatural
  <2>7. m \in 0 .. l /\ Count(w, m, t) >= k
    BY <2>4, <2>6
  <2>8. m # 0
    <3>1. Count(w, 0, t) = 0
      BY CountStep
    <3>2. QED
      BY <2>3, <2>7, <3>1
  <2>9. m \in 1 .. l /\ m - 1 \in 0 .. l
    BY <1>2, <2>7, <2>8
  <2>10. ~(Count(w, m - 1, t) >= k)
    <3>1. m - 1 \notin D
      BY <2>6, <2>9
    <3>2. QED
      BY <2>4, <2>9, <3>1
  <2>11. /\ Count(w, m - 1, t) \in Nat
         /\ Count(w, m, t) = IF w[m] = t THEN Count(w, m - 1, t) + 1 ELSE Count(w, m - 1, t)
    BY <1>4, <2>9
  <2>12. w[m] = t
    BY <2>7, <2>10, <2>11
  <2>13. Count(w, m, t) = k
    BY <2>3, <2>7, <2>10, <2>11, <2>12
  <2>14. g[m] = p
    BY <1>3, <2>3, <2>9, <2>12, <2>13
  <2>15. QED
    BY <2>9, <2>14
<1>9. g \in Injection(1 .. l, StepPairs(q))
  <2>1. g \in [1 .. l -> StepPairs(q)]
    BY <1>3, <1>6
  <2>2. ASSUME NEW i \in 1 .. l, NEW j \in 1 .. l, g[i] = g[j] PROVE i = j
    <3>1. ~(i < j) /\ ~(j < i)
      BY <1>7, <2>2
    <3>2. QED
      BY <1>2, <3>1
  <2>3. QED
    BY <2>1, <2>2 DEF Injection, IsInjective
<1>10. g \in Surjection(1 .. l, StepPairs(q))
  BY <1>3, <1>6, <1>8 DEF Surjection
<1>11. ExistsBijection(1 .. l, StepPairs(q))
  BY <1>9, <1>10 DEF ExistsBijection, Bijection
<1>12. IsFiniteSet(1 .. l) /\ Cardinality(1 .. l) = l
  BY <1>2, FS_Interval
<1>13. Cardinality(StepPairs(q)) = l
  BY <1>11, <1>12, FS_Bijection
<1>14. QED
  BY <1>1, <1>13

(* Every plan has steps, and finitely many. *)
LEMMA StepPairsFinite ==
  ASSUME NEW q, Plan(q) PROVE IsFiniteSet(StepPairs(q)) /\ Cardinality(StepPairs(q)) \in Nat \ {0}
<1>1. PICK F : F = {{t} \X (1 .. q.n[t]) : t \in DOMAIN q.n}
  OBVIOUS
<1>2. PICK g : g = [t \in DOMAIN q.n |-> {t} \X (1 .. q.n[t])]
  OBVIOUS
<1>3. g \in Surjection(DOMAIN q.n, F)
  BY <1>1, <1>2 DEF Surjection
<1>4. IsFiniteSet(F)
  BY <1>3, PlanFacts, FS_Surjection
<1>5. ASSUME NEW T \in F PROVE IsFiniteSet(T)
  <2>1. PICK t \in DOMAIN q.n : T = {t} \X (1 .. q.n[t])
    BY <1>1
  <2>2. q.n[t] \in Int
    BY PlanFacts
  <2>3. IsFiniteSet(1 .. q.n[t])
    BY <2>2, FS_Interval
  <2>4. IsFiniteSet({t})
    BY FS_Singleton
  <2>5. QED
    BY <2>1, <2>3, <2>4, FS_Product
<1>6. IsFiniteSet(UNION F)
  BY <1>4, <1>5, FS_UNION
<1>7. IsFiniteSet(StepPairs(q))
  BY <1>1, <1>6 DEF StepPairs
<1>8. <<Main, 1>> \in StepPairs(q)
  <2>1. Main \in DOMAIN q.n /\ q.n[Main] \in Nat \ {0}
    BY PlanFacts
  <2>2. 1 \in 1 .. q.n[Main]
    BY <2>1
  <2>3. QED
    BY <2>1, <2>2 DEF StepPairs
<1>9. StepPairs(q) # {}
  BY <1>8
<1>10. Cardinality(StepPairs(q)) \in Nat /\ Cardinality(StepPairs(q)) # 0
  BY <1>7, <1>9, FS_CardinalityType, FS_EmptySet
<1>11. QED
  BY <1>7, <1>10

-----------------------------------------------------------------------------
(* Straight programs under the depth-first scheduler without a limit on the steps *)

Plain == par.kind = "dfs" /\ par.max_steps = Unlimited /\ Straight

ThePlan == [n |-> [t \in Thread |-> StepsOf(t)], mp |-> par.max_preemptions, fp |-> par.force_preempt]

(* How often a thread has been picked *)
Picks(t) == Count(word, Len(word), t)

(* A thread that does not run has done the operations of its picks and stopped before the next, *)
Resting(t) ==
  IF Picks(t) = 0 THEN pc[t] = 1 /\ t \notin pending
  ELSE pc[t] = Spawned(t) + Picks(t) /\ (t \in pending <=> Picks(t) < StepsOf(t))

(* ... the running one has the operation of its last pick before it or behind it. *)
Moving(t) ==
  /\ Picks(t) > 0
  /\ \/ t \in pending /\ Picks(t) > 1 /\ pc[t] = Spawned(t) + Picks(t) - 1
     \/ t \notin pending /\ pc[t] = Spawned(t) + Picks(t)
     \/ t \notin pending /\ Picks(t) = 1 /\ pc[t] <= Spawned(t) + 1

Places ==
  \A t \in Thread : Picks(t) <= StepsOf(t) /\ IF t = running THEN Moving(t) ELSE Resting(t)

(* The threads that main has not started yet *)
Unborn == \A t \in Thread : t > pc[Main] => Picks(t) = 0

Ready ==
  IF running = None
  THEN runq = Rest(ThePlan, word, Len(word)) /\ active = Cur(ThePlan, word, Len(word))
  ELSE /\ word # <<>> /\ running = word[Len(word)] /\ active = None
       /\ runq = {t \in Left(ThePlan, word, Len(word)) : t <= pc[Main]} \ {running}

(* Since when the last thread has been picked again and again *)
Streak(w, n, b) ==
  /\ b \in 0 .. n - 1 /\ \A i \in n - b .. n : w[i] = w[n]
  /\ b + 1 < n => w[n - b - 1] # w[n]

Bursts == burst \in [Thread -> Nat] /\ (word # <<>> => Streak(word, Len(word), burst[word[Len(word)]]))

Payments == preempts = Cost(ThePlan, word, Len(word))

(* The schedule begins like that of an earlier simulation and then goes right of it. *)
Beside(s, r) ==
  /\ Len(s) <= Len(r) /\ Same(s, r, Len(s) - 1)
  /\ s[Len(s)].type = r[Len(s)].type /\ s[Len(s)].alts = r[Len(s)].alts

Guided(S, s, k) == k < Len(s) => \E e \in S : Beside(s, e[1])

(* The simulations so far *)
Finished(q, S) ==
  \A e \in S : /\ e = <<e[1], e[2], e[3]>> /\ Simulated(q, e)
               /\ e[3] = "Ok" <=> Left(q, e[2], Len(e[2])) = {}

Following == \E c : Run(ThePlan, schedule, word, c) /\ c[Len(word)] = branch

OnTheWay ==
  /\ Places /\ Unborn /\ Ready /\ Bursts /\ Payments
  /\ Following /\ Guided(seen, schedule, branch)

WordInv ==
  Plain => /\ mode = "explore" => OnTheWay /\ Finished(ThePlan, seen)
           /\ Exhausted => Finished(ThePlan, seen) /\ seen # {}

(* What is explored makes a plan. *)
LEMMA ExploredPlan ==
  ASSUME SimulationTypes
  PROVE  /\ Plan(ThePlan) /\ DOMAIN ThePlan.n = Thread /\ \A t \in Thread : ThePlan.n[t] = StepsOf(t)
         /\ ThePlan.mp = par.max_preemptions /\ ThePlan.fp = par.force_preempt
         /\ prog.code \in Seq(Seq(STRING \X Int)) /\ Thread = 1 .. Len(prog.code) /\ Len(prog.code) \in Nat \ {0}
         /\ Main \in Thread /\ None \notin Thread /\ Thread \in SUBSET Nat
         /\ \A t \in Thread : StepsOf(t) \in Nat \ {0} /\ prog.code[t] \in Seq(STRING \X Int)
<1>1. prog.code \in Seq(Seq(STRING \X Int)) /\ prog.code # <<>> /\ None \notin Nat
  BY ProgramsAssumption DEF SimulationTypes
<1>2. PICK code : code = prog.code
  OBVIOUS
<1>3. code \in Seq(Seq(STRING \X Int)) /\ DOMAIN code = 1 .. Len(code) /\ Len(code) \in Nat \ {0}
  BY <1>1, <1>2
<1>4. Thread = 1 .. Len(code)
  BY <1>2, <1>3 DEF Thread
<1>5. ASSUME NEW t \in Thread PROVE StepsOf(t) \in Nat \ {0} /\ code[t] \in Seq(STRING \X Int)
  <2>1. code[t] \in Seq(STRING \X Int)
    BY <1>3, <1>4
  <2>2. PICK S : S = {i \in DOMAIN code[t] : code[t][i][1] \in Atomic}
    OBVIOUS
  <2>3. Len(code[t]) \in Int /\ S \in SUBSET (1 .. Len(code[t]))
    BY <2>1, <2>2
  <2>4. Cardinality(S) \in Nat
    BY <2>3, IntervalSets
  <2>5. QED
    BY <1>2, <2>1, <2>2, <2>4 DEF StepsOf
<1>6. ThePlan.n \in [1 .. Len(code) -> Nat \ {0}]
  BY <1>4, <1>5 DEF ThePlan
<1>7. par.max_preemptions \in Nat \cup {Unlimited} /\ par.force_preempt \in Nat \cup {Unlimited}
  BY ParamsAssumption DEF SimulationTypes
<1>8. ThePlan.mp = par.max_preemptions /\ ThePlan.fp = par.force_preempt
  BY DEF ThePlan
<1>9. Plan(ThePlan)
  <2>1. PICK N : N = Len(code)
    OBVIOUS
  <2>2. N \in Nat \ {0} /\ ThePlan.n \in [1 .. N -> Nat \ {0}]
    BY <1>3, <1>6, <2>1
  <2>3. QED
    BY <1>7, <1>8, <2>2 DEF Plan
<1>10. DOMAIN ThePlan.n = Thread /\ \A t \in Thread : ThePlan.n[t] = StepsOf(t)
  BY DEF ThePlan
<1>11. Main \in Thread /\ None \notin Thread /\ Thread \in SUBSET Nat
  BY <1>1, <1>3, <1>4 DEF Main
<1>12. QED
  BY <1>2, <1>3, <1>4, <1>5, <1>8, <1>9, <1>10, <1>11

(* The interleavings of the reference definition are the words of the plan. *)
LEMMA WordsAreInterleavings ==
  ASSUME SimulationTypes PROVE \A w : w \in Interleavings <=> Word(ThePlan, w)
<1>1. PICK q : q = ThePlan
  OBVIOUS
<1>2. /\ Plan(q) /\ DOMAIN q.n = Thread /\ \A t \in Thread : q.n[t] = StepsOf(t)
      /\ q.mp = par.max_preemptions /\ q.fp = par.force_preempt /\ None \notin Thread
  BY <1>1, ExploredPlan
<1>3. AllSteps = StepPairs(q)
  BY <1>2 DEF AllSteps, StepPairs
<1>4. PICK N : N = Cardinality(AllSteps)
  OBVIOUS
<1>5. N \in Nat \ {0}
  BY <1>2, <1>3, <1>4, StepPairsFinite
<1>6. ASSUME NEW w, w \in Seq(Thread), NEW i \in 1 .. Len(w)
      PROVE  Unfinished(w, i) <=> w[i] \in Left(q, w, i)
  <2>1. w[i] \in Thread
    BY <1>6
  <2>2. QED
    BY <1>2, <2>1 DEF Unfinished, Left
<1>7. ASSUME NEW w, w \in Seq(Thread) PROVE PreemptionsOf(w, Len(w)) = Cost(q, w, Len(w))
  <2>1. \A i \in 1 .. Len(w) - 1 : i \in 1 .. Len(w)
    BY <1>7
  <2>2. {i \in 1 .. Len(w) - 1 : w[i] # w[i + 1] /\ Unfinished(w, i)} = Switches(q, w, Len(w))
    BY <1>6, <1>7, <2>1 DEF Switches
  <2>3. QED
    BY <2>2 DEF PreemptionsOf, Cost
<1>8. ASSUME NEW w, w \in Seq(Thread), NEW n \in 1 .. Len(w) - 1 PROVE Overdue(w, n) <=> Due(q, w, n)
  <2>1. n \in 1 .. Len(w) /\ n > 0 /\ n # 0
    BY <1>8
  <2>2. Unfinished(w, n) <=> w[n] \in Left(q, w, n)
    BY <1>6, <1>8, <2>1
  <2>3. w[n] \in Thread
    BY <1>8, <2>1
  <2>4. Cur(q, w, n) # None <=> w[n] \in Left(q, w, n)
    BY <1>2, <2>1, <2>3 DEF Cur
  <2>5. Rest(q, w, n) # {} <=> \E t \in Thread \ {w[n]} : Count(w, n, t) < StepsOf(t)
    BY <1>2, <2>1 DEF Rest, Left
  <2>6. QED
    BY <1>2, <2>2, <2>4, <2>5 DEF Overdue, Due, Lasting
<1>9. ASSUME NEW w, w \in Interleavings PROVE Word(q, w)
  <2>1. w \in [1 .. N -> Thread]
    BY <1>4, <1>9 DEF Interleavings
  <2>2. w \in Seq(Thread) /\ Len(w) = N
    BY <1>5, <2>1
  <2>3. w # <<>>
    BY <1>5, <2>2
  <2>4. /\ w[1] = Main
        /\ \A t \in Thread : Count(w, Len(w), t) = StepsOf(t)
        /\ ~Exceeds(PreemptionsOf(w, Len(w)), par.max_preemptions)
        /\ \A n \in 1 .. Len(w) - 1 : Overdue(w, n) => w[n + 1] # w[n]
    BY <1>9 DEF Interleavings
  <2>5. \A n \in 1 .. Len(w) - 1 : Due(q, w, n) => w[n + 1] # w[n]
    BY <1>8, <2>2, <2>4
  <2>6. ~Exceeds(Cost(q, w, Len(w)), q.mp)
    BY <1>2, <1>7, <2>2, <2>4
  <2>7. QED
    BY <1>2, <2>2, <2>3, <2>4, <2>5, <2>6 DEF Word
<1>10. ASSUME NEW w, Word(q, w) PROVE w \in Interleavings
  <2>1. /\ w \in Seq(Thread) /\ w[1] = Main /\ \A t \in Thread : Count(w, Len(w), t) = StepsOf(t)
        /\ ~Exceeds(Cost(q, w, Len(w)), q.mp)
        /\ \A n \in 1 .. Len(w) - 1 : Due(q, w, n) => w[n + 1] # w[n]
    BY <1>2, <1>10 DEF Word
  <2>2. \A t \in DOMAIN q.n : Count(w, Len(w), t) = q.n[t]
    BY <1>2, <2>1
  <2>3. Len(w) = N
    BY <1>2, <1>3, <1>4, <2>1, <2>2, StepsArePicked
  <2>4. w \in [1 .. N -> Thread]
    BY <2>1, <2>3
  <2>5. \A n \in 1 .. Len(w) - 1 : Overdue(w, n) => w[n + 1] # w[n]
    BY <1>8, <2>1
  <2>6. ~Exceeds(PreemptionsOf(w, Len(w)), par.max_preemptions)
    BY <1>2, <1>7, <2>1
  <2>7. QED
    BY <1>4, <2>1, <2>4, <2>5, <2>6 DEF Interleavings
<1>11. QED
  BY <1>1, <1>9, <1>10

(* Straight programs: where their operations are *)
LEMMA PlainSteps ==
  ASSUME SimulationTypes, Plain, NEW t \in Thread
  PROVE  /\ Spawned(t) \in Nat /\ Len(prog.code[t]) \in Nat /\ Spawned(t) <= Len(prog.code[t])
         /\ StepsOf(t) = Len(prog.code[t]) - Spawned(t) + 1
         /\ Spawned(Main) + 1 = Len(prog.code) /\ (t # Main => Spawned(t) = 0)
         /\ \A i \in 1 .. Len(prog.code[t]) :
              IF i <= Spawned(t) THEN prog.code[t][i] = <<"spawn", i + 1>>
              ELSE prog.code[t][i][1] \in {"load", "store", "inc"}
<1>1. /\ Thread = 1 .. Len(prog.code) /\ Len(prog.code) \in Nat \ {0} /\ prog.code[t] \in Seq(STRING \X Int)
  BY ExploredPlan
<1>2. PICK N : N = Len(prog.code)
  OBVIOUS
<1>3. N \in Nat \ {0} /\ Thread = 1 .. N
  BY <1>1, <1>2
<1>4. Cardinality(Thread) = N
  BY <1>3, FS_Interval
<1>5. Spawned(Main) + 1 = N /\ Spawned(t) \in Nat /\ (t # Main => Spawned(t) = 0)
  BY <1>3, <1>4 DEF Spawned
<1>6. PICK p : p = prog.code[t]
  OBVIOUS
<1>7. PICK l : l = Len(p)
  OBVIOUS
<1>8. l \in Nat /\ DOMAIN p = 1 .. l
  BY <1>1, <1>6, <1>7
<1>9. PICK k : k = Spawned(t)
  OBVIOUS
<1>10. /\ \A i \in 1 .. k : i \in DOMAIN p /\ p[i] = <<"spawn", i + 1>>
       /\ \A i \in DOMAIN p : i > k => p[i][1] \in {"load", "store", "inc"}
  BY <1>6, <1>9 DEF Plain, Straight
<1>11. k \in Nat /\ k <= l
  <2>1. k \in Nat
    BY <1>5, <1>9
  <2>2. k = 0 \/ k \in 1 .. k
    BY <2>1
  <2>3. QED
    BY <1>8, <1>10, <2>1, <2>2
<1>12. \A i \in 1 .. l : p[i][1] \in Atomic <=> i > k
  <2>1. TAKE i \in 1 .. l
  <2>2. CASE i > k
    BY <1>8, <1>10, <2>2 DEF Atomic
  <2>3. CASE i <= k
    <3>1. p[i] = <<"spawn", i + 1>>
      BY <1>10, <1>11, <2>3
    <3>2. "spawn" \notin Atomic
      BY DEF Atomic
    <3>3. QED
      BY <1>11, <2>3, <3>1, <3>2
  <2>4. QED
    BY <1>11, <2>2, <2>3
<1>13. {i \in DOMAIN p : p[i][1] \in Atomic} = k + 1 .. l
  BY <1>8, <1>11, <1>12
<1>14. Cardinality(k + 1 .. l) = l - k
  <2>1. PICK a : a = k + 1
    OBVIOUS
  <2>2. a \in Int /\ l \in Int
    BY <1>8, <1>11, <2>1
  <2>3. Cardinality(a .. l) = IF a > l THEN 0 ELSE l - a + 1
    BY <2>2, FS_Interval
  <2>4. QED
    BY <1>8, <1>11, <2>1, <2>3
<1>15. StepsOf(t) = l - k + 1
  <2>1. StepsOf(t) = 1 + Cardinality(k + 1 .. l)
    BY <1>6, <1>13 DEF StepsOf
  <2>2. QED
    BY <1>8, <1>11, <1>14, <2>1
<1>16. \A i \in 1 .. l : IF i <= k THEN p[i] = <<"spawn", i + 1>> ELSE p[i][1] \in {"load", "store", "inc"}
  BY <1>8, <1>10, <1>11
<1>17. QED
  BY <1>2, <1>5, <1>6, <1>7, <1>8, <1>9, <1>11, <1>15, <1>16

-----------------------------------------------------------------------------
(* The answers of the scheduler *)

(* A guided simulation repeats the beginning of an earlier one, *)
LEMMA GuideTurns ==
  ASSUME NEW q, NEW s, NEW w, NEW c, Run(q, s, w, c), NEW S, Finished(q, S), NEW k, k = c[Len(w)], k < Len(s),
         Guided(S, s, k), ~Halted(q, w, Len(w))
  PROVE  \E r \in Seq(Branch) : \E t : \E j \in Nat :
           /\ Beside(s, r) /\ Same(s, r, k)
           /\ Turn(Kind(q, w, Len(w)), Cur(q, w, Len(w)), Rest(q, w, Len(w)), r, k, t, j)
<1>1. PICK e \in S : Beside(s, e[1])
  BY DEF Guided
<1>2. Simulated(q, e)
  BY <1>1 DEF Finished
<1>3. w \in Seq(DOMAIN q.n) /\ s \in Seq(Branch) /\ Len(w) \in 0 .. Len(w)
  BY DEF Run
<1>4. k \in Nat /\ Len(s) \in Nat
  BY <1>3, RunMonotone
<1>5. Same(s, e[1], k)
  <2>1. Len(s) - 1 \in Nat /\ k <= Len(s) - 1
    BY <1>4
  <2>2. Same(s, e[1], Len(s) - 1)
    BY <1>1 DEF Beside
  <2>3. QED
    BY <1>4, <2>1, <2>2, SameLess
<1>6. PICK p : p = <<s, w>>
  OBVIOUS
<1>7. p[1] = s /\ p[2] = w
  BY <1>6
<1>8. PICK m : m = Len(w)
  OBVIOUS
<1>9. Run(q, p[1], p[2], c) /\ m \in 0 .. Len(p[2]) /\ ~Halted(q, p[2], m) /\ Same(p[1], e[1], c[m])
  BY <1>3, <1>5, <1>7, <1>8
<1>10. /\ e[1] \in Seq(Branch)
       /\ \E j \in Nat : Turn(Kind(q, p[2], m), Cur(q, p[2], m), Rest(q, p[2], m), e[1], c[m], e[2][m + 1], j)
  BY <1>2, <1>9, Twin
<1>11. QED
  BY <1>1, <1>5, <1>7, <1>8, <1>10

(* ... so that it asks the same questions *)
LEMMA GuideAsks ==
  ASSUME NEW q, NEW s, NEW w, NEW c, Run(q, s, w, c), NEW S, Finished(q, S), NEW k, k = c[Len(w)], k < Len(s),
         Guided(S, s, k), ~Halted(q, w, Len(w)),
         NEW kind, kind = Kind(q, w, Len(w)), NEW R, R = Rest(q, w, Len(w))
  PROVE  /\ kind = "pick" /\ Cardinality(R) # 1 => s[k + 1].type = "PickNext" /\ s[k + 1].alts = Cardinality(R)
         /\ kind = "ask" => s[k + 1].type = "Preempt" /\ s[k + 1].alts = 2
         /\ kind = "ask" /\ s[k + 1].index = 1 /\ k + 1 < Len(s) /\ Cardinality(R) # 1 =>
              s[k + 2].type = "PickNext" /\ s[k + 2].alts = Cardinality(R)
<1>1. PICK a : a = Cur(q, w, Len(w))
  OBVIOUS
<1>2. PICK r \in Seq(Branch), j \in Nat : Beside(s, r) /\ Same(s, r, k) /\ \E t : Turn(kind, a, R, r, k, t, j)
  <2>1. \E r \in Seq(Branch) : \E t : \E j \in Nat :
          /\ Beside(s, r) /\ Same(s, r, k)
          /\ Turn(Kind(q, w, Len(w)), Cur(q, w, Len(w)), Rest(q, w, Len(w)), r, k, t, j)
    BY GuideTurns
  <2>2. QED
    BY <1>1, <2>1
<1>3. s \in Seq(Branch) /\ Len(w) \in 0 .. Len(w)
  BY DEF Run
<1>4. k \in Nat /\ Len(s) \in Nat
  BY <1>3, RunMonotone
<1>5. PICK l : l = Len(s)
  OBVIOUS
<1>6. l \in Nat /\ k < l /\ DOMAIN s = 1 .. l
  BY <1>3, <1>4, <1>5
<1>7. /\ \A i \in 1 .. l - 1 : s[i] = r[i]
      /\ s[l].type = r[l].type /\ s[l].alts = r[l].alts
  BY <1>2, <1>5 DEF Beside, Same
<1>8. \A i \in 1 .. l : s[i].type = r[i].type /\ s[i].alts = r[i].alts
  <2>1. TAKE i \in 1 .. l
  <2>2. CASE i = l
    BY <1>7, <2>2
  <2>3. CASE i # l
    <3>1. i \in 1 .. l - 1
      BY <1>6, <2>3
    <3>2. QED
      BY <1>7, <3>1
  <2>4. QED
    BY <2>2, <2>3
<1>9. k + 1 \in 1 .. l
  BY <1>4, <1>6
<1>10. s[k + 1].type = r[k + 1].type /\ s[k + 1].alts = r[k + 1].alts
  BY <1>8, <1>9
<1>11. PICK t : Turn(kind, a, R, r, k, t, j)
  BY <1>2
<1>12. ASSUME kind = "pick", Cardinality(R) # 1
       PROVE  s[k + 1].type = "PickNext" /\ s[k + 1].alts = Cardinality(R)
  <2>1. PickAt(r, k, R, t, j)
    BY <1>11, <1>12 DEF Turn
  <2>2. r[k + 1].type = "PickNext" /\ r[k + 1].alts = Cardinality(R)
    BY <1>12, <2>1 DEF PickAt
  <2>3. QED
    BY <1>10, <2>2
<1>13. ASSUME kind = "ask" PROVE s[k + 1].type = "Preempt" /\ s[k + 1].alts = 2
  BY <1>11, <1>10, <1>13 DEF Turn
<1>14. ASSUME kind = "ask", s[k + 1].index = 1, k + 1 < l, Cardinality(R) # 1
       PROVE  s[k + 2].type = "PickNext" /\ s[k + 2].alts = Cardinality(R)
  <2>1. k + 1 \in 1 .. l - 1 /\ k + 2 \in 1 .. l /\ (k + 1) + 1 = k + 2
    BY <1>4, <1>6, <1>14
  <2>2. r[k + 1].index = 1
    BY <1>7, <1>14, <2>1
  <2>3. PickAt(r, k + 1, R, t, j)
    BY <1>11, <1>14, <2>2 DEF Turn
  <2>4. r[k + 2].type = "PickNext" /\ r[k + 2].alts = Cardinality(R)
    BY <1>14, <2>1, <2>3 DEF PickAt
  <2>5. QED
    BY <1>8, <2>1, <2>4
<1>15. QED
  BY <1>5, <1>12, <1>13, <1>14

(* ... and goes beyond its schedule: none is left unused. *)
LEMMA UsedUp ==
  ASSUME NEW q, NEW s, NEW w, NEW c, Run(q, s, w, c), NEW S, Finished(q, S), NEW k, k = c[Len(w)],
         Guided(S, s, k), Halted(q, w, Len(w))
  PROVE  k = Len(s)
<1>1. w \in Seq(DOMAIN q.n) /\ s \in Seq(Branch) /\ Len(w) \in 0 .. Len(w) /\ Len(s) \in Nat /\ Plan(q)
  BY DEF Run
<1>2. k \in Nat /\ k <= Len(s)
  BY <1>1, RunMonotone
<1>3. SUFFICES ASSUME k < Len(s) PROVE FALSE
  BY <1>1, <1>2
<1>4. PICK e \in S : Beside(s, e[1])
  BY <1>3 DEF Guided
<1>5. PICK d : Run(q, e[1], e[2], d) /\ d[Len(e[2])] = Len(e[1]) /\ Halted(q, e[2], Len(e[2]))
  BY <1>4 DEF Finished, Simulated
<1>6. PICK v : v = e[2]
  OBVIOUS
<1>7. PICK r : r = e[1]
  OBVIOUS
<1>8. Run(q, r, v, d) /\ d[Len(v)] = Len(r) /\ Halted(q, v, Len(v)) /\ Beside(s, r)
  BY <1>4, <1>5, <1>6, <1>7
<1>9. Same(s, r, k)
  <2>1. Len(s) - 1 \in Nat /\ k <= Len(s) - 1
    BY <1>1, <1>2, <1>3
  <2>2. Same(s, r, Len(s) - 1)
    BY <1>8 DEF Beside
  <2>3. QED
    BY <1>2, <2>1, <2>2, SameLess
<1>10. PICK m : m = Len(w)
  OBVIOUS
<1>11. m \in 0 .. Len(w) /\ Same(s, r, c[m]) /\ m \in Nat
  BY <1>1, <1>9, <1>10
<1>12. m <= Len(v) /\ d[m] = c[m] /\ Same(w, v, m)
  BY <1>8, <1>11, SameWord
<1>13. v \in Seq(DOMAIN q.n) /\ Len(v) \in Nat /\ Len(r) \in Nat
  BY <1>8 DEF Run
<1>14. m = Len(v)
  <2>1. SUFFICES ASSUME m # Len(v) PROVE FALSE
    OBVIOUS
  <2>2. m \in 0 .. Len(v) - 1
    BY <1>11, <1>12, <1>13, <2>1
  <2>3. v[m + 1] \in Options(Kind(q, v, m), Cur(q, v, m), Rest(q, v, m))
    BY <1>8, <2>2, RunStep
  <2>4. Kind(q, w, m) = Kind(q, v, m) /\ Cur(q, w, m) = Cur(q, v, m) /\ Rest(q, w, m) = Rest(q, v, m)
    BY <1>1, <1>11, <1>12, SituationAgrees
  <2>5. Options(Kind(q, w, m), Cur(q, w, m), Rest(q, w, m)) = {}
    BY <1>10 DEF Halted
  <2>6. QED
    BY <2>3, <2>4, <2>5
<1>15. Len(s) <= Len(r)
  BY <1>8 DEF Beside
<1>16. QED
  BY <1>1, <1>2, <1>3, <1>8, <1>10, <1>12, <1>13, <1>14, <1>15

(* The answer to a question that is asked again has been given, a new one is added. *)
LEMMA ChooseAnswers ==
  ASSUME par.kind = "dfs", NEW ch \in Answer, ch.branch <= Len(ch.schedule), NEW type \in Question,
         NEW alts \in Nat \ {0},
         ch.branch < Len(ch.schedule) =>
           ch.schedule[ch.branch + 1].type = type /\ ch.schedule[ch.branch + 1].alts = alts,
         NEW r \in Choose(ch, type, alts)
  PROVE  /\ r \in Answer /\ r.branch = ch.branch + 1 /\ r.branch <= Len(r.schedule)
         /\ Same(ch.schedule, r.schedule, ch.branch) /\ r.branch \in DOMAIN r.schedule
         /\ r.schedule[r.branch].type = type /\ r.schedule[r.branch].alts = alts
         /\ r.schedule[r.branch].index = r.index
         /\ r.schedule = ch.schedule \/ (r.index = 0 /\ r.branch = Len(r.schedule))
<1>1. PICK s : s = ch.schedule
  OBVIOUS
<1>2. PICK k : k = ch.branch
  OBVIOUS
<1>3. s \in Seq(Branch) /\ k \in Nat /\ Len(s) \in Nat /\ k <= Len(s)
  BY <1>1, <1>2 DEF Answer
<1>4. r \in Answer /\ r.branch = k + 1
  BY <1>2, ChooseDeepens
<1>5. CASE k < Len(s)
  <2>1. r = [schedule |-> s, branch |-> k + 1, index |-> s[k + 1].index]
    BY <1>1, <1>2, <1>5 DEF Choose
  <2>2. r.schedule = s /\ r.index = s[k + 1].index
    BY <2>1
  <2>3. k + 1 \in DOMAIN s /\ k + 1 <= Len(s) /\ Same(s, s, k)
    BY <1>3, <1>5 DEF Same
  <2>4. s[k + 1].type = type /\ s[k + 1].alts = alts
    BY <1>1, <1>2, <1>5
  <2>5. QED
    BY <1>1, <1>2, <1>4, <2>2, <2>3, <2>4
<1>6. CASE ~(k < Len(s))
  <2>1. PICK b : b = [type |-> type, alts |-> alts, index |-> 0]
    OBVIOUS
  <2>2. r = [schedule |-> Append(s, b), branch |-> k + 1, index |-> 0]
    BY <1>1, <1>2, <1>6, <2>1 DEF Choose
  <2>3. r.schedule = Append(s, b) /\ r.index = 0 /\ k = Len(s)
    BY <1>3, <1>6, <2>2
  <2>4. PICK z : z = Append(s, b)
    OBVIOUS
  <2>5. /\ Len(z) = k + 1 /\ k + 1 \in DOMAIN z /\ z[k + 1] = b
        /\ \A i \in 1 .. k : i \in DOMAIN s /\ i \in DOMAIN z /\ s[i] = z[i]
    <3>1. b \in Branch
      BY <2>1 DEF Branch
    <3>2. QED
      BY <1>3, <2>3, <2>4, <3>1
  <2>6. Same(s, z, k)
    BY <2>5 DEF Same
  <2>7. z[k + 1].type = type /\ z[k + 1].alts = alts /\ z[k + 1].index = 0
    BY <2>1, <2>5
  <2>8. k + 1 <= Len(z)
    BY <1>3, <2>5
  <2>9. QED
    BY <1>1, <1>2, <1>4, <2>3, <2>4, <2>5, <2>6, <2>7, <2>8
<1>7. QED
  BY <1>5, <1>6

(* ... for a thread of a queue *)
LEMMA PickAnswers ==
  ASSUME par.kind = "dfs", NEW ch \in Answer, ch.branch <= Len(ch.schedule),
         NEW R \in SUBSET Nat, IsFiniteSet(R), R # {},
         ch.branch < Len(ch.schedule) /\ Cardinality(R) # 1 =>
           ch.schedule[ch.branch + 1].type = "PickNext" /\ ch.schedule[ch.branch + 1].alts = Cardinality(R),
         NEW r \in Pick(ch, R, "PickNext")
  PROVE  /\ r \in Answer /\ Same(ch.schedule, r.schedule, ch.branch)
         /\ PickAt(r.schedule, ch.branch, R, Nth(R, r.index), r.branch)
         /\ r.schedule = ch.schedule \/ r.branch = Len(r.schedule)
<1>1. CASE Cardinality(R) = 1
  <2>1. r = [ch EXCEPT !.index = 0]
    BY <1>1 DEF Pick
  <2>2. r \in Answer /\ r.schedule = ch.schedule /\ r.branch = ch.branch /\ r.index = 0
    BY <2>1 DEF Answer
  <2>3. Same(ch.schedule, ch.schedule, ch.branch)
    BY DEF Same, Answer
  <2>4. QED
    BY <1>1, <2>2, <2>3 DEF PickAt
<1>2. CASE Cardinality(R) # 1
  <2>1. PICK n : n = Cardinality(R)
    OBVIOUS
  <2>2. n \in Nat \ {0} /\ "PickNext" \in Question
    BY <2>1, FiniteOps DEF Question
  <2>3. r \in Choose(ch, "PickNext", n)
    BY <1>2, <2>1 DEF Pick
  <2>4. ch.branch < Len(ch.schedule) =>
          ch.schedule[ch.branch + 1].type = "PickNext" /\ ch.schedule[ch.branch + 1].alts = n
    BY <1>2, <2>1
  <2>5. /\ r \in Answer /\ r.branch = ch.branch + 1
        /\ Same(ch.schedule, r.schedule, ch.branch) /\ r.branch \in DOMAIN r.schedule
        /\ r.schedule[r.branch].type = "PickNext" /\ r.schedule[r.branch].alts = n
        /\ r.schedule[r.branch].index = r.index
        /\ r.schedule = ch.schedule \/ (r.index = 0 /\ r.branch = Len(r.schedule))
    BY <2>2, <2>3, <2>4, ChooseAnswers
  <2>6. QED
    BY <1>2, <2>1, <2>5 DEF PickAt
<1>3. QED
  BY <1>1, <1>2

-----------------------------------------------------------------------------
(* A simulation of a straight program *)

Exploring == SimulationTypes /\ Plain /\ mode = "explore" /\ OnTheWay /\ Finished(ThePlan, seen)

(* What is explored does not change. *)
LEMMA PlanStays ==
  ASSUME UNCHANGED question
  PROVE  /\ ThePlan' = ThePlan /\ (Plain' <=> Plain) /\ Thread' = Thread /\ prog' = prog /\ par' = par
         /\ \A t : StepsOf(t)' = StepsOf(t) /\ Spawned(t)' = Spawned(t)
<1>1. prog' = prog /\ par' = par
  BY DEF question
<1>2. Thread' = Thread
  BY <1>1 DEF Thread
<1>3. \A t : StepsOf(t)' = StepsOf(t) /\ Spawned(t)' = Spawned(t)
  BY <1>1, <1>2 DEF StepsOf, Spawned
<1>4. ThePlan' = ThePlan
  BY <1>1, <1>2, <1>3 DEF ThePlan
<1>5. Plain' <=> Plain
  BY <1>1, <1>2, <1>3 DEF Plain, Straight
<1>6. QED
  BY <1>1, <1>2, <1>3, <1>4, <1>5

(* Steps in a row are what forces a preemption. *)
LEMMA StreakLasts ==
  ASSUME NEW q, Plan(q), NEW w, NEW n \in Nat, NEW b, Streak(w, n, b)
  PROVE  Reached(b + 1, q.fp) <=> Lasting(q, w, n)
<1>1. b \in Nat /\ b + 1 <= n
  BY DEF Streak
<1>2. CASE q.fp = Unlimited
  BY <1>2 DEF Reached, Lasting
<1>3. CASE q.fp # Unlimited
  <2>1. q.fp \in Nat
    BY <1>3 DEF Plan
  <2>2. CASE q.fp <= b + 1
    <3>1. \A i \in n - q.fp + 1 .. n : i \in n - b .. n
      BY <1>1, <2>1, <2>2
    <3>2. \A i \in n - q.fp + 1 .. n : w[i] = w[n]
      BY <3>1 DEF Streak
    <3>3. QED
      BY <1>1, <1>3, <2>1, <2>2, <3>2 DEF Reached, Lasting
  <2>3. CASE ~(q.fp <= b + 1)
    <3>1. SUFFICES ASSUME n >= q.fp, \A i \in n - q.fp + 1 .. n : w[i] = w[n] PROVE FALSE
      BY <1>1, <1>3, <2>1, <2>3 DEF Reached, Lasting
    <3>2. b + 1 < n /\ n - b - 1 \in n - q.fp + 1 .. n
      BY <1>1, <2>1, <2>3, <3>1
    <3>3. w[n - b - 1] # w[n]
      BY <3>2 DEF Streak
    <3>4. QED
      BY <3>1, <3>2, <3>3
  <2>4. QED
    BY <2>2, <2>3
<1>4. QED
  BY <1>2, <1>3

(* Where the simulation is *)
LEMMA Situation ==
  ASSUME Exploring
  PROVE  /\ word \in Seq(Thread) /\ Len(word) \in Nat /\ schedule \in Seq(Branch) /\ branch \in Nat
         /\ branch <= Len(schedule) /\ Plan(ThePlan)
<1>1. PICK c : Run(ThePlan, schedule, word, c) /\ c[Len(word)] = branch
  BY DEF Exploring, OnTheWay, Following
<1>2. Plan(ThePlan) /\ DOMAIN ThePlan.n = Thread
  BY ExploredPlan DEF Exploring
<1>3. word \in Seq(Thread) /\ schedule \in Seq(Branch)
  BY <1>1, <1>2 DEF Run
<1>4. Len(word) \in 0 .. Len(word)
  BY <1>3
<1>5. branch \in Nat /\ branch <= Len(schedule)
  BY <1>1, <1>4, RunMonotone
<1>6. QED
  BY <1>2, <1>3, <1>5

(* What the scheduler does next *)
LEMMA SchedulerKind ==
  ASSUME Exploring, running = None
  PROVE  /\ runq = Rest(ThePlan, word, Len(word)) /\ active = Cur(ThePlan, word, Len(word))
         /\ NoPreemptsLeft <=> Spent(ThePlan, word, Len(word))
         /\ Forced <=> Due(ThePlan, word, Len(word))
<1>1. PICK q : q = ThePlan
  OBVIOUS
<1>2. PICK n : n = Len(word)
  OBVIOUS
<1>3. /\ word \in Seq(Thread) /\ n \in Nat /\ Plan(q) /\ q.mp = par.max_preemptions /\ q.fp = par.force_preempt
  BY <1>1, <1>2, Situation, ExploredPlan DEF Exploring
<1>4. runq = Rest(q, word, n) /\ active = Cur(q, word, n)
  BY <1>1, <1>2 DEF Exploring, OnTheWay, Ready
<1>5. preempts = Cost(q, word, n)
  BY <1>1, <1>2 DEF Exploring, OnTheWay, Payments
<1>6. NoPreemptsLeft <=> Spent(q, word, n)
  BY <1>3, <1>5 DEF NoPreemptsLeft, Spent
<1>7. Forced <=> Due(q, word, n)
  <2>1. CASE active = None
    BY <1>4, <2>1 DEF Forced, Due
  <2>2. CASE active # None
    <3>1. n > 0 /\ active = word[n]
      BY <1>4, <2>2 DEF Cur
    <3>2. word # <<>>
      BY <1>2, <3>1
    <3>3. Streak(word, n, burst[word[n]])
      BY <1>2, <3>2 DEF Exploring, OnTheWay, Bursts
    <3>4. Reached(burst[word[n]] + 1, q.fp) <=> Lasting(q, word, n)
      BY <1>3, <3>3, StreakLasts
    <3>5. BurstOf(active) = burst[word[n]] + 1
      BY <2>2, <3>1 DEF BurstOf
    <3>6. QED
      BY <1>3, <1>4, <2>2, <3>4, <3>5 DEF Forced, Due
  <2>3. QED
    BY <2>1, <2>2
<1>8. QED
  BY <1>1, <1>2, <1>4, <1>6, <1>7

(* The next thread is the one that the schedule says. *)
Chosen(t) ==
  /\ Continues(t) /\ schedule' \in Seq(Branch) /\ branch' \in Nat /\ Same(schedule, schedule', branch)
  /\ Turn(Kind(ThePlan, word, Len(word)), active, runq, schedule', branch, t, branch')
  /\ schedule' = schedule \/ branch' = Len(schedule')
  /\ IF t = active
     THEN runq' = runq /\ preempts' = preempts /\ burst' = [burst EXCEPT ![t] = @ + 1]
     ELSE /\ t \in runq /\ runq' = (runq \ {t}) \cup ({active} \ {None})
          /\ preempts' = IF active = None THEN preempts ELSE preempts + 1
          /\ burst' = [u \in Thread |-> IF u = t THEN 0 ELSE IF u = active THEN burst[u] + 1 ELSE burst[u]]

(* It is the answer to the questions of PickNext: *)
LEMMA PickTurn == ASSUME Exploring, running = None, ~IsIdle, PickDfs PROVE \E t \in Thread : Chosen(t)
<1>1. PICK q : q = ThePlan
  OBVIOUS
<1>2. PICK n : n = Len(word)
  OBVIOUS
<1>3. PICK kind : kind = Kind(q, word, n)
  OBVIOUS
<1>4. /\ word \in Seq(Thread) /\ n \in Nat /\ schedule \in Seq(Branch) /\ branch \in Nat
      /\ branch <= Len(schedule) /\ Plan(q) /\ DOMAIN q.n = Thread /\ Thread \in SUBSET Nat
  BY <1>1, <1>2, Situation, ExploredPlan DEF Exploring
<1>5. runq = Rest(q, word, n) /\ active = Cur(q, word, n)
  BY <1>1, <1>2, SchedulerKind
<1>6. (NoPreemptsLeft <=> Spent(q, word, n)) /\ (Forced <=> Due(q, word, n))
  BY <1>1, <1>2, SchedulerKind
<1>7. runq \in SUBSET Nat /\ IsFiniteSet(runq) /\ active \notin runq /\ runq \subseteq Thread
  BY <1>4, <1>5, PlanFacts
<1>8. active # None => active \in Thread
  BY <1>4, <1>5 DEF Cur, Left
<1>9. par.kind = "dfs" /\ ~Blocked
  BY DEF PickDfs
<1>10. Asked \in Answer /\ Asked.schedule = schedule /\ Asked.branch = branch /\ Asked.index = 0
  BY <1>4 DEF Asked, Answer
<1>11. PICK c : Run(q, schedule, word, c) /\ c[n] = branch
  BY <1>1, <1>2 DEF Exploring, OnTheWay, Following
<1>12. Finished(q, seen) /\ Guided(seen, schedule, branch)
  BY <1>1 DEF Exploring, OnTheWay
<1>13. ASSUME branch < Len(schedule), runq # {}, kind \in {"pick", "ask"}
       PROVE  /\ kind = "pick" /\ Cardinality(runq) # 1 =>
                   schedule[branch + 1].type = "PickNext" /\ schedule[branch + 1].alts = Cardinality(runq)
              /\ kind = "ask" => schedule[branch + 1].type = "Preempt" /\ schedule[branch + 1].alts = 2
              /\ kind = "ask" /\ schedule[branch + 1].index = 1 /\ branch + 1 < Len(schedule)
                   /\ Cardinality(runq) # 1 =>
                   schedule[branch + 2].type = "PickNext" /\ schedule[branch + 2].alts = Cardinality(runq)
  <2>1. ~Halted(q, word, n)
    BY <1>3, <1>5, <1>13 DEF Halted, Options
  <2>2. QED
    BY <1>2, <1>3, <1>5, <1>11, <1>12, <1>13, <2>1, GuideAsks
<1>14. Same(schedule, schedule, branch)
  BY <1>4 DEF Same
(* a thread of the queue *)
<1>15. ASSUME NEW ch \in Answer, ch.schedule = schedule, branch <= ch.branch, ch.branch <= Len(schedule), runq # {},
              ch.branch < Len(schedule) /\ Cardinality(runq) # 1 =>
                schedule[ch.branch + 1].type = "PickNext" /\ schedule[ch.branch + 1].alts = Cardinality(runq),
              NEW pick \in Pick(ch, runq, "PickNext"), Answered(pick)
       PROVE  /\ schedule' \in Seq(Branch) /\ branch' \in Nat /\ Same(schedule, schedule', ch.branch)
              /\ Same(schedule, schedule', branch)
              /\ PickAt(schedule', ch.branch, runq, Nth(runq, pick.index), branch')
              /\ schedule' = schedule \/ branch' = Len(schedule')
              /\ Nth(runq, pick.index) \in runq
  <2>1. /\ pick \in Answer /\ Same(ch.schedule, pick.schedule, ch.branch)
        /\ PickAt(pick.schedule, ch.branch, runq, Nth(runq, pick.index), pick.branch)
        /\ pick.schedule = ch.schedule \/ pick.branch = Len(pick.schedule)
    BY <1>7, <1>9, <1>15, PickAnswers
  <2>2. schedule' = pick.schedule /\ branch' = pick.branch /\ ch.branch \in Nat
    BY <1>15 DEF Answered, Answer
  <2>3. schedule' \in Seq(Branch) /\ branch' \in Nat
    BY <2>1, <2>2 DEF Answer
  <2>4. PickAt(schedule', ch.branch, runq, Nth(runq, pick.index), branch')
    BY <2>1, <2>2
  <2>5. Nth(runq, pick.index) \in runq
    BY <1>7, <1>15, <2>2, <2>3, <2>4, PickAtMoves
  <2>6. Same(schedule, schedule', ch.branch)
    BY <1>15, <2>1, <2>2
  <2>7. Same(schedule, schedule', branch)
    BY <1>4, <1>15, <2>2, <2>6, SameLess
  <2>8. QED
    BY <1>15, <2>1, <2>2, <2>3, <2>4, <2>5, <2>6, <2>7
<1>16. PICK first \in IF active = None THEN {[Asked EXCEPT !.index = 1]} ELSE Preempts :
         IF first.index = 0
         THEN /\ Continues(active) /\ Answered(first)
              /\ burst' = [burst EXCEPT ![active] = @ + 1]
              /\ UNCHANGED <<runq, preempts>>
         ELSE \E pick \in Pick(first, runq, "PickNext") :
              LET t == Nth(runq, pick.index) IN
              /\ Continues(t) /\ Answered(pick)
              /\ runq' = (runq \ {t}) \cup ({active} \ {None})
              /\ preempts' = IF active = None THEN preempts ELSE preempts + 1
              /\ burst' = [u \in Thread |-> IF u = t THEN 0 ELSE IF u = active THEN burst[u] + 1 ELSE burst[u]]
  BY DEF PickDfs
<1>17. ASSUME kind = "pick", runq # {}, first = [Asked EXCEPT !.index = 1] PROVE \E t \in Thread : Chosen(t)
  <2>1. first \in Answer /\ first.schedule = schedule /\ first.branch = branch /\ first.index = 1
    BY <1>10, <1>17 DEF Answer
  <2>2. PICK pick \in Pick(first, runq, "PickNext") :
          LET t == Nth(runq, pick.index) IN
          /\ Continues(t) /\ Answered(pick)
          /\ runq' = (runq \ {t}) \cup ({active} \ {None})
          /\ preempts' = IF active = None THEN preempts ELSE preempts + 1
          /\ burst' = [u \in Thread |-> IF u = t THEN 0 ELSE IF u = active THEN burst[u] + 1 ELSE burst[u]]
    BY <1>16, <2>1
  <2>3. PICK t : t = Nth(runq, pick.index)
    OBVIOUS
  <2>4. /\ schedule' \in Seq(Branch) /\ branch' \in Nat /\ Same(schedule, schedule', branch)
        /\ PickAt(schedule', branch, runq, t, branch')
        /\ schedule' = schedule \/ branch' = Len(schedule')
        /\ t \in runq
    <3>1. first.branch < Len(schedule) /\ Cardinality(runq) # 1 =>
            schedule[first.branch + 1].type = "PickNext" /\ schedule[first.branch + 1].alts = Cardinality(runq)
      BY <1>13, <1>17, <2>1
    <3>2. branch <= first.branch /\ first.branch <= Len(schedule)
      BY <1>4, <2>1
    <3>3. QED
      BY <1>15, <1>17, <2>1, <2>2, <2>3, <3>1, <3>2
  <2>5. Turn(kind, active, runq, schedule', branch, t, branch')
    BY <1>17, <2>4 DEF Turn
  <2>6. Chosen(t)
    BY <1>1, <1>2, <1>3, <1>7, <2>2, <2>3, <2>4, <2>5 DEF Chosen
  <2>7. QED
    BY <1>7, <2>4, <2>6
<1>18. CASE active = None
  <2>1. kind = "pick" /\ runq # {}
    BY <1>3, <1>5, <1>18 DEF Kind, IsIdle
  <2>2. first = [Asked EXCEPT !.index = 1]
    BY <1>16, <1>18
  <2>3. QED
    BY <1>17, <2>1, <2>2
<1>19. CASE active # None /\ Forced
  <2>1. ~NoPreemptsLeft /\ runq # {}
    BY <1>9, <1>19 DEF Blocked, Forced
  <2>2. kind = "pick"
    BY <1>3, <1>5, <1>6, <1>19, <2>1 DEF Kind
  <2>3. first = [Asked EXCEPT !.index = 1]
    BY <1>16, <1>19 DEF Preempts
  <2>4. QED
    BY <1>17, <2>1, <2>2, <2>3
<1>20. CASE active # None /\ ~Forced /\ (runq = {} \/ NoPreemptsLeft)
  <2>1. kind = "stay"
    BY <1>3, <1>5, <1>6, <1>20 DEF Kind
  <2>2. first = Asked
    BY <1>16, <1>20 DEF Preempts
  <2>3. /\ Continues(active) /\ Answered(Asked)
        /\ burst' = [burst EXCEPT ![active] = @ + 1]
        /\ UNCHANGED <<runq, preempts>>
    BY <1>10, <1>16, <2>2
  <2>4. schedule' = schedule /\ branch' = branch
    BY <1>10, <2>3 DEF Answered
  <2>5. Turn(kind, active, runq, schedule', branch, active, branch')
    BY <2>1, <2>4 DEF Turn
  <2>6. Chosen(active)
    BY <1>1, <1>2, <1>3, <1>4, <1>14, <2>3, <2>4, <2>5 DEF Chosen
  <2>7. QED
    BY <1>8, <1>20, <2>6
<1>21. CASE active # None /\ ~Forced /\ ~(runq = {} \/ NoPreemptsLeft)
  <2>1. kind = "ask" /\ runq # {}
    BY <1>3, <1>5, <1>6, <1>21 DEF Kind
  <2>2. first \in Choose(Asked, "Preempt", 2)
    BY <1>16, <1>21 DEF Preempts
  <2>3. branch < Len(schedule) => schedule[branch + 1].type = "Preempt" /\ schedule[branch + 1].alts = 2
    BY <1>13, <2>1
  <2>4. /\ first \in Answer /\ first.branch = branch + 1 /\ first.branch <= Len(first.schedule)
        /\ Same(schedule, first.schedule, branch) /\ first.branch \in DOMAIN first.schedule
        /\ first.schedule[first.branch].type = "Preempt" /\ first.schedule[first.branch].alts = 2
        /\ first.schedule[first.branch].index = first.index
        /\ first.schedule = schedule \/ (first.index = 0 /\ first.branch = Len(first.schedule))
    <3>1. "Preempt" \in Question /\ 2 \in Nat \ {0}
      BY DEF Question
    <3>2. Asked.branch < Len(Asked.schedule) =>
            Asked.schedule[Asked.branch + 1].type = "Preempt" /\ Asked.schedule[Asked.branch + 1].alts = 2
      BY <1>10, <2>3
    <3>3. PICK ch : ch = Asked
      OBVIOUS
    <3>4. /\ ch \in Answer /\ ch.branch <= Len(ch.schedule) /\ first \in Choose(ch, "Preempt", 2)
          /\ ch.branch < Len(ch.schedule) =>
               ch.schedule[ch.branch + 1].type = "Preempt" /\ ch.schedule[ch.branch + 1].alts = 2
      BY <1>4, <1>10, <2>2, <3>2, <3>3
    <3>5. /\ first \in Answer /\ first.branch = ch.branch + 1 /\ first.branch <= Len(first.schedule)
          /\ Same(ch.schedule, first.schedule, ch.branch) /\ first.branch \in DOMAIN first.schedule
          /\ first.schedule[first.branch].type = "Preempt" /\ first.schedule[first.branch].alts = 2
          /\ first.schedule[first.branch].index = first.index
          /\ first.schedule = ch.schedule \/ (first.index = 0 /\ first.branch = Len(first.schedule))
      BY <1>9, <3>1, <3>4, ChooseAnswers
    <3>6. QED
      BY <1>10, <3>3, <3>5
  <2>5. first.index \in {0, 1}
    <3>1. first.schedule[first.branch] \in Branch
      BY <2>4 DEF Answer
    <3>2. first.index \in Nat /\ first.index < 2
      BY <2>4, <3>1, BranchType
    <3>3. QED
      BY <3>2
  <2>6. CASE first.index = 0
    <3>1. /\ Continues(active) /\ Answered(first)
          /\ burst' = [burst EXCEPT ![active] = @ + 1]
          /\ UNCHANGED <<runq, preempts>>
      BY <1>16, <2>6
    <3>2. schedule' = first.schedule /\ branch' = branch + 1
      BY <2>4, <3>1 DEF Answered
    <3>3. schedule' \in Seq(Branch) /\ branch' \in Nat
      BY <1>4, <2>4, <3>2 DEF Answer
    <3>4. Turn(kind, active, runq, schedule', branch, active, branch')
      BY <2>1, <2>4, <2>6, <3>2 DEF Turn
    <3>5. schedule' = schedule \/ branch' = Len(schedule')
      BY <2>4, <3>2
    <3>6. Chosen(active)
      BY <1>1, <1>2, <1>3, <2>4, <3>1, <3>2, <3>3, <3>4, <3>5 DEF Chosen
    <3>7. QED
      BY <1>8, <1>21, <3>6
  <2>7. CASE first.index = 1
    <3>1. first.schedule = schedule
      BY <2>4, <2>7
    <3>2. PICK pick \in Pick(first, runq, "PickNext") :
            LET t == Nth(runq, pick.index) IN
            /\ Continues(t) /\ Answered(pick)
            /\ runq' = (runq \ {t}) \cup ({active} \ {None})
            /\ preempts' = IF active = None THEN preempts ELSE preempts + 1
            /\ burst' = [u \in Thread |-> IF u = t THEN 0 ELSE IF u = active THEN burst[u] + 1 ELSE burst[u]]
      BY <1>16, <2>7
    <3>3. PICK t : t = Nth(runq, pick.index)
      OBVIOUS
    <3>4. PICK p : p = branch + 1
      OBVIOUS
    <3>5. p \in Nat /\ branch <= p /\ p <= Len(schedule) /\ first.branch = p /\ p + 1 = branch + 2
      BY <1>4, <2>4, <3>1, <3>4
    <3>6. /\ schedule' \in Seq(Branch) /\ branch' \in Nat /\ Same(schedule, schedule', p)
          /\ Same(schedule, schedule', branch)
          /\ PickAt(schedule', p, runq, t, branch')
          /\ schedule' = schedule \/ branch' = Len(schedule')
          /\ t \in runq
      <4>1. p < Len(schedule) /\ Cardinality(runq) # 1 =>
              schedule[p + 1].type = "PickNext" /\ schedule[p + 1].alts = Cardinality(runq)
        <5>1. SUFFICES ASSUME p < Len(schedule), Cardinality(runq) # 1
                       PROVE  schedule[p + 1].type = "PickNext" /\ schedule[p + 1].alts = Cardinality(runq)
          OBVIOUS
        <5>2. branch < Len(schedule) /\ branch + 1 < Len(schedule)
          BY <1>4, <3>4, <5>1
        <5>3. schedule[branch + 1].index = 1
          BY <2>4, <2>7, <3>1
        <5>4. QED
          BY <1>13, <2>1, <3>5, <5>1, <5>2, <5>3
      <4>2. QED
        BY <1>15, <2>1, <2>4, <3>1, <3>2, <3>3, <3>5, <4>1
    <3>7. p \in DOMAIN schedule' /\ schedule'[p] = schedule[p]
      <4>1. p \in 1 .. p
        BY <1>4, <3>4
      <4>2. QED
        BY <3>6, <4>1 DEF Same
    <3>8. Turn(kind, active, runq, schedule', branch, t, branch')
      BY <2>1, <2>4, <2>7, <3>1, <3>4, <3>5, <3>6, <3>7 DEF Turn
    <3>9. Chosen(t)
      BY <1>1, <1>2, <1>3, <1>7, <3>2, <3>3, <3>6, <3>8 DEF Chosen
    <3>10. QED
      BY <1>7, <3>6, <3>9
  <2>8. QED
    BY <2>5, <2>6, <2>7
<1>22. QED
  BY <1>18, <1>19, <1>20, <1>21

(* A word with one more pick *)
Grown(q, w, n, t, v) ==
  /\ v \in Seq(DOMAIN q.n) /\ n \in Nat /\ Len(v) = n + 1 /\ v[n + 1] = t /\ Same(w, v, n) /\ v # <<>>
  /\ \A u : /\ Count(w, n, u) \in Nat
            /\ Count(v, n + 1, u) = IF u = t THEN Count(w, n, u) + 1 ELSE Count(w, n, u)
  /\ Left(q, v, n + 1) \ {t} = Left(q, w, n) \ {t}
  /\ Cost(q, w, n) \in Nat
  /\ Cost(q, v, n + 1) = IF Cur(q, w, n) # None /\ t # Cur(q, w, n) THEN Cost(q, w, n) + 1 ELSE Cost(q, w, n)

(* ... counts it. *)
LEMMA WordGrows ==
  ASSUME NEW q, Plan(q), NEW w \in Seq(DOMAIN q.n), NEW n, n = Len(w), NEW t \in DOMAIN q.n, NEW v, v = Append(w, t)
  PROVE  Grown(q, w, n, t, v)
<1>1. /\ v \in Seq(DOMAIN q.n) /\ n \in Nat /\ Len(v) = n + 1 /\ v[n + 1] = t /\ DOMAIN v = 1 .. n + 1
      /\ DOMAIN w = 1 .. n /\ \A i \in 1 .. n : v[i] = w[i]
  OBVIOUS
<1>2. v # <<>>
  BY <1>1
<1>3. Same(w, v, n)
  BY <1>1 DEF Same
<1>4. ASSUME NEW u
      PROVE  /\ Count(w, n, u) \in Nat
             /\ Count(v, n + 1, u) = IF u = t THEN Count(w, n, u) + 1 ELSE Count(w, n, u)
  <2>1. Count(v, n, u) \in Nat /\ Count(v, n + 1, u) = IF v[n + 1] = u THEN Count(v, n, u) + 1 ELSE Count(v, n, u)
    <3>1. \A z, i : i \in Nat => /\ Count(z, i, u) \in Nat
                                 /\ Count(z, i + 1, u) = IF z[i + 1] = u THEN Count(z, i, u) + 1 ELSE Count(z, i, u)
      BY CountStep
    <3>2. QED
      BY <1>1, <3>1
  <2>2. Count(w, n, u) = Count(v, n, u)
    BY <1>1, <1>3, CountSame
  <2>3. QED
    BY <1>1, <2>1, <2>2
<1>5. Left(q, v, n + 1) \ {t} = Left(q, w, n) \ {t}
  BY <1>4 DEF Left
<1>6. Left(q, v, n) = Left(q, w, n) /\ Cost(q, v, n) = Cost(q, w, n)
  BY <1>1, <1>3, WordsAgree
<1>7. /\ Cost(q, v, n) \in Nat
      /\ Cost(q, v, n + 1) =
           IF n > 0 /\ v[n] # v[n + 1] /\ v[n] \in Left(q, v, n) THEN Cost(q, v, n) + 1 ELSE Cost(q, v, n)
  <2>1. n \in Nat
    BY <1>1
  <2>2. QED
    BY <2>1, CostStep
<1>8. n > 0 => v[n] = w[n]
  BY <1>1
<1>9. Cur(q, w, n) # None /\ t # Cur(q, w, n) <=> n > 0 /\ v[n] # v[n + 1] /\ v[n] \in Left(q, v, n)
  <2>1. None \notin Left(q, w, n)
    BY PlanFacts DEF Left
  <2>2. QED
    BY <1>1, <1>6, <1>8, <2>1 DEF Cur
<1>10. QED
  BY <1>1, <1>2, <1>3, <1>4, <1>5, <1>6, <1>7, <1>9 DEF Grown

(* ... of the same thread *)
LEMMA StreakGrows ==
  ASSUME NEW w, NEW v, NEW n \in Nat, Same(w, v, n), NEW b, Streak(w, n, b), v[n + 1] = w[n]
  PROVE  Streak(v, n + 1, b + 1)
<1>1. b \in Nat /\ b + 1 <= n /\ \A i \in 1 .. n : v[i] = w[i]
  BY DEF Streak, Same
<1>2. ASSUME NEW i \in n - b .. n PROVE v[i] = w[n]
  <2>1. i \in 1 .. n
    BY <1>1
  <2>2. QED
    BY <1>1, <1>2, <2>1 DEF Streak
<1>3. b + 1 \in 0 .. (n + 1) - 1
  BY <1>1
<1>4. \A i \in (n + 1) - (b + 1) .. n + 1 : v[i] = v[n + 1]
  BY <1>1, <1>2
<1>5. ASSUME (b + 1) + 1 < n + 1 PROVE v[(n + 1) - (b + 1) - 1] # v[n + 1]
  <2>1. b + 1 < n /\ n - b - 1 \in 1 .. n /\ (n + 1) - (b + 1) - 1 = n - b - 1
    BY <1>1, <1>5
  <2>2. w[n - b - 1] # w[n]
    BY <2>1 DEF Streak
  <2>3. QED
    BY <1>1, <2>1, <2>2
<1>6. QED
  BY <1>3, <1>4, <1>5 DEF Streak

(* ... or of another one *)
LEMMA StreakStarts == ASSUME NEW v, NEW n \in Nat, n > 0 => v[n] # v[n + 1] PROVE Streak(v, n + 1, 0)
<1>1. \A i \in (n + 1) - 0 .. n + 1 : i = n + 1
  OBVIOUS
<1>2. (n + 1) - 0 - 1 = n /\ (0 + 1 < n + 1 => n > 0) /\ 0 \in 0 .. (n + 1) - 1
  OBVIOUS
<1>3. QED
  BY <1>1, <1>2 DEF Streak

(* Once main has been picked and has stopped, all threads are there. *)
LEMMA MainStopped ==
  ASSUME Exploring, word # <<>>
  PROVE  /\ Picks(Main) \in Nat \ {0}
         /\ running # Main => pc[Main] \in Nat /\ pc[Main] >= Len(prog.code) /\ \A t \in Thread : t <= pc[Main]
<1>1. PICK q : q = ThePlan
  OBVIOUS
<1>2. PICK n : n = Len(word)
  OBVIOUS
<1>3. /\ word \in Seq(Thread) /\ n \in Nat \ {0} /\ Plan(q) /\ DOMAIN q.n = Thread /\ Main \in Thread
      /\ Thread = 1 .. Len(prog.code) /\ Len(prog.code) \in Nat
  BY <1>1, <1>2, Situation, ExploredPlan DEF Exploring
<1>4. PICK c : Run(q, schedule, word, c)
  BY <1>1 DEF Exploring, OnTheWay, Following
<1>5. word[1] = Main
  <2>1. 0 \in 0 .. Len(word) - 1
    BY <1>2, <1>3
  <2>2. word[0 + 1] \in Options(Kind(q, word, 0), Cur(q, word, 0), Rest(q, word, 0))
    BY <1>4, <2>1, RunStep
  <2>3. QED
    BY <1>3, <2>2, FirstPick
<1>6. Count(word, 1, Main) = 1
  <2>1. Count(word, 0, Main) = 0 /\ Count(word, 0 + 1, Main) = IF word[0 + 1] = Main THEN Count(word, 0, Main) + 1 ELSE Count(word, 0, Main)
    BY CountStep
  <2>2. QED
    BY <1>5, <2>1
<1>7. Count(word, 1, Main) <= Count(word, n, Main) /\ Count(word, n, Main) \in Nat
  BY <1>3, CountMonotone, CountStep
<1>8. Picks(Main) \in Nat \ {0}
  BY <1>2, <1>6, <1>7 DEF Picks
<1>9. ASSUME running # Main PROVE pc[Main] \in Nat /\ pc[Main] >= Len(prog.code) /\ \A t \in Thread : t <= pc[Main]
  <2>1. Resting(Main)
    BY <1>3, <1>9 DEF Exploring, OnTheWay, Places
  <2>2. pc[Main] = Spawned(Main) + Picks(Main)
    BY <1>8, <2>1 DEF Resting
  <2>3. Spawned(Main) \in Nat /\ Spawned(Main) + 1 = Len(prog.code)
    BY <1>3, PlainSteps DEF Exploring
  <2>4. QED
    BY <1>3, <1>8, <2>2, <2>3
<1>10. QED
  BY <1>8, <1>9

(* PickNext *)
LEMMA PickOnTheWay ==
  ASSUME Exploring, running = None, ~IsIdle, PickDfs, UNCHANGED <<question, loop, program>>
  PROVE  OnTheWay'
<1>1. PICK t \in Thread : Chosen(t)
  BY PickTurn
<1>2. PICK q : q = ThePlan
  OBVIOUS
<1>3. PICK w : w = word
  OBVIOUS
<1>4. PICK n : n = Len(w)
  OBVIOUS
<1>5. PICK v : v = Append(w, t)
  OBVIOUS
<1>6. /\ w \in Seq(Thread) /\ schedule \in Seq(Branch) /\ branch \in Nat /\ branch <= Len(schedule)
      /\ Plan(q) /\ DOMAIN q.n = Thread /\ Thread \in SUBSET Nat /\ None \notin Thread /\ Main \in Thread
      /\ \A u \in Thread : q.n[u] = StepsOf(u) /\ StepsOf(u) \in Nat \ {0}
  BY <1>2, <1>3, Situation, ExploredPlan DEF Exploring
<1>7. /\ v \in Seq(Thread) /\ n \in Nat /\ Len(v) = n + 1 /\ v[n + 1] = t /\ Same(w, v, n) /\ v # <<>>
      /\ \A u : /\ Count(w, n, u) \in Nat
                /\ Count(v, n + 1, u) = IF u = t THEN Count(w, n, u) + 1 ELSE Count(w, n, u)
      /\ Left(q, v, n + 1) \ {t} = Left(q, w, n) \ {t}
      /\ Cost(q, w, n) \in Nat
      /\ Cost(q, v, n + 1) = IF Cur(q, w, n) # None /\ t # Cur(q, w, n) THEN Cost(q, w, n) + 1 ELSE Cost(q, w, n)
  <2>1. Grown(q, w, n, t, v)
    BY <1>4, <1>5, <1>6, WordGrows
  <2>2. QED
    BY <1>6, <2>1 DEF Grown
<1>8. word' = v /\ running' = t /\ active' = None
  BY <1>1, <1>3, <1>5 DEF Chosen, Continues
<1>9. /\ ThePlan' = q /\ Thread' = Thread /\ prog' = prog /\ seen' = seen /\ pc' = pc /\ pending' = pending
      /\ \A u : StepsOf(u)' = StepsOf(u) /\ Spawned(u)' = Spawned(u)
  BY <1>2, PlanStays DEF loop, program
<1>10. runq = Rest(q, w, n) /\ active = Cur(q, w, n)
  BY <1>2, <1>3, <1>4, SchedulerKind
<1>11. \A u : Picks(u) = Count(w, n, u) /\ Picks(u)' = Count(v, n + 1, u)
  BY <1>3, <1>4, <1>7, <1>8 DEF Picks
<1>12. /\ schedule' \in Seq(Branch) /\ branch' \in Nat /\ Same(schedule, schedule', branch)
       /\ Turn(Kind(q, w, n), Cur(q, w, n), Rest(q, w, n), schedule', branch, t, branch')
       /\ schedule' = schedule \/ branch' = Len(schedule')
  BY <1>1, <1>2, <1>3, <1>4, <1>10 DEF Chosen
<1>13. Rest(q, w, n) \in SUBSET Nat /\ IsFiniteSet(Rest(q, w, n)) /\ Cur(q, w, n) \notin Rest(q, w, n)
  BY <1>6, <1>7, PlanFacts
<1>14. branch <= branch' /\ t \in Options(Kind(q, w, n), Cur(q, w, n), Rest(q, w, n))
  BY <1>6, <1>12, <1>13, TurnMoves
<1>15. t = active \/ t \in runq
  <2>1. t = Cur(q, w, n) \/ t \in Rest(q, w, n)
    BY <1>14 DEF Options
  <2>2. QED
    BY <1>10, <2>1
<1>16. t # None
  BY <1>6
<1>17. n = 0 => t = Main /\ active = None /\ runq = {Main}
  <2>1. n = 0 => Cur(q, w, n) = None /\ Rest(q, w, n) = {Main}
    BY DEF Cur, Rest
  <2>2. QED
    BY <1>10, <1>15, <1>16, <2>1
<1>18. n > 0 => t \in Left(q, w, n)
  <2>1. n > 0 => Rest(q, w, n) \subseteq Left(q, w, n)
    BY DEF Rest
  <2>2. Cur(q, w, n) # None => Cur(q, w, n) \in Left(q, w, n)
    BY DEF Cur
  <2>3. QED
    BY <1>10, <1>15, <1>16, <2>1, <2>2
<1>19. Picks(t) \in Nat /\ Picks(t) < StepsOf(t)
  <2>1. CASE n = 0
    <3>1. Count(w, 0, t) = 0
      BY CountStep
    <3>2. QED
      BY <1>6, <1>11, <2>1, <3>1
  <2>2. CASE n # 0
    <3>1. n > 0
      BY <1>7, <2>2
    <3>2. QED
      BY <1>6, <1>7, <1>11, <1>18, <3>1 DEF Left
  <2>3. QED
    BY <2>1, <2>2
<1>20. \A u : /\ Picks(u) \in Nat
              /\ Picks(u)' = IF u = t THEN Picks(u) + 1 ELSE Picks(u)
  BY <1>7, <1>11
<1>21. Places'
  <2>1. ASSUME NEW u \in Thread, u # t
        PROVE  Picks(u)' <= StepsOf(u)' /\ u # running' /\ Resting(u)'
    <3>1. u # running /\ u # running'
      BY <1>6, <1>8, <2>1
    <3>2. Picks(u) <= StepsOf(u) /\ Resting(u)
      BY <3>1 DEF Exploring, OnTheWay, Places
    <3>3. Picks(u)' = Picks(u)
      BY <1>20, <2>1
    <3>4. QED
      BY <1>9, <3>1, <3>2, <3>3 DEF Resting
  <2>2. Picks(t)' <= StepsOf(t)' /\ Moving(t)'
    <3>1. Resting(t)
      <4>1. t # running
        BY <1>16
      <4>2. QED
        BY <4>1 DEF Exploring, OnTheWay, Places
    <3>2. Picks(t)' = Picks(t) + 1
      BY <1>20
    <3>3. Picks(t)' <= StepsOf(t)'
      BY <1>6, <1>9, <1>19, <3>2
    <3>4. Spawned(t) \in Nat
      BY PlainSteps DEF Exploring
    <3>5. CASE Picks(t) = 0
      <4>1. pc[t] = 1 /\ t \notin pending
        BY <3>1, <3>5 DEF Resting
      <4>2. Picks(t)' = 1 /\ pc'[t] <= Spawned(t)' + 1 /\ t \notin pending'
        BY <1>9, <3>2, <3>4, <3>5, <4>1
      <4>3. Moving(t)'
        BY <4>2 DEF Moving
      <4>4. QED
        BY <3>3, <4>3
    <3>6. CASE Picks(t) # 0
      <4>1. pc[t] = Spawned(t) + Picks(t) /\ t \in pending
        BY <1>19, <3>1, <3>6 DEF Resting
      <4>2. Picks(t)' > 1 /\ pc'[t] = Spawned(t)' + Picks(t)' - 1 /\ t \in pending' /\ Picks(t)' > 0
        BY <1>9, <1>19, <3>2, <3>4, <3>6, <4>1
      <4>3. Moving(t)'
        BY <4>2 DEF Moving
      <4>4. QED
        BY <3>3, <4>3
    <3>7. QED
      BY <3>5, <3>6
  <2>3. QED
    BY <1>8, <1>9, <2>1, <2>2 DEF Places
<1>22. n > 0 => \A u \in Thread : u <= pc[Main]
  <2>1. SUFFICES ASSUME n > 0 PROVE \A u \in Thread : u <= pc[Main]
    OBVIOUS
  <2>2. word # <<>> /\ running # Main
    BY <1>3, <1>4, <1>6, <2>1
  <2>3. QED
    BY <2>2, MainStopped
<1>23. n = 0 => pc[Main] = 1
  <2>1. SUFFICES ASSUME n = 0 PROVE pc[Main] = 1
    OBVIOUS
  <2>2. Count(w, 0, Main) = 0
    BY CountStep
  <2>3. Picks(Main) = 0 /\ Main # running
    BY <1>6, <1>11, <2>1, <2>2
  <2>4. QED
    BY <1>6, <2>3 DEF Exploring, OnTheWay, Places, Resting
<1>24. t <= pc[Main]
  <2>1. CASE n = 0
    BY <1>17, <1>23, <2>1 DEF Main
  <2>2. CASE n # 0
    BY <1>7, <1>22, <2>2
  <2>3. QED
    BY <2>1, <2>2
<1>25. Unborn'
  <2>1. ASSUME NEW u \in Thread, u > pc[Main] PROVE Picks(u)' = 0
    <3>1. Picks(u) = 0
      BY <2>1 DEF Exploring, OnTheWay, Unborn
    <3>2. u # t
      <4>1. pc[Main] \in Nat
        BY <1>6 DEF Exploring, SimulationTypes
      <4>2. QED
        BY <1>6, <1>24, <2>1, <4>1
    <3>3. QED
      BY <1>20, <3>1, <3>2
  <2>2. QED
    BY <1>9, <2>1 DEF Unborn
<1>26. Ready'
  <2>1. runq' = {u \in Left(q, v, n + 1) : u <= pc[Main]} \ {t}
    <3>1. CASE n = 0
      <4>1. runq' = {}
        <5>1. active = None /\ runq = {Main} /\ t = Main
          BY <1>17, <3>1
        <5>2. runq' = (runq \ {t}) \cup ({active} \ {None})
          BY <1>1, <1>16, <5>1 DEF Chosen
        <5>3. QED
          BY <5>1, <5>2
      <4>2. \A u \in Thread : u <= 1 => u = 1
        <5>1. Thread = 1 .. Len(prog.code)
          BY ExploredPlan DEF Exploring
        <5>2. QED
          BY <5>1
      <4>3. Left(q, v, n + 1) \subseteq Thread
        BY <1>6 DEF Left
      <4>4. QED
        BY <1>17, <1>23, <3>1, <4>1, <4>2, <4>3 DEF Main
    <3>2. CASE n # 0
      <4>1. n > 0
        BY <1>7, <3>2
      <4>2. {u \in Left(q, v, n + 1) : u <= pc[Main]} = Left(q, v, n + 1)
        BY <1>6, <1>22, <4>1 DEF Left
      <4>3. runq = Left(q, w, n) \ {w[n]}
        BY <1>10, <4>1 DEF Rest
      <4>4. CASE t = active
        <5>1. runq' = runq /\ t = w[n]
          BY <1>1, <1>10, <1>16, <4>4 DEF Chosen, Cur
        <5>2. QED
          BY <1>7, <4>2, <4>3, <5>1
      <4>5. CASE t # active
        <5>1. runq' = (runq \ {t}) \cup ({active} \ {None}) /\ t \in runq
          BY <1>1, <4>5 DEF Chosen
        <5>2. CASE w[n] \in Left(q, w, n)
          <6>1. active = w[n]
            BY <1>10, <4>1, <5>2 DEF Cur
          <6>2. active # None
            BY <1>6, <5>2, <6>1 DEF Left
          <6>3. runq' = Left(q, w, n) \ {t}
            BY <4>3, <4>5, <5>1, <5>2, <6>1, <6>2
          <6>4. QED
            BY <1>7, <4>2, <6>3
        <5>3. CASE w[n] \notin Left(q, w, n)
          <6>1. active = None
            BY <1>10, <4>1, <5>3 DEF Cur
          <6>2. runq' = Left(q, w, n) \ {t}
            BY <4>3, <5>1, <5>3, <6>1
          <6>3. QED
            BY <1>7, <4>2, <6>2
        <5>4. QED
          BY <5>2, <5>3
      <4>6. QED
        BY <4>4, <4>5
    <3>3. QED
      BY <3>1, <3>2
  <2>2. QED
    BY <1>7, <1>8, <1>9, <1>16, <2>1 DEF Ready
<1>27. Bursts'
  <2>1. burst \in [Thread -> Nat]
    BY DEF Exploring, OnTheWay, Bursts
  <2>2. CASE t = active
    <3>1. burst' = [burst EXCEPT ![t] = @ + 1]
      BY <1>1, <2>2 DEF Chosen
    <3>2. burst' \in [Thread -> Nat] /\ burst'[t] = burst[t] + 1
      BY <2>1, <3>1
    <3>3. n > 0 /\ t = w[n]
      BY <1>10, <1>16, <2>2 DEF Cur
    <3>4. word # <<>>
      BY <1>3, <1>4, <3>3
    <3>5. Streak(w, n, burst[t])
      BY <1>3, <1>4, <3>3, <3>4 DEF Exploring, OnTheWay, Bursts
    <3>6. Streak(v, n + 1, burst[t] + 1)
      BY <1>7, <3>3, <3>5, StreakGrows
    <3>7. QED
      BY <1>7, <1>8, <1>9, <3>2, <3>6 DEF Bursts
  <2>3. CASE t # active
    <3>1. burst' = [u \in Thread |-> IF u = t THEN 0 ELSE IF u = active THEN burst[u] + 1 ELSE burst[u]]
      BY <1>1, <2>3 DEF Chosen
    <3>2. burst' \in [Thread -> Nat] /\ burst'[t] = 0
      BY <2>1, <3>1
    <3>3. n > 0 => v[n] # v[n + 1]
      <4>1. n > 0 => runq = Left(q, w, n) \ {w[n]}
        BY <1>10 DEF Rest
      <4>2. n > 0 => v[n] = w[n]
        BY <1>7 DEF Same
      <4>3. QED
        BY <1>7, <1>15, <2>3, <4>1, <4>2
    <3>4. Streak(v, n + 1, 0)
      BY <1>7, <3>3, StreakStarts
    <3>5. QED
      BY <1>7, <1>8, <1>9, <3>2, <3>4 DEF Bursts
  <2>4. QED
    BY <2>2, <2>3
<1>28. Payments'
  <2>1. preempts = Cost(q, w, n)
    BY <1>2, <1>3, <1>4 DEF Exploring, OnTheWay, Payments
  <2>2. preempts' = IF active # None /\ t # active THEN preempts + 1 ELSE preempts
    BY <1>1 DEF Chosen
  <2>3. preempts' = Cost(q, v, n + 1)
    BY <1>7, <1>10, <2>1, <2>2
  <2>4. QED
    BY <1>7, <1>8, <1>9, <2>3 DEF Payments
<1>29. Following'
  <2>1. PICK c : Run(q, schedule, w, c) /\ c[n] = branch
    BY <1>2, <1>3, <1>4 DEF Exploring, OnTheWay, Following
  <2>2. \E d : Run(q, schedule', Append(w, t), d) /\ d[Len(w) + 1] = branch'
    <3>1. PICK j : j = branch'
      OBVIOUS
    <3>2. PICK r : r = schedule'
      OBVIOUS
    <3>3. r \in Seq(Branch) /\ j \in Nat /\ Same(schedule, r, c[Len(w)]) /\ t \in DOMAIN q.n
      BY <1>4, <1>6, <1>12, <2>1, <3>1, <3>2
    <3>4. Turn(Kind(q, w, Len(w)), Cur(q, w, Len(w)), Rest(q, w, Len(w)), r, c[Len(w)], t, j)
      BY <1>4, <1>12, <2>1, <3>1, <3>2
    <3>5. \E d : Run(q, r, Append(w, t), d) /\ d[Len(w) + 1] = j
      BY <2>1, <3>3, <3>4, RunExtends
    <3>6. QED
      BY <3>1, <3>2, <3>5
  <2>3. QED
    BY <1>4, <1>5, <1>7, <1>8, <1>9, <2>2 DEF Following
<1>30. Guided(seen, schedule, branch)'
  <2>1. Guided(seen, schedule, branch)
    BY DEF Exploring, OnTheWay
  <2>2. SUFFICES ASSUME branch' < Len(schedule') PROVE \E e \in seen : Beside(schedule', e[1])
    BY <1>9 DEF Guided
  <2>3. schedule' = schedule
    BY <1>12, <2>2
  <2>4. branch < Len(schedule)
    BY <1>6, <1>12, <1>14, <2>2, <2>3
  <2>5. QED
    BY <2>1, <2>3, <2>4 DEF Guided
<1>31. QED
  BY <1>21, <1>25, <1>26, <1>27, <1>28, <1>29, <1>30 DEF OnTheWay

(* The steps of the running thread leave the scheduler alone. *)
LEMMA StepKeeps ==
  ASSUME Exploring, UNCHANGED <<question, seen, schedule, branch, burst, preempts, word>>, Places', Unborn', Ready'
  PROVE  OnTheWay'
<1>1. ThePlan' = ThePlan /\ Thread' = Thread
  BY PlanStays
<1>2. Bursts' /\ Payments' /\ Following' /\ Guided(seen, schedule, branch)'
  BY <1>1 DEF Exploring, OnTheWay, Bursts, Payments, Following
<1>3. QED
  BY <1>2 DEF OnTheWay

(* The running thread *)
LEMMA RunningThread ==
  ASSUME Exploring, NEW t \in Thread, running = t
  PROVE  /\ Moving(t) /\ Picks(t) \in Nat /\ Picks(t) <= StepsOf(t) /\ pc[t] \in Nat \ {0}
         /\ word # <<>> /\ running = word[Len(word)] /\ active = None /\ None \notin Thread
         /\ runq = {u \in Left(ThePlan, word, Len(word)) : u <= pc[Main]} \ {t}
         /\ Spawned(t) \in Nat /\ Len(prog.code[t]) \in Nat /\ Spawned(t) <= Len(prog.code[t])
         /\ StepsOf(t) = Len(prog.code[t]) - Spawned(t) + 1
         /\ ~Exited(t) => /\ pc[t] \in 1 .. Len(prog.code[t])
                          /\ IF pc[t] <= Spawned(t) THEN Op(t) = <<"spawn", pc[t] + 1>>
                             ELSE Op(t)[1] \in {"load", "store", "inc"}
<1>1. None \notin Thread
  BY ExploredPlan DEF Exploring
<1>2. running # None
  BY <1>1
<1>3. Picks(t) <= StepsOf(t) /\ Moving(t)
  BY DEF Exploring, OnTheWay, Places
<1>4. /\ word # <<>> /\ running = word[Len(word)] /\ active = None
      /\ runq = {u \in Left(ThePlan, word, Len(word)) : u <= pc[Main]} \ {t}
  BY <1>2 DEF Exploring, OnTheWay, Ready
<1>5. Len(word) \in Nat
  BY Situation
<1>6. Picks(t) \in Nat
  BY <1>5, CountStep DEF Picks
<1>7. pc[t] \in Nat \ {0}
  BY DEF Exploring, SimulationTypes
<1>8. PICK l : l = Len(prog.code[t])
  OBVIOUS
<1>9. PICK k : k = Spawned(t)
  OBVIOUS
<1>10. /\ k \in Nat /\ l \in Nat /\ k <= l /\ StepsOf(t) = l - k + 1
       /\ \A i \in 1 .. l : IF i <= k THEN prog.code[t][i] = <<"spawn", i + 1>>
                            ELSE prog.code[t][i][1] \in {"load", "store", "inc"}
  BY <1>8, <1>9, PlainSteps DEF Exploring
<1>11. ASSUME ~Exited(t)
       PROVE  /\ pc[t] \in 1 .. l
              /\ IF pc[t] <= k THEN Op(t) = <<"spawn", pc[t] + 1>> ELSE Op(t)[1] \in {"load", "store", "inc"}
  <2>1. pc[t] \in 1 .. l
    BY <1>7, <1>8, <1>10, <1>11 DEF Exited
  <2>2. QED
    BY <1>10, <2>1 DEF Op
<1>12. QED
  BY <1>1, <1>3, <1>4, <1>6, <1>7, <1>8, <1>9, <1>10, <1>11

(* The others stay where they are. *)
LEMMA OthersRest ==
  ASSUME Exploring, NEW t \in Thread, running = t, UNCHANGED <<question, word>>,
         running' \in {t, None}, \A u \in Thread \ {t} : pc'[u] = pc[u] /\ (u \in pending' <=> u \in pending),
         IF running' = t THEN Moving(t)' ELSE Resting(t)'
  PROVE  Places'
<1>1. /\ Thread' = Thread /\ \A u : StepsOf(u)' = StepsOf(u) /\ Spawned(u)' = Spawned(u)
  BY PlanStays
<1>2. None \notin Thread
  BY ExploredPlan DEF Exploring
<1>3. \A u : Picks(u)' = Picks(u)
  BY DEF Picks
<1>4. ASSUME NEW u \in Thread, u # t PROVE u # running' /\ Resting(u)'
  <2>1. Resting(u)
    BY <1>4 DEF Exploring, OnTheWay, Places
  <2>2. Resting(u)'
    BY <1>1, <1>3, <1>4, <2>1 DEF Resting
  <2>3. QED
    BY <1>2, <1>4, <2>2
<1>5. \A u \in Thread : Picks(u)' <= StepsOf(u)'
  BY <1>1, <1>3 DEF Exploring, OnTheWay, Places
<1>6. t = running' => Moving(t)'
  OBVIOUS
<1>7. t # running' => Resting(t)'
  OBVIOUS
<1>8. QED
  BY <1>1, <1>4, <1>5, <1>6, <1>7 DEF Places

(* A thread that is past its first operations: main has started all. *)
LEMMA AllBorn ==
  ASSUME Exploring, NEW t \in Thread, running = t, pc[t] > Spawned(t)
  PROVE  (\A u \in Thread : u <= pc[Main]) /\ runq = Left(ThePlan, word, Len(word)) \ {t}
<1>1. /\ pc[t] \in Nat \ {0} /\ word # <<>> /\ Spawned(t) \in Nat
      /\ runq = {u \in Left(ThePlan, word, Len(word)) : u <= pc[Main]} \ {t}
  BY RunningThread
<1>2. \A u \in Thread : u <= pc[Main]
  <2>1. CASE t = Main
    <3>1. Spawned(Main) + 1 = Len(prog.code) /\ Thread = 1 .. Len(prog.code) /\ Len(prog.code) \in Nat
      BY PlainSteps, ExploredPlan DEF Exploring
    <3>2. QED
      BY <1>1, <2>1, <3>1
  <2>2. CASE t # Main
    BY <1>1, <2>2, MainStopped
  <2>3. QED
    BY <2>1, <2>2
<1>3. Left(ThePlan, word, Len(word)) \subseteq Thread
  <2>1. DOMAIN ThePlan.n = Thread
    BY ExploredPlan DEF Exploring
  <2>2. QED
    BY <2>1 DEF Left
<1>4. QED
  BY <1>1, <1>2, <1>3

(* Sync: the thread has steps left and could go on. *)
LEMMA SyncOnTheWay == ASSUME Exploring, NEW t \in Thread, Sync(t) PROVE OnTheWay'
<1>1. running = t /\ ~Exited(t) /\ Op(t)[1] \in Atomic /\ t \notin pending
  BY DEF Sync
<1>2. /\ pending' = pending \cup {t} /\ running' = None /\ active' = t /\ runq' = runq
      /\ pc' = pc /\ word' = word /\ schedule' = schedule /\ branch' = branch /\ seen' = seen
      /\ burst' = burst /\ preempts' = preempts /\ UNCHANGED question
  BY DEF Sync, Exploring, Plain, loop, limits, question
<1>3. /\ Moving(t) /\ Picks(t) \in Nat /\ Picks(t) <= StepsOf(t) /\ pc[t] \in Nat \ {0}
      /\ word # <<>> /\ running = word[Len(word)] /\ active = None /\ None \notin Thread
      /\ runq = {u \in Left(ThePlan, word, Len(word)) : u <= pc[Main]} \ {t}
      /\ Spawned(t) \in Nat /\ Len(prog.code[t]) \in Nat /\ Spawned(t) <= Len(prog.code[t])
      /\ StepsOf(t) = Len(prog.code[t]) - Spawned(t) + 1
      /\ pc[t] \in 1 .. Len(prog.code[t])
      /\ IF pc[t] <= Spawned(t) THEN Op(t) = <<"spawn", pc[t] + 1>> ELSE Op(t)[1] \in {"load", "store", "inc"}
  BY <1>1, RunningThread
<1>4. pc[t] > Spawned(t)
  <2>1. "spawn" \notin Atomic
    BY DEF Atomic
  <2>2. QED
    BY <1>1, <1>3, <2>1
<1>5. pc[t] = Spawned(t) + Picks(t) /\ Picks(t) > 0
  BY <1>1, <1>3, <1>4 DEF Moving
<1>6. Picks(t) < StepsOf(t)
  BY <1>3, <1>5
<1>7. /\ ThePlan' = ThePlan /\ Thread' = Thread /\ \A u : StepsOf(u)' = StepsOf(u) /\ Spawned(u)' = Spawned(u)
  BY <1>2, PlanStays
<1>8. \A u : Picks(u)' = Picks(u)
  BY <1>2 DEF Picks
<1>9. Resting(t)'
  BY <1>2, <1>3, <1>5, <1>6, <1>7, <1>8 DEF Resting
<1>10. running' \in {t, None} /\ running' # t
  BY <1>2, <1>3
<1>11. Places'
  <2>1. \A u \in Thread \ {t} : pc'[u] = pc[u] /\ (u \in pending' <=> u \in pending)
    BY <1>2
  <2>2. IF running' = t THEN Moving(t)' ELSE Resting(t)'
    BY <1>9, <1>10
  <2>3. QED
    BY <1>1, <1>2, <1>10, <2>1, <2>2, OthersRest
<1>12. Unborn'
  BY <1>2, <1>7, <1>8 DEF Exploring, OnTheWay, Unborn
<1>13. Ready'
  <2>1. PICK n : n = Len(word)
    OBVIOUS
  <2>2. n \in Nat /\ n > 0 /\ word[n] = t
    BY <1>1, <1>3, <2>1, Situation
  <2>3. t \in Left(ThePlan, word, n)
    <3>1. DOMAIN ThePlan.n = Thread /\ ThePlan.n[t] = StepsOf(t)
      BY ExploredPlan DEF Exploring
    <3>2. QED
      BY <1>6, <2>1, <3>1 DEF Left, Picks
  <2>4. Cur(ThePlan, word, n) = t
    BY <2>2, <2>3 DEF Cur
  <2>5. runq = Left(ThePlan, word, n) \ {t}
    BY <1>1, <1>4, <2>1, AllBorn
  <2>6. runq = Rest(ThePlan, word, n)
    BY <2>2, <2>5 DEF Rest
  <2>7. QED
    BY <1>2, <1>7, <2>1, <2>4, <2>6 DEF Ready
<1>14. QED
  BY <1>2, <1>11, <1>12, <1>13, StepKeeps

(* Exit: the thread has done all its steps. *)
LEMMA ExitOnTheWay == ASSUME Exploring, NEW t \in Thread, Exit(t) PROVE OnTheWay' /\ UNCHANGED <<question, loop>>
<1>1. running = t /\ Exited(t)
  BY DEF Exit
<1>2. ~OutOfSteps
  BY DEF OutOfSteps, Exceeds, Exploring, Plain
<1>3. /\ pending' = pending /\ running' = None /\ active' = active /\ runq' = runq
      /\ pc' = pc /\ word' = word /\ schedule' = schedule /\ branch' = branch /\ seen' = seen
      /\ burst' = burst /\ preempts' = preempts /\ UNCHANGED question /\ UNCHANGED loop
  BY <1>2 DEF Exit, loop, question, queues, answers, program
<1>4. /\ Moving(t) /\ Picks(t) \in Nat /\ Picks(t) <= StepsOf(t) /\ pc[t] \in Nat \ {0}
      /\ word # <<>> /\ running = word[Len(word)] /\ active = None /\ None \notin Thread
      /\ Spawned(t) \in Nat /\ Len(prog.code[t]) \in Nat /\ Spawned(t) <= Len(prog.code[t])
      /\ StepsOf(t) = Len(prog.code[t]) - Spawned(t) + 1
  BY <1>1, RunningThread
<1>5. pc[t] > Len(prog.code[t]) /\ pc[t] > Spawned(t)
  BY <1>1, <1>4 DEF Exited
<1>6. pc[t] = Spawned(t) + Picks(t) /\ Picks(t) > 0 /\ t \notin pending /\ Picks(t) = StepsOf(t)
  BY <1>4, <1>5 DEF Moving
<1>7. /\ ThePlan' = ThePlan /\ Thread' = Thread /\ \A u : StepsOf(u)' = StepsOf(u) /\ Spawned(u)' = Spawned(u)
  BY <1>3, PlanStays
<1>8. \A u : Picks(u)' = Picks(u)
  BY <1>3 DEF Picks
<1>9. Resting(t)'
  <2>1. /\ Picks(t)' = Picks(t) /\ pc'[t] = pc[t] /\ Spawned(t)' = Spawned(t)
        /\ StepsOf(t)' = StepsOf(t) /\ pending' = pending
    BY <1>3, <1>7, <1>8
  <2>2. Picks(t) # 0 /\ ~(Picks(t) < StepsOf(t))
    BY <1>4, <1>6
  <2>3. QED
    BY <1>6, <2>1, <2>2 DEF Resting
<1>10. running' \in {t, None} /\ running' # t
  BY <1>3, <1>4
<1>11. Places'
  <2>1. \A u \in Thread \ {t} : pc'[u] = pc[u] /\ (u \in pending' <=> u \in pending)
    BY <1>3
  <2>2. IF running' = t THEN Moving(t)' ELSE Resting(t)'
    BY <1>9, <1>10
  <2>3. QED
    BY <1>1, <1>3, <1>10, <2>1, <2>2, OthersRest
<1>12. Unborn'
  BY <1>3, <1>7, <1>8 DEF Exploring, OnTheWay, Unborn
<1>13. Ready'
  <2>1. PICK n : n = Len(word)
    OBVIOUS
  <2>2. n \in Nat /\ n > 0 /\ n # 0 /\ word[n] = t
    BY <1>1, <1>4, <2>1, Situation
  <2>3. t \notin Left(ThePlan, word, n)
    <3>1. ThePlan.n[t] = StepsOf(t)
      BY ExploredPlan DEF Exploring
    <3>2. ~(Picks(t) < StepsOf(t))
      BY <1>4, <1>6
    <3>3. QED
      BY <2>1, <3>1, <3>2 DEF Left, Picks
  <2>4. Cur(ThePlan, word, n) = None
    BY <2>2, <2>3 DEF Cur
  <2>5. runq = Left(ThePlan, word, n) \ {t}
    BY <1>1, <1>5, <2>1, AllBorn
  <2>6. runq = Rest(ThePlan, word, n)
    BY <2>2, <2>5 DEF Rest
  <2>7. QED
    BY <1>3, <1>4, <1>7, <2>1, <2>4, <2>6 DEF Ready
<1>14. QED
  BY <1>3, <1>11, <1>12, <1>13, StepKeeps

(* Complete: the operation that the thread had stopped before *)
LEMMA CompleteOnTheWay == ASSUME Exploring, NEW t \in Thread, Complete(t) PROVE OnTheWay'
<1>1. running = t /\ t \in pending
  BY DEF Complete
<1>2. ~Exited(t)
  BY DEF Complete, At
<1>3. /\ Moving(t) /\ Picks(t) \in Nat /\ pc[t] \in Nat \ {0} /\ Picks(t) <= StepsOf(t)
      /\ word # <<>> /\ running = word[Len(word)] /\ active = None /\ None \notin Thread
      /\ runq = {u \in Left(ThePlan, word, Len(word)) : u <= pc[Main]} \ {t}
      /\ Spawned(t) \in Nat
      /\ IF pc[t] <= Spawned(t) THEN Op(t) = <<"spawn", pc[t] + 1>> ELSE Op(t)[1] \in {"load", "store", "inc"}
  BY <1>1, <1>2, RunningThread
<1>4. Picks(t) > 1 /\ pc[t] = Spawned(t) + Picks(t) - 1
  BY <1>1, <1>3 DEF Moving
<1>5. Op(t)[1] \in {"load", "store", "inc"} /\ Op(t)[1] # "await" /\ pc[t] > Spawned(t)
  BY <1>3, <1>4
<1>6. /\ pending' = pending \ {t} /\ running' = t /\ active' = active /\ runq' = runq /\ pc' = [pc EXCEPT ![t] = @ + 1]
      /\ word' = word /\ schedule' = schedule /\ branch' = branch /\ seen' = seen
      /\ burst' = burst /\ preempts' = preempts /\ UNCHANGED question
  BY <1>1, <1>5 DEF Complete, At, Done, loop, question, answers, limits
<1>7. /\ ThePlan' = ThePlan /\ Thread' = Thread /\ \A u : StepsOf(u)' = StepsOf(u) /\ Spawned(u)' = Spawned(u)
  BY <1>6, PlanStays
<1>8. \A u : Picks(u)' = Picks(u)
  BY <1>6 DEF Picks
<1>9. pc \in [Thread -> Nat \ {0}]
  BY DEF Exploring, SimulationTypes
<1>10. pc'[t] = pc[t] + 1 /\ \A u \in Thread \ {t} : pc'[u] = pc[u]
  BY <1>6, <1>9
<1>11. Moving(t)'
  <2>1. t \notin pending' /\ pc'[t] = Spawned(t)' + Picks(t)' /\ Picks(t)' > 0
    BY <1>3, <1>4, <1>6, <1>7, <1>8, <1>10
  <2>2. QED
    BY <2>1 DEF Moving
<1>12. Places'
  <2>1. \A u \in Thread \ {t} : pc'[u] = pc[u] /\ (u \in pending' <=> u \in pending)
    BY <1>6, <1>10
  <2>2. IF running' = t THEN Moving(t)' ELSE Resting(t)'
    BY <1>6, <1>11
  <2>3. QED
    BY <1>1, <1>6, <2>1, <2>2, OthersRest
<1>13. \A u \in Thread : u <= pc[Main] /\ u <= pc'[Main] /\ u \in Nat /\ pc'[Main] \in Nat
  <2>1. \A u \in Thread : u <= pc[Main]
    BY <1>1, <1>5, AllBorn
  <2>2. Main \in Thread /\ Thread \in SUBSET Nat
    BY ExploredPlan DEF Exploring
  <2>3. pc[Main] \in Nat /\ (pc'[Main] = pc[Main] \/ pc'[Main] = pc[Main] + 1)
    BY <1>9, <1>10, <2>2
  <2>4. QED
    BY <2>1, <2>2, <2>3
<1>14. Unborn'
  BY <1>7, <1>13 DEF Unborn
<1>15. Ready'
  <2>1. Left(ThePlan, word, Len(word)) \subseteq Thread
    <3>1. DOMAIN ThePlan.n = Thread
      BY ExploredPlan DEF Exploring
    <3>2. QED
      BY <3>1 DEF Left
  <2>2. runq' = {u \in Left(ThePlan, word, Len(word)) : u <= pc'[Main]} \ {t}
    BY <1>3, <1>6, <1>13, <2>1
  <2>3. running' # None /\ word' # <<>> /\ running' = word'[Len(word')] /\ active' = None
    BY <1>1, <1>3, <1>6
  <2>4. QED
    BY <1>6, <1>7, <2>2, <2>3 DEF Ready
<1>16. QED
  BY <1>6, <1>12, <1>14, <1>15, StepKeeps

(* Spawn: main starts the threads in order. *)
LEMMA SpawnOnTheWay == ASSUME Exploring, NEW t \in Thread, Spawn(t) PROVE OnTheWay'
<1>1. running = t /\ ~Exited(t) /\ Op(t)[1] = "spawn"
  BY DEF Spawn, At
<1>2. /\ pending' = pending /\ running' = t /\ active' = active /\ runq' = runq \cup {Op(t)[2]}
      /\ pc' = [pc EXCEPT ![t] = @ + 1] /\ word' = word /\ schedule' = schedule /\ branch' = branch
      /\ seen' = seen /\ burst' = burst /\ preempts' = preempts /\ UNCHANGED question
  BY <1>1 DEF Spawn, Done, loop, question, answers, limits
<1>3. /\ Moving(t) /\ Picks(t) \in Nat /\ pc[t] \in Nat \ {0} /\ Picks(t) <= StepsOf(t)
      /\ word # <<>> /\ running = word[Len(word)] /\ active = None /\ None \notin Thread
      /\ runq = {u \in Left(ThePlan, word, Len(word)) : u <= pc[Main]} \ {t}
      /\ Spawned(t) \in Nat
      /\ IF pc[t] <= Spawned(t) THEN Op(t) = <<"spawn", pc[t] + 1>> ELSE Op(t)[1] \in {"load", "store", "inc"}
  BY <1>1, RunningThread
<1>4. pc[t] <= Spawned(t) /\ Op(t) = <<"spawn", pc[t] + 1>>
  BY <1>1, <1>3
<1>5. t = Main /\ Spawned(Main) + 1 = Len(prog.code)
  <2>1. Spawned(Main) + 1 = Len(prog.code) /\ (t # Main => Spawned(t) = 0)
    BY PlainSteps DEF Exploring
  <2>2. QED
    BY <1>3, <1>4, <2>1
<1>6. t \notin pending /\ Picks(t) = 1
  BY <1>3, <1>4 DEF Moving
<1>7. /\ ThePlan' = ThePlan /\ Thread' = Thread /\ \A u : StepsOf(u)' = StepsOf(u) /\ Spawned(u)' = Spawned(u)
  BY <1>2, PlanStays
<1>8. \A u : Picks(u)' = Picks(u)
  BY <1>2 DEF Picks
<1>9. pc \in [Thread -> Nat \ {0}]
  BY DEF Exploring, SimulationTypes
<1>10. pc'[t] = pc[t] + 1 /\ \A u \in Thread \ {t} : pc'[u] = pc[u]
  BY <1>2, <1>9
<1>11. Moving(t)'
  <2>1. t \notin pending' /\ Picks(t)' = 1 /\ pc'[t] <= Spawned(t)' + 1 /\ Picks(t)' > 0
    BY <1>2, <1>3, <1>4, <1>6, <1>7, <1>8, <1>10
  <2>2. QED
    BY <2>1 DEF Moving
<1>12. Places'
  <2>1. \A u \in Thread \ {t} : pc'[u] = pc[u] /\ (u \in pending' <=> u \in pending)
    BY <1>2, <1>10
  <2>2. IF running' = t THEN Moving(t)' ELSE Resting(t)'
    BY <1>2, <1>11
  <2>3. QED
    BY <1>1, <1>2, <2>1, <2>2, OthersRest
<1>13. PICK m : m = pc[Main]
  OBVIOUS
<1>14. /\ m \in Nat \ {0} /\ pc'[Main] = m + 1 /\ Op(t)[2] = m + 1 /\ Thread \in SUBSET Nat
       /\ m + 1 \in Thread /\ m + 1 # Main
  <2>1. Thread = 1 .. Len(prog.code) /\ Len(prog.code) \in Nat
    BY ExploredPlan DEF Exploring
  <2>2. Op(t)[2] = m + 1 /\ m \in Nat \ {0} /\ pc'[Main] = m + 1
    BY <1>3, <1>4, <1>5, <1>10, <1>13
  <2>3. m + 1 \in Thread
    BY <1>3, <1>4, <1>5, <1>13, <2>1, <2>2
  <2>4. QED
    BY <2>1, <2>2, <2>3 DEF Main
<1>15. \A u \in Thread : u > m => Picks(u) = 0
  BY <1>13 DEF Exploring, OnTheWay, Unborn
<1>16. Unborn'
  <2>1. \A u \in Thread : u > pc'[Main] => u > m
    BY <1>14
  <2>2. QED
    BY <1>7, <1>8, <1>15, <2>1 DEF Unborn
<1>17. Ready'
  <2>1. PICK T : T = Left(ThePlan, word, Len(word))
    OBVIOUS
  <2>2. DOMAIN ThePlan.n = Thread /\ \A u \in Thread : ThePlan.n[u] = StepsOf(u) /\ StepsOf(u) \in Nat \ {0}
    BY ExploredPlan DEF Exploring
  <2>3. T \subseteq Thread /\ m + 1 \in T
    <3>1. Picks(m + 1) = 0
      BY <1>14, <1>15
    <3>2. Picks(m + 1) < ThePlan.n[m + 1]
      BY <1>14, <2>2, <3>1
    <3>3. QED
      BY <1>14, <2>1, <2>2, <3>2 DEF Left, Picks
  <2>4. runq' = {u \in T : u <= m + 1} \ {t}
    <3>1. runq' = ({u \in T : u <= m} \ {t}) \cup {m + 1}
      BY <1>2, <1>3, <1>13, <1>14, <2>1
    <3>2. \A u \in T : u <= m + 1 <=> u <= m \/ u = m + 1
      BY <1>14, <2>3
    <3>3. t # m + 1
      BY <1>5, <1>14
    <3>4. m + 1 <= m + 1
      BY <1>14
    <3>5. QED
      BY <2>3, <3>1, <3>2, <3>3, <3>4
  <2>5. running' # None /\ word' # <<>> /\ running' = word'[Len(word')] /\ active' = None
    BY <1>1, <1>2, <1>3
  <2>6. QED
    BY <1>2, <1>7, <1>14, <2>1, <2>4, <2>5 DEF Ready
<1>18. QED
  BY <1>2, <1>12, <1>16, <1>17, StepKeeps

(* Nothing else happens in a straight program. *)
LEMMA PlainStep ==
  ASSUME Exploring, NEW t \in Thread, Step(t)
  PROVE  Sync(t) \/ Complete(t) \/ Spawn(t) \/ Exit(t)
<1>1. ASSUME NEW name \in {"yield", "wake", "choice", "enter", "leave"}, At(t, name) PROVE FALSE
  <2>1. running = t /\ ~Exited(t) /\ Op(t)[1] = name
    BY <1>1 DEF At
  <2>2. Op(t)[1] \in {"spawn", "load", "store", "inc"}
    <3>1. IF pc[t] <= Spawned(t) THEN Op(t) = <<"spawn", pc[t] + 1>> ELSE Op(t)[1] \in {"load", "store", "inc"}
      BY <2>1, RunningThread
    <3>2. QED
      BY <3>1
  <2>3. QED
    BY <2>1, <2>2
<1>2. ~Yield(t)
  BY <1>1 DEF Yield
<1>3. ~Wake(t)
  BY <1>1 DEF Wake
<1>4. ~RandomChoice(t)
  BY <1>1 DEF RandomChoice
<1>5. ~EnterScope(t) /\ ~LeaveScope(t)
  BY <1>1 DEF EnterScope, LeaveScope
<1>6. QED
  BY <1>2, <1>3, <1>4, <1>5 DEF Step

(* A simulation that comes to its end has used its schedule up, and has come to the end of all
   threads unless it is pruned. *)
LEMMA EndOfSimulation ==
  ASSUME Exploring, running = None,
         NEW status, \/ IsIdle /\ status = "Ok"
                     \/ Blocked /\ status = "Pruned"
  PROVE  LET e == <<schedule, word, status>> IN
         /\ e = <<e[1], e[2], e[3]>> /\ Simulated(ThePlan, e)
         /\ e[3] = "Ok" <=> Left(ThePlan, e[2], Len(e[2])) = {}
<1>1. PICK q : q = ThePlan
  OBVIOUS
<1>2. PICK n : n = Len(word)
  OBVIOUS
<1>3. PICK e : e = <<schedule, word, status>>
  OBVIOUS
<1>4. e[1] = schedule /\ e[2] = word /\ e[3] = status
  BY <1>3
<1>5. n \in Nat /\ Plan(q) /\ DOMAIN q.n = Thread /\ None \notin Thread
  BY <1>1, <1>2, Situation, ExploredPlan DEF Exploring
<1>6. runq = Rest(q, word, n) /\ active = Cur(q, word, n)
  BY <1>1, <1>2, SchedulerKind
<1>7. (NoPreemptsLeft <=> Spent(q, word, n)) /\ (Forced <=> Due(q, word, n))
  BY <1>1, <1>2, SchedulerKind
<1>8. Halted(q, word, n) /\ (status = "Ok" <=> Left(q, word, n) = {})
  <2>1. CASE IsIdle /\ status = "Ok"
    <3>1. Rest(q, word, n) = {} /\ Cur(q, word, n) = None
      BY <1>6, <2>1 DEF IsIdle
    <3>2. Halted(q, word, n)
      BY <3>1 DEF Halted, Kind, Options
    <3>3. n > 0
      <4>1. n # 0
        BY <3>1, <1>5, FirstPick
      <4>2. QED
        BY <1>5, <4>1
    <3>4. word[n] \notin Left(q, word, n)
      <4>1. None \notin Left(q, word, n)
        BY <1>5 DEF Left
      <4>2. QED
        BY <3>1, <3>3, <4>1 DEF Cur
    <3>5. Left(q, word, n) = {}
      BY <3>1, <3>3, <3>4 DEF Rest
    <3>6. QED
      BY <2>1, <3>2, <3>5
  <2>2. CASE Blocked /\ status = "Pruned"
    <3>1. Due(q, word, n) /\ Spent(q, word, n) /\ Cur(q, word, n) # None
      BY <1>7, <2>2 DEF Blocked, Due
    <3>2. Halted(q, word, n)
      BY <3>1 DEF Halted, Kind, Options
    <3>3. Left(q, word, n) # {}
      BY <3>1 DEF Cur
    <3>4. QED
      BY <2>2, <3>2, <3>3
  <2>3. QED
    BY <2>1, <2>2
<1>9. PICK c : Run(q, schedule, word, c) /\ c[n] = branch
  BY <1>1, <1>2 DEF Exploring, OnTheWay, Following
<1>10. branch = Len(schedule)
  <2>1. Finished(q, seen) /\ Guided(seen, schedule, branch)
    BY <1>1 DEF Exploring, OnTheWay
  <2>2. QED
    BY <1>2, <1>8, <1>9, <2>1, UsedUp
<1>11. Simulated(q, e)
  BY <1>2, <1>4, <1>8, <1>9, <1>10 DEF Simulated
<1>12. QED
  BY <1>1, <1>2, <1>3, <1>4, <1>8, <1>11

(* ... and the next one begins beside an earlier one. *)
Begun ==
  /\ SimulationTypes /\ Plain /\ schedule \in Seq(Branch) /\ branch = 0
  /\ pc = [t \in Thread |-> 1] /\ pending = {} /\ running = None
  /\ runq = {Main} /\ active = None /\ preempts = 0 /\ burst = [t \in Thread |-> 0] /\ word = <<>>
  /\ schedule # <<>> => \E e \in seen : Beside(schedule, e[1])

(* That is where a simulation starts. *)
LEMMA BegunOnTheWay == Begun => OnTheWay
<1>1. SUFFICES ASSUME Begun PROVE OnTheWay
  OBVIOUS
<1>2. PICK q : q = ThePlan
  OBVIOUS
<1>3. PICK s : s = schedule
  OBVIOUS
<1>4. /\ Plan(q) /\ DOMAIN q.n = Thread /\ None \notin Thread /\ Main \in Thread /\ Thread \in SUBSET Nat
      /\ \A u \in Thread : StepsOf(u) \in Nat \ {0} /\ q.n[u] = StepsOf(u)
  BY <1>1, <1>2, ExploredPlan DEF Begun
<1>5. /\ s \in Seq(Branch) /\ schedule = s /\ branch = 0 /\ pc = [t \in Thread |-> 1] /\ pending = {} /\ running = None
      /\ runq = {Main} /\ active = None /\ preempts = 0 /\ burst = [t \in Thread |-> 0] /\ word = <<>>
  BY <1>1, <1>3 DEF Begun
<1>6. Len(word) = 0
  BY <1>5
<1>7. \A u : Picks(u) = 0
  <2>1. \A u : Count(word, 0, u) = 0
    BY CountStep
  <2>2. QED
    BY <1>6, <2>1 DEF Picks
<1>8. Places
  BY <1>4, <1>5, <1>7 DEF Places, Resting
<1>9. Unborn
  BY <1>7 DEF Unborn
<1>10. Ready
  <2>1. Rest(q, word, 0) = {Main} /\ Cur(q, word, 0) = None
    BY DEF Rest, Cur
  <2>2. QED
    BY <1>2, <1>5, <1>6, <2>1 DEF Ready
<1>11. Bursts
  BY <1>5 DEF Bursts
<1>12. Payments
  <2>1. Cost(q, word, 0) = 0
    BY CostStep
  <2>2. QED
    BY <1>2, <1>5, <1>6, <2>1 DEF Payments
<1>13. Following
  <2>1. PICK c : c = [i \in {0} |-> 0]
    OBVIOUS
  <2>2. PICK w : w = word
    OBVIOUS
  <2>3. w \in Seq(Thread) /\ Len(w) = 0 /\ 0 .. Len(w) = {0} /\ 0 .. Len(w) - 1 = {}
    BY <1>5, <2>2
  <2>4. c \in [0 .. Len(w) -> Nat] /\ c[0] = 0
    BY <2>1, <2>3
  <2>5. Coded(q, s, w, c)
    BY <2>3, <2>4 DEF Coded
  <2>6. Run(q, s, w, c) /\ c[Len(w)] = 0
    BY <1>4, <1>5, <2>3, <2>4, <2>5 DEF Run
  <2>7. QED
    BY <1>2, <1>5, <2>2, <2>6 DEF Following
<1>14. Guided(seen, schedule, branch)
  <2>1. 0 < Len(s) => s # <<>>
    OBVIOUS
  <2>2. QED
    BY <1>1, <1>5, <2>1 DEF Guided, Begun
<1>15. QED
  BY <1>8, <1>9, <1>10, <1>11, <1>12, <1>13, <1>14 DEF OnTheWay

(* The same after a step *)
LEMMA StartOnTheWay ==
  ASSUME SimulationTypes', Plain, NEW s \in Seq(Branch), StartWith(s), UNCHANGED question,
         s # <<>> => \E e \in seen' : Beside(s, e[1])
  PROVE  OnTheWay'
<1>1. Thread' = Thread /\ Plain'
  BY PlanStays
<1>2. Begun'
  BY <1>1 DEF Begun, StartWith
<1>3. Begun' => OnTheWay'
  BY BegunOnTheWay, PTL
<1>4. QED
  BY <1>2, <1>3

(* The schedule after the last one begins beside it. *)
LEMMA BacktrackBeside ==
  ASSUME NEW s \in Seq(Branch), Open(s) # {} PROVE Backtrack(s) \in Seq(Branch) /\ Beside(Backtrack(s), s)
<1>1. PICK r : r = Backtrack(s)
  OBVIOUS
<1>2. PICK m \in DOMAIN s :
        /\ DOMAIN r = 1 .. m /\ r \in Seq(Branch) /\ Len(r) = m /\ \A k \in 1 .. m - 1 : r[k] = s[k]
        /\ r[m].alts = s[m].alts /\ r[m].type = s[m].type
  BY <1>1, Backtracked
<1>3. m \in Nat /\ m <= Len(s) /\ DOMAIN s = 1 .. Len(s) /\ Len(s) \in Nat
  OBVIOUS
<1>4. Same(r, s, m - 1)
  BY <1>2, <1>3 DEF Same
<1>5. Beside(r, s)
  BY <1>2, <1>3, <1>4 DEF Beside
<1>6. QED
  BY <1>1, <1>2, <1>5

(* The end of a simulation *)
LEMMA ExploredOnTheWay ==
  ASSUME Exploring, SimulationTypes', running = None, NEW status, Explored(status),
         (IsIdle /\ status \in {"Ok", "Failure"}) \/ (Blocked /\ status = "Pruned")
  PROVE  WordInv'
<1>1. UNCHANGED question
  BY DEF Explored
<1>2. ThePlan' = ThePlan /\ Plain
  BY <1>1, PlanStays DEF Exploring
<1>3. CASE status = "Failure"
  <2>1. mode' = "record"
    BY <1>3 DEF Explored
  <2>2. QED
    BY <2>1 DEF WordInv, Exhausted
<1>4. CASE status # "Failure"
  <2>1. PICK e : e = <<schedule, word, status>>
    OBVIOUS
  <2>2. seen' = seen \cup {e}
    BY <2>1 DEF Explored, Exploring, Plain
  <2>3. /\ e = <<e[1], e[2], e[3]>> /\ Simulated(ThePlan, e)
        /\ e[3] = "Ok" <=> Left(ThePlan, e[2], Len(e[2])) = {}
    <3>1. \/ IsIdle /\ status = "Ok"
          \/ Blocked /\ status = "Pruned"
      BY <1>4
    <3>2. QED
      BY <2>1, <3>1, EndOfSimulation
  <2>4. Finished(ThePlan, seen)' /\ seen' # {}
    <3>1. Finished(ThePlan, seen)
      BY DEF Exploring
    <3>2. \A d \in seen' : /\ d = <<d[1], d[2], d[3]>> /\ Simulated(ThePlan, d)
                           /\ d[3] = "Ok" <=> Left(ThePlan, d[2], Len(d[2])) = {}
      BY <2>2, <2>3, <3>1 DEF Finished
    <3>3. QED
      BY <1>2, <2>2, <3>2 DEF Finished
  <2>5. CASE HasNext(count + 1)
    <3>1. StartWith(Backtrack(schedule)) /\ mode' = "explore" /\ Open(schedule) # {}
      BY <1>4, <2>5 DEF Explored, HasNext, NextSchedule, Exploring, Plain
    <3>2. schedule \in Seq(Branch)
      BY Situation
    <3>3. Backtrack(schedule) \in Seq(Branch) /\ Beside(Backtrack(schedule), schedule)
      BY <3>1, <3>2, BacktrackBeside
    <3>4. \E d \in seen' : Beside(Backtrack(schedule), d[1])
      BY <2>1, <2>2, <3>3
    <3>5. OnTheWay'
      BY <1>1, <1>2, <3>1, <3>3, <3>4, StartOnTheWay
    <3>6. QED
      BY <2>4, <3>1, <3>5 DEF WordInv, Exhausted
  <2>6. CASE ~HasNext(count + 1)
    <3>1. mode' = "done"
      BY <1>4, <2>6 DEF Explored
    <3>2. QED
      BY <2>4, <3>1 DEF WordInv
  <2>7. QED
    BY <2>5, <2>6
<1>5. QED
  BY <1>3, <1>4

(* A step within a simulation *)
LEMMA StillOnTheWay ==
  ASSUME Exploring, UNCHANGED <<question, loop>>, OnTheWay' PROVE WordInv'
<1>1. ThePlan' = ThePlan /\ mode' = "explore" /\ seen' = seen
  BY PlanStays DEF loop, Exploring
<1>2. Finished(ThePlan, seen)'
  BY <1>1 DEF Exploring
<1>3. QED
  BY <1>1, <1>2 DEF WordInv, Exhausted

(* Every step keeps the invariant. *)
LEMMA WordStep == ASSUME BranchInv, WordInv, [Next]_vars PROVE WordInv'
<1>1. SimulationTypes' /\ (Quiet \/ Ending \/ Checking \/ Panic)
  BY StepKinds
<1>2. UNCHANGED question
  BY <1>1 DEF Quiet, Ending, Checking, Panic, Explored, Repeated
<1>3. ThePlan' = ThePlan /\ par' = par /\ (Plain' <=> Plain)
  BY <1>2, PlanStays
<1>4. SUFFICES ASSUME Plain PROVE WordInv'
  BY <1>3 DEF WordInv
<1>5. CASE mode # "explore"
  <2>1. ~Ending
    BY <1>5 DEF Ending, Explored
  <2>2. CASE Quiet
    <3>1. mode' = mode /\ seen' = seen /\ bug' = bug
      BY <2>2 DEF Quiet, loop
    <3>2. Exhausted' => Exhausted
      BY <1>3, <3>1 DEF Exhausted
    <3>3. QED
      BY <1>3, <1>4, <1>5, <3>1, <3>2 DEF WordInv, Finished
  <2>3. CASE Checking
    <3>1. mode' # "explore" /\ bug' = bug /\ bug # <<>>
      BY <2>3 DEF Checking, Repeated, BranchInv, Digests
    <3>2. QED
      BY <3>1 DEF WordInv, Exhausted
  <2>4. CASE Panic
    <3>1. mode' = "panic"
      BY <2>4 DEF Panic
    <3>2. QED
      BY <3>1 DEF WordInv, Exhausted
  <2>5. QED
    BY <1>1, <2>1, <2>2, <2>3, <2>4
<1>6. CASE mode = "explore"
  <2>1. Exploring
    BY <1>4, <1>6 DEF Exploring, WordInv, BranchInv
  <2>2. ~OutOfSteps
    BY <1>4 DEF OutOfSteps, Exceeds, Plain
  <2>3. CASE PickNext
    <3>1. running = None /\ ~IsIdle
      BY <2>3 DEF PickNext
    <3>2. ~ReplayFails("PickNext", runq)
      BY <1>6 DEF ReplayFails
    <3>3. PickDfs /\ UNCHANGED <<question, loop, program>>
      BY <1>4, <1>6, <2>3, <3>2 DEF PickNext, PickRandom, PickReplay, Replayed, Plain
    <3>4. OnTheWay'
      BY <2>1, <3>1, <3>3, PickOnTheWay
    <3>5. QED
      BY <2>1, <3>3, <3>4, StillOnTheWay
  <2>4. CASE Prune
    <3>1. running = None /\ Blocked /\ Explored("Pruned")
      BY <2>2, <2>4 DEF Prune
    <3>2. QED
      BY <1>1, <2>1, <3>1, ExploredOnTheWay
  <2>5. CASE Finish
    <3>1. PICK status : status = Status
      OBVIOUS
    <3>2. running = None /\ IsIdle /\ Explored(Status)
      BY <1>6, <2>5 DEF Finish, Repeated
    <3>3. status \in {"Ok", "Failure"}
      BY <3>1 DEF Status
    <3>4. Explored(status)
      BY <3>1, <3>2 DEF Explored
    <3>5. (IsIdle /\ status \in {"Ok", "Failure"}) \/ (Blocked /\ status = "Pruned")
      BY <3>2, <3>3
    <3>6. SimulationTypes' /\ running = None
      BY <1>1, <3>2
    <3>7. QED
      BY <2>1, <3>4, <3>5, <3>6, ExploredOnTheWay
  <2>6. ASSUME NEW t \in Thread, Step(t) PROVE WordInv'
    <3>1. CASE Sync(t)
      <4>1. OnTheWay'
        BY <2>1, <3>1, SyncOnTheWay
      <4>2. UNCHANGED <<question, loop>>
        BY <3>1 DEF Sync
      <4>3. QED
        BY <2>1, <4>1, <4>2, StillOnTheWay
    <3>2. CASE Complete(t)
      <4>1. OnTheWay'
        BY <2>1, <3>2, CompleteOnTheWay
      <4>2. UNCHANGED <<question, loop>>
        BY <3>2 DEF Complete
      <4>3. QED
        BY <2>1, <4>1, <4>2, StillOnTheWay
    <3>3. CASE Spawn(t)
      <4>1. OnTheWay'
        BY <2>1, <3>3, SpawnOnTheWay
      <4>2. UNCHANGED <<question, loop>>
        BY <3>3 DEF Spawn
      <4>3. QED
        BY <2>1, <4>1, <4>2, StillOnTheWay
    <3>4. CASE Exit(t)
      BY <2>1, <3>4, ExitOnTheWay, StillOnTheWay
    <3>5. QED
      BY <2>1, <2>6, <3>1, <3>2, <3>3, <3>4, PlainStep
  <2>7. ~Terminating
    BY <1>6 DEF Terminating
  <2>8. CASE UNCHANGED vars
    <3>1. /\ pc' = pc /\ pending' = pending /\ running' = running /\ runq' = runq /\ active' = active
          /\ UNCHANGED <<question, seen, schedule, branch, burst, preempts, word>> /\ UNCHANGED loop
      BY <2>8 DEF vars, question, loop, answers, program, queues, limits
    <3>2. Thread' = Thread /\ \A t : StepsOf(t)' = StepsOf(t) /\ Spawned(t)' = Spawned(t)
      BY <3>1, PlanStays
    <3>3. \A t : Picks(t)' = Picks(t)
      BY <3>1 DEF Picks
    <3>4. Places' /\ Unborn'
      BY <2>1, <3>1, <3>2, <3>3 DEF Exploring, OnTheWay, Places, Unborn, Resting, Moving
    <3>5. Ready'
      BY <1>3, <2>1, <3>1 DEF Exploring, OnTheWay, Ready
    <3>6. OnTheWay'
      BY <2>1, <3>1, <3>4, <3>5, StepKeeps
    <3>7. QED
      BY <2>1, <3>1, <3>6, StillOnTheWay
  <2>9. QED
    BY <2>3, <2>4, <2>5, <2>6, <2>7, <2>8 DEF Next
<1>7. QED
  BY <1>5, <1>6

(* The first simulation *)
LEMMA WordInit == Init => WordInv
<1>1. SUFFICES ASSUME Init, Plain PROVE WordInv
  BY DEF WordInv
<1>2. SimulationTypes
  BY <1>1, BranchInit DEF BranchInv
<1>3. Begun
  <2>1. <<>> \in Seq(Branch)
    OBVIOUS
  <2>2. QED
    BY <1>1, <1>2, <2>1 DEF Init, Begun
<1>4. OnTheWay
  BY <1>3, BegunOnTheWay
<1>5. Finished(ThePlan, seen)
  BY <1>1 DEF Init, Finished
<1>6. ~Exhausted
  BY <1>1 DEF Init, Exhausted
<1>7. QED
  BY <1>4, <1>5, <1>6 DEF WordInv

(* Every simulation of a straight program follows its schedule from question to question: the
   threads are where the picks so far have brought them, the run queue and the counters of the
   scheduler say what is left of them and of the limits, and a schedule that goes back to an earlier
   branch meets the same questions up to it. *)
THEOREM WordsInvariant == Spec => [](BranchInv /\ WordInv)
<1>1. Init => BranchInv /\ WordInv
  BY BranchInit, WordInit
<1>2. BranchInv /\ WordInv /\ [Next]_vars => (BranchInv /\ WordInv)'
  BY BranchStep, WordStep
<1>3. QED
  BY <1>1, <1>2, PTL DEF Spec

(* DfsScheduler, Explore: an exploration of a straight program that ends without a failure has run
   every interleaving that the limits allow, each exactly once, and no other. *)
THEOREM EveryInterleaving == Spec => []EveryInterleavingOnce
<1>1. BranchInv /\ WordInv => EveryInterleavingOnce
  <2>1. SUFFICES ASSUME BranchInv, WordInv, Exhausted, Straight, par.max_steps = Unlimited
                 PROVE  /\ {e[2] : e \in {d \in seen : d[3] = "Ok"}} = Interleavings
                        /\ Cardinality({d \in seen : d[3] = "Ok"}) = Cardinality(Interleavings)
                        /\ Cardinality(seen) = count
    BY DEF EveryInterleavingOnce
  <2>2. PICK q : q = ThePlan
    OBVIOUS
  <2>3. SimulationTypes /\ AllTaken(seen, count)
    BY <2>1 DEF BranchInv, Searchless
  <2>4. Plan(q)
    BY <2>2, <2>3, ExploredPlan
  <2>5. \A w : w \in Interleavings <=> Word(q, w)
    BY <2>2, <2>3, WordsAreInterleavings
  <2>6. Finished(q, seen) /\ seen # {}
    BY <2>1, <2>2 DEF WordInv, Plain, Exhausted
  <2>7. \A e \in seen : Simulated(q, e) /\ (e[3] = "Ok" <=> Left(q, e[2], Len(e[2])) = {})
    BY <2>6 DEF Finished
  <2>8. PICK C : C = {d \in seen : d[3] = "Ok"}
    OBVIOUS
  <2>9. IsFiniteSet(seen) /\ Cardinality(seen) = count
    BY <2>3 DEF AllTaken
  <2>10. IsFiniteSet(C) /\ C \in SUBSET seen
    BY <2>8, <2>9, FS_Subset
  (* sound: *)
  <2>11. ASSUME NEW e \in C PROVE e[2] \in Interleavings
    <3>1. Simulated(q, e) /\ Left(q, e[2], Len(e[2])) = {}
      BY <2>7, <2>8
    <3>2. Word(q, e[2])
      BY <3>1, RunIsWord
    <3>3. QED
      BY <2>5, <3>2
  (* complete: *)
  <2>12. ASSUME NEW w \in Interleavings PROVE \E e \in C : e[2] = w
    <3>1. Word(q, w)
      BY <2>5
    <3>2. PICK e \in seen : e[2] = w
      BY <2>3, <2>4, <2>6, <2>7, <3>1, WordsAreRun
    <3>3. Left(q, w, Len(w)) = {}
      BY <2>4, <3>1, WordHalts
    <3>4. e \in C
      BY <2>7, <2>8, <3>2, <3>3
    <3>5. QED
      BY <3>2, <3>4
  (* without a repetition: *)
  <2>13. ASSUME NEW e \in C, NEW d \in C, e[2] = d[2] PROVE e = d
    <3>1. Simulated(q, e) /\ Simulated(q, d) /\ e[3] = d[3]
      BY <2>7, <2>8
    <3>2. e[1] = d[1]
      BY <2>13, <3>1, SameRun
    <3>3. e = <<e[1], e[2], e[3]>> /\ d = <<d[1], d[2], d[3]>>
      BY <2>6, <2>10 DEF Finished
    <3>4. QED
      BY <2>13, <3>1, <3>2, <3>3
  <2>14. {e[2] : e \in C} = Interleavings
    BY <2>11, <2>12
  <2>15. Cardinality(C) = Cardinality(Interleavings)
    <3>1. PICK g : g = [e \in C |-> e[2]]
      OBVIOUS
    <3>2. g \in Injection(C, Interleavings)
      BY <2>11, <2>13, <3>1 DEF Injection, IsInjective
    <3>3. g \in Surjection(C, Interleavings)
      BY <2>11, <2>12, <3>1 DEF Surjection
    <3>4. ExistsBijection(C, Interleavings)
      BY <3>2, <3>3 DEF ExistsBijection, Bijection
    <3>5. QED
      BY <2>10, <3>4, FS_Bijection
  <2>16. QED
    BY <2>8, <2>9, <2>14, <2>15
<1>2. QED
  BY <1>1, WordsInvariant, PTL


-----------------------------------------------------------------------------
(* A failure is repeated. A simulation is a function of its program and of the answers
   to its questions. The states of one, with what a Recorder would have logged, are a trail; it is
   the reason why a schedule that is run again meets the same questions. *)

(* The state of the simulation at this moment, with the log l *)
Snapshot(l) ==
  [pc |-> pc, x |-> x, reg |-> reg, pending |-> pending, running |-> running, runq |-> runq,
   active |-> active, parked |-> parked, shared |-> shared, scoped |-> scoped, preempts |-> preempts,
   steps |-> steps, burst |-> burst, word |-> word, branch |-> branch, log |-> l]

Here(a) ==
  /\ pc = a.pc /\ x = a.x /\ reg = a.reg /\ pending = a.pending
  /\ running = a.running /\ word = a.word
  /\ runq = a.runq /\ active = a.active /\ parked = a.parked /\ shared = a.shared /\ scoped = a.scoped
  /\ preempts = a.preempts /\ steps = a.steps /\ burst = a.burst
  /\ branch = a.branch

(* What a step leaves alone *)
KeepsProgram(a, b) == b.pc = a.pc /\ b.x = a.x /\ b.reg = a.reg /\ b.pending = a.pending
KeepsFutex(a, b) == b.parked = a.parked /\ b.shared = a.shared
KeepsQueues(a, b) == b.runq = a.runq /\ b.active = a.active /\ b.scoped = a.scoped
KeepsLimits(a, b) == b.preempts = a.preempts /\ b.steps = a.steps /\ b.burst = a.burst
KeepsAnswers(a, b) == b.branch = a.branch /\ b.log = a.log
KeepsTurn(a, b) == b.running = a.running /\ b.word = a.word

(* Branch k + 1 of the schedule is a question with n answers, which is answered with i. *)
Reply(s, k, n, i) == k + 1 \in DOMAIN s /\ s[k + 1].alts = n /\ s[k + 1].index = i /\ i \in 0 .. n - 1

(* Thread t of S is picked after k branches, n of them with this one: a queue of one is no question. *)
Drawn(s, k, S, t, n) ==
  IF Cardinality(S) = 1 THEN t = Nth(S, 0) /\ n = k
  ELSE n = k + 1 /\ \E i \in 0 .. Cardinality(S) - 1 : Reply(s, k, Cardinality(S), i) /\ t = Nth(S, i)

OutOfStepsAt(q, a) == q.kind = "dfs" /\ Exceeds(a.steps + 1, q.max_steps)
ForcedAt(q, a) == a.active # None /\ a.runq # {} /\ Reached(a.burst[a.active] + 1, q.force_preempt)
SpentAt(q, a) == Reached(a.preempts, q.max_preemptions)
AskedAt(q, a) == a.active # None /\ ~ForcedAt(q, a) /\ a.runq # {} /\ ~SpentAt(q, a)

(* PickNext of dfs: the active thread goes on, *)
GoesOn(q, s, a, b) ==
  /\ a.active # None /\ ~ForcedAt(q, a)
  /\ IF AskedAt(q, a) THEN Reply(s, a.branch, 2, 0) /\ b.branch = a.branch + 1 ELSE b.branch = a.branch
  /\ b.running = a.active /\ b.runq = a.runq /\ b.preempts = a.preempts
  /\ b.burst = [a.burst EXCEPT ![a.active] = @ + 1]

(* ... or a thread of the run queue is picked, after k branches. *)
Switched(q, s, a, k) ==
  \/ (a.active = None \/ ForcedAt(q, a)) /\ k = a.branch
  \/ AskedAt(q, a) /\ Reply(s, a.branch, 2, 1) /\ k = a.branch + 1

GivesWay(p, q, s, a, b) ==
  /\ \E k \in {a.branch, a.branch + 1} : Switched(q, s, a, k) /\ Drawn(s, k, a.runq, b.running, b.branch)
  /\ b.runq = (a.runq \ {b.running}) \cup ({a.active} \ {None})
  /\ b.preempts = IF a.active = None THEN a.preempts ELSE a.preempts + 1
  /\ b.burst = [u \in DOMAIN p.code |->
                  IF u = b.running THEN 0 ELSE IF u = a.active THEN a.burst[u] + 1 ELSE a.burst[u]]

PicksDfs(p, q, s, a, b) ==
  /\ q.kind = "dfs" /\ ~OutOfStepsAt(q, a) /\ ~(ForcedAt(q, a) /\ SpentAt(q, a))
  /\ b.steps = a.steps + 1
  /\ GoesOn(q, s, a, b) \/ GivesWay(p, q, s, a, b)

PicksRandom(q, s, a, b) ==
  /\ q.kind = "random"
  /\ KeepsLimits(a, b)
  /\ IF a.active # None
     THEN b.running = a.active /\ b.runq = a.runq /\ b.branch = a.branch
     ELSE /\ b.branch = a.branch + 1
          /\ \E i \in 0 .. Cardinality(a.runq) - 1 :
               Reply(s, a.branch, Cardinality(a.runq), i) /\ b.running = Nth(a.runq, i)
          /\ b.runq = a.runq \ {b.running}

IdleAt(a) == a.running = None /\ a.runq = {} /\ a.active = None

Picked(p, q, s, a, b) ==
  /\ a.running = None /\ ~IdleAt(a)
  /\ KeepsProgram(a, b) /\ KeepsFutex(a, b) /\ b.scoped = a.scoped
  /\ b.active = None /\ b.word = Append(a.word, b.running)
  /\ b.log = Append(a.log, <<"PickNext", b.running>>)
  /\ PicksDfs(p, q, s, a, b) \/ PicksRandom(q, s, a, b)

(* The operation of the running thread *)
OverAt(p, a) == a.pc[a.running] > Len(p.code[a.running])
OpAt(p, a) == p.code[a.running][a.pc[a.running]]
IsAt(p, a, name) == ~OverAt(p, a) /\ OpAt(p, a)[1] = name
Moves(a, b) == b.pc = [a.pc EXCEPT ![a.running] = @ + 1]

Stops(p, q, s, a, b) ==
  /\ ~OverAt(p, a) /\ OpAt(p, a)[1] \in Atomic /\ a.running \notin a.pending
  /\ b.pending = a.pending \cup {a.running} /\ b.running = None
  /\ b.pc = a.pc /\ b.x = a.x /\ b.reg = a.reg /\ b.word = a.word /\ b.scoped = a.scoped /\ b.log = a.log
  /\ KeepsFutex(a, b) /\ KeepsLimits(a, b)
  /\ \/ /\ q.kind = "dfs"
        /\ b.active = a.running /\ b.runq = a.runq /\ b.branch = a.branch
     \/ /\ q.kind = "random" /\ b.branch = a.branch + 1
        /\ \/ Reply(s, a.branch, 2, 1) /\ b.runq = a.runq \cup {a.running} /\ b.active = a.active
           \/ Reply(s, a.branch, 2, 0) /\ b.runq = a.runq /\ b.active = a.running

Completes(p, a, b) ==
  /\ ~OverAt(p, a) /\ a.running \in a.pending
  /\ b.pending = a.pending \ {a.running} /\ b.word = a.word
  /\ KeepsQueues(a, b) /\ KeepsLimits(a, b) /\ KeepsAnswers(a, b)
  /\ \/ /\ OpAt(p, a)[1] = "load" /\ Moves(a, b) /\ b.reg = [a.reg EXCEPT ![a.running] = a.x]
        /\ b.x = a.x /\ b.running = a.running /\ KeepsFutex(a, b)
     \/ /\ OpAt(p, a)[1] = "store" /\ Moves(a, b) /\ b.x = a.reg[a.running] + OpAt(p, a)[2]
        /\ b.reg = a.reg /\ b.running = a.running /\ KeepsFutex(a, b)
     \/ /\ OpAt(p, a)[1] = "inc" /\ Moves(a, b) /\ b.x = a.x + OpAt(p, a)[2]
        /\ b.reg = a.reg /\ b.running = a.running /\ KeepsFutex(a, b)
     \/ /\ OpAt(p, a)[1] = "await" /\ a.x = OpAt(p, a)[2] /\ Moves(a, b)
        /\ b.x = a.x /\ b.reg = a.reg /\ b.running = a.running /\ KeepsFutex(a, b)
     \/ /\ OpAt(p, a)[1] = "await" /\ a.x # OpAt(p, a)[2]
        /\ b.pc = a.pc /\ b.x = a.x /\ b.reg = a.reg /\ b.running = None
        /\ b.parked = a.parked \cup {a.running} /\ b.shared = (a.shared \/ a.parked # {})

Spawns(p, a, b) ==
  /\ IsAt(p, a, "spawn") /\ Moves(a, b)
  /\ b.x = a.x /\ b.reg = a.reg /\ b.pending = a.pending /\ KeepsTurn(a, b)
  /\ b.runq = a.runq \cup {OpAt(p, a)[2]} /\ b.active = a.active /\ b.scoped = a.scoped
  /\ KeepsFutex(a, b) /\ KeepsLimits(a, b) /\ KeepsAnswers(a, b)

Yields(p, a, b) ==
  /\ IsAt(p, a, "yield") /\ Moves(a, b)
  /\ b.x = a.x /\ b.reg = a.reg /\ b.pending = a.pending /\ b.running = None /\ b.word = a.word
  /\ b.runq = a.runq \cup {a.running} /\ b.active = a.active /\ b.scoped = a.scoped
  /\ KeepsFutex(a, b) /\ KeepsLimits(a, b) /\ KeepsAnswers(a, b)

Wakes(p, s, a, b) ==
  /\ IsAt(p, a, "wake") /\ Moves(a, b)
  /\ b.x = a.x /\ b.reg = a.reg /\ b.pending = a.pending /\ KeepsTurn(a, b)
  /\ b.active = a.active /\ b.scoped = a.scoped /\ b.shared = a.shared /\ KeepsLimits(a, b)
  /\ \/ ~a.shared /\ b.parked = {} /\ b.runq = a.runq \cup a.parked /\ KeepsAnswers(a, b)
     \/ /\ a.shared /\ a.parked = {} /\ b.parked = a.parked /\ b.runq = a.runq
        /\ b.branch = a.branch /\ b.log = Append(a.log, <<"WakeOne", None>>)
     \/ /\ a.shared
        /\ \E w \in a.parked :
             /\ Drawn(s, a.branch, a.parked, w, b.branch)
             /\ b.parked = a.parked \ {w} /\ b.runq = a.runq \cup {w}
             /\ b.log = Append(a.log, <<"WakeOne", w>>)

Rolls(p, s, a, b) ==
  /\ IsAt(p, a, "choice") /\ Moves(a, b)
  /\ b.x = a.x /\ b.pending = a.pending /\ KeepsTurn(a, b) /\ b.branch = a.branch + 1
  /\ \E i \in 0 .. OpAt(p, a)[2] - 1 :
       /\ Reply(s, a.branch, OpAt(p, a)[2], i) /\ b.reg = [a.reg EXCEPT ![a.running] = i]
       /\ b.log = Append(a.log, <<"RandomChoice", i>>)
  /\ KeepsQueues(a, b) /\ KeepsFutex(a, b) /\ KeepsLimits(a, b)

Scopes(p, a, b) ==
  /\ \/ IsAt(p, a, "enter") /\ b.scoped = a.scoped \cup {a.running}
     \/ IsAt(p, a, "leave") /\ b.scoped = a.scoped \ {a.running}
  /\ Moves(a, b)
  /\ b.x = a.x /\ b.reg = a.reg /\ b.pending = a.pending /\ KeepsTurn(a, b)
  /\ b.runq = a.runq /\ b.active = a.active
  /\ KeepsFutex(a, b) /\ KeepsLimits(a, b) /\ KeepsAnswers(a, b)

Ends(p, q, a, b) ==
  /\ OverAt(p, a) /\ ~OutOfStepsAt(q, a)
  /\ b.running = None /\ b.word = a.word /\ b.steps = a.steps + 1 /\ b.preempts = a.preempts /\ b.burst = a.burst
  /\ KeepsProgram(a, b) /\ KeepsQueues(a, b) /\ KeepsFutex(a, b) /\ KeepsAnswers(a, b)

Runs(p, q, s, a, b) ==
  /\ a.running \in DOMAIN p.code
  /\ \/ Stops(p, q, s, a, b) \/ Completes(p, a, b) \/ Spawns(p, a, b) \/ Yields(p, a, b)
     \/ Wakes(p, s, a, b) \/ Rolls(p, s, a, b) \/ Scopes(p, a, b) \/ Ends(p, q, a, b)

(* One step of a simulation of program p with parameters q and the answers of s *)
Follows(p, q, s, a, b) == Picked(p, q, s, a, b) \/ Runs(p, q, s, a, b)

(* Every thread is in one place, and one that is not spawned yet in none. *)
Absent(a, u) == u \notin a.runq /\ u \notin a.parked /\ u # a.running /\ u # a.active

Placed(p, a) ==
  /\ a.pc \in [DOMAIN p.code -> Nat \ {0}]
  /\ a.runq \subseteq DOMAIN p.code /\ a.parked \subseteq DOMAIN p.code /\ a.runq \cap a.parked = {}
  /\ a.running # None => /\ a.running \in DOMAIN p.code /\ a.active = None
                         /\ a.running \notin a.runq /\ a.running \notin a.parked
  /\ a.active # None => a.active \in DOMAIN p.code /\ a.active \notin a.runq /\ a.active \notin a.parked
  /\ \A t \in DOMAIN p.code : \A i \in DOMAIN p.code[t] :
       p.code[t][i][1] = "spawn" /\ a.pc[t] <= i => Absent(a, p.code[t][i][2])

(* An entry of the log *)
Decision == {"PickNext", "WakeOne", "RandomChoice"} \X (Int \cup {None})

(* What is counted and logged *)
Logged(a) == a.branch \in Nat /\ a.log \in Seq(Decision)

(* ... grows along the way. *)
Longer(a, b) ==
  /\ a.branch <= b.branch /\ Len(a.log) <= Len(b.log)
  /\ \A i \in 1 .. Len(a.log) : a.log[i] = b.log[i]

(* The start of a simulation *)
Started(p, a) ==
  /\ a.pc = [t \in DOMAIN p.code |-> 1] /\ a.x = 0 /\ a.reg = [t \in DOMAIN p.code |-> 0]
  /\ a.pending = {} /\ a.running = None /\ a.word = <<>>
  /\ a.runq = {Main} /\ a.active = None /\ a.parked = {} /\ a.shared = FALSE /\ a.scoped = {}
  /\ a.preempts = 0 /\ a.steps = 0 /\ a.burst = [t \in DOMAIN p.code |-> 0]
  /\ a.branch = 0 /\ a.log = <<>>

(* The states f[1], ..., f[n] of a simulation with the schedule s *)
Trail(p, q, s, f, n) ==
  /\ n \in Nat \ {0} /\ Started(p, f[1])
  /\ \A i \in 1 .. n : Placed(p, f[i]) /\ Logged(f[i])
  /\ \A i \in 1 .. n - 1 : Follows(p, q, s, f[i], f[i + 1])
  /\ \A i \in 1 .. n : \A j \in i .. n : Longer(f[i], f[j])

-----------------------------------------------------------------------------
(* The answers to other questions do not matter. *)
LEMMA ReplySame ==
  ASSUME NEW s, NEW r, NEW m \in Nat, Same(s, r, m)
  PROVE  /\ \A k \in Nat : \A n, i : k + 1 <= m /\ Reply(s, k, n, i) => Reply(r, k, n, i)
         /\ \A k \in Nat : \A S, t, n : n \in Nat /\ n <= m /\ Drawn(s, k, S, t, n) => Drawn(r, k, S, t, n)
<1>1. ASSUME NEW k \in Nat, NEW n, NEW i, k + 1 <= m, Reply(s, k, n, i) PROVE Reply(r, k, n, i)
  <2>1. k + 1 \in 1 .. m
    BY <1>1
  <2>2. k + 1 \in DOMAIN r /\ s[k + 1] = r[k + 1]
    BY <2>1 DEF Same
  <2>3. QED
    BY <1>1, <2>2 DEF Reply
<1>2. ASSUME NEW k \in Nat, NEW S, NEW t, NEW n, n \in Nat, n <= m, Drawn(s, k, S, t, n)
      PROVE  Drawn(r, k, S, t, n)
  <2>1. CASE Cardinality(S) = 1
    BY <1>2, <2>1 DEF Drawn
  <2>2. CASE Cardinality(S) # 1
    <3>1. PICK i \in 0 .. Cardinality(S) - 1 : Reply(s, k, Cardinality(S), i) /\ t = Nth(S, i) /\ n = k + 1
      BY <1>2, <2>2 DEF Drawn
    <3>2. Reply(r, k, Cardinality(S), i)
      BY <1>1, <1>2, <3>1
    <3>3. QED
      BY <2>2, <3>1, <3>2 DEF Drawn
  <2>3. QED
    BY <2>1, <2>2
<1>3. QED
  BY <1>1, <1>2

(* ... so a step is one with every schedule that gives the same answers up to its end. *)
LEMMA FollowsSame ==
  ASSUME NEW p, NEW q, NEW s, NEW r, NEW a, NEW b, Follows(p, q, s, a, b), Logged(a), b.branch \in Nat,
         Same(s, r, b.branch)
  PROVE  Follows(p, q, r, a, b)
<1>0. a.branch \in Nat
  BY DEF Logged
<1>1. /\ \A k \in Nat : \A n, i : k + 1 <= b.branch /\ Reply(s, k, n, i) => Reply(r, k, n, i)
      /\ \A k \in Nat : \A S, t, n : n \in Nat /\ n <= b.branch /\ Drawn(s, k, S, t, n) => Drawn(r, k, S, t, n)
  BY ReplySame
<1>2. CASE Picked(p, q, s, a, b)
  <2>1. CASE PicksDfs(p, q, s, a, b) /\ GoesOn(q, s, a, b)
    <3>1. GoesOn(q, r, a, b)
      BY <1>0, <1>1, <2>1 DEF GoesOn
    <3>2. QED
      BY <1>2, <2>1, <3>1 DEF Picked, PicksDfs, Follows
  <2>2. CASE PicksDfs(p, q, s, a, b) /\ GivesWay(p, q, s, a, b)
    <3>1. PICK k \in {a.branch, a.branch + 1} : Switched(q, s, a, k) /\ Drawn(s, k, a.runq, b.running, b.branch)
      BY <2>2 DEF GivesWay
    <3>2. k <= b.branch /\ k \in Nat
      BY <1>0, <3>1 DEF Drawn
    <3>3. Drawn(r, k, a.runq, b.running, b.branch)
      BY <1>1, <3>1, <3>2
    <3>4. Switched(q, r, a, k)
      BY <1>0, <1>1, <3>1, <3>2 DEF Switched
    <3>5. GivesWay(p, q, r, a, b)
      BY <2>2, <3>1, <3>3, <3>4 DEF GivesWay
    <3>6. QED
      BY <1>2, <2>2, <3>5 DEF Picked, PicksDfs, Follows
  <2>3. CASE PicksRandom(q, s, a, b)
    <3>1. PicksRandom(q, r, a, b)
      BY <1>0, <1>1, <2>3 DEF PicksRandom
    <3>2. QED
      BY <1>2, <3>1 DEF Picked, Follows
  <2>4. QED
    BY <1>2, <2>1, <2>2, <2>3 DEF Picked, PicksDfs
<1>3. CASE Runs(p, q, s, a, b)
  <2>1. CASE Stops(p, q, s, a, b)
    <3>1. Stops(p, q, r, a, b)
      BY <1>0, <1>1, <2>1 DEF Stops
    <3>2. QED
      BY <1>3, <3>1 DEF Runs, Follows
  <2>2. CASE Wakes(p, s, a, b)
    <3>1. Wakes(p, r, a, b)
      BY <1>0, <1>1, <2>2 DEF Wakes
    <3>2. QED
      BY <1>3, <3>1 DEF Runs, Follows
  <2>3. CASE Rolls(p, s, a, b)
    <3>1. Rolls(p, r, a, b)
      BY <1>0, <1>1, <2>3 DEF Rolls
    <3>2. QED
      BY <1>3, <3>1 DEF Runs, Follows
  <2>4. QED
    BY <1>3, <2>1, <2>2, <2>3 DEF Runs, Follows
<1>4. QED
  BY <1>2, <1>3 DEF Follows

-----------------------------------------------------------------------------
(* Two states that differ in nothing *)
Alike(b, c) ==
  /\ KeepsProgram(b, c) /\ KeepsTurn(b, c) /\ KeepsQueues(b, c) /\ KeepsFutex(b, c)
  /\ KeepsLimits(b, c) /\ KeepsAnswers(b, c)

(* A question has one answer, *)
LEMMA OneReply ==
  ASSUME NEW s, NEW k \in Nat
  PROVE  /\ \A n, i, m, j : Reply(s, k, n, i) /\ Reply(s, k, m, j) => i = j
         /\ \A S, t, n, u, m : Drawn(s, k, S, t, n) /\ Drawn(s, k, S, u, m) => t = u /\ n = m
<1>1. \A n, i, m, j : Reply(s, k, n, i) /\ Reply(s, k, m, j) => i = j
  BY DEF Reply
<1>2. ASSUME NEW S, NEW t, NEW n, NEW u, NEW m, Drawn(s, k, S, t, n), Drawn(s, k, S, u, m)
      PROVE  t = u /\ n = m
  BY <1>1, <1>2 DEF Drawn
<1>3. QED
  BY <1>1, <1>2

(* ... so a simulation goes on in one way. *)
LEMMA FollowsUnique ==
  ASSUME NEW p \in Programs, NEW q, NEW s, NEW a, NEW b, NEW c, Logged(a),
         Follows(p, q, s, a, b), Follows(p, q, s, a, c)
  PROVE  Alike(b, c)
<1>0. a.branch \in Nat /\ a.branch + 1 \in Nat
  BY DEF Logged
<1>1. None \notin DOMAIN p.code
  <2>1. None \notin Nat /\ p.code \in Seq(Seq(STRING \X Int))
    BY ProgramsAssumption
  <2>2. QED
    BY <2>1
<1>2. /\ \A k \in Nat : \A n, i, m, j : Reply(s, k, n, i) /\ Reply(s, k, m, j) => i = j
      /\ \A k \in Nat : \A S, t, n, u, m : Drawn(s, k, S, t, n) /\ Drawn(s, k, S, u, m) => t = u /\ n = m
  BY OneReply
<1>3. CASE Picked(p, q, s, a, b)
  <2>1. Picked(p, q, s, a, c)
    BY <1>1, <1>3 DEF Picked, Runs, Follows
  <2>2. CASE PicksRandom(q, s, a, b)
    <3>1. PicksRandom(q, s, a, c)
      BY <2>1, <2>2 DEF Picked, PicksRandom, PicksDfs
    <3>2. b.running = c.running /\ b.branch = c.branch
      BY <1>0, <1>2, <2>2, <3>1 DEF PicksRandom
    <3>3. b.runq = c.runq /\ KeepsLimits(b, c)
      BY <2>2, <3>1, <3>2 DEF PicksRandom, KeepsLimits
    <3>4. QED
      BY <1>3, <2>1, <3>2, <3>3
         DEF Picked, Alike, KeepsProgram, KeepsTurn, KeepsQueues, KeepsFutex, KeepsAnswers
  <2>3. CASE PicksDfs(p, q, s, a, b)
    <3>1. PicksDfs(p, q, s, a, c)
      BY <2>1, <2>3 DEF Picked, PicksRandom, PicksDfs
    <3>2. CASE GoesOn(q, s, a, b)
      <4>1. GoesOn(q, s, a, c)
        <5>1. SUFFICES ASSUME GivesWay(p, q, s, a, c) PROVE FALSE
          BY <3>1 DEF PicksDfs
        <5>2. AskedAt(q, a) /\ Reply(s, a.branch, 2, 1)
          BY <3>2, <5>1 DEF GivesWay, Switched, GoesOn
        <5>3. Reply(s, a.branch, 2, 0)
          BY <3>2, <5>2 DEF GoesOn
        <5>4. QED
          BY <1>0, <1>2, <5>2, <5>3
      <4>2. /\ b.running = c.running /\ b.branch = c.branch /\ b.runq = c.runq /\ b.preempts = c.preempts
            /\ b.burst = c.burst
        BY <3>2, <4>1 DEF GoesOn
      <4>3. b.steps = c.steps
        BY <2>3, <3>1 DEF PicksDfs
      <4>4. QED
        BY <1>3, <2>1, <4>2, <4>3
           DEF Picked, Alike, KeepsProgram, KeepsTurn, KeepsQueues, KeepsFutex, KeepsAnswers, KeepsLimits
    <3>3. CASE GivesWay(p, q, s, a, b)
      <4>1. PICK k \in {a.branch, a.branch + 1} : Switched(q, s, a, k) /\ Drawn(s, k, a.runq, b.running, b.branch)
        BY <3>3 DEF GivesWay
      <4>2. GivesWay(p, q, s, a, c)
        <5>1. SUFFICES ASSUME GoesOn(q, s, a, c) PROVE FALSE
          BY <3>1 DEF PicksDfs
        <5>2. AskedAt(q, a) /\ Reply(s, a.branch, 2, 1)
          BY <4>1, <5>1 DEF Switched, GoesOn
        <5>3. Reply(s, a.branch, 2, 0)
          BY <5>1, <5>2 DEF GoesOn
        <5>4. QED
          BY <1>0, <1>2, <5>2, <5>3
      <4>3. PICK m \in {a.branch, a.branch + 1} : Switched(q, s, a, m) /\ Drawn(s, m, a.runq, c.running, c.branch)
        BY <4>2 DEF GivesWay
      <4>4. k = m /\ k \in Nat
        BY <1>0, <4>1, <4>3 DEF Switched, AskedAt
      <4>5. b.running = c.running /\ b.branch = c.branch
        BY <1>2, <4>1, <4>3, <4>4
      <4>6. b.runq = c.runq /\ b.preempts = c.preempts /\ b.burst = c.burst
        BY <3>3, <4>2, <4>5 DEF GivesWay
      <4>7. b.steps = c.steps
        BY <2>3, <3>1 DEF PicksDfs
      <4>8. QED
        BY <1>3, <2>1, <4>5, <4>6, <4>7
           DEF Picked, Alike, KeepsProgram, KeepsTurn, KeepsQueues, KeepsFutex, KeepsAnswers, KeepsLimits
    <3>4. QED
      BY <2>3, <3>2, <3>3 DEF PicksDfs
  <2>4. QED
    BY <1>3, <2>2, <2>3 DEF Picked
<1>4. CASE Runs(p, q, s, a, b)
  <2>1. Runs(p, q, s, a, c)
    BY <1>1, <1>4 DEF Picked, Runs, Follows
  <2> USE DEF Alike, KeepsProgram, KeepsTurn, KeepsQueues, KeepsFutex, KeepsAnswers, KeepsLimits, Moves
  <2>2. CASE Stops(p, q, s, a, b)
    <3>1. Stops(p, q, s, a, c)
      BY <2>1, <2>2 DEF Runs, Stops, Completes, Spawns, Yields, Wakes, Rolls, Scopes, Ends, IsAt, Atomic
    <3>2. ~(Reply(s, a.branch, 2, 0) /\ Reply(s, a.branch, 2, 1))
      BY <1>0, <1>2
    <3>3. b.branch = c.branch /\ b.runq = c.runq /\ b.active = c.active
      BY <2>2, <3>1, <3>2 DEF Stops
    <3>4. QED
      BY <2>2, <3>1, <3>3 DEF Stops
  <2>3. CASE Completes(p, a, b)
    <3>1. Completes(p, a, c)
      BY <2>1, <2>3 DEF Runs, Stops, Completes, Spawns, Yields, Wakes, Rolls, Scopes, Ends, IsAt
    <3>2. /\ b.pc = c.pc /\ b.x = c.x /\ b.reg = c.reg /\ b.running = c.running
          /\ b.parked = c.parked
      <4>1. CASE OpAt(p, a)[1] = "load"
        BY <2>3, <3>1, <4>1 DEF Completes
      <4>2. CASE OpAt(p, a)[1] = "store"
        BY <2>3, <3>1, <4>2 DEF Completes
      <4>3. CASE OpAt(p, a)[1] = "inc"
        BY <2>3, <3>1, <4>3 DEF Completes
      <4>4. CASE OpAt(p, a)[1] = "await"
        BY <2>3, <3>1, <4>4 DEF Completes
      <4>5. QED
        BY <2>3, <4>1, <4>2, <4>3, <4>4 DEF Completes
    <3>3. b.shared = c.shared
      BY <2>3, <3>1, Zenon DEF Completes
    <3>4. QED
      BY <2>3, <3>1, <3>2, <3>3 DEF Completes
  <2>4. CASE Spawns(p, a, b)
    <3>1. Spawns(p, a, c)
      BY <2>1, <2>4 DEF Runs, Stops, Completes, Spawns, Yields, Wakes, Rolls, Scopes, Ends, IsAt, Atomic
    <3>2. QED
      BY <2>4, <3>1 DEF Spawns
  <2>5. CASE Yields(p, a, b)
    <3>1. Yields(p, a, c)
      BY <2>1, <2>5 DEF Runs, Stops, Completes, Spawns, Yields, Wakes, Rolls, Scopes, Ends, IsAt, Atomic
    <3>2. QED
      BY <2>5, <3>1 DEF Yields
  <2>6. CASE Wakes(p, s, a, b)
    <3>1. Wakes(p, s, a, c)
      BY <2>1, <2>6 DEF Runs, Stops, Completes, Spawns, Yields, Wakes, Rolls, Scopes, Ends, IsAt, Atomic
    <3>2. b.parked = c.parked /\ b.runq = c.runq /\ b.branch = c.branch /\ b.log = c.log
      <4>1. CASE ~a.shared \/ a.parked = {}
        BY <2>6, <3>1, <4>1 DEF Wakes
      <4>2. CASE a.shared /\ a.parked # {}
        <5>1. PICK w \in a.parked :
                /\ Drawn(s, a.branch, a.parked, w, b.branch) /\ b.parked = a.parked \ {w}
                /\ b.runq = a.runq \cup {w} /\ b.log = Append(a.log, <<"WakeOne", w>>)
          BY <2>6, <4>2 DEF Wakes
        <5>2. PICK v \in a.parked :
                /\ Drawn(s, a.branch, a.parked, v, c.branch) /\ c.parked = a.parked \ {v}
                /\ c.runq = a.runq \cup {v} /\ c.log = Append(a.log, <<"WakeOne", v>>)
          BY <3>1, <4>2 DEF Wakes
        <5>3. w = v /\ b.branch = c.branch
          BY <1>0, <1>2, <5>1, <5>2
        <5>4. QED
          BY <5>1, <5>2, <5>3
      <4>3. QED
        BY <4>1, <4>2
    <3>3. QED
      BY <2>6, <3>1, <3>2 DEF Wakes
  <2>7. CASE Rolls(p, s, a, b)
    <3>1. Rolls(p, s, a, c)
      BY <2>1, <2>7 DEF Runs, Stops, Completes, Spawns, Yields, Wakes, Rolls, Scopes, Ends, IsAt, Atomic
    <3>2. b.reg = c.reg /\ b.log = c.log
      <4>1. PICK i : /\ Reply(s, a.branch, OpAt(p, a)[2], i) /\ b.reg = [a.reg EXCEPT ![a.running] = i]
                     /\ b.log = Append(a.log, <<"RandomChoice", i>>)
        BY <2>7 DEF Rolls
      <4>2. PICK j : /\ Reply(s, a.branch, OpAt(p, a)[2], j) /\ c.reg = [a.reg EXCEPT ![a.running] = j]
                     /\ c.log = Append(a.log, <<"RandomChoice", j>>)
        BY <3>1 DEF Rolls
      <4>3. i = j
        BY <1>0, <1>2, <4>1, <4>2
      <4>4. QED
        BY <4>1, <4>2, <4>3
    <3>3. QED
      BY <2>7, <3>1, <3>2 DEF Rolls
  <2>8. CASE Scopes(p, a, b)
    <3>1. Scopes(p, a, c)
      BY <2>1, <2>8 DEF Runs, Stops, Completes, Spawns, Yields, Wakes, Rolls, Scopes, Ends, IsAt, Atomic
    <3>2. QED
      BY <2>8, <3>1 DEF Scopes, IsAt
  <2>9. CASE Ends(p, q, a, b)
    <3>1. Ends(p, q, a, c)
      BY <2>1, <2>9 DEF Runs, Stops, Completes, Spawns, Yields, Wakes, Rolls, Scopes, Ends, IsAt
    <3>2. QED
      BY <2>9, <3>1 DEF Ends
  <2>10. QED
    BY <1>4, <2>2, <2>3, <2>4, <2>5, <2>6, <2>7, <2>8, <2>9 DEF Runs
<1>5. QED
  BY <1>3, <1>4 DEF Follows

-----------------------------------------------------------------------------
(* The threads of a program *)
LEMMA ProgramThreads ==
  ASSUME NEW p \in Programs
  PROVE  /\ DOMAIN p.code \subseteq Nat /\ IsFiniteSet(DOMAIN p.code)
         /\ None \notin DOMAIN p.code /\ Main \in DOMAIN p.code
         /\ \A t \in DOMAIN p.code : Len(p.code[t]) \in Nat /\ DOMAIN p.code[t] = 1 .. Len(p.code[t])
<1>1. None \notin Nat /\ p.code \in Seq(Seq(STRING \X Int)) /\ p.code # <<>>
  BY ProgramsAssumption
<1>2. Len(p.code) \in Nat /\ DOMAIN p.code = 1 .. Len(p.code) /\ Len(p.code) # 0
  BY <1>1
<1>3. IsFiniteSet(DOMAIN p.code)
  BY <1>2, FS_Interval
<1>4. DOMAIN p.code \subseteq Nat /\ Main \in DOMAIN p.code
  BY <1>2 DEF Main
<1>5. \A t \in DOMAIN p.code : Len(p.code[t]) \in Nat /\ DOMAIN p.code[t] = 1 .. Len(p.code[t])
  <2>1. \A t \in DOMAIN p.code : p.code[t] \in Seq(STRING \X Int)
    BY <1>1
  <2>2. QED
    BY <2>1
<1>6. QED
  BY <1>1, <1>3, <1>4, <1>5

(* A thread that is picked is one of the queue. *)
LEMMA DrawnIn ==
  ASSUME NEW p \in Programs, NEW S \in SUBSET DOMAIN p.code, NEW s, NEW k \in Nat
  PROVE  /\ IsFiniteSet(S) /\ Cardinality(S) \in Nat
         /\ \A i \in 0 .. Cardinality(S) - 1 : Nth(S, i) \in S
         /\ \A t, n : Drawn(s, k, S, t, n) => t \in S /\ n \in {k, k + 1}
<1>1. S \in SUBSET Nat /\ IsFiniteSet(S)
  BY ProgramThreads, FS_Subset
<1>2. \A i \in 0 .. Cardinality(S) - 1 : Nth(S, i) \in S
  BY <1>1, NthRank
<1>3. Cardinality(S) \in Nat
  BY <1>1, FS_CardinalityType
<1>4. ASSUME NEW t, NEW n, Drawn(s, k, S, t, n) PROVE t \in S /\ n \in {k, k + 1}
  BY <1>2, <1>4 DEF Drawn
<1>5. QED
  BY <1>1, <1>2, <1>3, <1>4

(* A pick takes the thread from where it was. *)
LEMMA PickedThread ==
  ASSUME NEW p \in Programs, NEW q, NEW s, NEW a, NEW b, Placed(p, a), Logged(a), Picked(p, q, s, a, b)
  PROVE  /\ b.running \in DOMAIN p.code /\ b.branch \in Nat /\ a.branch <= b.branch
         /\ \/ b.running = a.active /\ b.runq = a.runq
            \/ b.running \in a.runq /\ b.runq = (a.runq \ {b.running}) \cup ({a.active} \ {None})
<1>1. a.branch \in Nat /\ a.runq \in SUBSET DOMAIN p.code
  BY DEF Logged, Placed
<1>2. /\ \A k \in Nat : \A t, n : Drawn(s, k, a.runq, t, n) => t \in a.runq /\ n \in {k, k + 1}
      /\ \A i \in 0 .. Cardinality(a.runq) - 1 : Nth(a.runq, i) \in a.runq
  BY <1>1, DrawnIn
<1>3. CASE PicksRandom(q, s, a, b)
  <2>1. CASE a.active # None
    BY <1>1, <1>3, <2>1 DEF PicksRandom, Placed
  <2>2. CASE a.active = None
    <3>1. b.running \in a.runq /\ b.runq = a.runq \ {b.running} /\ b.branch = a.branch + 1
      BY <1>2, <1>3, <2>2 DEF PicksRandom
    <3>2. b.runq = (a.runq \ {b.running}) \cup ({a.active} \ {None})
      BY <2>2, <3>1
    <3>3. QED
      BY <1>1, <3>1, <3>2
  <2>3. QED
    BY <2>1, <2>2
<1>4. CASE GoesOn(q, s, a, b)
  BY <1>1, <1>4 DEF GoesOn, Placed
<1>5. CASE GivesWay(p, q, s, a, b)
  <2>1. PICK k \in {a.branch, a.branch + 1} : Drawn(s, k, a.runq, b.running, b.branch)
    BY <1>5 DEF GivesWay
  <2>2. b.running \in a.runq /\ b.branch \in {k, k + 1}
    BY <1>1, <1>2, <2>1
  <2>3. QED
    BY <1>1, <1>5, <2>1, <2>2 DEF GivesWay
<1>6. QED
  BY <1>3, <1>4, <1>5 DEF Picked, PicksDfs

(* A decision for a thread, for nobody, for a number *)
LEMMA Decisions ==
  ASSUME NEW v \in Int \cup {None}
  PROVE  {<<"PickNext", v>>, <<"WakeOne", v>>, <<"RandomChoice", v>>} \subseteq Decision
  BY DEF Decision

(* The log after a step *)
LEMMA LogGrows ==
  ASSUME NEW a, NEW b, Logged(a), b.branch \in {a.branch, a.branch + 1, a.branch + 2},
         b.log = a.log \/ \E e \in Decision : b.log = Append(a.log, e)
  PROVE  Logged(b) /\ Longer(a, b)
<1>1. PICK l : l = a.log
  OBVIOUS
<1>2. a.branch \in Nat /\ l \in Seq(Decision) /\ Len(l) \in Nat
  BY <1>1 DEF Logged
<1>3. b.branch \in Nat /\ a.branch <= b.branch
  BY <1>2
<1>4. CASE b.log = l
  BY <1>1, <1>2, <1>3, <1>4 DEF Logged, Longer
<1>5. ASSUME NEW e \in Decision, b.log = Append(l, e) PROVE Logged(b) /\ Longer(a, b)
  <2>1. PICK m : m = Append(l, e)
    OBVIOUS
  <2>2. m \in Seq(Decision) /\ Len(m) = Len(l) + 1 /\ \A i \in 1 .. Len(l) : m[i] = l[i]
    BY <1>2, <2>1
  <2>3. QED
    BY <1>1, <1>2, <1>3, <1>5, <2>1, <2>2 DEF Logged, Longer
<1>6. QED
  BY <1>1, <1>4, <1>5

(* Branches and log grow with every step. *)
LEMMA FollowsLogged ==
  ASSUME NEW p \in Programs, NEW q, NEW s, NEW a, NEW b, Placed(p, a), Logged(a), Follows(p, q, s, a, b)
  PROVE  Logged(b) /\ Longer(a, b)
<1>1. DOMAIN p.code \subseteq Int /\ a.branch \in Nat
  BY ProgramThreads DEF Logged
<1>2. CASE Picked(p, q, s, a, b)
  <2>1. b.running \in Int /\ b.log = Append(a.log, <<"PickNext", b.running>>)
    BY <1>1, <1>2, PickedThread DEF Picked
  <2>2. <<"PickNext", b.running>> \in Decision
    BY <2>1, Decisions
  <2>3. b.branch \in {a.branch, a.branch + 1, a.branch + 2}
    <3>1. \A k \in Nat : \A t, n : Drawn(s, k, a.runq, t, n) => n \in {k, k + 1}
      BY DEF Drawn
    <3>2. CASE GivesWay(p, q, s, a, b)
      <4>1. PICK k \in {a.branch, a.branch + 1} : Drawn(s, k, a.runq, b.running, b.branch)
        BY <3>2 DEF GivesWay
      <4>2. b.branch \in {k, k + 1}
        BY <1>1, <3>1, <4>1
      <4>3. QED
        BY <1>1, <4>1, <4>2
    <3>3. QED
      BY <1>1, <1>2, <3>2 DEF Picked, PicksDfs, PicksRandom, GoesOn
  <2>4. QED
    BY <2>1, <2>2, <2>3, LogGrows
<1>3. CASE Runs(p, q, s, a, b)
  <2>1. CASE Wakes(p, s, a, b)
    <3>1. /\ \A t, n : Drawn(s, a.branch, a.parked, t, n) => t \in a.parked /\ n \in {a.branch, a.branch + 1}
          /\ a.parked \subseteq Int
      BY <1>1, DrawnIn DEF Placed
    <3>2. b.branch \in {a.branch, a.branch + 1}
      BY <2>1, <3>1 DEF Wakes, KeepsAnswers
    <3>3. b.log = a.log \/ \E w \in Int \cup {None} : b.log = Append(a.log, <<"WakeOne", w>>)
      BY <2>1, <3>1 DEF Wakes, KeepsAnswers
    <3>4. b.log = a.log \/ \E e \in Decision : b.log = Append(a.log, e)
      BY <3>3, Decisions
    <3>5. QED
      BY <3>2, <3>4, LogGrows
  <2>2. CASE Rolls(p, s, a, b)
    <3>1. PICK i \in Int : b.log = Append(a.log, <<"RandomChoice", i>>)
      BY <2>2 DEF Rolls
    <3>2. \E e \in Decision : b.log = Append(a.log, e)
      BY <3>1, Decisions
    <3>3. QED
      BY <2>2, <3>2, LogGrows DEF Rolls
  <2>3. CASE Stops(p, q, s, a, b)
    BY <2>3, LogGrows DEF Stops
  <2>4. CASE Completes(p, a, b)
    BY <2>4, LogGrows DEF Completes, KeepsAnswers
  <2>5. CASE Spawns(p, a, b) \/ Yields(p, a, b) \/ Scopes(p, a, b) \/ Ends(p, q, a, b)
    BY <2>5, LogGrows DEF Spawns, Yields, Scopes, Ends, KeepsAnswers
  <2>6. QED
    BY <1>3, <2>1, <2>2, <2>3, <2>4, <2>5 DEF Runs
<1>4. QED
  BY <1>2, <1>3 DEF Follows

(* Every thread stays in one place. *)
LEMMA FollowsPlaced ==
  ASSUME NEW p \in Programs, NEW q, NEW s, NEW a, NEW b, Placed(p, a), Logged(a), Follows(p, q, s, a, b)
  PROVE  Placed(p, b)
<1>1. None \notin DOMAIN p.code /\ DOMAIN p.code \subseteq Nat
  BY ProgramThreads
<1>2. CASE Picked(p, q, s, a, b)
  <2>1. b.pc = a.pc /\ b.parked = a.parked /\ b.active = None
    BY <1>2 DEF Picked, KeepsProgram, KeepsFutex
  <2>2. /\ b.running \in DOMAIN p.code
        /\ \/ b.running = a.active /\ b.runq = a.runq
           \/ b.running \in a.runq /\ b.runq = (a.runq \ {b.running}) \cup ({a.active} \ {None})
    BY <1>2, PickedThread
  <2>3. QED
    BY <1>1, <2>1, <2>2 DEF Placed, Absent
<1>3. CASE Runs(p, q, s, a, b)
  <2>1. a.running \in DOMAIN p.code /\ a.running # None /\ a.active = None /\ a.pc[a.running] \in Nat \ {0}
    BY <1>1, <1>3 DEF Runs, Placed
  <2>2. ASSUME b.pc \in [DOMAIN p.code -> Nat \ {0}], \A u \in DOMAIN p.code : b.pc[u] >= a.pc[u],
               b.runq \cup b.parked \cup ({b.running, b.active} \ {None})
                 \subseteq a.runq \cup a.parked \cup {a.running},
               b.runq \cap b.parked = {},
               b.running # None => b.active = None /\ b.running \notin b.runq /\ b.running \notin b.parked,
               b.active # None => b.active \notin b.runq /\ b.active \notin b.parked
        PROVE  Placed(p, b)
    <3>1. a.runq \cup a.parked \cup {a.running} \subseteq DOMAIN p.code
      BY <2>1 DEF Placed
    <3>2. ASSUME NEW t \in DOMAIN p.code, NEW i \in DOMAIN p.code[t], p.code[t][i][1] = "spawn", b.pc[t] <= i
          PROVE  Absent(b, p.code[t][i][2])
      <4>1. a.pc[t] \in Nat /\ b.pc[t] \in Nat /\ i \in Nat /\ b.pc[t] >= a.pc[t]
        BY <2>2, ProgramThreads DEF Placed
      <4>2. Absent(a, p.code[t][i][2])
        BY <3>2, <4>1 DEF Placed
      <4>3. p.code[t][i][2] \in DOMAIN p.code
        BY <3>2, ProgramsAssumption
      <4>4. QED
        BY <1>1, <2>2, <4>2, <4>3 DEF Absent
    <3>3. QED
      BY <2>2, <3>1, <3>2 DEF Placed
  <2>3. ASSUME b.pc = a.pc \/ Moves(a, b)
        PROVE  b.pc \in [DOMAIN p.code -> Nat \ {0}] /\ \A u \in DOMAIN p.code : b.pc[u] >= a.pc[u]
    BY <2>1, <2>3 DEF Placed, Moves
  <2> USE DEF KeepsFutex, KeepsQueues, KeepsProgram, KeepsTurn, Placed
  <2>4. CASE Stops(p, q, s, a, b)
    BY <2>1, <2>2, <2>3, <2>4 DEF Stops
  <2>5. CASE Completes(p, a, b)
    BY <2>1, <2>2, <2>3, <2>5 DEF Completes
  <2>6. CASE Yields(p, a, b) \/ Rolls(p, s, a, b) \/ Scopes(p, a, b) \/ Ends(p, q, a, b)
    BY <2>1, <2>2, <2>3, <2>6 DEF Yields, Rolls, Scopes, Ends
  <2>7. CASE Wakes(p, s, a, b)
    BY <2>1, <2>2, <2>3, <2>7 DEF Wakes
  <2>8. CASE Spawns(p, a, b)
    <3>1. PICK t : t = a.running
      OBVIOUS
    <3>2. PICK i : i = a.pc[t]
      OBVIOUS
    <3>3. t \in DOMAIN p.code /\ i \in DOMAIN p.code[t] /\ i \in Nat \ {0} /\ p.code[t][i][1] = "spawn"
      BY <2>1, <2>8, <3>1, <3>2, ProgramThreads DEF Spawns, IsAt, OverAt, OpAt
    <3>4. PICK u : u = p.code[t][i][2]
      OBVIOUS
    <3>5. u \in DOMAIN p.code /\ Absent(a, u) /\ p.code[t][i] = <<"spawn", u>>
      <4>1. u \in DOMAIN p.code \ {Main}
        BY <3>3, <3>4, ProgramsAssumption
      <4>2. Absent(a, u)
        BY <3>2, <3>3, <3>4
      <4>3. p.code \in Seq(Seq(STRING \X Int))
        BY ProgramsAssumption
      <4>4. p.code[t][i] \in STRING \X Int
        BY <3>3, <4>3
      <4>5. QED
        BY <3>3, <3>4, <4>1, <4>2, <4>4
    <3>6. /\ b.pc = [a.pc EXCEPT ![t] = @ + 1] /\ b.runq = a.runq \cup {u} /\ b.parked = a.parked
          /\ b.running = a.running /\ b.active = a.active
      BY <2>8, <3>1, <3>2, <3>4 DEF Spawns, Moves, OpAt
    <3>7. ASSUME NEW v \in DOMAIN p.code, NEW j \in DOMAIN p.code[v], p.code[v][j][1] = "spawn", b.pc[v] <= j
          PROVE  Absent(b, p.code[v][j][2])
      <4>1. a.pc[v] \in Nat /\ j \in Nat /\ b.pc[v] >= a.pc[v] /\ b.pc[v] \in Nat
        BY <3>6, <3>7, ProgramThreads
      <4>2. Absent(a, p.code[v][j][2])
        BY <3>7, <4>1
      <4>3. p.code[v][j][2] # u
        <5>1. SUFFICES ASSUME p.code[v][j][2] = u PROVE FALSE
          OBVIOUS
        <5>2. p.code \in Seq(Seq(STRING \X Int))
          BY ProgramsAssumption
        <5>3. p.code[v][j] \in STRING \X Int
          BY <5>2
        <5>4. p.code[v][j] = p.code[t][i]
          BY <3>5, <3>7, <5>1, <5>3
        <5>5. v = t /\ j = i
          BY <3>3, <5>4, SpawnsAssumption
        <5>6. QED
          BY <3>2, <3>3, <3>6, <3>7, <5>5
      <4>4. QED
        BY <3>6, <4>2, <4>3 DEF Absent
    <3>8. b.pc \in [DOMAIN p.code -> Nat \ {0}]
      BY <3>3, <3>6
    <3>9. QED
      BY <2>1, <3>5, <3>6, <3>7, <3>8 DEF Absent
  <2>9. QED
    BY <1>3, <2>4, <2>5, <2>6, <2>7, <2>8 DEF Runs
<1>4. QED
  BY <1>2, <1>3 DEF Follows

-----------------------------------------------------------------------------
(* A simulation starts with a trail of one state, *)
LEMMA TrailStarts ==
  ASSUME NEW p \in Programs, NEW q, NEW s, NEW a, Started(p, a)
  PROVE  \E f : f[1] = a /\ Trail(p, q, s, f, 1)
<1>1. PICK f : f = [i \in 1 .. 1 |-> a]
  OBVIOUS
<1>2. f[1] = a /\ \A i \in 1 .. 1 : f[i] = a
  BY <1>1
<1>3. Placed(p, a)
  <2>1. \A t \in DOMAIN p.code : \A i \in DOMAIN p.code[t] :
          p.code[t][i][1] = "spawn" => p.code[t][i][2] \in DOMAIN p.code \ {Main}
    BY ProgramsAssumption
  <2>2. QED
    BY <2>1, ProgramThreads DEF Placed, Started, Absent
<1>4. Logged(a) /\ Longer(a, a)
  BY DEF Logged, Longer, Started
<1>5. QED
  BY <1>2, <1>3, <1>4 DEF Trail

(* ... which follows every schedule with the same answers, *)
LEMMA TrailSame ==
  ASSUME NEW p, NEW q, NEW s, NEW f, NEW n, Trail(p, q, s, f, n), NEW m \in 1 .. n, NEW r, Same(s, r, f[m].branch)
  PROVE  Trail(p, q, r, f, m)
<1>1. n \in Nat /\ m \in Nat \ {0} /\ m <= n
  BY DEF Trail
<1>2. ASSUME NEW i \in 1 .. m - 1 PROVE Follows(p, q, r, f[i], f[i + 1])
  <2>1. i \in 1 .. n /\ i \in 1 .. n - 1 /\ i + 1 \in 1 .. n /\ m \in i + 1 .. n
    BY <1>1
  <2>2. PICK a : a = f[i]
    OBVIOUS
  <2>3. PICK b : b = f[i + 1]
    OBVIOUS
  <2>4. Follows(p, q, s, a, b) /\ Logged(a) /\ Logged(b) /\ Longer(b, f[m]) /\ Logged(f[m])
    BY <1>1, <2>1, <2>2, <2>3 DEF Trail
  <2>5. b.branch \in Nat /\ b.branch <= f[m].branch /\ f[m].branch \in Nat
    BY <2>4 DEF Logged, Longer
  <2>6. Same(s, r, b.branch)
    BY <2>5 DEF Same
  <2>7. QED
    BY <2>2, <2>3, <2>4, <2>5, <2>6, FollowsSame
<1>3. QED
  BY <1>1, <1>2 DEF Trail

(* ... and grows with every step. *)
LEMMA TrailGrows ==
  ASSUME NEW p \in Programs, NEW q, NEW s, NEW f, NEW n, Trail(p, q, s, f, n), NEW m \in 1 .. n,
         NEW r, Same(s, r, f[m].branch), NEW b, Follows(p, q, r, f[m], b)
  PROVE  \E g : Trail(p, q, r, g, m + 1) /\ g[m + 1] = b
<1>1. Trail(p, q, r, f, m) /\ m \in Nat \ {0}
  BY TrailSame DEF Trail
<1>2. PICK a : a = f[m]
  OBVIOUS
<1>3. Placed(p, a) /\ Logged(a) /\ Follows(p, q, r, a, b)
  BY <1>1, <1>2 DEF Trail
<1>4. Placed(p, b) /\ Logged(b) /\ Longer(a, b)
  BY <1>3, FollowsPlaced, FollowsLogged
<1>5. PICK g : g = [i \in 1 .. m + 1 |-> IF i = m + 1 THEN b ELSE f[i]]
  OBVIOUS
<1>6. g[m + 1] = b /\ \A i \in 1 .. m : g[i] = f[i]
  BY <1>1, <1>5
<1>7. \A i \in 1 .. m + 1 : Placed(p, g[i]) /\ Logged(g[i])
  <2>1. \A i \in 1 .. m + 1 : i = m + 1 \/ i \in 1 .. m
    BY <1>1
  <2>2. QED
    BY <1>1, <1>4, <1>6, <2>1 DEF Trail
<1>8. \A i \in 1 .. m : Follows(p, q, r, g[i], g[i + 1])
  <2>1. \A i \in 1 .. m : i = m \/ (i \in 1 .. m - 1 /\ i + 1 \in 1 .. m)
    BY <1>1
  <2>2. QED
    BY <1>1, <1>2, <1>3, <1>6, <2>1 DEF Trail
<1>9. ASSUME NEW i \in 1 .. m + 1, NEW j \in i .. m + 1 PROVE Longer(g[i], g[j])
  <2>1. CASE j # m + 1
    <3>1. i \in 1 .. m /\ j \in 1 .. m /\ j \in i .. m
      BY <1>1, <2>1
    <3>2. QED
      BY <1>1, <1>6, <3>1 DEF Trail
  <2>2. CASE j = m + 1 /\ i = m + 1
    <3>1. b.branch \in Nat /\ Len(b.log) \in Nat
      BY <1>4 DEF Logged
    <3>2. QED
      BY <1>6, <2>2, <3>1 DEF Longer
  <2>3. CASE j = m + 1 /\ i # m + 1
    <3>1. i \in 1 .. m /\ m \in i .. m
      BY <1>1, <2>3
    <3>2. PICK c : c = f[i]
      OBVIOUS
    <3>3. Longer(c, a) /\ Logged(c)
      BY <1>1, <1>2, <3>1, <3>2 DEF Trail
    <3>4. /\ c.branch \in Nat /\ a.branch \in Nat /\ b.branch \in Nat
          /\ Len(c.log) \in Nat /\ Len(a.log) \in Nat /\ Len(b.log) \in Nat
      BY <1>3, <1>4, <3>3 DEF Logged
    <3>5. Longer(c, b)
      <4>1. c.branch <= a.branch /\ Len(c.log) <= Len(a.log) /\ \A k \in 1 .. Len(c.log) : c.log[k] = a.log[k]
        BY <3>3 DEF Longer
      <4>2. a.branch <= b.branch /\ Len(a.log) <= Len(b.log) /\ \A k \in 1 .. Len(a.log) : a.log[k] = b.log[k]
        BY <1>4 DEF Longer
      <4>3. \A k \in 1 .. Len(c.log) : k \in 1 .. Len(a.log)
        BY <3>4, <4>1
      <4>4. \A k \in 1 .. Len(c.log) : c.log[k] = b.log[k]
        BY <4>1, <4>2, <4>3
      <4>5. QED
        BY <3>4, <4>1, <4>2, <4>4 DEF Longer
    <3>6. QED
      BY <1>6, <2>3, <3>1, <3>2, <3>5
  <2>4. QED
    BY <2>1, <2>2, <2>3
<1>10. g[1] = f[1] /\ m + 1 \in Nat \ {0} /\ m + 1 - 1 = m
  BY <1>1, <1>6
<1>11. QED
  BY <1>1, <1>6, <1>7, <1>8, <1>9, <1>10 DEF Trail

-----------------------------------------------------------------------------
(* An entry of a schedule *)
Entry == {e \in [type : Question \cup {"Slice"}, alts : Nat \ {0}, index : Nat] : e.index < e.alts}

(* If branch k + 1 has been there before, it was a question with n answers. *)
Matches(s, k, n) == k + 1 \in DOMAIN s => s[k + 1].alts = n /\ s[k + 1].index \in 0 .. n - 1

(* The schedule has been made for the questions that state a asks. *)
Sound(p, q, s, a) ==
  /\ a.running = None =>
       /\ q.kind = "random" /\ a.active = None => Matches(s, a.branch, Cardinality(a.runq))
       /\ q.kind = "dfs" /\ AskedAt(q, a) => Matches(s, a.branch, 2)
       /\ \A k \in {a.branch, a.branch + 1} :
            q.kind = "dfs" /\ Switched(q, s, a, k) /\ Cardinality(a.runq) # 1 =>
              Matches(s, k, Cardinality(a.runq))
  /\ a.running # None /\ ~OverAt(p, a) =>
       /\ q.kind = "random" /\ OpAt(p, a)[1] \in Atomic /\ a.running \notin a.pending => Matches(s, a.branch, 2)
       /\ OpAt(p, a)[1] = "wake" /\ a.shared /\ a.parked # {} /\ Cardinality(a.parked) # 1 =>
            Matches(s, a.branch, Cardinality(a.parked))
       /\ OpAt(p, a)[1] = "choice" => Matches(s, a.branch, OpAt(p, a)[2])

(* At the end of the schedule *)
LEMMA SoundAtEnd ==
  ASSUME NEW p, NEW q, NEW s \in Seq(Entry), NEW a, a.branch = Len(s)
  PROVE  Sound(p, q, s, a)
<1>1. a.branch \in Nat /\ a.branch + 1 \notin DOMAIN s /\ a.branch + 2 \notin DOMAIN s
  OBVIOUS
<1>2. \A n : Matches(s, a.branch, n) /\ Matches(s, a.branch + 1, n)
  BY <1>1 DEF Matches
<1>3. QED
  BY <1>2 DEF Sound

(* s asks the questions of r from branch k + 1 on, with the same answers but for the last. *)
Resembles(s, r, k) ==
  \A j \in DOMAIN s : j > k =>
    /\ j \in DOMAIN r /\ s[j].alts = r[j].alts /\ s[j].index \in 0 .. s[j].alts - 1
    /\ s[j].index = r[j].index \/ j = Len(s)

(* If the simulation has been here before, with the schedule r, then s is made for it. *)
LEMMA SoundAgain ==
  ASSUME NEW p \in Programs, NEW q, NEW s \in Seq(Entry), NEW r, NEW a, NEW b, Logged(a),
         Follows(p, q, r, a, b), Resembles(s, r, a.branch)
  PROVE  Sound(p, q, s, a)
<1>1. a.branch \in Nat /\ Len(s) \in Nat /\ DOMAIN s = 1 .. Len(s) /\ None \notin DOMAIN p.code
  BY ProgramThreads DEF Logged
<1>2. ASSUME NEW n, NEW i, Reply(r, a.branch, n, i) PROVE Matches(s, a.branch, n)
  BY <1>1, <1>2 DEF Reply, Matches, Resembles
<1>3. ASSUME NEW n, NEW i, Reply(r, a.branch + 1, n, i) PROVE Matches(s, a.branch + 1, n)
  BY <1>1, <1>3 DEF Reply, Matches, Resembles
<1>4. ASSUME NEW k \in {a.branch, a.branch + 1}, NEW S, NEW t, NEW n, Drawn(r, k, S, t, n), Cardinality(S) # 1
      PROVE  Matches(s, k, Cardinality(S))
  <2>1. PICK i : Reply(r, k, Cardinality(S), i)
    BY <1>4 DEF Drawn
  <2>2. QED
    BY <1>2, <1>3, <2>1
<1>5. CASE Picked(p, q, r, a, b)
  <2>1. ASSUME q.kind = "random", a.active = None PROVE Matches(s, a.branch, Cardinality(a.runq))
    <3>1. PicksRandom(q, r, a, b)
      BY <1>5, <2>1 DEF Picked, PicksDfs
    <3>2. \E i : Reply(r, a.branch, Cardinality(a.runq), i)
      BY <2>1, <3>1 DEF PicksRandom
    <3>3. QED
      BY <1>2, <3>2
  <2>2. ASSUME q.kind = "dfs" PROVE GoesOn(q, r, a, b) \/ GivesWay(p, q, r, a, b)
    BY <1>5, <2>2 DEF Picked, PicksDfs, PicksRandom
  <2>3. ASSUME q.kind = "dfs", AskedAt(q, a) PROVE Matches(s, a.branch, 2)
    <3>1. \E i : Reply(r, a.branch, 2, i)
      BY <2>2, <2>3 DEF GoesOn, GivesWay, Switched, AskedAt
    <3>2. QED
      BY <1>2, <3>1
  <2>4. ASSUME NEW k \in {a.branch, a.branch + 1}, q.kind = "dfs", Switched(q, s, a, k), Cardinality(a.runq) # 1
        PROVE  Matches(s, k, Cardinality(a.runq))
    <3>1. CASE a.active = None \/ ForcedAt(q, a)
      <4>1. GivesWay(p, q, r, a, b) /\ k = a.branch
        BY <2>2, <2>4, <3>1 DEF GoesOn, Switched, AskedAt
      <4>2. Drawn(r, k, a.runq, b.running, b.branch)
        BY <3>1, <4>1 DEF GivesWay, Switched, AskedAt
      <4>3. QED
        BY <1>4, <2>4, <4>2
    <3>2. CASE ~(a.active = None \/ ForcedAt(q, a))
      <4>1. AskedAt(q, a) /\ Reply(s, a.branch, 2, 1) /\ k = a.branch + 1
        BY <2>4, <3>2 DEF Switched
      <4>2. CASE a.branch + 1 = Len(s)
        BY <1>1, <4>1, <4>2 DEF Matches
      <4>3. CASE a.branch + 1 # Len(s)
        <5>1. r[a.branch + 1].index = 1
          BY <1>1, <4>1, <4>3 DEF Reply, Resembles
        <5>2. ~Reply(r, a.branch, 2, 0)
          BY <5>1 DEF Reply
        <5>3. GivesWay(p, q, r, a, b)
          BY <2>2, <2>4, <4>1, <5>2 DEF GoesOn
        <5>4. Drawn(r, k, a.runq, b.running, b.branch)
          BY <3>2, <4>1, <5>3 DEF GivesWay, Switched
        <5>5. QED
          BY <1>4, <2>4, <5>4
      <4>4. QED
        BY <4>2, <4>3
    <3>3. QED
      BY <3>1, <3>2
  <2>5. a.running = None
    BY <1>5 DEF Picked
  <2>6. QED
    BY <2>1, <2>3, <2>4, <2>5 DEF Sound
<1>6. CASE Runs(p, q, r, a, b)
  <2>1. a.running # None
    BY <1>1, <1>6 DEF Runs
  <2>2. ASSUME ~OverAt(p, a), q.kind = "random", OpAt(p, a)[1] \in Atomic, a.running \notin a.pending
        PROVE  Matches(s, a.branch, 2)
    <3>1. Stops(p, q, r, a, b)
      BY <1>6, <2>2 DEF Runs, Stops, Completes, Spawns, Yields, Wakes, Rolls, Scopes, Ends, IsAt, Atomic
    <3>2. \E i : Reply(r, a.branch, 2, i)
      BY <2>2, <3>1 DEF Stops
    <3>3. QED
      BY <1>2, <3>2
  <2>3. ASSUME ~OverAt(p, a), OpAt(p, a)[1] = "wake", a.shared, a.parked # {}, Cardinality(a.parked) # 1
        PROVE  Matches(s, a.branch, Cardinality(a.parked))
    <3>1. Wakes(p, r, a, b)
      BY <1>6, <2>3 DEF Runs, Stops, Completes, Spawns, Yields, Wakes, Rolls, Scopes, Ends, IsAt, Atomic
    <3>2. PICK w : Drawn(r, a.branch, a.parked, w, b.branch)
      BY <2>3, <3>1 DEF Wakes
    <3>3. QED
      BY <1>4, <2>3, <3>2
  <2>4. ASSUME ~OverAt(p, a), OpAt(p, a)[1] = "choice" PROVE Matches(s, a.branch, OpAt(p, a)[2])
    <3>1. Rolls(p, r, a, b)
      BY <1>6, <2>4 DEF Runs, Stops, Completes, Spawns, Yields, Wakes, Rolls, Scopes, Ends, IsAt, Atomic
    <3>2. \E i : Reply(r, a.branch, OpAt(p, a)[2], i)
      BY <3>1 DEF Rolls
    <3>3. QED
      BY <1>2, <3>2
  <2>5. QED
    BY <2>1, <2>2, <2>3, <2>4 DEF Sound
<1>7. QED
  BY <1>5, <1>6 DEF Follows

-----------------------------------------------------------------------------
(* A schedule that has been followed up to branch k grows only at its end. *)
Grows(s, k, r, n) ==
  /\ r \in Seq(Entry) /\ Same(s, r, Len(s)) /\ Len(s) <= Len(r)
  /\ n \in Nat /\ k <= n /\ n <= Len(r)
  /\ r = s \/ n = Len(r)

(* It may do so twice in a step. *)
LEMMA GrowsTwice ==
  ASSUME NEW s \in Seq(Entry), NEW k \in Nat, NEW r, NEW n, NEW v, NEW m, Grows(s, k, r, n), Grows(r, n, v, m)
  PROVE  Grows(s, k, v, m)
<1>1. /\ Len(s) \in Nat /\ r \in Seq(Entry) /\ Len(r) \in Nat /\ v \in Seq(Entry) /\ Len(v) \in Nat
      /\ n \in Nat /\ m \in Nat
  BY DEF Grows
<1>2. Same(s, v, Len(s))
  BY <1>1 DEF Grows, Same
<1>3. v = s \/ m = Len(v)
  BY <1>1 DEF Grows
<1>4. QED
  BY <1>1, <1>2, <1>3 DEF Grows

(* No question *)
LEMMA GrowsNot ==
  ASSUME NEW s \in Seq(Entry), NEW k \in Nat, k <= Len(s) PROVE Grows(s, k, s, k)
  BY DEF Grows, Same

(* The scheduler answers a question as the schedule says, or adds one at its end. *)
LEMMA ChooseReplies ==
  ASSUME NEW s \in Seq(Entry), NEW k \in Nat, k <= Len(s), NEW ch, ch.schedule = s, ch.branch = k,
         NEW type \in Question \cup {"Slice"}, NEW alts \in Nat \ {0}, Matches(s, k, alts),
         NEW r \in Choose(ch, type, alts)
  PROVE  r.branch = k + 1 /\ Reply(r.schedule, k, alts, r.index) /\ Grows(s, k, r.schedule, r.branch)
<1>1. CASE k < Len(s)
  <2>1. r = [schedule |-> s, branch |-> k + 1, index |-> s[k + 1].index]
    BY <1>1 DEF Choose
  <2>2. r.schedule = s /\ r.branch = k + 1 /\ r.index = s[k + 1].index
    BY <2>1
  <2>3. k + 1 \in DOMAIN s
    BY <1>1
  <2>4. Reply(s, k, alts, s[k + 1].index)
    BY <2>3 DEF Matches, Reply
  <2>5. Grows(s, k, s, k + 1)
    BY <1>1 DEF Grows, Same
  <2>6. QED
    BY <2>2, <2>4, <2>5
<1>2. CASE ~(k < Len(s))
  <2>1. PICK i \in 0 .. alts - 1 :
          r = [schedule |-> Append(s, [type |-> type, alts |-> alts, index |-> i]), branch |-> k + 1, index |-> i]
    BY <1>2 DEF Choose
  <2>2. PICK e : e = [type |-> type, alts |-> alts, index |-> i]
    OBVIOUS
  <2>3. PICK z : z = Append(s, e)
    OBVIOUS
  <2>4. r.schedule = z /\ r.branch = k + 1 /\ r.index = i /\ k = Len(s)
    BY <1>2, <2>1, <2>2, <2>3
  <2>5. e \in Entry /\ e.alts = alts /\ e.index = i
    BY <2>1, <2>2 DEF Entry
  <2>6. /\ z \in Seq(Entry) /\ Len(z) = k + 1 /\ k + 1 \in DOMAIN z /\ z[k + 1] = e
        /\ \A j \in 1 .. k : j \in DOMAIN s /\ j \in DOMAIN z /\ s[j] = z[j]
    BY <2>3, <2>4, <2>5
  <2>7. Reply(z, k, alts, i)
    BY <2>5, <2>6 DEF Reply
  <2>8. Grows(s, k, z, k + 1)
    BY <2>4, <2>6 DEF Grows, Same
  <2>9. QED
    BY <2>4, <2>7, <2>8
<1>3. QED
  BY <1>1, <1>2

(* ... for a thread of a queue *)
LEMMA PickReplies ==
  ASSUME NEW p \in Programs, NEW S \in SUBSET DOMAIN p.code, S # {},
         NEW s \in Seq(Entry), NEW k \in Nat, k <= Len(s), NEW ch, ch.schedule = s, ch.branch = k,
         ch = [schedule |-> s, branch |-> k, index |-> ch.index],
         NEW type \in Question, Cardinality(S) # 1 => Matches(s, k, Cardinality(S)),
         NEW r \in Pick(ch, S, type)
  PROVE  Drawn(r.schedule, k, S, Nth(S, r.index), r.branch) /\ Grows(s, k, r.schedule, r.branch)
<1>1. IsFiniteSet(S) /\ Cardinality(S) \in Nat
  BY DrawnIn
<1>2. CASE Cardinality(S) = 1
  <2>1. r = [ch EXCEPT !.index = 0]
    BY <1>2 DEF Pick
  <2>2. r.schedule = s /\ r.branch = k /\ r.index = 0
    BY <2>1
  <2>3. QED
    BY <1>2, <2>2, GrowsNot DEF Drawn
<1>3. CASE Cardinality(S) # 1
  <2>1. PICK n : n = Cardinality(S)
    OBVIOUS
  <2>2. n \in Nat \ {0} /\ Matches(s, k, n) /\ r \in Choose(ch, type, n)
    BY <1>1, <1>3, <2>1, FS_EmptySet DEF Pick
  <2>3. r.branch = k + 1 /\ Reply(r.schedule, k, n, r.index) /\ Grows(s, k, r.schedule, r.branch)
    BY <2>2, ChooseReplies
  <2>4. r.index \in 0 .. n - 1
    BY <2>3 DEF Reply
  <2>5. QED
    BY <1>3, <2>1, <2>3, <2>4 DEF Drawn
<1>4. QED
  BY <1>2, <1>3

-----------------------------------------------------------------------------
(* No thread is ever suspended: the depth-first scheduler does not, the random one only if asked to. *)
Unsuspended(q) == q.kind = "dfs" \/ ~q.lock_free

(* A simulation under Explore or under the Recorder is in state a. *)
Simulating(p, q, a) ==
  /\ mode \in {"explore", "record"}
  /\ prog = p /\ par = q /\ p \in Programs /\ q \in Params /\ Unsuspended(q) /\ held = {} /\ marked = {}
  /\ Here(a) /\ Placed(p, a) /\ Logged(a)
  /\ schedule \in Seq(Entry) /\ branch <= Len(schedule) /\ Sound(p, q, schedule, a)
  /\ mode = "record" => decisions = a.log

(* It goes on to state b. *)
GoesTo(p, q, a, b) ==
  /\ Here(b)' /\ Follows(p, q, schedule', a, b) /\ Grows(schedule, branch, schedule', branch')
  /\ UNCHANGED <<question, loop, held, marked>>
  /\ mode = "record" => decisions' = b.log
  /\ mode = "explore" => decisions' = decisions

(* There is a record of every state. *)
LEMMA SnapshotNext == ASSUME NEW l PROVE \E b : Here(b)' /\ b.log = l
<1>1. PICK b : b = Snapshot(l)'
  OBVIOUS
<1>2. b.log = l /\ Here(b)'
  BY <1>1 DEF Snapshot, Here
<1>3. QED
  BY <1>2

(* ... and of this one *)
LEMMA SnapshotHere == ASSUME NEW l PROVE \E b : Here(b) /\ b.log = l
<1>1. PICK b : b = Snapshot(l)
  OBVIOUS
<1>2. b.log = l /\ Here(b)
  BY <1>1 DEF Snapshot, Here
<1>3. QED
  BY <1>2

(* The conditions of the model are those of the state. *)
LEMMA HereMeans ==
  ASSUME NEW p, NEW q, NEW a, Here(a), prog = p, par = q
  PROVE  /\ OutOfSteps <=> OutOfStepsAt(q, a)
         /\ Forced <=> ForcedAt(q, a)
         /\ NoPreemptsLeft <=> SpentAt(q, a)
         /\ running = None /\ IsIdle <=> IdleAt(a)
         /\ Thread = DOMAIN p.code
         /\ a.running # None => /\ Exited(a.running) <=> OverAt(p, a)
                                /\ Op(a.running) = OpAt(p, a)
  BY DEF Here, OutOfSteps, OutOfStepsAt, Forced, ForcedAt, BurstOf, NoPreemptsLeft, SpentAt, IsIdle, IdleAt, Thread,
         Exited, OverAt, Op, OpAt

(* PickNext of dfs: the first question is whether the active thread goes on. *)
LEMMA FirstQuestion ==
  ASSUME NEW p, NEW q, NEW a, Simulating(p, q, a), q.kind = "dfs", running = None, ~IsIdle,
         NEW ch \in (IF active = None THEN {[Asked EXCEPT !.index = 1]} ELSE Preempts)
  PROVE  /\ ch = [schedule |-> ch.schedule, branch |-> ch.branch, index |-> ch.index]
         /\ Grows(schedule, branch, ch.schedule, ch.branch)
         /\ ch.index = 0 =>
              /\ a.active # None /\ ~ForcedAt(q, a)
              /\ IF AskedAt(q, a) THEN Reply(ch.schedule, a.branch, 2, 0) /\ ch.branch = a.branch + 1
                                  ELSE ch.branch = a.branch
         /\ ch.index # 0 => Switched(q, ch.schedule, a, ch.branch) /\ runq # {}
         /\ ch.branch \in {a.branch, a.branch + 1}
<1>1. PICK s : s = schedule
  OBVIOUS
<1>2. PICK k : k = branch
  OBVIOUS
<1>3. s \in Seq(Entry) /\ k \in Nat /\ k <= Len(s) /\ a.branch = k
  BY <1>1, <1>2 DEF Simulating, Here, Logged
<1>4. Asked = [schedule |-> s, branch |-> k, index |-> 0]
  BY <1>1, <1>2 DEF Asked
<1>5. /\ Forced <=> ForcedAt(q, a)
      /\ NoPreemptsLeft <=> SpentAt(q, a)
      /\ active = a.active /\ runq = a.runq /\ a.running = None
  BY HereMeans DEF Simulating, Here
<1>6. Grows(s, k, s, k)
  BY <1>3, GrowsNot
<1>7. CASE active = None \/ Forced
  <2>1. ch = [schedule |-> s, branch |-> k, index |-> 1]
    BY <1>4, <1>7 DEF Preempts
  <2>2. Switched(q, s, a, k)
    BY <1>3, <1>5, <1>7 DEF Switched
  <2>3. runq # {}
    BY <1>7 DEF IsIdle, Forced
  <2>4. QED
    BY <1>1, <1>2, <1>3, <1>6, <2>1, <2>2, <2>3
<1>8. CASE active # None /\ ~Forced /\ (runq = {} \/ NoPreemptsLeft)
  <2>1. ch = [schedule |-> s, branch |-> k, index |-> 0]
    BY <1>4, <1>8 DEF Preempts
  <2>2. ~AskedAt(q, a) /\ ~ForcedAt(q, a) /\ a.active # None
    BY <1>5, <1>8 DEF AskedAt
  <2>3. QED
    BY <1>1, <1>2, <1>3, <1>6, <2>1, <2>2
<1>9. CASE active # None /\ ~Forced /\ ~(runq = {} \/ NoPreemptsLeft)
  <2>1. PICK c : c = Asked
    OBVIOUS
  <2>2. c.schedule = s /\ c.branch = k /\ ch \in Choose(c, "Preempt", 2)
    BY <1>4, <1>9, <2>1 DEF Preempts
  <2>3. AskedAt(q, a)
    BY <1>5, <1>9 DEF AskedAt
  <2>4. Matches(s, k, 2)
    BY <1>1, <1>3, <1>5, <2>3 DEF Simulating, Sound
  <2>5. "Preempt" \in Question \cup {"Slice"} /\ 2 \in Nat \ {0}
    BY DEF Question
  <2>6. ch.branch = k + 1 /\ Reply(ch.schedule, k, 2, ch.index) /\ Grows(s, k, ch.schedule, ch.branch)
    BY <1>3, <2>2, <2>4, <2>5, ChooseReplies
  <2>7. ch = [schedule |-> ch.schedule, branch |-> ch.branch, index |-> ch.index]
    <3>1. \E z, n, i : ch = [schedule |-> z, branch |-> n, index |-> i]
      <4>1. CASE k < Len(s)
        BY <2>2, <4>1 DEF Choose
      <4>2. CASE ~(k < Len(s))
        BY <2>2, <4>2 DEF Choose
      <4>3. QED
        BY <4>1, <4>2
    <3>2. QED
      BY <3>1
  <2>8. ch.index \in {0, 1}
    BY <2>6 DEF Reply
  <2>9. ch.index # 0 => Switched(q, ch.schedule, a, ch.branch)
    BY <1>3, <2>3, <2>6, <2>8 DEF Switched
  <2>10. QED
    BY <1>1, <1>2, <1>3, <1>5, <1>9, <2>3, <2>6, <2>7, <2>9 DEF AskedAt
<1>10. QED
  BY <1>7, <1>8, <1>9

(* What a pick does besides *)
PickLeft(a, t, b) ==
  /\ Here(b)' /\ b.running = t /\ b.active = None /\ b.word = Append(a.word, b.running)
  /\ b.log = Append(a.log, <<"PickNext", b.running>>)
  /\ KeepsProgram(a, b) /\ KeepsFutex(a, b) /\ b.scoped = a.scoped
  /\ mode = "record" => decisions' = b.log
  /\ mode = "explore" => decisions' = decisions
  /\ b.branch = branch' /\ b.runq = runq' /\ b.preempts = preempts' /\ b.steps = steps'
  /\ b.burst = burst'

LEMMA PickLeaves ==
  ASSUME NEW p, NEW q, NEW a, Simulating(p, q, a), NEW t, Continues(t), Recorded("PickNext", t),
         UNCHANGED <<question, loop, program, parked, shared, held, scoped, marked>>
  PROVE  \E b : PickLeft(a, t, b)
<1>1. PICK b : Here(b)' /\ b.log = Append(a.log, <<"PickNext", t>>)
  BY SnapshotNext
<1>2. b.running = t /\ b.active = None /\ b.word = Append(a.word, t)
  BY <1>1 DEF Here, Continues, Simulating
<1>3. KeepsProgram(a, b) /\ KeepsFutex(a, b) /\ b.scoped = a.scoped
  BY <1>1 DEF Here, Simulating, program, KeepsProgram, KeepsFutex
<1>4. (mode = "record" => decisions' = b.log) /\ (mode = "explore" => decisions' = decisions)
  BY <1>1 DEF Recorded, Simulating
<1>5. /\ b.branch = branch' /\ b.runq = runq' /\ b.preempts = preempts' /\ b.steps = steps'
      /\ b.burst = burst'
  BY <1>1 DEF Here
<1>6. QED
  BY <1>1, <1>2, <1>3, <1>4, <1>5 DEF PickLeft

(* PickNext of dfs *)
LEMMA DfsGoes ==
  ASSUME NEW p, NEW q, NEW a, Simulating(p, q, a), running = None, ~IsIdle, PickDfs,
         UNCHANGED <<question, loop, program, parked, shared, held, scoped, marked>>
  PROVE  \E b : GoesTo(p, q, a, b)
<1>1. /\ OutOfSteps <=> OutOfStepsAt(q, a)
      /\ Forced <=> ForcedAt(q, a)
      /\ NoPreemptsLeft <=> SpentAt(q, a)
      /\ ~IdleAt(a) /\ Thread = DOMAIN p.code
  BY HereMeans DEF Simulating
<1>2. /\ a.running = None /\ active = a.active /\ runq = a.runq /\ branch = a.branch /\ steps = a.steps
      /\ preempts = a.preempts /\ burst = a.burst /\ p \in Programs /\ par = q
      /\ a.runq \in SUBSET DOMAIN p.code /\ a.branch \in Nat
  BY DEF Simulating, Here, Placed, Logged
<1>3. q.kind = "dfs" /\ ~OutOfStepsAt(q, a) /\ ~(ForcedAt(q, a) /\ SpentAt(q, a)) /\ steps' = a.steps + 1
  BY <1>1, <1>2 DEF PickDfs, Blocked
<1>4. PICK s : s = schedule
  OBVIOUS
<1>5. s \in Seq(Entry) /\ a.branch <= Len(s) /\ Sound(p, q, s, a) /\ Len(s) \in Nat
  BY <1>2, <1>4 DEF Simulating
<1>6. PICK ch \in (IF active = None THEN {[Asked EXCEPT !.index = 1]} ELSE Preempts) :
        IF ch.index = 0
        THEN /\ Continues(active) /\ Answered(ch) /\ Recorded("PickNext", active)
             /\ burst' = [burst EXCEPT ![active] = @ + 1]
             /\ UNCHANGED <<runq, preempts>>
        ELSE \E pick \in Pick(ch, runq, "PickNext") :
             LET t == Nth(runq, pick.index) IN
             /\ Continues(t) /\ Answered(pick) /\ Recorded("PickNext", t)
             /\ runq' = (runq \ {t}) \cup ({active} \ {None})
             /\ preempts' = IF active = None THEN preempts ELSE preempts + 1
             /\ burst' = [u \in Thread |-> IF u = t THEN 0 ELSE IF u = active THEN burst[u] + 1 ELSE burst[u]]
  BY DEF PickDfs
<1>7. /\ ch = [schedule |-> ch.schedule, branch |-> ch.branch, index |-> ch.index]
      /\ Grows(s, a.branch, ch.schedule, ch.branch)
      /\ ch.index = 0 =>
           /\ a.active # None /\ ~ForcedAt(q, a)
           /\ IF AskedAt(q, a) THEN Reply(ch.schedule, a.branch, 2, 0) /\ ch.branch = a.branch + 1
                               ELSE ch.branch = a.branch
      /\ ch.index # 0 => Switched(q, ch.schedule, a, ch.branch) /\ a.runq # {}
      /\ ch.branch \in {a.branch, a.branch + 1}
  BY <1>2, <1>3, <1>4, FirstQuestion
<1>8. CASE ch.index = 0
  <2>1. Continues(active) /\ Answered(ch) /\ Recorded("PickNext", active) /\ UNCHANGED <<runq, preempts>>
        /\ burst' = [burst EXCEPT ![active] = @ + 1]
    BY <1>6, <1>8
  <2>2. PICK b : PickLeft(a, a.active, b)
    <3>1. PICK t : t = active
      OBVIOUS
    <3>2. Continues(t) /\ Recorded("PickNext", t)
      BY <2>1, <3>1
    <3>3. \E b : PickLeft(a, t, b)
      BY <3>2, PickLeaves
    <3>4. QED
      BY <1>2, <3>1, <3>3
  <2>3. schedule' = ch.schedule /\ branch' = ch.branch
    BY <2>1 DEF Answered
  <2>4. GoesOn(q, schedule', a, b)
    BY <1>2, <1>7, <1>8, <2>1, <2>2, <2>3 DEF GoesOn, PickLeft
  <2>5. Picked(p, q, schedule', a, b)
    BY <1>1, <1>2, <1>3, <2>2, <2>4 DEF Picked, PicksDfs, PickLeft
  <2>6. QED
    BY <1>2, <1>4, <1>7, <2>2, <2>3, <2>5 DEF GoesTo, Follows, PickLeft
<1>9. CASE ch.index # 0
  <2>1. PICK pick \in Pick(ch, runq, "PickNext") :
             LET t == Nth(runq, pick.index) IN
             /\ Continues(t) /\ Answered(pick) /\ Recorded("PickNext", t)
             /\ runq' = (runq \ {t}) \cup ({active} \ {None})
             /\ preempts' = IF active = None THEN preempts ELSE preempts + 1
             /\ burst' = [u \in Thread |-> IF u = t THEN 0 ELSE IF u = active THEN burst[u] + 1 ELSE burst[u]]
    BY <1>6, <1>9
  <2>2. PICK t : t = Nth(runq, pick.index)
    OBVIOUS
  <2>3. PICK b : PickLeft(a, t, b)
    <3>1. Continues(t) /\ Recorded("PickNext", t)
      BY <2>1, <2>2
    <3>2. QED
      BY <3>1, PickLeaves
  <2>4. schedule' = pick.schedule /\ branch' = pick.branch
    BY <2>1 DEF Answered
  <2>5. PICK r : r = ch.schedule
    OBVIOUS
  <2>6. PICK k : k = ch.branch
    OBVIOUS
  <2>7. r \in Seq(Entry) /\ k \in Nat /\ k <= Len(r) /\ Len(r) \in Nat /\ k \in {a.branch, a.branch + 1}
    BY <1>7, <2>5, <2>6 DEF Grows
  <2>8. Cardinality(a.runq) # 1 => Matches(r, k, Cardinality(a.runq))
    <3>1. CASE r = s
      BY <1>2, <1>3, <1>5, <1>7, <1>9, <2>5, <2>6, <2>7, <3>1 DEF Sound
    <3>2. CASE k = Len(r)
      BY <2>7, <3>2 DEF Matches
    <3>3. QED
      BY <1>7, <2>5, <2>6, <3>1, <3>2 DEF Grows
  <2>9. PICK R : R = a.runq
    OBVIOUS
  <2>10. R \in SUBSET DOMAIN p.code /\ R # {} /\ "PickNext" \in Question /\ pick \in Pick(ch, R, "PickNext")
         /\ t = Nth(R, pick.index)
    BY <1>2, <1>7, <1>9, <2>1, <2>2, <2>9 DEF Question
  <2>11. Drawn(pick.schedule, k, R, t, pick.branch) /\ Grows(r, k, pick.schedule, pick.branch)
    BY <1>2, <1>7, <2>5, <2>6, <2>7, <2>8, <2>9, <2>10, PickReplies
  <2>12. Grows(s, a.branch, pick.schedule, pick.branch)
    BY <1>2, <1>5, <1>7, <2>5, <2>6, <2>11, GrowsTwice
  <2>13. Switched(q, pick.schedule, a, k)
    <3>1. Switched(q, r, a, k)
      BY <1>7, <1>9, <2>5, <2>6
    <3>2. ASSUME NEW i, Reply(r, a.branch, 2, i), k = a.branch + 1 PROVE Reply(pick.schedule, a.branch, 2, i)
      <4>1. Same(r, pick.schedule, Len(r))
        BY <2>11 DEF Grows
      <4>2. QED
        BY <1>2, <2>7, <3>2, <4>1, ReplySame
    <3>3. QED
      BY <3>1, <3>2 DEF Switched
  <2>14. GivesWay(p, q, schedule', a, b)
    BY <1>1, <1>2, <2>1, <2>2, <2>3, <2>4, <2>7, <2>9, <2>11, <2>13 DEF GivesWay, PickLeft
  <2>15. Picked(p, q, schedule', a, b)
    BY <1>1, <1>2, <1>3, <2>3, <2>14 DEF Picked, PicksDfs, PickLeft
  <2>16. QED
    BY <1>2, <1>4, <2>3, <2>4, <2>12, <2>15 DEF GoesTo, Follows, PickLeft
<1>10. QED
  BY <1>8, <1>9

(* PickNext of random *)
LEMMA RandomGoes ==
  ASSUME NEW p, NEW q, NEW a, Simulating(p, q, a), running = None, ~IsIdle, PickRandom,
         UNCHANGED <<question, loop, program, parked, shared, held, scoped, marked>>
  PROVE  \E b : GoesTo(p, q, a, b)
<1>1. ~IdleAt(a)
  BY HereMeans DEF Simulating
<1>2. /\ a.running = None /\ active = a.active /\ runq = a.runq /\ branch = a.branch /\ steps = a.steps
      /\ preempts = a.preempts /\ burst = a.burst /\ p \in Programs /\ par = q
      /\ a.runq \in SUBSET DOMAIN p.code /\ a.branch \in Nat
  BY DEF Simulating, Here, Placed, Logged
<1>3. q.kind = "random" /\ UNCHANGED <<preempts, steps, burst>>
  BY <1>2 DEF PickRandom, limits
<1>4. PICK s : s = schedule
  OBVIOUS
<1>5. s \in Seq(Entry) /\ a.branch <= Len(s) /\ Sound(p, q, s, a) /\ Len(s) \in Nat
  BY <1>2, <1>4 DEF Simulating
<1>6. Asked = [schedule |-> s, branch |-> a.branch, index |-> 0]
  BY <1>2, <1>4 DEF Asked
<1>7. CASE active # None
  <2>1. Continues(active) /\ Answered(Asked) /\ Recorded("PickNext", active) /\ UNCHANGED runq
    BY <1>7 DEF PickRandom
  <2>2. PICK t : t = active
    OBVIOUS
  <2>3. PICK b : PickLeft(a, t, b)
    BY <2>1, <2>2, PickLeaves
  <2>4. schedule' = s /\ branch' = a.branch
    BY <1>6, <2>1 DEF Answered
  <2>5. PicksRandom(q, schedule', a, b)
    BY <1>2, <1>3, <1>7, <2>1, <2>2, <2>3, <2>4 DEF PicksRandom, PickLeft, KeepsLimits
  <2>6. Picked(p, q, schedule', a, b)
    BY <1>1, <1>2, <2>3, <2>5 DEF Picked, PickLeft
  <2>7. Grows(s, a.branch, s, a.branch)
    BY <1>2, <1>5, GrowsNot
  <2>8. QED
    BY <1>2, <1>4, <2>3, <2>4, <2>6, <2>7 DEF GoesTo, Follows, PickLeft
<1>8. CASE active = None
  <2>1. PICK c : c = Asked
    OBVIOUS
  <2>2. PICK S : S = a.runq
    OBVIOUS
  <2>3. PICK n : n = Cardinality(S)
    OBVIOUS
  <2>4. PICK ch \in Choose(c, "PickNext", n) :
          LET t == Nth(S, ch.index) IN
          Continues(t) /\ Answered(ch) /\ Recorded("PickNext", t) /\ runq' = runq \ {t}
    BY <1>2, <1>8, <2>1, <2>2, <2>3 DEF PickRandom
  <2>5. n \in Nat \ {0}
    <3>1. IsFiniteSet(S) /\ n \in Nat
      BY <1>2, <2>2, <2>3, DrawnIn
    <3>2. S # {}
      BY <1>1, <1>2, <1>8, <2>2 DEF IdleAt
    <3>3. QED
      BY <2>3, <3>1, <3>2, FS_EmptySet
  <2>6. Matches(s, a.branch, n)
    BY <1>2, <1>3, <1>5, <1>8, <2>2, <2>3 DEF Sound
  <2>7. "PickNext" \in Question \cup {"Slice"} /\ c.schedule = s /\ c.branch = a.branch
    BY <1>6, <2>1 DEF Question
  <2>8. /\ ch.branch = a.branch + 1 /\ Reply(ch.schedule, a.branch, n, ch.index)
        /\ Grows(s, a.branch, ch.schedule, ch.branch)
    BY <1>2, <1>5, <2>4, <2>5, <2>6, <2>7, ChooseReplies
  <2>9. PICK t : t = Nth(S, ch.index)
    OBVIOUS
  <2>10. Continues(t) /\ Answered(ch) /\ Recorded("PickNext", t) /\ runq' = runq \ {t}
    BY <2>4, <2>9
  <2>11. PICK b : PickLeft(a, t, b)
    BY <2>10, PickLeaves
  <2>12. schedule' = ch.schedule /\ branch' = ch.branch
    BY <2>10 DEF Answered
  <2>13. ch.index \in 0 .. n - 1
    BY <2>8 DEF Reply
  <2>14. PicksRandom(q, schedule', a, b)
    BY <1>2, <1>3, <1>8, <2>2, <2>3, <2>8, <2>9, <2>10, <2>11, <2>12, <2>13 DEF PicksRandom, PickLeft, KeepsLimits
  <2>15. Picked(p, q, schedule', a, b)
    BY <1>1, <1>2, <2>11, <2>14 DEF Picked, PickLeft
  <2>16. QED
    BY <1>2, <1>4, <2>8, <2>11, <2>12, <2>15 DEF GoesTo, Follows, PickLeft
<1>9. QED
  BY <1>7, <1>8

(* The thread that runs *)
LEMMA RunningHere ==
  ASSUME NEW p, NEW q, NEW a, Simulating(p, q, a), NEW t \in Thread, running = t
  PROVE  /\ a.running = t /\ a.running \in DOMAIN p.code /\ a.running # None
         /\ Exited(t) <=> OverAt(p, a)
         /\ Op(t) = OpAt(p, a)
         /\ par = q /\ mode # "replay" /\ prog = p
<1>1. p \in Programs /\ prog = p /\ a.running = t
  BY DEF Simulating, Here
<1>2. t \in DOMAIN p.code /\ t # None
  BY <1>1, ProgramThreads DEF Thread
<1>3. QED
  BY <1>1, <1>2, HereMeans DEF Simulating

(* A step that asks nothing *)
LEMMA QuietGoes ==
  ASSUME NEW p, NEW q, NEW a, Simulating(p, q, a), NEW b, Here(b)', UNCHANGED <<question, loop, answers, held, marked>>,
         b.log = a.log, Runs(p, q, schedule, a, b)
  PROVE  GoesTo(p, q, a, b)
<1>1. Grows(schedule, branch, schedule, branch)
  <2>1. schedule \in Seq(Entry) /\ branch \in Nat /\ branch <= Len(schedule)
    BY DEF Simulating, Here, Logged
  <2>2. QED
    BY <2>1, GrowsNot
<1>2. QED
  BY <1>1 DEF GoesTo, Follows, answers, Simulating

(* CompleteSync *)
LEMMA CompleteGoes ==
  ASSUME NEW p, NEW q, NEW a, Simulating(p, q, a), NEW t \in Thread, Complete(t)
  PROVE  \E b : GoesTo(p, q, a, b)
<1>1. running = t
  BY DEF Complete
<1>2. /\ a.running = t /\ a.running \in DOMAIN p.code
      /\ Exited(t) <=> OverAt(p, a)
      /\ Op(t) = OpAt(p, a)
  BY <1>1, RunningHere
<1>3. PICK b : Here(b)' /\ b.log = a.log
  BY SnapshotNext
<1>4. Here(a)
  BY DEF Simulating
<1>5. UNCHANGED <<question, loop, answers, runq, active, held, scoped, marked, limits, word>> /\ pending' = pending \ {t}
      /\ t \in pending
  BY DEF Complete
<1>6. ~OverAt(p, a) /\ a.running \in a.pending /\ b.pending = a.pending \ {a.running} /\ b.word = a.word
  BY <1>2, <1>3, <1>4, <1>5 DEF Here, Complete, At
<1>7. KeepsQueues(a, b) /\ KeepsLimits(a, b) /\ KeepsAnswers(a, b)
  BY <1>3, <1>4, <1>5 DEF Here, KeepsQueues, KeepsLimits, KeepsAnswers, limits, answers
<1>8. \/ /\ OpAt(p, a)[1] = "load" /\ Moves(a, b) /\ b.reg = [a.reg EXCEPT ![a.running] = a.x]
         /\ b.x = a.x /\ b.running = a.running /\ KeepsFutex(a, b)
      \/ /\ OpAt(p, a)[1] = "store" /\ Moves(a, b) /\ b.x = a.reg[a.running] + OpAt(p, a)[2]
         /\ b.reg = a.reg /\ b.running = a.running /\ KeepsFutex(a, b)
      \/ /\ OpAt(p, a)[1] = "inc" /\ Moves(a, b) /\ b.x = a.x + OpAt(p, a)[2]
         /\ b.reg = a.reg /\ b.running = a.running /\ KeepsFutex(a, b)
      \/ /\ OpAt(p, a)[1] = "await" /\ a.x = OpAt(p, a)[2] /\ Moves(a, b)
         /\ b.x = a.x /\ b.reg = a.reg /\ b.running = a.running /\ KeepsFutex(a, b)
      \/ /\ OpAt(p, a)[1] = "await" /\ a.x # OpAt(p, a)[2]
         /\ b.pc = a.pc /\ b.x = a.x /\ b.reg = a.reg /\ b.running = None
         /\ b.parked = a.parked \cup {a.running} /\ b.shared = (a.shared \/ a.parked # {})
  <2> USE <1>1, <1>2, <1>3, <1>4 DEF At, Done, Here, Moves, KeepsFutex
  <2>1. CASE At(t, "load") /\ reg' = [reg EXCEPT ![t] = x] /\ Done(t) /\ UNCHANGED <<x, running, parked, shared>>
    BY <2>1
  <2>2. CASE At(t, "store") /\ x' = reg[t] + Op(t)[2] /\ Done(t) /\ UNCHANGED <<reg, running, parked, shared>>
    BY <2>2
  <2>3. CASE At(t, "inc") /\ x' = x + Op(t)[2] /\ Done(t) /\ UNCHANGED <<reg, running, parked, shared>>
    BY <2>3
  <2>4. CASE At(t, "await") /\ x = Op(t)[2] /\ Done(t) /\ UNCHANGED <<x, reg, running, parked, shared>>
    BY <2>4
  <2>5. CASE /\ At(t, "await") /\ x # Op(t)[2]
             /\ running' = None
             /\ parked' = parked \cup {t} /\ shared' = (shared \/ parked # {})
             /\ UNCHANGED <<pc, x, reg>>
    BY <2>5, Zenon
  <2>6. QED
    BY <2>1, <2>2, <2>3, <2>4, <2>5 DEF Complete
<1>9. Completes(p, a, b)
  BY <1>6, <1>7, <1>8 DEF Completes
<1>10. QED
  BY <1>2, <1>3, <1>5, <1>9, QuietGoes DEF Runs

(* A spawn, a yield, a scope, an exit *)
LEMMA PlainGoes ==
  ASSUME NEW p, NEW q, NEW a, Simulating(p, q, a), NEW t \in Thread,
         \/ Spawn(t) \/ Yield(t) \/ EnterScope(t) \/ LeaveScope(t)
         \/ Exit(t) /\ ~OutOfSteps
  PROVE  \E b : GoesTo(p, q, a, b)
<1>1. running = t
  BY DEF Spawn, Yield, EnterScope, LeaveScope, Exit, At
<1>2. /\ a.running = t /\ a.running \in DOMAIN p.code
      /\ Exited(t) <=> OverAt(p, a)
      /\ Op(t) = OpAt(p, a)
      /\ mode # "replay"
  BY <1>1, RunningHere
<1>3. PICK b : Here(b)' /\ b.log = a.log
  BY SnapshotNext
<1>4. Here(a) /\ held = {}
  BY DEF Simulating
<1> USE <1>1, <1>2, <1>3, <1>4 DEF Here, KeepsFutex, KeepsLimits, KeepsAnswers, KeepsTurn, limits, answers
<1>5. CASE Spawn(t)
  <2>1. Spawns(p, a, b)
    BY <1>5 DEF Spawn, Spawns, At, IsAt, Done, Moves
  <2>2. QED
    BY <1>5, <2>1, QuietGoes DEF Spawn, Runs
<1>6. CASE Yield(t)
  <2>1. Yields(p, a, b)
    BY <1>6 DEF Yield, Yields, At, IsAt, Done, Moves
  <2>2. QED
    BY <1>6, <2>1, QuietGoes DEF Yield, Runs
<1>7. CASE EnterScope(t)
  <2>1. Scopes(p, a, b)
    BY <1>7 DEF EnterScope, Scopes, At, IsAt, Done, Moves
  <2>2. QED
    BY <1>7, <2>1, QuietGoes DEF EnterScope, Runs
<1>8. CASE LeaveScope(t)
  <2>1. runq' = runq /\ held' = held
    BY <1>8 DEF LeaveScope
  <2>2. Scopes(p, a, b)
    BY <1>8, <2>1 DEF LeaveScope, Scopes, At, IsAt, Done, Moves
  <2>3. QED
    BY <1>8, <2>1, <2>2, QuietGoes DEF LeaveScope, Runs
<1>9. CASE Exit(t) /\ ~OutOfSteps
  <2>1. /\ ~OutOfSteps /\ running' = None /\ steps' = steps + 1 /\ Exited(t)
        /\ UNCHANGED <<question, loop, answers, program, queues, preempts, burst, word>>
    BY <1>9 DEF Exit
  <2>2. ~OutOfStepsAt(q, a)
    BY <2>1, HereMeans DEF Simulating
  <2>3. Ends(p, q, a, b)
    BY <2>1, <2>2 DEF Ends, KeepsProgram, KeepsQueues, program, queues
  <2>4. QED
    BY <2>1, <2>3, QuietGoes DEF Runs, queues
<1>10. QED
  BY <1>5, <1>6, <1>7, <1>8, <1>9

(* A step that asks: the Recorder logs the answer. *)
LEMMA LogGoes ==
  ASSUME NEW p, NEW q, NEW a, Simulating(p, q, a), NEW b, Here(b)', UNCHANGED <<question, loop, held, marked>>,
         NEW type, NEW v, Recorded(type, v), b.log = Append(a.log, <<type, v>>),
         Grows(schedule, branch, schedule', branch'), Runs(p, q, schedule', a, b)
  PROVE  GoesTo(p, q, a, b)
<1>1. (mode = "record" => decisions' = b.log) /\ (mode = "explore" => decisions' = decisions)
  BY DEF Recorded, Simulating
<1>2. QED
  BY <1>1 DEF GoesTo, Follows

(* RandomNumber *)
LEMMA ChoiceGoes ==
  ASSUME NEW p, NEW q, NEW a, Simulating(p, q, a), NEW t \in Thread, RandomChoice(t)
  PROVE  \E b : GoesTo(p, q, a, b)
<1>1. running = t
  BY DEF RandomChoice, At
<1>2. /\ a.running = t /\ a.running \in DOMAIN p.code /\ a.running # None
      /\ Exited(t) <=> OverAt(p, a)
      /\ Op(t) = OpAt(p, a)
      /\ mode # "replay" /\ par = q
  BY <1>1, RunningHere
<1>3. PICK n : n = OpAt(p, a)[2]
  OBVIOUS
<1>4. IsAt(p, a, "choice") /\ Choice(t)
  BY <1>2 DEF RandomChoice, ReplayFails, At, IsAt
<1>5. PICK i \in 0 .. n - 1 :
        /\ reg' = [reg EXCEPT ![t] = i] /\ Recorded("RandomChoice", i)
        /\ \E ch \in Choose(Asked, "RandomChoice", n) : ch.index = i /\ Answered(ch)
  BY <1>2, <1>3, <1>4 DEF Choice, Replayed
<1>6. /\ Done(t) /\ UNCHANGED <<question, loop, x, pending, running, queues, limits, word>>
  BY <1>4 DEF Choice
<1>7. PICK s : s = schedule
  OBVIOUS
<1>8. PICK c : c = Asked
  OBVIOUS
<1>9. PICK ch \in Choose(c, "RandomChoice", n) : ch.index = i /\ Answered(ch)
  BY <1>5, <1>8
<1>10. /\ s \in Seq(Entry) /\ a.branch <= Len(s) /\ Sound(p, q, s, a) /\ a.branch = branch /\ a.branch \in Nat
       /\ p \in Programs /\ Here(a) /\ Placed(p, a)
  BY <1>7 DEF Simulating, Here, Logged
<1>11. n \in Nat \ {0}
  <2>1. a.pc[a.running] \in Nat \ {0}
    BY <1>2, <1>10 DEF Placed
  <2>2. a.pc[a.running] \in DOMAIN p.code[a.running]
    BY <1>2, <1>4, <1>10, <2>1, ProgramThreads DEF IsAt, OverAt
  <2>3. p.code \in Seq(Seq(STRING \X Int))
    BY <1>10, ProgramsAssumption
  <2>4. OpAt(p, a) \in STRING \X Int
    BY <1>2, <2>2, <2>3 DEF OpAt
  <2>5. n >= 1
    BY <1>2, <1>3, <1>4, <1>10, <2>2, ProgramsAssumption DEF IsAt, OpAt
  <2>6. QED
    BY <1>3, <2>4, <2>5
<1>12. Matches(s, a.branch, n)
  BY <1>2, <1>3, <1>4, <1>10 DEF Sound, IsAt
<1>13. "RandomChoice" \in Question \cup {"Slice"} /\ c.schedule = s /\ c.branch = a.branch
  BY <1>7, <1>8, <1>10 DEF Question, Asked
<1>14. /\ ch.branch = a.branch + 1 /\ Reply(ch.schedule, a.branch, n, ch.index)
       /\ Grows(s, a.branch, ch.schedule, ch.branch)
  BY <1>9, <1>10, <1>11, <1>12, <1>13, ChooseReplies
<1>15. schedule' = ch.schedule /\ branch' = ch.branch
  BY <1>9 DEF Answered
<1>16. PICK b : Here(b)' /\ b.log = Append(a.log, <<"RandomChoice", i>>)
  BY SnapshotNext
<1>17. /\ Moves(a, b) /\ b.x = a.x /\ b.pending = a.pending /\ KeepsTurn(a, b) /\ b.branch = a.branch + 1
       /\ KeepsQueues(a, b) /\ KeepsFutex(a, b) /\ KeepsLimits(a, b)
       /\ b.reg = [a.reg EXCEPT ![a.running] = i]
  BY <1>2, <1>5, <1>6, <1>10, <1>14, <1>15, <1>16
     DEF Here, Done, Moves, KeepsTurn, KeepsQueues, KeepsFutex, KeepsLimits, queues, limits
<1>18. Rolls(p, schedule', a, b)
  BY <1>3, <1>4, <1>5, <1>9, <1>14, <1>15, <1>16, <1>17 DEF Rolls
<1>19. Runs(p, q, schedule', a, b)
  BY <1>2, <1>18 DEF Runs
<1>20. Grows(schedule, branch, schedule', branch')
  BY <1>7, <1>10, <1>14, <1>15
<1>21. QED
  BY <1>5, <1>6, <1>16, <1>19, <1>20, LogGoes DEF queues

(* _SysSync *)
LEMMA SyncGoes ==
  ASSUME NEW p, NEW q, NEW a, Simulating(p, q, a), NEW t \in Thread, Sync(t)
  PROVE  \E b : GoesTo(p, q, a, b)
<1>1. running = t
  BY DEF Sync
<1>2. /\ a.running = t /\ a.running \in DOMAIN p.code /\ a.running # None
      /\ Exited(t) <=> OverAt(p, a)
      /\ Op(t) = OpAt(p, a)
      /\ mode # "replay" /\ par = q
  BY <1>1, RunningHere
<1>3. PICK b : Here(b)' /\ b.log = a.log
  BY SnapshotNext
<1>4. PICK s : s = schedule
  OBVIOUS
<1>5. /\ s \in Seq(Entry) /\ a.branch <= Len(s) /\ Sound(p, q, s, a) /\ a.branch = branch /\ a.branch \in Nat
      /\ p \in Programs /\ Here(a) /\ Placed(p, a) /\ Unsuspended(q)
  BY <1>4 DEF Simulating, Here, Logged
<1>6. /\ ~OverAt(p, a) /\ OpAt(p, a)[1] \in Atomic /\ a.running \notin a.pending
      /\ b.pending = a.pending \cup {a.running} /\ b.running = None
      /\ b.pc = a.pc /\ b.x = a.x /\ b.reg = a.reg /\ b.word = a.word /\ b.scoped = a.scoped /\ b.log = a.log
      /\ KeepsFutex(a, b) /\ KeepsLimits(a, b)
  BY <1>1, <1>2, <1>3, <1>5 DEF Sync, Here, KeepsFutex, KeepsLimits, limits
<1>7. UNCHANGED <<question, loop, decisions, pos>>
  BY DEF Sync
<1>8. CASE q.kind = "dfs"
  <2>1. active' = t /\ UNCHANGED <<runq, held, marked, schedule, branch>>
    BY <1>2, <1>8 DEF Sync
  <2>2. Stops(p, q, schedule, a, b)
    BY <1>2, <1>3, <1>5, <1>6, <1>8, <2>1 DEF Stops, Here
  <2>3. QED
    BY <1>2, <1>3, <1>7, <2>1, <2>2, QuietGoes DEF Runs, answers
<1>9. CASE q.kind # "dfs"
  <2>1. q.kind = "random" /\ InterruptRandom(t)
    BY <1>2, <1>9 DEF Sync
  <2>2. ~ToLfSuspend(t)
    BY <1>2, <1>5, <2>1 DEF ToLfSuspend, Unsuspended
  <2>3. PICK c : c = Asked
    OBVIOUS
  <2>4. PICK ch \in Choose(c, "Slice", 2) :
          \/ ch.index = 1 /\ Answered(ch) /\ runq' = runq \cup {t} /\ UNCHANGED <<active, held, marked>>
          \/ ch.index # 1 /\ Answered(ch) /\ active' = t /\ UNCHANGED <<held, marked, runq>>
    BY <2>1, <2>2, <2>3 DEF InterruptRandom
  <2>5. Matches(s, a.branch, 2)
    BY <1>2, <1>5, <1>6, <2>1 DEF Sound
  <2>6. "Slice" \in Question \cup {"Slice"} /\ c.schedule = s /\ c.branch = a.branch /\ 2 \in Nat \ {0}
    BY <1>4, <1>5, <2>3 DEF Asked
  <2>7. /\ ch.branch = a.branch + 1 /\ Reply(ch.schedule, a.branch, 2, ch.index)
        /\ Grows(s, a.branch, ch.schedule, ch.branch)
    <3>1. PICK type : type = "Slice"
      OBVIOUS
    <3>2. type \in Question \cup {"Slice"} /\ ch \in Choose(c, type, 2)
      BY <2>4, <3>1
    <3>3. s \in Seq(Entry) /\ a.branch \in Nat /\ a.branch <= Len(s) /\ c.schedule = s /\ c.branch = a.branch
      BY <1>5, <2>6
    <3>4. QED
      BY <2>5, <2>6, <3>2, <3>3, ChooseReplies
  <2>8. ch.index \in {0, 1} /\ schedule' = ch.schedule /\ branch' = ch.branch
    BY <2>4, <2>7 DEF Answered, Reply
  <2>9. Stops(p, q, schedule', a, b)
    <3>1. CASE ch.index = 1
      BY <1>2, <1>3, <1>5, <1>6, <2>1, <2>4, <2>7, <2>8, <3>1 DEF Stops, Here
    <3>2. CASE ch.index = 0
      BY <1>2, <1>3, <1>5, <1>6, <2>1, <2>4, <2>7, <2>8, <3>2 DEF Stops, Here
    <3>3. QED
      BY <2>8, <3>1, <3>2
  <2>10. UNCHANGED <<held, marked>>
    BY <2>4
  <2>11. QED
    <3>1. Grows(schedule, branch, schedule', branch') /\ Follows(p, q, schedule', a, b)
      BY <1>2, <1>4, <1>5, <2>7, <2>8, <2>9 DEF Follows, Runs
    <3>2. (mode = "record" => decisions' = b.log) /\ (mode = "explore" => decisions' = decisions)
      BY <1>3, <1>7 DEF Simulating
    <3>3. QED
      BY <1>3, <1>7, <2>10, <3>1, <3>2 DEF GoesTo
<1>10. QED
  BY <1>8, <1>9

(* FutexWake *)
LEMMA WakeGoes ==
  ASSUME NEW p, NEW q, NEW a, Simulating(p, q, a), NEW t \in Thread, Wake(t)
  PROVE  \E b : GoesTo(p, q, a, b)
<1>1. running = t
  BY DEF Wake, At
<1>2. /\ a.running = t /\ a.running \in DOMAIN p.code /\ a.running # None
      /\ Exited(t) <=> OverAt(p, a)
      /\ Op(t) = OpAt(p, a)
      /\ mode # "replay" /\ par = q
  BY <1>1, RunningHere
<1>3. IsAt(p, a, "wake") /\ WakeOne(t)
  BY <1>2 DEF Wake, ReplayFails, At, IsAt
<1>4. PICK s : s = schedule
  OBVIOUS
<1>5. /\ s \in Seq(Entry) /\ a.branch <= Len(s) /\ Sound(p, q, s, a) /\ a.branch = branch /\ a.branch \in Nat
      /\ p \in Programs /\ Here(a) /\ Placed(p, a) /\ a.parked = parked /\ a.shared = shared
  BY <1>4 DEF Simulating, Here, Logged
<1>6. Done(t) /\ UNCHANGED <<question, loop, x, reg, pending, running, active, shared, held, scoped, marked, limits, word>>
  BY <1>3 DEF WakeOne
<1>7. ASSUME NEW b, Here(b)'
      PROVE  /\ Moves(a, b)
             /\ b.x = a.x /\ b.reg = a.reg /\ b.pending = a.pending /\ KeepsTurn(a, b)
             /\ b.active = a.active /\ b.scoped = a.scoped /\ b.shared = a.shared /\ KeepsLimits(a, b)
  BY <1>2, <1>5, <1>6, <1>7 DEF Here, Done, Moves, KeepsTurn, KeepsLimits, limits
<1>8. CASE ~shared /\ parked' = {} /\ runq' = runq \cup parked /\ UNCHANGED answers
  <2>1. PICK b : Here(b)' /\ b.log = a.log
    BY SnapshotNext
  <2>2. ~a.shared /\ b.parked = {} /\ b.runq = a.runq \cup a.parked /\ KeepsAnswers(a, b)
    BY <1>5, <1>8, <2>1 DEF Here, KeepsAnswers, answers
  <2>3. Wakes(p, schedule, a, b)
    BY <1>3, <1>7, <2>1, <2>2 DEF Wakes
  <2>4. QED
    BY <1>2, <1>6, <1>8, <2>1, <2>3, QuietGoes DEF Runs
<1>9. CASE /\ shared /\ parked = {}
           /\ Recorded("WakeOne", None) /\ UNCHANGED <<schedule, branch>>
           /\ UNCHANGED <<parked, runq>>
  <2>1. PICK b : Here(b)' /\ b.log = Append(a.log, <<"WakeOne", None>>)
    BY SnapshotNext
  <2>2. a.shared /\ a.parked = {} /\ b.parked = a.parked /\ b.runq = a.runq /\ b.branch = a.branch
    BY <1>5, <1>9, <2>1 DEF Here
  <2>3. Wakes(p, schedule', a, b)
    BY <1>3, <1>7, <2>1, <2>2 DEF Wakes
  <2>4. Grows(schedule, branch, schedule', branch')
    BY <1>4, <1>5, <1>9, GrowsNot
  <2>5. Runs(p, q, schedule', a, b)
    BY <1>2, <2>3 DEF Runs
  <2>6. QED
    BY <1>6, <1>9, <2>1, <2>4, <2>5, LogGoes
<1>10. CASE /\ shared
            /\ \E w \in parked :
                 /\ parked' = parked \ {w} /\ runq' = runq \cup {w}
                 /\ Recorded("WakeOne", w)
                 /\ \E ch \in Pick(Asked, parked, "WakeOne") : Nth(parked, ch.index) = w /\ Answered(ch)
  <2>1. PICK w \in parked :
          /\ parked' = parked \ {w} /\ runq' = runq \cup {w}
          /\ Recorded("WakeOne", w)
          /\ \E ch \in Pick(Asked, parked, "WakeOne") : Nth(parked, ch.index) = w /\ Answered(ch)
    BY <1>10
  <2>2. PICK S : S = a.parked
    OBVIOUS
  <2>3. PICK c : c = Asked
    OBVIOUS
  <2>4. PICK ch \in Pick(c, S, "WakeOne") : Nth(S, ch.index) = w /\ Answered(ch)
    BY <1>5, <2>1, <2>2, <2>3
  <2>5. S \in SUBSET DOMAIN p.code /\ S # {} /\ w \in S
    BY <1>5, <2>1, <2>2 DEF Placed
  <2>6. Cardinality(S) # 1 => Matches(s, a.branch, Cardinality(S))
    BY <1>2, <1>3, <1>5, <1>10, <2>2, <2>5 DEF Sound, IsAt
  <2>7. /\ c.schedule = s /\ c.branch = a.branch /\ c = [schedule |-> s, branch |-> a.branch, index |-> c.index]
        /\ "WakeOne" \in Question
    BY <1>4, <1>5, <2>3 DEF Asked, Question
  <2>8. Drawn(ch.schedule, a.branch, S, Nth(S, ch.index), ch.branch) /\ Grows(s, a.branch, ch.schedule, ch.branch)
    BY <1>5, <2>4, <2>5, <2>6, <2>7, PickReplies
  <2>9. schedule' = ch.schedule /\ branch' = ch.branch
    BY <2>4 DEF Answered
  <2>10. PICK b : Here(b)' /\ b.log = Append(a.log, <<"WakeOne", w>>)
    BY SnapshotNext
  <2>11. b.parked = a.parked \ {w} /\ b.runq = a.runq \cup {w} /\ b.branch = ch.branch /\ a.shared
    BY <1>5, <1>10, <2>1, <2>9, <2>10 DEF Here
  <2>12. Drawn(schedule', a.branch, a.parked, w, b.branch) /\ w \in a.parked
    BY <2>2, <2>4, <2>5, <2>8, <2>9, <2>11
  <2>13. Wakes(p, schedule', a, b)
    BY <1>3, <1>7, <2>10, <2>11, <2>12 DEF Wakes
  <2>14. Grows(schedule, branch, schedule', branch')
    BY <1>4, <1>5, <2>8, <2>9
  <2>15. Runs(p, q, schedule', a, b)
    BY <1>2, <2>13 DEF Runs
  <2>16. QED
    BY <1>6, <2>1, <2>10, <2>14, <2>15, LogGoes
<1>11. QED
  BY <1>2, <1>3, <1>8, <1>9, <1>10 DEF WakeOne, Replayed

(* AddStep finds no step left for the exit of a thread. *)
ExitIsLate == \E t \in Thread : running = t /\ Exited(t) /\ OutOfSteps

(* Every step of a simulation, unless it ends, is the one the trail goes on with. *)
LEMMA SimulationGoes ==
  ASSUME NEW p, NEW q, NEW a, Simulating(p, q, a), PickNext \/ \E t \in Thread : Step(t)
  PROVE  (ExitIsLate /\ Explored("Pruned")) \/ \E b : GoesTo(p, q, a, b)
<1>1. mode # "replay"
  BY DEF Simulating
<1>2. CASE PickNext
  <2>1. /\ running = None /\ ~IsIdle /\ (PickDfs \/ PickRandom)
        /\ UNCHANGED <<question, loop, program, parked, shared, held, scoped, marked>>
    BY <1>1, <1>2 DEF PickNext, ReplayFails, PickReplay, Replayed
  <2>2. QED
    BY <2>1, DfsGoes, RandomGoes
<1>3. CASE \E t \in Thread : Step(t)
  <2>1. PICK t \in Thread : Step(t)
    BY <1>3
  <2>2. CASE Exit(t) /\ OutOfSteps
    BY <1>1, <2>2 DEF Exit, ExitIsLate
  <2>3. CASE Exit(t) /\ ~OutOfSteps
    BY <2>3, PlainGoes
  <2>4. QED
    BY <2>1, <2>2, <2>3, SyncGoes, CompleteGoes, PlainGoes, WakeGoes, ChoiceGoes DEF Step
<1>4. QED
  BY <1>2, <1>3

-----------------------------------------------------------------------------
(* The schedule s is a way back into the simulation of old: the same answers but for the last. *)
Retraced(s, old) ==
  /\ Len(s) <= Len(old)
  /\ \A j \in 1 .. Len(s) - 1 : s[j] = old[j]
  /\ s[Len(s)].alts = old[Len(s)].alts

(* The exploration is at f[m], either at the end of its schedule or on a way back. *)
Way(p, q, s, f, n, m, old) ==
  /\ old \in Seq(Entry) /\ s \in Seq(Entry)
  /\ Trail(p, q, old, f, n) /\ m \in 1 .. n /\ f[n].branch = Len(old)
  /\ \/ m = n /\ old = s
     \/ f[m].branch < Len(s) /\ Retraced(s, old)

(* What is known of its state *)
LEMMA WayMeans ==
  ASSUME NEW p, NEW q, NEW s, NEW f, NEW n, NEW m, NEW old, Way(p, q, s, f, n, m, old)
  PROVE  /\ Placed(p, f[m]) /\ Logged(f[m]) /\ f[m].branch \in Nat /\ f[m].branch <= Len(s)
         /\ Len(s) \in Nat /\ Len(old) \in Nat /\ n \in Nat /\ m \in Nat
         /\ Same(old, s, f[m].branch)
         /\ ~(m = n /\ old = s) => m < n /\ Follows(p, q, old, f[m], f[m + 1]) /\ f[m].branch < Len(s) /\ Retraced(s, old)
<1>1. /\ Placed(p, f[m]) /\ Logged(f[m]) /\ f[m].branch \in Nat /\ n \in Nat /\ m \in Nat
      /\ Len(s) \in Nat /\ Len(old) \in Nat /\ DOMAIN s = 1 .. Len(s) /\ DOMAIN old = 1 .. Len(old)
  BY DEF Way, Trail, Logged
<1>2. CASE m = n /\ old = s
  <2>1. f[m].branch = Len(s)
    BY <1>2 DEF Way
  <2>2. QED
    BY <1>1, <1>2, <2>1 DEF Same
<1>3. CASE ~(m = n /\ old = s)
  <2>1. f[m].branch < Len(s) /\ Retraced(s, old)
    BY <1>3 DEF Way
  <2>2. Same(old, s, f[m].branch)
    BY <1>1, <2>1 DEF Same, Retraced
  <2>3. m # n
    BY <1>1, <2>1 DEF Way, Retraced
  <2>4. m < n /\ m \in 1 .. n - 1
    BY <1>1, <2>3 DEF Way
  <2>5. Follows(p, q, old, f[m], f[m + 1])
    BY <2>4 DEF Way, Trail
  <2>6. QED
    BY <1>1, <2>1, <2>2, <2>4, <2>5
<1>4. QED
  BY <1>2, <1>3

(* The schedule asks what the simulation will. *)
LEMMA WaySound ==
  ASSUME NEW p \in Programs, NEW q, NEW s, NEW f, NEW n, NEW m, NEW old, Way(p, q, s, f, n, m, old)
  PROVE  Sound(p, q, s, f[m])
<1>1. PICK a : a = f[m]
  OBVIOUS
<1>2. s \in Seq(Entry) /\ Logged(a) /\ a.branch \in Nat /\ Len(s) \in Nat /\ Len(old) \in Nat
  BY <1>1, WayMeans DEF Way
<1>3. CASE m = n /\ old = s
  <2>1. a.branch = Len(s)
    BY <1>1, <1>3 DEF Way
  <2>2. QED
    BY <1>1, <1>2, <2>1, SoundAtEnd
<1>4. CASE ~(m = n /\ old = s)
  <2>1. Follows(p, q, old, a, f[m + 1]) /\ Retraced(s, old)
    BY <1>1, <1>4, WayMeans
  <2>2. ASSUME NEW j \in DOMAIN s
        PROVE  /\ j \in DOMAIN old /\ s[j].alts = old[j].alts /\ s[j].index \in 0 .. s[j].alts - 1
               /\ s[j].index = old[j].index \/ j = Len(s)
    <3>1. s[j] \in Entry /\ j \in 1 .. Len(s)
      BY <1>2
    <3>2. s[j].index \in 0 .. s[j].alts - 1
      BY <3>1 DEF Entry
    <3>3. j \in DOMAIN old
      BY <1>2, <2>1, <3>1 DEF Retraced, Way
    <3>4. CASE j = Len(s)
      BY <2>1, <3>2, <3>3, <3>4 DEF Retraced
    <3>5. CASE j # Len(s)
      <4>1. j \in 1 .. Len(s) - 1
        BY <1>2, <3>1, <3>5
      <4>2. s[j] = old[j]
        BY <2>1, <4>1 DEF Retraced
      <4>3. QED
        BY <3>2, <3>3, <4>2
    <3>6. QED
      BY <3>4, <3>5
  <2>3. Resembles(s, old, a.branch)
    BY <2>2 DEF Resembles
  <2>4. QED
    BY <1>1, <1>2, <2>1, <2>3, SoundAgain
<1>5. QED
  BY <1>3, <1>4

(* A step of the exploration goes along the way or, at its end, makes it longer. *)
LEMMA WayGoes ==
  ASSUME NEW p \in Programs, NEW q, NEW s, NEW f, NEW n, NEW m, NEW old, Way(p, q, s, f, n, m, old),
         NEW r, NEW b, Follows(p, q, r, f[m], b), Grows(s, f[m].branch, r, b.branch)
  PROVE  \E g, i, j, z : Way(p, q, r, g, i, j, z) /\ Alike(b, g[j])
<1>1. PICK a : a = f[m]
  OBVIOUS
<1>2. /\ s \in Seq(Entry) /\ Logged(a) /\ a.branch \in Nat /\ Len(s) \in Nat /\ Len(old) \in Nat /\ m \in Nat
      /\ Same(old, s, a.branch) /\ a.branch <= Len(s)
  BY <1>1, WayMeans DEF Way
<1>3. /\ r \in Seq(Entry) /\ Len(r) \in Nat /\ Same(s, r, Len(s)) /\ b.branch \in Nat /\ a.branch <= b.branch
      /\ b.branch <= Len(r) /\ (r = s \/ b.branch = Len(r)) /\ Len(s) <= Len(r)
  BY <1>1 DEF Grows
<1>4. CASE b.branch = Len(r)
  <2>1. Same(old, r, a.branch)
    BY <1>2, <1>3 DEF Same
  <2>2. Trail(p, q, old, f, n) /\ m \in 1 .. n /\ Follows(p, q, r, f[m], b) /\ Same(old, r, f[m].branch)
    BY <1>1, <2>1 DEF Way
  <2>3. PICK g : Trail(p, q, r, g, m + 1) /\ g[m + 1] = b
    BY <2>2, TrailGrows
  <2>4. Way(p, q, r, g, m + 1, m + 1, r)
    BY <1>2, <1>3, <1>4, <2>3 DEF Way
  <2>5. Alike(b, g[m + 1])
    BY <2>3 DEF Alike, KeepsProgram, KeepsTurn, KeepsQueues, KeepsFutex, KeepsLimits, KeepsAnswers
  <2>6. QED
    BY <2>4, <2>5
<1>5. CASE b.branch # Len(r)
  <2>1. r = s /\ b.branch < Len(s)
    BY <1>3, <1>5
  <2>2. ~(m = n /\ old = s)
    BY <1>1, <1>2, <1>3, <2>1 DEF Way
  <2>3. m < n /\ Follows(p, q, old, a, f[m + 1]) /\ Retraced(s, old)
    BY <1>1, <2>2, WayMeans
  <2>4. Same(s, old, b.branch)
    <3>1. \A j \in 1 .. Len(s) - 1 : s[j] = old[j] /\ j \in 1 .. Len(s) /\ j \in 1 .. Len(old)
      BY <1>2, <2>3 DEF Retraced
    <3>2. old \in Seq(Entry) /\ DOMAIN old = 1 .. Len(old) /\ DOMAIN s = 1 .. Len(s)
      BY <1>2 DEF Way
    <3>3. \A j \in 1 .. b.branch : j \in 1 .. Len(s) - 1
      BY <1>2, <1>3, <2>1
    <3>4. QED
      BY <3>1, <3>2, <3>3 DEF Same
  <2>5. Follows(p, q, s, a, b)
    BY <1>1, <2>1
  <2>6. Follows(p, q, old, a, b)
    BY <1>2, <1>3, <2>4, <2>5, FollowsSame
  <2>7. Alike(b, f[m + 1])
    BY <1>2, <2>3, <2>6, FollowsUnique
  <2>8. f[m + 1].branch < Len(s)
    BY <2>1, <2>7 DEF Alike, KeepsAnswers
  <2>9. m + 1 \in 1 .. n
    BY <1>2, <2>3, WayMeans
  <2>10. Way(p, q, r, f, n, m + 1, old)
    BY <2>1, <2>3, <2>8, <2>9 DEF Way
  <2>11. QED
    BY <2>7, <2>10
<1>6. QED
  BY <1>4, <1>5

(* Where the simulation cannot go on, the schedule has come to its end. *)
LEMMA WayEnds ==
  ASSUME NEW p, NEW q, NEW s, NEW f, NEW n, NEW m, NEW old, Way(p, q, s, f, n, m, old),
         \A b : ~Follows(p, q, old, f[m], b)
  PROVE  m = n /\ old = s
  BY WayMeans

(* Backtrack leads back into the simulation that has ended. *)
LEMMA WayBacktracks ==
  ASSUME NEW p, NEW q, NEW s \in Seq(Branch), NEW f, NEW n, Way(p, q, s, f, n, n, s), Open(s) # {}
  PROVE  Way(p, q, Backtrack(s), f, n, 1, s)
<1>1. PICK r : r = Backtrack(s)
  OBVIOUS
<1>2. PICK k \in DOMAIN s :
        /\ DOMAIN r = 1 .. k /\ r \in Seq(Branch) /\ Len(r) = k
        /\ \A j \in 1 .. k - 1 : r[j] = s[j]
        /\ r[k].alts = s[k].alts
  BY <1>1, Backtracked
<1>3. k \in Nat \ {0} /\ k <= Len(s)
  OBVIOUS
<1>4. Branch \subseteq Entry
  BY DEF Branch, Entry
<1>5. r \in Seq(Entry)
  <2>1. \A j \in 1 .. k : r[j] \in Entry
    BY <1>2, <1>4
  <2>2. QED
    BY <1>2, <1>3, <2>1
<1>6. Retraced(r, s)
  BY <1>2, <1>3 DEF Retraced
<1>7. f[1].branch = 0 /\ n \in Nat /\ 1 \in 1 .. n
  BY DEF Way, Trail, Started
<1>8. f[1].branch < Len(r)
  BY <1>2, <1>3, <1>7
<1>9. QED
  BY <1>1, <1>5, <1>6, <1>7, <1>8 DEF Way

(* A simulation that has started *)
LEMMA WayStarts ==
  ASSUME NEW p \in Programs, NEW q, NEW a, Started(p, a)
  PROVE  \E f : f[1] = a /\ Way(p, q, <<>>, f, 1, 1, <<>>)
<1>1. PICK s : s = <<>>
  OBVIOUS
<1>2. s \in Seq(Entry) /\ Len(s) = 0
  BY <1>1
<1>3. PICK f : f[1] = a /\ Trail(p, q, s, f, 1)
  BY TrailStarts
<1>4. f[1].branch = 0
  BY <1>3 DEF Started
<1>5. QED
  BY <1>1, <1>2, <1>3, <1>4 DEF Way

-----------------------------------------------------------------------------
(* Nothing can run, and a thread is left or the program's own check fails. *)
FailedAt(p, a) == IdleAt(a) /\ ~(\A t \in DOMAIN p.code : a.pc[t] > Len(p.code[t]) /\ a.x \in p.final)

(* The states of the simulation that failed *)
Failed(p, q, s, f, n) ==
  /\ s \in Seq(Entry) /\ Trail(p, q, s, f, n) /\ f[n].branch = Len(s) /\ FailedAt(p, f[n])

(* Where nothing can run, nothing follows. *)
LEMMA IdleEnds ==
  ASSUME NEW p \in Programs, NEW q, NEW s, NEW a, IdleAt(a), NEW b PROVE ~Follows(p, q, s, a, b)
<1>1. None \notin DOMAIN p.code
  BY ProgramThreads
<1>2. QED
  BY <1>1 DEF Follows, Picked, Runs, IdleAt

(* What is known of a state of it *)
LEMMA FailedMeans ==
  ASSUME NEW p \in Programs, NEW q, NEW s, NEW f, NEW n, Failed(p, q, s, f, n), NEW m \in 1 .. n
  PROVE  /\ Placed(p, f[m]) /\ Logged(f[m]) /\ f[m].branch \in Nat /\ f[m].branch <= Len(s)
         /\ Len(s) \in Nat /\ n \in Nat /\ m \in Nat
         /\ Longer(f[m], f[n]) /\ Logged(f[n])
         /\ IdleAt(f[m]) => m = n
         /\ m # n => /\ m < n /\ Follows(p, q, s, f[m], f[m + 1]) /\ m + 1 \in 1 .. n
                     /\ Longer(f[m + 1], f[n]) /\ Logged(f[m + 1])
         /\ Sound(p, q, s, f[m])
<1>1. n \in Nat \ {0} /\ m \in Nat /\ n \in 1 .. n /\ n \in m .. n /\ s \in Seq(Entry) /\ Len(s) \in Nat
  BY DEF Failed, Trail
<1>2. Placed(p, f[m]) /\ Logged(f[m]) /\ Longer(f[m], f[n]) /\ Logged(f[n])
  BY <1>1 DEF Failed, Trail
<1>3. f[m].branch \in Nat /\ f[m].branch <= Len(s)
  BY <1>2 DEF Failed, Logged, Longer
<1>4. ASSUME m # n
      PROVE  /\ m < n /\ Follows(p, q, s, f[m], f[m + 1]) /\ m + 1 \in 1 .. n
             /\ Longer(f[m + 1], f[n]) /\ Logged(f[m + 1])
  <2>1. m < n /\ m \in 1 .. n - 1 /\ m + 1 \in 1 .. n /\ n \in m + 1 .. n
    BY <1>1, <1>4
  <2>2. QED
    BY <2>1 DEF Failed, Trail
<1>5. IdleAt(f[m]) => m = n
  BY <1>4, IdleEnds
<1>6. Sound(p, q, s, f[m])
  <2>1. PICK a : a = f[m]
    OBVIOUS
  <2>2. CASE m = n
    <3>1. a.branch = Len(s)
      BY <2>1, <2>2 DEF Failed
    <3>2. QED
      BY <1>1, <2>1, <3>1, SoundAtEnd
  <2>3. CASE m # n
    <3>1. Logged(a) /\ Follows(p, q, s, a, f[m + 1])
      BY <1>2, <1>4, <2>1, <2>3
    <3>2. \A j \in DOMAIN s : s[j] \in Entry
      BY <1>1
    <3>3. Resembles(s, s, a.branch)
      BY <3>2 DEF Resembles, Entry
    <3>4. QED
      BY <1>1, <2>1, <3>1, <3>3, SoundAgain
  <2>4. QED
    BY <2>2, <2>3
<1>7. QED
  BY <1>1, <1>2, <1>3, <1>4, <1>5, <1>6

(* The Recorder's simulation goes the same way. *)
LEMMA FailedGoes ==
  ASSUME NEW p \in Programs, NEW q, NEW s, NEW f, NEW n, Failed(p, q, s, f, n), NEW m \in 1 .. n,
         NEW r, NEW b, Follows(p, q, r, f[m], b), Grows(s, f[m].branch, r, b.branch)
  PROVE  r = s /\ m + 1 \in 1 .. n /\ Alike(b, f[m + 1])
<1>1. PICK a : a = f[m]
  OBVIOUS
<1>2. /\ s \in Seq(Entry) /\ Len(s) \in Nat /\ a.branch \in Nat /\ Logged(a) /\ a.branch <= Len(s)
  BY <1>1, FailedMeans DEF Failed
<1>3. m # n
  <2>1. SUFFICES ASSUME m = n PROVE FALSE
    OBVIOUS
  <2>2. IdleAt(a)
    BY <1>1, <2>1 DEF Failed, FailedAt
  <2>3. ~Follows(p, q, r, a, b)
    BY <2>2, IdleEnds
  <2>4. QED
    BY <1>1, <2>3
<1>4. PICK c : c = f[m + 1]
  OBVIOUS
<1>5. Follows(p, q, s, a, c) /\ m + 1 \in 1 .. n
  BY <1>1, <1>3, <1>4, FailedMeans
<1>6. c.branch \in Nat /\ c.branch <= Len(s)
  BY <1>4, <1>5, FailedMeans
<1>7. r \in Seq(Entry) /\ Len(r) \in Nat /\ Same(s, r, Len(s)) /\ Len(s) <= Len(r) /\ (r = s \/ b.branch = Len(r))
  BY DEF Grows
<1>8. Same(s, r, c.branch)
  BY <1>2, <1>6, <1>7 DEF Same
<1>9. Follows(p, q, r, a, c)
  BY <1>2, <1>5, <1>6, <1>8, FollowsSame
<1>10. Follows(p, q, r, a, b)
  BY <1>1
<1>11. Alike(b, c)
  BY <1>2, <1>9, <1>10, FollowsUnique
<1>12. b.branch = c.branch
  BY <1>11 DEF Alike, KeepsAnswers
<1>13. r = s
  <2>1. SUFFICES ASSUME b.branch = Len(r) PROVE r = s
    BY <1>7
  <2>2. Len(r) = Len(s)
    BY <1>2, <1>6, <1>7, <1>12, <2>1
  <2>3. \A j \in 1 .. Len(s) : r[j] = s[j]
    BY <1>7 DEF Same
  <2>4. QED
    BY <1>2, <1>7, <2>2, <2>3, SeqEqual
<1>14. QED
  BY <1>4, <1>5, <1>11, <1>13

-----------------------------------------------------------------------------
(* Under the ReplayScheduler the active thread is in the run queue, like the others. *)
There(a) ==
  /\ pc = a.pc /\ x = a.x /\ reg = a.reg /\ pending = a.pending
  /\ running = a.running /\ word = a.word
  /\ runq = a.runq \cup ({a.active} \ {None}) /\ active = None
  /\ parked = a.parked /\ shared = a.shared /\ scoped = a.scoped

(* Explore: the simulation follows a trail, at the end of its schedule or on a way back. *)
Tracing == \E f, n, m, old : Way(prog, par, schedule, f, n, m, old) /\ Here(f[m])

(* Record: it is in a state of the simulation that failed, and the Recorder has the log of that state, *)
Recording ==
  \E f, n, m :
    /\ Failed(prog, par, schedule, f, n) /\ m \in 1 .. n /\ bug = <<f[n].word, f[n].x>>
    /\ Here(f[m]) /\ decisions = f[m].log

(* ... or the ReplayScheduler has read it. *)
Replaying ==
  \E s, f, n, m :
    /\ Failed(prog, par, s, f, n) /\ m \in 1 .. n /\ bug = <<f[n].word, f[n].x>>
    /\ There(f[m]) /\ decisions = f[n].log /\ pos = Len(f[m].log)

RepeatInv ==
  Unsuspended(par) =>
    /\ mode # "panic"
    /\ mode # "done" => held = {} /\ marked = {}
    /\ mode = "explore" => decisions = <<>> /\ Tracing
    /\ mode = "record" => Recording
    /\ mode = "replay" => Replaying

(* A simulation is started. *)
LEMMA StartHere ==
  ASSUME NEW p, prog = p, NEW a, Started(p, a), NEW s, StartWith(s)
  PROVE  Here(a)' /\ There(a)' /\ held' = {} /\ marked' = {} /\ pos' = 0 /\ schedule' = s
  BY DEF StartWith, Started, Here, There, Thread

(* States that differ in nothing are the same. *)
LEMMA AlikeHere == ASSUME NEW b, NEW c, Here(b)', Alike(b, c) PROVE Here(c)'
  BY DEF Here, Alike, KeepsProgram, KeepsTurn, KeepsQueues, KeepsFutex, KeepsLimits, KeepsAnswers

(* The end of a simulation: nothing can run, or dfs prunes it. *)
AtEnd == (running = None /\ (IsIdle \/ OutOfSteps \/ Blocked)) \/ ExitIsLate

(* There the trail does not go on. *)
LEMMA EndsHere ==
  ASSUME NEW p \in Programs, NEW q, NEW a, prog = p, par = q, Here(a), AtEnd
  PROVE  \A z, b : ~Follows(p, q, z, a, b)
<1>1. /\ OutOfSteps <=> OutOfStepsAt(q, a)
      /\ Forced <=> ForcedAt(q, a)
      /\ NoPreemptsLeft <=> SpentAt(q, a)
      /\ running = None /\ IsIdle <=> IdleAt(a)
      /\ Thread = DOMAIN p.code
      /\ a.running # None => (Exited(a.running) <=> OverAt(p, a))
      /\ running = a.running
  BY HereMeans DEF Here
<1>2. None \notin DOMAIN p.code
  BY ProgramThreads
<1>3. CASE running = None /\ IsIdle
  BY <1>1, <1>3, IdleEnds
<1>4. CASE running = None /\ (OutOfSteps \/ Blocked)
  <2>1. q.kind = "dfs" /\ (OutOfStepsAt(q, a) \/ (ForcedAt(q, a) /\ SpentAt(q, a)))
    BY <1>1, <1>4 DEF OutOfSteps, Blocked
  <2>2. QED
    BY <1>1, <1>2, <1>4, <2>1 DEF Follows, Picked, PicksDfs, PicksRandom, Runs
<1>5. CASE ExitIsLate
  <2>1. a.running \in DOMAIN p.code /\ OverAt(p, a) /\ OutOfStepsAt(q, a) /\ a.running # None
    BY <1>1, <1>2, <1>5 DEF ExitIsLate
  <2>2. QED
    BY <2>1 DEF Follows, Picked, Runs, Stops, Completes, Spawns, Yields, Wakes, Rolls, Scopes, Ends, IsAt
<1>6. QED
  BY <1>3, <1>4, <1>5 DEF AtEnd

(* Explore after a simulation: its trail is the one of the next schedule, or of the failure. *)
LEMMA ExploredRepeats ==
  ASSUME BranchInv, Unsuspended(par), held = {}, marked = {}, decisions = <<>>,
         NEW p \in Programs, NEW q, prog = p, par = q, NEW s, s = schedule,
         NEW f, NEW n, Way(p, q, s, f, n, n, s), Here(f[n]),
         NEW status, Explored(status), status = "Failure" => FailedAt(p, f[n])
  PROVE  RepeatInv'
<1>1. UNCHANGED question /\ prog' = p /\ par' = q /\ mode = "explore"
  BY DEF Explored, question
<1>2. Trail(p, q, s, f, n) /\ Started(p, f[1]) /\ n \in Nat \ {0} /\ 1 \in 1 .. n /\ s \in Seq(Entry) /\ f[n].branch = Len(s)
  BY DEF Way, Trail
<1>3. PICK a : a = f[1]
  OBVIOUS
<1>4. CASE status = "Failure"
  <2>1. mode' = "record" /\ bug' = <<word, x>> /\ StartWith(s) /\ decisions' = <<>>
    BY <1>4 DEF Explored
  <2>2. Here(a)' /\ held' = {} /\ marked' = {} /\ schedule' = s
    BY <1>2, <1>3, <2>1, StartHere
  <2>3. Failed(p, q, s, f, n)
    BY <1>2, <1>4 DEF Failed
  <2>4. bug' = <<f[n].word, f[n].x>>
    BY <2>1 DEF Here
  <2>5. decisions' = f[1].log
    BY <1>2, <2>1 DEF Started
  <2>6. Recording'
    <3>1. Failed(p, q, s, f, n) /\ 1 \in 1 .. n /\ bug' = <<f[n].word, f[n].x>> /\ Here(f[1])' /\ decisions' = f[1].log
      BY <1>2, <1>3, <2>2, <2>3, <2>4, <2>5
    <3>2. QED
      BY <1>1, <2>2, <3>1 DEF Recording
  <2>7. QED
    BY <2>1, <2>2, <2>6 DEF RepeatInv
<1>5. CASE status # "Failure" /\ HasNext(count + 1)
  <2>1. mode' = mode /\ StartWith(NextSchedule) /\ decisions' = <<>>
    BY <1>5 DEF Explored
  <2>2. PICK z : z = NextSchedule
    OBVIOUS
  <2>3. Here(a)' /\ held' = {} /\ marked' = {} /\ schedule' = z
    BY <1>2, <1>3, <2>1, <2>2, StartHere
  <2>4. CASE q.kind = "dfs"
    <3>1. s \in Seq(Branch)
      BY <1>1, <2>4 DEF BranchInv, Searches, Searched
    <3>2. Open(s) # {} /\ z = Backtrack(s)
      BY <1>5, <2>2, <2>4 DEF HasNext, NextSchedule
    <3>3. Way(p, q, z, f, n, 1, s)
      BY <3>1, <3>2, WayBacktracks
    <3>4. Tracing'
      BY <1>1, <1>3, <2>3, <3>3 DEF Tracing
    <3>5. QED
      BY <1>1, <2>1, <2>3, <3>4 DEF RepeatInv
  <2>5. CASE q.kind # "dfs"
    <3>1. z = <<>>
      BY <2>2, <2>5 DEF NextSchedule
    <3>2. PICK g : g[1] = a /\ Way(p, q, <<>>, g, 1, 1, <<>>)
      BY <1>2, <1>3, WayStarts
    <3>3. Tracing'
      BY <1>1, <2>3, <3>1, <3>2 DEF Tracing
    <3>4. QED
      BY <1>1, <2>1, <2>3, <3>3 DEF RepeatInv
  <2>6. QED
    BY <2>4, <2>5
<1>6. CASE status # "Failure" /\ ~HasNext(count + 1)
  <2>1. mode' = "done"
    BY <1>6 DEF Explored
  <2>2. QED
    BY <2>1 DEF RepeatInv
<1>7. QED
  BY <1>4, <1>5, <1>6

(* A step under Explore *)
LEMMA ExploringStep ==
  ASSUME BranchInv, RepeatInv, Unsuspended(par), mode = "explore", Next
  PROVE  RepeatInv'
<1>1. held = {} /\ marked = {} /\ decisions = <<>> /\ Tracing
  BY DEF RepeatInv
<1>2. PICK p : p = prog
  OBVIOUS
<1>3. PICK q : q = par
  OBVIOUS
<1>4. PICK s : s = schedule
  OBVIOUS
<1>5. PICK f, n, m, old : Way(p, q, s, f, n, m, old) /\ Here(f[m])
  BY <1>1, <1>2, <1>3, <1>4 DEF Tracing
<1>6. PICK a : a = f[m]
  OBVIOUS
<1>7. p \in Programs /\ q \in Params
  BY <1>2, <1>3 DEF BranchInv, SimulationTypes
<1>8. /\ Here(a) /\ Placed(p, a) /\ Logged(a) /\ a.branch <= Len(s) /\ s \in Seq(Entry) /\ a.branch = branch
      /\ Sound(p, q, s, a)
  BY <1>5, <1>6, <1>7, WayMeans, WaySound DEF Way, Here
<1>9. Simulating(p, q, a)
  BY <1>1, <1>2, <1>3, <1>4, <1>7, <1>8 DEF Simulating
<1>10. ASSUME AtEnd, NEW status, Explored(status), status = "Failure" => FailedAt(p, a)
       PROVE  RepeatInv'
  <2>1. \A z, b : ~Follows(p, q, z, a, b)
    BY <1>2, <1>3, <1>7, <1>8, <1>10, EndsHere
  <2>2. m = n /\ old = s
    BY <1>5, <1>6, <2>1, WayEnds
  <2>3. Way(p, q, s, f, n, n, s) /\ Here(f[n]) /\ (status = "Failure" => FailedAt(p, f[n]))
    BY <1>5, <1>6, <1>10, <2>2
  <2>4. QED
    BY <1>1, <1>2, <1>3, <1>4, <1>7, <1>10, <2>3, ExploredRepeats
<1>11. ASSUME NEW b, GoesTo(p, q, a, b) PROVE RepeatInv'
  <2>1. PICK r : r = schedule'
    OBVIOUS
  <2>2. /\ Here(b)' /\ Follows(p, q, r, f[m], b) /\ Grows(s, f[m].branch, r, b.branch)
        /\ prog' = p /\ par' = q /\ mode' = mode /\ held' = held /\ marked' = marked /\ decisions' = decisions
    BY <1>2, <1>3, <1>4, <1>6, <1>8, <1>11, <2>1 DEF GoesTo, Here, question, loop
  <2>3. PICK g, i, j, z : Way(p, q, r, g, i, j, z) /\ Alike(b, g[j])
    BY <1>5, <1>7, <2>2, WayGoes
  <2>4. Here(g[j])'
    BY <2>2, <2>3, AlikeHere
  <2>5. Tracing'
    BY <2>1, <2>2, <2>3, <2>4 DEF Tracing
  <2>6. QED
    BY <1>1, <2>2, <2>5 DEF RepeatInv
<1>12. CASE PickNext \/ \E t \in Thread : Step(t)
  <2>1. (ExitIsLate /\ Explored("Pruned")) \/ \E b : GoesTo(p, q, a, b)
    BY <1>9, <1>12, SimulationGoes
  <2>2. CASE ExitIsLate /\ Explored("Pruned")
    BY <1>10, <2>2 DEF AtEnd
  <2>3. QED
    BY <1>11, <2>1, <2>2
<1>13. CASE Prune
  BY <1>10, <1>13 DEF Prune, AtEnd
<1>14. CASE Finish
  <2>1. PICK status : status = Status
    OBVIOUS
  <2>2. Explored(status) /\ running = None /\ IsIdle
    BY <1>14, <2>1 DEF Finish, Repeated
  <2>3. status = "Failure" => FailedAt(p, a)
    BY <1>2, <1>8, <2>1, <2>2 DEF Status, FailedAt, IdleAt, IsIdle, Here, Exited, Thread
  <2>4. QED
    BY <1>10, <2>2, <2>3 DEF AtEnd
<1>15. QED
  BY <1>12, <1>13, <1>14 DEF Next, Terminating

(* A step under the Recorder *)
LEMMA RecordingStep ==
  ASSUME BranchInv, RepeatInv, Unsuspended(par), mode = "record", Next
  PROVE  RepeatInv'
<1>1. held = {} /\ marked = {} /\ Recording
  BY DEF RepeatInv
<1>2. PICK p : p = prog
  OBVIOUS
<1>3. PICK q : q = par
  OBVIOUS
<1>4. PICK s : s = schedule
  OBVIOUS
<1>5. PICK f, n, m : /\ Failed(p, q, s, f, n) /\ m \in 1 .. n /\ bug = <<f[n].word, f[n].x>>
                     /\ Here(f[m]) /\ decisions = f[m].log
  BY <1>1, <1>2, <1>3, <1>4 DEF Recording
<1>6. PICK a : a = f[m]
  OBVIOUS
<1>7. p \in Programs /\ q \in Params
  BY <1>2, <1>3 DEF BranchInv, SimulationTypes
<1>8. /\ Here(a) /\ Placed(p, a) /\ Logged(a) /\ a.branch <= Len(s) /\ s \in Seq(Entry) /\ a.branch = branch
      /\ Sound(p, q, s, a) /\ decisions = a.log
  BY <1>5, <1>6, <1>7, FailedMeans DEF Failed, Here
<1>9. Simulating(p, q, a)
  BY <1>1, <1>2, <1>3, <1>4, <1>7, <1>8 DEF Simulating
<1>10. ~Explored("Pruned")
  BY DEF Explored
<1>11. CASE PickNext \/ \E t \in Thread : Step(t)
  <2>1. PICK b : GoesTo(p, q, a, b)
    BY <1>9, <1>10, <1>11, SimulationGoes
  <2>2. PICK r : r = schedule'
    OBVIOUS
  <2>3. /\ Here(b)' /\ Follows(p, q, r, f[m], b) /\ Grows(s, f[m].branch, r, b.branch)
        /\ prog' = p /\ par' = q /\ mode' = mode /\ bug' = bug /\ held' = held /\ marked' = marked
        /\ decisions' = b.log
    BY <1>2, <1>3, <1>4, <1>6, <1>8, <2>1, <2>2 DEF GoesTo, Here, question, loop
  <2>4. r = s /\ m + 1 \in 1 .. n /\ Alike(b, f[m + 1])
    BY <1>5, <1>7, <2>3, FailedGoes
  <2>5. Here(f[m + 1])' /\ decisions' = f[m + 1].log
    BY <2>3, <2>4, AlikeHere DEF Alike, KeepsAnswers
  <2>6. Recording'
    BY <1>5, <2>2, <2>3, <2>4, <2>5 DEF Recording
  <2>7. QED
    BY <1>1, <2>3, <2>6 DEF RepeatInv
<1>12. CASE Finish
  <2>1. PICK status : status = Status
    OBVIOUS
  <2>2. Repeated(status) /\ running = None /\ IsIdle
    BY <1>12, <2>1 DEF Finish, Explored
  <2>3. IdleAt(a)
    BY <1>8, <2>2 DEF IdleAt, IsIdle, Here
  <2>4. m = n
    BY <1>5, <1>6, <1>7, <2>3, FailedMeans
  <2>5. FailedAt(p, a) /\ bug = <<word, x>>
    BY <1>5, <1>6, <1>8, <2>4 DEF Failed, Here
  <2>6. status = "Failure"
    BY <1>2, <1>8, <2>1, <2>5 DEF Status, FailedAt, Here, Exited, Thread
  <2>7. mode' = "replay" /\ StartWith(s) /\ UNCHANGED <<question, count, seen, bug, decisions>>
    BY <1>4, <2>2, <2>5, <2>6 DEF Repeated
  <2>8. Started(p, f[1]) /\ 1 \in 1 .. n
    BY <1>5 DEF Failed, Trail
  <2>9. There(f[1])' /\ held' = {} /\ marked' = {} /\ pos' = 0
    BY <1>2, <2>7, <2>8, StartHere
  <2>10. pos' = Len(f[1].log) /\ decisions' = f[n].log
    BY <1>5, <2>4, <2>7, <2>8, <2>9 DEF Started
  <2>11. Replaying'
    BY <1>2, <1>3, <1>5, <2>7, <2>8, <2>9, <2>10 DEF Replaying, question
  <2>12. QED
    BY <2>7, <2>9, <2>11 DEF RepeatInv
<1>13. QED
  BY <1>11, <1>12 DEF Next, Terminating, Prune, Explored

-----------------------------------------------------------------------------
(* The ReplayScheduler is at state m of the simulation that failed. *)
ReplayAt(p, q, s, f, n, m) ==
  /\ mode = "replay" /\ held = {} /\ p \in Programs /\ prog = p /\ par = q
  /\ Failed(p, q, s, f, n) /\ m \in 1 .. n
  /\ There(f[m]) /\ decisions = f[n].log /\ pos = Len(f[m].log)

(* A step takes it to state b. *)
Repeats(b) == There(b)' /\ pos' = Len(b.log) /\ UNCHANGED <<question, loop, decisions, held, marked>>

(* The next entry of the log is d, *)
NextIs(f, n, m, d) ==
  /\ Len(f[m].log) \in Nat /\ Len(f[m].log) < Len(f[n].log)
  /\ f[n].log[Len(f[m].log) + 1] = d
  /\ Len(f[m + 1].log) = Len(f[m].log) + 1

(* ... the decision of the next state. *)
LEMMA NextEntry ==
  ASSUME NEW p \in Programs, NEW q, NEW s, NEW f, NEW n, Failed(p, q, s, f, n), NEW m \in 1 .. n, m # n,
         NEW d, f[m + 1].log = Append(f[m].log, d)
  PROVE  NextIs(f, n, m, d)
<1>1. PICK a : a = f[m].log
  OBVIOUS
<1>2. PICK b : b = f[m + 1].log
  OBVIOUS
<1>3. PICK c : c = f[n].log
  OBVIOUS
<1>4. /\ a \in Seq(Decision) /\ b \in Seq(Decision) /\ c \in Seq(Decision)
      /\ Len(b) <= Len(c) /\ \A i \in 1 .. Len(b) : b[i] = c[i]
  <2>1. Logged(f[m]) /\ Logged(f[n]) /\ Logged(f[m + 1]) /\ Longer(f[m + 1], f[n])
    BY FailedMeans
  <2>2. QED
    BY <1>1, <1>2, <1>3, <2>1 DEF Logged, Longer
<1>5. b = Append(a, d)
  BY <1>1, <1>2
<1>6. Len(b) = Len(a) + 1 /\ b[Len(a) + 1] = d /\ Len(a) \in Nat /\ Len(c) \in Nat /\ Len(a) + 1 \in 1 .. Len(b)
  <2>1. Len(a) \in Nat /\ Len(c) \in Nat
    BY <1>4
  <2>2. Len(b) = Len(a) + 1
    BY <1>4, <1>5
  <2>3. b[Len(a) + 1] = d
    BY <1>4, <1>5
  <2>4. QED
    BY <2>1, <2>2, <2>3
<1>7. c[Len(a) + 1] = d /\ Len(a) < Len(c)
  BY <1>4, <1>6
<1>8. QED
  BY <1>1, <1>2, <1>3, <1>6, <1>7 DEF NextIs

(* PickNext: the thread of the log is in the run queue. *)
LEMMA PickReplays ==
  ASSUME NEW p, NEW q, NEW s, NEW f, NEW n, NEW m, ReplayAt(p, q, s, f, n, m), PickNext
  PROVE  m + 1 \in 1 .. n /\ Repeats(f[m + 1])
<1>1. PICK a : a = f[m]
  OBVIOUS
<1>2. PICK b : b = f[m + 1]
  OBVIOUS
<1>3. p \in Programs /\ Failed(p, q, s, f, n) /\ m \in 1 .. n /\ There(a) /\ mode = "replay" /\ decisions = f[n].log
      /\ pos = Len(a.log)
  BY <1>1 DEF ReplayAt
<1>4. running = None /\ ~IsIdle
  BY DEF PickNext
<1>5. m # n
  <2>1. SUFFICES ASSUME m = n PROVE FALSE
    OBVIOUS
  <2>2. IdleAt(a)
    BY <1>1, <1>3, <2>1 DEF Failed, FailedAt
  <2>3. IsIdle
    BY <1>3, <2>2 DEF IdleAt, There, IsIdle
  <2>4. QED
    BY <1>4, <2>3
<1>6. Follows(p, q, s, a, b) /\ m + 1 \in 1 .. n /\ Placed(p, a) /\ Logged(a)
  BY <1>1, <1>2, <1>3, <1>5, FailedMeans
<1>7. None \notin DOMAIN p.code
  BY <1>3, ProgramThreads
<1>8. Picked(p, q, s, a, b)
  BY <1>3, <1>4, <1>6, <1>7 DEF Follows, Runs, There
<1>9. PICK t : t = b.running
  OBVIOUS
<1>10. /\ t \in DOMAIN p.code
       /\ \/ t = a.active /\ b.runq = a.runq
          \/ t \in a.runq /\ b.runq = (a.runq \ {t}) \cup ({a.active} \ {None})
  BY <1>3, <1>6, <1>8, <1>9, PickedThread
<1>11. t \in runq /\ b.runq = runq \ {t}
  BY <1>3, <1>6, <1>7, <1>10 DEF There, Placed
<1>12. b.log = Append(a.log, <<"PickNext", t>>)
  BY <1>8, <1>9 DEF Picked
<1>13. /\ pos \in Nat /\ pos < Len(decisions) /\ decisions[pos + 1] = <<"PickNext", t>>
       /\ Len(b.log) = pos + 1
  <2>1. PICK d : d = <<"PickNext", t>>
    OBVIOUS
  <2>2. f[m + 1].log = Append(f[m].log, d)
    BY <1>1, <1>2, <1>3, <1>5, <1>12, <2>1
  <2>3. p \in Programs /\ Failed(p, q, s, f, n) /\ m \in 1 .. n /\ m # n
    BY <1>3, <1>5
  <2>4. NextIs(f, n, m, d)
    BY <2>2, <2>3, NextEntry, Zenon
  <2>5. QED
    BY <1>1, <1>2, <1>3, <1>5, <1>12, <2>1, <2>4 DEF NextIs
<1>14. ~ReplayFails("PickNext", runq)
  BY <1>11, <1>13 DEF ReplayFails
<1>15. PickReplay /\ UNCHANGED <<question, loop, program, parked, shared, held, scoped, marked>>
  BY <1>3, <1>14 DEF PickNext
<1>16. PICK u \in runq : Continues(u) /\ Replayed("PickNext", u) /\ runq' = runq \ {u}
  BY <1>15 DEF PickReplay
<1>17. u = t
  BY <1>13, <1>16 DEF Replayed
<1>18. /\ running' = t /\ active' = None /\ word' = Append(word, t) /\ runq' = b.runq
       /\ pos' = pos + 1 /\ decisions' = decisions
  BY <1>11, <1>16, <1>17 DEF Continues, Replayed
<1>19. There(b)'
  BY <1>3, <1>8, <1>9, <1>15, <1>18 DEF There, Picked, KeepsProgram, KeepsFutex, program
<1>20. QED
  BY <1>2, <1>6, <1>13, <1>15, <1>18, <1>19 DEF Repeats

(* The thread that runs is the one that ran. *)
LEMMA ThreadThere ==
  ASSUME NEW p, NEW q, NEW s, NEW f, NEW n, NEW m, ReplayAt(p, q, s, f, n, m), NEW t \in Thread, running = t,
         NEW a, a = f[m], NEW b, b = f[m + 1]
  PROVE  /\ m # n /\ m + 1 \in 1 .. n /\ Runs(p, q, s, a, b)
         /\ a.running = t /\ t \in DOMAIN p.code /\ t # None /\ b.running \in {t, None}
         /\ There(a) /\ runq = a.runq /\ a.active = None /\ Placed(p, a) /\ Logged(a)
         /\ Exited(t) <=> OverAt(p, a)
         /\ Op(t) = OpAt(p, a)
         /\ mode = "replay" /\ held = {}
<1>1. p \in Programs /\ Failed(p, q, s, f, n) /\ m \in 1 .. n /\ There(a) /\ mode = "replay" /\ held = {} /\ prog = p
  BY DEF ReplayAt
<1>2. a.running = t /\ t \in DOMAIN p.code /\ t # None
  BY <1>1, ProgramThreads DEF There, Thread
<1>3. m # n
  BY <1>1, <1>2 DEF Failed, FailedAt, IdleAt
<1>4. Follows(p, q, s, a, b) /\ m + 1 \in 1 .. n /\ Placed(p, a) /\ Logged(a)
  BY <1>1, <1>3, FailedMeans
<1>5. Runs(p, q, s, a, b)
  BY <1>2, <1>4 DEF Follows, Picked
<1>6. a.active = None
  BY <1>2, <1>4 DEF Placed
<1>7. runq = a.runq
  BY <1>1, <1>6 DEF There
<1>8. (Exited(t) <=> OverAt(p, a)) /\ Op(t) = OpAt(p, a)
  BY <1>1, <1>2 DEF Exited, OverAt, Op, OpAt, There
<1>9. b.running \in {t, None}
  BY <1>2, <1>5 DEF Runs, Stops, Completes, Spawns, Yields, Wakes, Rolls, Scopes, Ends, KeepsTurn
<1>10. QED
  BY <1>1, <1>2, <1>3, <1>4, <1>5, <1>6, <1>7, <1>8, <1>9

(* A step without a decision *)
LEMMA QuietReplays ==
  ASSUME NEW p, NEW q, NEW s, NEW f, NEW n, NEW m, ReplayAt(p, q, s, f, n, m), NEW t \in Thread, running = t,
         \/ Sync(t) \/ Complete(t) \/ Spawn(t) \/ Yield(t) \/ EnterScope(t) \/ LeaveScope(t) \/ Exit(t)
  PROVE  m + 1 \in 1 .. n /\ Repeats(f[m + 1])
<1>1. PICK a : a = f[m]
  OBVIOUS
<1>2. PICK b : b = f[m + 1]
  OBVIOUS
<1>3. /\ m # n /\ m + 1 \in 1 .. n /\ Runs(p, q, s, a, b)
      /\ a.running = t /\ t \in DOMAIN p.code /\ t # None
      /\ There(a) /\ runq = a.runq /\ a.active = None /\ Placed(p, a) /\ Logged(a)
      /\ Exited(t) <=> OverAt(p, a)
      /\ Op(t) = OpAt(p, a)
      /\ mode = "replay" /\ held = {}
  BY <1>1, <1>2, ThreadThere
<1>4. pos = Len(a.log)
  BY <1>1 DEF ReplayAt
<1> USE DEF Moves, KeepsProgram, KeepsTurn, KeepsQueues, KeepsFutex, KeepsLimits, KeepsAnswers, There
<1>5. CASE Sync(t)
  <2>1. Stops(p, q, s, a, b)
    BY <1>3, <1>5 DEF Sync, Runs, Stops, Completes, Spawns, Yields, Wakes, Rolls, Scopes, Ends, IsAt, Atomic
  <2>2. /\ runq' = runq \cup {t} /\ active' = active /\ pending' = pending \cup {t} /\ running' = None
        /\ UNCHANGED <<question, loop, decisions, pos, pc, x, reg, parked, shared, scoped, word, held, marked>>
    BY <1>3, <1>5 DEF Sync
  <2>3. runq' = b.runq \cup ({b.active} \ {None})
    BY <1>3, <2>1, <2>2 DEF Stops
  <2>4. There(b)' /\ pos' = Len(b.log)
    BY <1>3, <1>4, <2>1, <2>2, <2>3 DEF Stops
  <2>5. QED
    BY <1>2, <1>3, <2>2, <2>4 DEF Repeats
<1>6. CASE Complete(t)
  <2>1. Completes(p, a, b)
    BY <1>3, <1>6 DEF Complete, At, Runs, Stops, Completes, Spawns, Yields, Wakes, Rolls, Scopes, Ends, IsAt
  <2>2. /\ UNCHANGED <<question, loop, answers, runq, active, held, scoped, marked, word>> /\ pending' = pending \ {t}
    BY <1>6 DEF Complete
  <2>3. pc' = b.pc /\ x' = b.x /\ reg' = b.reg /\ running' = b.running /\ parked' = b.parked
    <3>1. CASE OpAt(p, a)[1] = "load"
      BY <1>3, <1>6, <2>1, <3>1 DEF Complete, Completes, At, Done
    <3>2. CASE OpAt(p, a)[1] = "store"
      BY <1>3, <1>6, <2>1, <3>2 DEF Complete, Completes, At, Done
    <3>3. CASE OpAt(p, a)[1] = "inc"
      BY <1>3, <1>6, <2>1, <3>3 DEF Complete, Completes, At, Done
    <3>4. CASE OpAt(p, a)[1] = "await"
      BY <1>3, <1>6, <2>1, <3>4 DEF Complete, Completes, At, Done
    <3>5. QED
      BY <2>1, <3>1, <3>2, <3>3, <3>4 DEF Completes
  <2>4. shared' = b.shared
    <3>1. CASE OpAt(p, a)[1] = "await" /\ a.x # OpAt(p, a)[2]
      <4>1. b.shared = (a.shared \/ a.parked # {})
        BY <2>1, <3>1 DEF Completes
      <4>2. shared' = (shared \/ parked # {})
        BY <1>3, <1>6, <3>1 DEF Complete, At
      <4>3. QED
        BY <1>3, <4>1, <4>2
    <3>2. CASE ~(OpAt(p, a)[1] = "await" /\ a.x # OpAt(p, a)[2])
      BY <1>3, <1>6, <2>1, <3>2 DEF Complete, Completes, At
    <3>3. QED
      BY <3>1, <3>2
  <2>5. There(b)' /\ pos' = Len(b.log)
    BY <1>3, <1>4, <2>1, <2>2, <2>3, <2>4 DEF Completes, answers
  <2>6. QED
    BY <1>2, <1>3, <2>2, <2>5 DEF Repeats, answers
<1>7. CASE Spawn(t)
  <2>1. Spawns(p, a, b)
    BY <1>3, <1>7 DEF Spawn, At, Runs, Stops, Completes, Spawns, Yields, Wakes, Rolls, Scopes, Ends, IsAt, Atomic
  <2>2. There(b)' /\ pos' = Len(b.log)
    BY <1>3, <1>4, <1>7, <2>1 DEF Spawn, Spawns, At, Done, answers
  <2>3. QED
    BY <1>2, <1>3, <1>7, <2>2 DEF Repeats, Spawn, answers
<1>8. CASE Yield(t)
  <2>1. Yields(p, a, b)
    BY <1>3, <1>8 DEF Yield, At, Runs, Stops, Completes, Spawns, Yields, Wakes, Rolls, Scopes, Ends, IsAt, Atomic
  <2>2. There(b)' /\ pos' = Len(b.log)
    BY <1>3, <1>4, <1>8, <2>1 DEF Yield, Yields, At, Done, answers
  <2>3. QED
    BY <1>2, <1>3, <1>8, <2>2 DEF Repeats, Yield, answers
<1>9. CASE EnterScope(t)
  <2>1. Scopes(p, a, b)
    BY <1>3, <1>9 DEF EnterScope, At, Runs, Stops, Completes, Spawns, Yields, Wakes, Rolls, Scopes, Ends, IsAt, Atomic
  <2>2. There(b)' /\ pos' = Len(b.log)
    BY <1>3, <1>4, <1>9, <2>1 DEF EnterScope, Scopes, At, IsAt, Done, answers
  <2>3. QED
    BY <1>2, <1>3, <1>9, <2>2 DEF Repeats, EnterScope, answers
<1>10. CASE LeaveScope(t)
  <2>1. Scopes(p, a, b)
    BY <1>3, <1>10 DEF LeaveScope, At, Runs, Stops, Completes, Spawns, Yields, Wakes, Rolls, Scopes, Ends, IsAt, Atomic
  <2>2. runq' = runq /\ held' = held
    BY <1>3, <1>10 DEF LeaveScope
  <2>3. There(b)' /\ pos' = Len(b.log)
    BY <1>3, <1>4, <1>10, <2>1, <2>2 DEF LeaveScope, Scopes, At, IsAt, Done, answers
  <2>4. QED
    BY <1>2, <1>3, <1>10, <2>2, <2>3 DEF Repeats, LeaveScope, answers
<1>11. CASE Exit(t)
  <2>1. Ends(p, q, a, b)
    BY <1>3, <1>11 DEF Exit, Runs, Stops, Completes, Spawns, Yields, Wakes, Rolls, Scopes, Ends, IsAt
  <2>2. running' = None /\ UNCHANGED <<question, loop, answers, program, queues, preempts, burst, word>>
    BY <1>3, <1>11 DEF Exit, Explored
  <2>3. There(b)' /\ pos' = Len(b.log)
    BY <1>3, <1>4, <2>1, <2>2 DEF Ends, answers, program, queues
  <2>4. QED
    BY <1>2, <1>3, <2>2, <2>3 DEF Repeats, answers, queues
<1>12. QED
  BY <1>5, <1>6, <1>7, <1>8, <1>9, <1>10, <1>11

(* RandomNumber: the number of the log *)
LEMMA ChoiceReplays ==
  ASSUME NEW p, NEW q, NEW s, NEW f, NEW n, NEW m, ReplayAt(p, q, s, f, n, m), NEW t \in Thread, running = t,
         RandomChoice(t)
  PROVE  m + 1 \in 1 .. n /\ Repeats(f[m + 1])
<1>1. PICK a : a = f[m]
  OBVIOUS
<1>2. PICK b : b = f[m + 1]
  OBVIOUS
<1>3. /\ m # n /\ m + 1 \in 1 .. n /\ Runs(p, q, s, a, b)
      /\ a.running = t /\ t \in DOMAIN p.code /\ t # None
      /\ There(a) /\ runq = a.runq /\ a.active = None /\ Placed(p, a) /\ Logged(a)
      /\ Exited(t) <=> OverAt(p, a)
      /\ Op(t) = OpAt(p, a)
      /\ mode = "replay" /\ held = {}
  BY <1>1, <1>2, ThreadThere
<1>4. p \in Programs /\ Failed(p, q, s, f, n) /\ m \in 1 .. n /\ decisions = f[n].log /\ pos = Len(a.log)
  BY <1>1 DEF ReplayAt
<1>5. IsAt(p, a, "choice")
  BY <1>3 DEF RandomChoice, At, IsAt
<1>6. Rolls(p, s, a, b)
  BY <1>3, <1>5 DEF Runs, Stops, Completes, Spawns, Yields, Wakes, Rolls, Scopes, Ends, IsAt, Atomic
<1>7. PICK i \in 0 .. OpAt(p, a)[2] - 1 :
        b.reg = [a.reg EXCEPT ![a.running] = i] /\ b.log = Append(a.log, <<"RandomChoice", i>>)
  BY <1>6 DEF Rolls
<1>8. /\ pos \in Nat /\ pos < Len(decisions) /\ decisions[pos + 1] = <<"RandomChoice", i>>
      /\ Len(b.log) = pos + 1
  <2>1. PICK d : d = <<"RandomChoice", i>>
    OBVIOUS
  <2>2. f[m + 1].log = Append(f[m].log, d)
    BY <1>1, <1>2, <1>3, <1>4, <1>7, <2>1
  <2>3. p \in Programs /\ Failed(p, q, s, f, n) /\ m \in 1 .. n /\ m # n
    BY <1>3, <1>4
  <2>4. NextIs(f, n, m, d)
    BY <2>2, <2>3, NextEntry, Zenon
  <2>5. QED
    BY <1>1, <1>2, <1>3, <1>4, <1>7, <2>1, <2>4 DEF NextIs
<1>9. ~ReplayFails("RandomChoice", 0 .. Op(t)[2] - 1)
  BY <1>3, <1>7, <1>8 DEF ReplayFails
<1>10. Choice(t)
  BY <1>9 DEF RandomChoice
<1>11. PICK j \in 0 .. Op(t)[2] - 1 : reg' = [reg EXCEPT ![t] = j] /\ Replayed("RandomChoice", j)
  BY <1>3, <1>10 DEF Choice, Recorded
<1>12. i = j
  BY <1>8, <1>11 DEF Replayed
<1>13. /\ pos' = pos + 1 /\ decisions' = decisions /\ Done(t) /\ reg' = [reg EXCEPT ![t] = i]
       /\ UNCHANGED <<question, loop, x, pending, running, queues, limits, word>>
  BY <1>10, <1>11, <1>12 DEF Choice, Replayed
<1>14. There(b)'
  BY <1>3, <1>6, <1>7, <1>13 DEF There, Rolls, Moves, Done, KeepsTurn, KeepsQueues, KeepsFutex, queues
<1>15. QED
  BY <1>2, <1>3, <1>8, <1>13, <1>14 DEF Repeats, queues

(* FutexWake: the waiter of the log, if the futex has a queue of the scheduler *)
LEMMA WakeReplays ==
  ASSUME NEW p, NEW q, NEW s, NEW f, NEW n, NEW m, ReplayAt(p, q, s, f, n, m), NEW t \in Thread, running = t,
         Wake(t)
  PROVE  m + 1 \in 1 .. n /\ Repeats(f[m + 1])
<1>1. PICK a : a = f[m]
  OBVIOUS
<1>2. PICK b : b = f[m + 1]
  OBVIOUS
<1>3. /\ m # n /\ m + 1 \in 1 .. n /\ Runs(p, q, s, a, b)
      /\ a.running = t /\ t \in DOMAIN p.code /\ t # None
      /\ There(a) /\ runq = a.runq /\ a.active = None /\ Placed(p, a) /\ Logged(a)
      /\ Exited(t) <=> OverAt(p, a)
      /\ Op(t) = OpAt(p, a)
      /\ mode = "replay" /\ held = {}
  BY <1>1, <1>2, ThreadThere
<1>4. p \in Programs /\ Failed(p, q, s, f, n) /\ m \in 1 .. n /\ decisions = f[n].log /\ pos = Len(a.log)
  BY <1>1 DEF ReplayAt
<1>5. IsAt(p, a, "wake") /\ parked = a.parked /\ shared = a.shared
  BY <1>3 DEF Wake, At, IsAt, There
<1>6. Wakes(p, s, a, b)
  BY <1>3, <1>5 DEF Runs, Stops, Completes, Spawns, Yields, Wakes, Rolls, Scopes, Ends, IsAt, Atomic
<1>7. ASSUME WakeOne(t), decisions' = decisions, pos' = Len(b.log), parked' = b.parked, runq' = b.runq
      PROVE  Repeats(b)
  <2>1. /\ Done(t)
        /\ UNCHANGED <<question, loop, x, reg, pending, running, active, shared, held, scoped, marked, limits, word>>
    BY <1>7 DEF WakeOne
  <2>2. There(b)'
    BY <1>3, <1>6, <1>7, <2>1 DEF There, Wakes, Moves, Done, KeepsTurn
  <2>3. QED
    BY <1>7, <2>1, <2>2 DEF Repeats
<1>8. CASE ~a.shared
  <2>1. WakeOne(t)
    BY <1>5, <1>8 DEF Wake
  <2>2. parked' = {} /\ runq' = runq \cup parked /\ UNCHANGED answers
    BY <1>5, <1>8, <2>1 DEF WakeOne
  <2>3. b.parked = {} /\ b.runq = a.runq \cup a.parked /\ b.log = a.log
    BY <1>6, <1>8 DEF Wakes, KeepsAnswers
  <2>4. Repeats(b)
    BY <1>3, <1>4, <1>5, <1>7, <2>1, <2>2, <2>3 DEF answers
  <2>5. QED
    BY <1>2, <1>3, <2>4
<1>9. CASE a.shared /\ a.parked = {}
  <2>1. b.parked = a.parked /\ b.runq = a.runq /\ b.log = Append(a.log, <<"WakeOne", None>>)
    BY <1>6, <1>9 DEF Wakes
  <2>2. /\ pos \in Nat /\ pos < Len(decisions) /\ decisions[pos + 1] = <<"WakeOne", None>>
        /\ Len(b.log) = pos + 1
    <3>1. PICK d : d = <<"WakeOne", None>>
      OBVIOUS
    <3>2. f[m + 1].log = Append(f[m].log, d)
      BY <1>1, <1>2, <1>3, <1>4, <2>1, <3>1
    <3>3. p \in Programs /\ Failed(p, q, s, f, n) /\ m \in 1 .. n /\ m # n
      BY <1>3, <1>4
    <3>4. NextIs(f, n, m, d)
      BY <3>2, <3>3, NextEntry, Zenon
    <3>5. QED
      BY <1>1, <1>2, <1>3, <1>4, <2>1, <3>1, <3>4 DEF NextIs
  <2>3. ~ReplayFails("WakeOne", parked \cup {None})
    BY <2>2 DEF ReplayFails
  <2>4. WakeOne(t)
    BY <2>3 DEF Wake
  <2>5. Replayed("WakeOne", None) /\ UNCHANGED <<parked, runq>>
    BY <1>3, <1>5, <1>9, <2>4 DEF WakeOne, Recorded
  <2>6. Repeats(b)
    BY <1>3, <1>5, <1>7, <2>1, <2>2, <2>4, <2>5 DEF Replayed
  <2>7. QED
    BY <1>2, <1>3, <2>6
<1>10. CASE a.shared /\ a.parked # {}
  <2>1. PICK w \in a.parked :
          b.parked = a.parked \ {w} /\ b.runq = a.runq \cup {w} /\ b.log = Append(a.log, <<"WakeOne", w>>)
    BY <1>6, <1>10 DEF Wakes
  <2>2. /\ pos \in Nat /\ pos < Len(decisions) /\ decisions[pos + 1] = <<"WakeOne", w>>
        /\ Len(b.log) = pos + 1
    <3>1. PICK d : d = <<"WakeOne", w>>
      OBVIOUS
    <3>2. f[m + 1].log = Append(f[m].log, d)
      BY <1>1, <1>2, <1>3, <1>4, <2>1, <3>1
    <3>3. p \in Programs /\ Failed(p, q, s, f, n) /\ m \in 1 .. n /\ m # n
      BY <1>3, <1>4
    <3>4. NextIs(f, n, m, d)
      BY <3>2, <3>3, NextEntry, Zenon
    <3>5. QED
      BY <1>1, <1>2, <1>3, <1>4, <2>1, <3>1, <3>4 DEF NextIs
  <2>3. ~ReplayFails("WakeOne", parked \cup {None})
    BY <1>5, <2>1, <2>2 DEF ReplayFails
  <2>4. WakeOne(t)
    BY <2>3 DEF Wake
  <2>5. PICK v \in parked : parked' = parked \ {v} /\ runq' = runq \cup {v} /\ Replayed("WakeOne", v)
    BY <1>3, <1>5, <1>10, <2>4 DEF WakeOne, Recorded
  <2>6. v = w
    BY <2>2, <2>5 DEF Replayed
  <2>7. Repeats(b)
    BY <1>3, <1>5, <1>7, <2>1, <2>2, <2>4, <2>5, <2>6 DEF Replayed
  <2>8. QED
    BY <1>2, <1>3, <2>7
<1>11. QED
  BY <1>8, <1>9, <1>10

(* A step under the ReplayScheduler *)
LEMMA ReplayingStep ==
  ASSUME BranchInv, RepeatInv, Unsuspended(par), mode = "replay", Next
  PROVE  RepeatInv'
<1>1. held = {} /\ marked = {} /\ Replaying
  BY DEF RepeatInv
<1>2. PICK p : p = prog
  OBVIOUS
<1>3. PICK q : q = par
  OBVIOUS
<1>4. PICK s, f, n, m :
        /\ Failed(p, q, s, f, n) /\ m \in 1 .. n /\ bug = <<f[n].word, f[n].x>>
        /\ There(f[m]) /\ decisions = f[n].log /\ pos = Len(f[m].log)
  BY <1>1, <1>2, <1>3 DEF Replaying
<1>5. p \in Programs
  BY <1>2 DEF BranchInv, SimulationTypes
<1>6. ReplayAt(p, q, s, f, n, m)
  BY <1>1, <1>2, <1>3, <1>4, <1>5 DEF ReplayAt
<1>7. CASE PickNext \/ \E t \in Thread : Step(t)
  <2>1. m + 1 \in 1 .. n /\ Repeats(f[m + 1])
    <3>1. CASE PickNext
      BY <1>6, <3>1, PickReplays
    <3>2. CASE \E t \in Thread : Step(t)
      <4>1. PICK t \in Thread : Step(t)
        BY <3>2
      <4>2. running = t
        BY <4>1 DEF Step, Sync, Complete, Spawn, Yield, Wake, RandomChoice, EnterScope, LeaveScope, Exit, At
      <4>3. QED
        BY <1>6, <4>1, <4>2, QuietReplays, ChoiceReplays, WakeReplays DEF Step
    <3>3. QED
      BY <1>7, <3>1, <3>2
  <2>2. /\ There(f[m + 1])' /\ pos' = Len(f[m + 1].log) /\ decisions' = f[n].log /\ bug' = bug /\ mode' = mode
        /\ prog' = p /\ par' = q /\ held' = held /\ marked' = marked
    BY <1>2, <1>3, <1>4, <2>1 DEF Repeats, question, loop
  <2>3. Replaying'
    BY <1>4, <2>1, <2>2 DEF Replaying
  <2>4. QED
    BY <1>1, <2>2, <2>3 DEF RepeatInv
<1>8. CASE Finish
  <2>1. PICK status : status = Status
    OBVIOUS
  <2>2. Repeated(status) /\ running = None /\ IsIdle
    BY <1>8, <2>1 DEF Finish, Explored
  <2>3. PICK a : a = f[m]
    OBVIOUS
  <2>4. IdleAt(a)
    <3>1. a.running = None /\ a.runq = {} /\ ({a.active} \ {None}) = {}
      BY <1>4, <2>2, <2>3 DEF IsIdle, There
    <3>2. QED
      BY <3>1 DEF IdleAt
  <2>5. m = n
    BY <1>4, <1>5, <2>3, <2>4, FailedMeans
  <2>6. FailedAt(p, a) /\ bug = <<word, x>> /\ There(a)
    BY <1>4, <2>3, <2>5 DEF Failed, There
  <2>7. status = "Failure"
    BY <1>2, <2>1, <2>6 DEF Status, FailedAt, There, Exited, Thread
  <2>8. mode' = "done"
    BY <2>2, <2>6, <2>7 DEF Repeated
  <2>9. QED
    BY <2>8 DEF RepeatInv
<1>9. QED
  BY <1>7, <1>8 DEF Next, Terminating, Prune, Explored

(* At the start *)
LEMMA RepeatInit == ASSUME Init PROVE RepeatInv
<1>1. PICK p : p = prog
  OBVIOUS
<1>2. PICK q : q = par
  OBVIOUS
<1>3. PICK a : Here(a) /\ a.log = <<>>
  BY SnapshotHere
<1>4. Started(p, a) /\ p \in Programs
  BY <1>1, <1>3 DEF Init, Here, Started, Thread
<1>5. PICK f : f[1] = a /\ Way(p, q, <<>>, f, 1, 1, <<>>)
  BY <1>4, WayStarts
<1>6. Tracing
  BY <1>1, <1>2, <1>3, <1>5 DEF Init, Tracing
<1>7. QED
  BY <1>6 DEF Init, RepeatInv

(* Every step *)
LEMMA RepeatStep == ASSUME BranchInv, RepeatInv, [Next]_vars PROVE RepeatInv'
<1>1. CASE UNCHANGED vars
  BY <1>1 DEF vars, question, loop, answers, program, queues, limits, RepeatInv, Tracing, Recording, Replaying, Here, There
<1>2. CASE Next
  <2>1. par' = par
    BY <1>2 DEF Next, PickNext, Panic, Prune, Finish, Explored, Repeated, Step, Sync, Complete, Spawn, Yield, Wake,
       WakeOne, RandomChoice, Choice, EnterScope, LeaveScope, Exit, Terminating, vars, question
  <2>2. CASE ~Unsuspended(par)
    BY <2>1, <2>2 DEF RepeatInv
  <2>3. CASE Unsuspended(par) /\ mode \in {"explore", "record", "replay"}
    BY <1>2, <2>3, ExploringStep, RecordingStep, ReplayingStep
  <2>4. CASE Unsuspended(par) /\ mode \notin {"explore", "record", "replay"}
    <3>1. Terminating
      BY <1>2, <2>4 DEF Next, PickNext, Prune, Finish, Explored, Repeated, Step, Sync, Complete, Spawn, Yield, Wake,
         RandomChoice, EnterScope, LeaveScope, Exit, At, Going
    <3>2. mode = "done" /\ mode' = "done"
      BY <2>4, <3>1 DEF RepeatInv, Terminating, vars, loop
    <3>3. QED
      BY <3>2 DEF RepeatInv
  <2>5. QED
    BY <2>2, <2>3, <2>4
<1>3. QED
  BY <1>1, <1>2

(* Explore and Record: a simulation is where a schedule made for it, or the log of the one that failed,
   has led it. *)
THEOREM RepetitionInvariant == Spec => [](BranchInv /\ RepeatInv)
<1>1. Init => BranchInv /\ RepeatInv
  BY BranchInit, RepeatInit
<1>2. BranchInv /\ RepeatInv /\ [Next]_vars => BranchInv' /\ RepeatInv'
  BY BranchStep, RepeatStep
<1>3. QED
  BY <1>1, <1>2, PTL DEF Spec

(* Record: for every program, and with either scheduler as long as it does not suspend lock-free threads,
   a failed simulation is repeated by the Recorder and by the ReplayScheduler without a failed WHEELS_VERIFY:
   every entry of the log is of the type that is asked for and names a thread that is there, none is left out,
   and the digest of both repetitions is that of the failure. *)
THEOREM FailuresRepeat == Spec => [](Unsuspended(par) => FailuresAreReplayed)
<1>1. RepeatInv => (Unsuspended(par) => FailuresAreReplayed)
  BY DEF RepeatInv, FailuresAreReplayed
<1>2. QED
  BY <1>1, RepetitionInvariant, PTL
=============================================================================
