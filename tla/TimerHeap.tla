------------------------------ MODULE TimerHeap ------------------------------
(***************************************************************************)
(* The timer queue of the simulator: class TimerQueue on top of TimerHeap, *)
(* a binary heap in an array with 1-based indices whose timers know their  *)
(* position (Timer::meta.loc), so that a timer can be cancelled.           *)
(*                                                                         *)
(* Timers are named by the id TimerQueue::Add gives them.  The time at     *)
(* which Poll is called is abstracted: a poll at a late enough time takes  *)
(* the timer on top.  A timer lives on the stack of the thread that waits  *)
(* for it: once it is out of the queue its fields, and the array slot left *)
(* behind the end of the heap, are forgotten.                              *)
(***************************************************************************)
EXTENDS Integers

CONSTANTS
  MaxAdds,   \* bound on the number of timers armed in a run
  MaxSize,   \* bound on the number of timers armed at the same time
  Instant,   \* deadlines
  None       \* a null pointer

TimerHeapConstants ==
  /\ MaxAdds \in Nat
  /\ MaxSize \in 1 .. 254   \* kTimerLimit = 256 and size_ + 1 < kTimerLimit
  /\ Instant \subseteq Nat

VARIABLES
  heap,     \* tree_, size_, and meta.loc of every timer
  when,     \* Timer::when
  next_id,  \* TimerQueue::next_id_
  polled    \* what the last operation returned, if it was a Poll

vars == <<heap, when, next_id, polled>>

Timer == 1 .. MaxAdds
Index == 1 .. MaxSize

Parent(i) == i \div 2
LeftChild(i) == 2 * i
RightChild(i) == 2 * i + 1
IsLeaf(h, i) == 2 * i > h.size

(* The order of the heap, under the deadlines w. *)
Less(w, s, t) == w[s] < w[t] \/ (w[s] = w[t] /\ s < t)

UpdateTimerMetadata(h, i) == [h EXCEPT !.loc[h.tree[i]] = i]

Swap(h, i, j) ==
  [h EXCEPT !.tree = [@ EXCEPT ![i] = h.tree[j], ![j] = h.tree[i]]]

(* Only the index the walk leaves is updated after a swap; the last one at the end. *)
Moved(h, i, j) == UpdateTimerMetadata(Swap(h, i, j), i)

RECURSIVE SiftUp(_, _, _)
SiftUp(h, w, i) ==
  IF i # 1 /\ Less(w, h.tree[i], h.tree[Parent(i)])
    THEN SiftUp(Moved(h, i, Parent(i)), w, Parent(i))
    ELSE UpdateTimerMetadata(h, i)

(* The smallest of a node and its children. *)
MinChild_LeftOnly(h, w, i) ==
  IF Less(w, h.tree[LeftChild(i)], h.tree[i]) THEN LeftChild(i) ELSE i

MinChild(h, w, i) ==
  CHOOSE m \in {i, LeftChild(i), RightChild(i)} :
    /\ m <= h.size
    /\ \A c \in {i, LeftChild(i), RightChild(i)} :
         c <= h.size /\ c # m => Less(w, h.tree[m], h.tree[c])

RECURSIVE SiftDown(_, _, _)
SiftDown(h, w, i) ==
  IF ~IsLeaf(h, i) /\ MinChild(h, w, i) # i
    THEN SiftDown(Moved(h, i, MinChild(h, w, i)), w, MinChild(h, w, i))
    ELSE UpdateTimerMetadata(h, i)

(* TimerHeap::Insert *)
HeapInsert(h, w, t) ==
  SiftUp([h EXCEPT !.size = @ + 1, !.tree[h.size + 1] = t], w, h.size + 1)

(* TimerHeap::Remove: the last timer takes the place of the removed one and sifts
   down.  When the removed timer is the last one, SiftDown writes its loc again. *)
HeapRemove(h, w, t) ==
  LET i == h.loc[t] IN
  SiftDown([h EXCEPT !.loc[t] = 0, !.tree[i] = h.tree[h.size], !.size = @ - 1], w, i)

(* TimerHeap::ExtractMin *)
HeapExtractMin(h, w) ==
  LET g == [h EXCEPT !.tree[1] = h.tree[h.size], !.size = @ - 1]
  IN  IF g.size > 0 THEN SiftDown(g, w, 1) ELSE g

-----------------------------------------------------------------------------
Init ==
  /\ heap = [tree |-> [i \in Index |-> None], size |-> 0,
             loc |-> [t \in Timer |-> 0]]
  /\ when = [t \in Timer |-> 0]
  /\ next_id = 0
  /\ polled = None

ArmedIn(h) == {h.tree[i] : i \in 1 .. h.size}

Armed == ArmedIn(heap)

(* What is left of the timers once a timer is out of the heap h. *)
Forget(h) ==
  /\ heap' = [h EXCEPT
               !.tree = [i \in Index |-> IF i <= h.size THEN @[i] ELSE None],
               !.loc = [t \in Timer |-> IF t \in ArmedIn(h) THEN @[t] ELSE 0]]
  /\ when' = [t \in Timer |-> IF t \in ArmedIn(h) THEN when[t] ELSE 0]

(* TimerQueue::Add *)
Add(w) ==
  /\ next_id < MaxAdds
  /\ heap.size < MaxSize
  /\ next_id' = next_id + 1
  /\ when' = [when EXCEPT ![next_id'] = w]
  /\ heap' = HeapInsert(heap, when', next_id')
  /\ polled' = None

(* TimerQueue::Remove, called for a timer its owner has armed. *)
Remove(t) ==
  /\ t \in Armed
  /\ heap.loc[t] > 0
  /\ Forget(HeapRemove(heap, when, t))
  /\ polled' = None
  /\ UNCHANGED next_id

(* TimerQueue::Poll, at a time at which the timer on top has expired. *)
Poll ==
  /\ heap.size > 0
  /\ Forget(HeapExtractMin(heap, when))
  /\ polled' = heap.tree[1]
  /\ UNCHANGED next_id

Next == (\E w \in Instant : Add(w)) \/ (\E t \in Timer : Remove(t)) \/ Poll

Spec == Init /\ [][Next]_vars

-----------------------------------------------------------------------------
(* The abstract queue: what is armed is what the array holds. *)
Queue == INSTANCE TimerQueueSpec WITH armed <- Armed, deadline <- when

(* The heap implements the abstract queue: no timer is lost or duplicated by an
   insertion or a removal (Remove finds each at the position it has noted), and Poll takes the earliest, ties broken by age. *)
ImplementsQueue == Queue!Spec

(* Min() has no earlier timer behind it. *)
MinIsOnTop == \A i \in 2 .. heap.size : Less(when, heap.tree[1], heap.tree[i])
=============================================================================
