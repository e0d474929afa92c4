------------------------------ MODULE MCQueues ------------------------------
(***************************************************************************)
(* The queues of the kernel: each behaviour is one of the schedulers' run  *)
(* queues and futex queues, or one of the timer queue.                     *)
(***************************************************************************)
EXTENDS Schedulers

VARIABLES part, heap, when, next_id, polled

timers == <<heap, when, next_id, polled>>

T == INSTANCE TimerHeap WITH MaxAdds <- 7, MaxSize <- 5, Instant <- {1, 2, 3}

ASSUME T!TimerHeapConstants

MCInit == part \in {"threads", "timers"} /\ Init /\ T!Init /\ (part = "timers" => kind = "random")

\* With all timers armed that the bound allows, the timer queue is left alone.
MCNext ==
  \/ part = "threads" /\ Next /\ UNCHANGED <<part, timers>>
  \/ part = "timers" /\ T!Next /\ UNCHANGED <<part, vars>>
  \/ part = "timers" /\ next_id = 7 /\ UNCHANGED <<part, vars, timers>>

MCSpec == MCInit /\ [][MCNext]_<<part, vars, timers>>

\* See TimerHeap.
ImplementsQueue == T!ImplementsQueue
==============================================================================
