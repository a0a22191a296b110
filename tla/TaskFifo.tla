------------------------------ MODULE TaskFifo ------------------------------
(***************************************************************************)
(* What EventLoop expects of queue_task_funcs_: the tasks that enqueue has  *)
(* taken come out of try_dequeue once each, in the order in which they went *)
(* in.                                                                     *)
(***************************************************************************)
EXTENDS Naturals, Sequences

CONSTANT Tasks

VARIABLES
  taken,   \* the tasks enqueue has accepted, in order
  given    \* the tasks try_dequeue has returned, in order

vars == <<taken, given>>

Init == taken = <<>> /\ given = <<>>

Enqueue(t) ==
  /\ \A i \in 1..Len(taken) : taken[i] # t
  /\ taken' = Append(taken, t)
  /\ UNCHANGED given

Dequeue ==
  /\ Len(given) < Len(taken)
  /\ given' = Append(given, taken[Len(given) + 1])
  /\ UNCHANGED taken

Next == (\E t \in Tasks : Enqueue(t)) \/ Dequeue

Spec == Init /\ [][Next]_vars
=============================================================================
