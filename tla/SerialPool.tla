----------------------------- MODULE SerialPool -----------------------------
(***************************************************************************)
(* What a ThreadPool amounts to for the code that submits to it: a queue   *)
(* served one task at a time, in order, that accepts nothing while a task  *)
(* runs, because the running task holds the queue's mutex.  The number of  *)
(* workers does not show.  ThreadPool implements this module; ToolServer   *)
(* is built from three of it.                                              *)
(***************************************************************************)
EXTENDS Sequences

CONSTANTS Tasks, None

VARIABLES queue,     \* accepted, not begun
          running,   \* the task that runs, or None
          finished   \* ended, in order

vars == <<queue, running, finished>>

Init == queue = <<>> /\ running = None /\ finished = <<>>

Accept == /\ running = None
          /\ \E t \in Tasks : queue' = Append(queue, t)
          /\ UNCHANGED <<running, finished>>

Begin == /\ running = None /\ queue # <<>>
         /\ running' = Head(queue)
         /\ queue' = Tail(queue)
         /\ UNCHANGED finished

End == /\ running # None
       /\ finished' = Append(finished, running)
       /\ running' = None
       /\ UNCHANGED queue

Next == Accept \/ Begin \/ End

Spec == Init /\ [][Next]_vars /\ WF_vars(Begin) /\ WF_vars(End)
=============================================================================
