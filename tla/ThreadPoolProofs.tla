-------------------------- MODULE ThreadPoolProofs --------------------------
(***************************************************************************)
(* Proofs about ThreadPool, for any non-empty set of workers, any clients  *)
(* and any tasks.                                                          *)
(*                                                                         *)
(* Everything follows from who holds que_mtx: a worker runs a task exactly *)
(* while it is the holder, so the queue cannot move under it; and a worker *)
(* falls asleep or leaves only when it sees the queue empty.               *)
(***************************************************************************)
EXTENDS ThreadPool, SequenceTheorems, TLAPS

\* The worker that runs a task is the holder of que_mtx, and the only one.
HolderRuns ==
  /\ holder # None => worker[holder] = "running"
  /\ \A w \in Workers : worker[w] = "running" => holder = w /\ task[w] \in Tasks

\* Workers leave a stopped pool with nothing queued, and the destructor waits
\* for all of them.
StopSound ==
  /\ stop <=> owner # "up"
  /\ \A w \in Workers : worker[w] = "exited" => stop /\ tasks = <<>>
  /\ owner = "gone" => \A w \in Workers : worker[w] = "exited"

Control == HolderRuns /\ StopSound /\ NoLostWakeup

USE WorkersAssumption, TasksAssumption

LEMMA NextCases ==
  ASSUME Next
  PROVE  \/ \E c \in Clients, t \in Tasks : AddTask(c, t)
         \/ \E c \in Clients, t \in Tasks : RefuseTask(c, t)
         \/ \E c \in Clients : NotifyOne(c)
         \/ \E w \in Workers : Take(w)
         \/ \E w \in Workers : Finish(w)
         \/ \E w \in Workers : Sleep(w)
         \/ \E w \in Workers : WakeSpuriously(w)
         \/ \E w \in Workers : Exit(w)
         \/ SetStop
         \/ NotifyAll
         \/ Join
  BY DEF Next, Submit, Work, Destroy

\* The only facts about Append, Head and Tail the steps need.
LEMMA QueueFacts ==
  ASSUME NEW q \in Seq(Tasks)
  PROVE  /\ \A t \in Tasks : Append(q, t) \in Seq(Tasks) /\ Append(q, t) # <<>>
         /\ q # <<>> => Head(q) \in Tasks /\ Tail(q) \in Seq(Tasks)
  OBVIOUS

\* Moving one element from the front of a queue to the end of what precedes
\* it, or adding one at the end, keeps the concatenation in step.
LEMMA ConcatFacts ==
  ASSUME NEW a \in Seq(Tasks), NEW q \in Seq(Tasks), NEW t \in Tasks
  PROVE  /\ Append(a \o <<>> \o q, t) = a \o <<>> \o Append(q, t)
         /\ Append(a, t) \o <<>> \o q = a \o <<t>> \o q
         /\ q # <<>> => a \o <<>> \o q = a \o <<Head(q)>> \o Tail(q)
<1>1. a \o <<>> = a
  OBVIOUS
<1>2. Append(a \o q, t) = a \o Append(q, t)
  OBVIOUS
<1>3. Append(a, t) \o <<>> = a \o <<t>>
  OBVIOUS
<1>4. ASSUME q # <<>> PROVE a \o q = a \o <<Head(q)>> \o Tail(q)
  <2>1. <<Head(q)>> \o Tail(q) = q
    BY <1>4
  <2>2. <<Head(q)>> \in Seq(Tasks) /\ Tail(q) \in Seq(Tasks)
    BY <1>4
  <2>3. QED
    BY <2>1, <2>2, ConcatAssociative
<1>5. QED
  BY <1>1, <1>2, <1>3, <1>4

LEMMA TypeStep ==
  ASSUME TypeOK, Control, Next
  PROVE  TypeOK'
<1> USE QueueFacts DEF TypeOK, Control, HolderRuns, poolVars, stopVars, history
<1>1. ASSUME NEW c \in Clients, NEW t \in Tasks, AddTask(c, t) PROVE TypeOK'
  BY <1>1 DEF AddTask
<1>2. ASSUME NEW c \in Clients, NEW t \in Tasks, RefuseTask(c, t) PROVE TypeOK'
  BY <1>2 DEF RefuseTask
<1>3. ASSUME NEW c \in Clients, NotifyOne(c) PROVE TypeOK'
  BY <1>3 DEF NotifyOne, Asleep
<1>4. ASSUME NEW w \in Workers, Take(w) PROVE TypeOK'
  BY <1>4 DEF Take
<1>5. ASSUME NEW w \in Workers, Finish(w) PROVE TypeOK'
  BY <1>5 DEF Finish
<1>6. ASSUME NEW w \in Workers, Sleep(w) PROVE TypeOK'
  BY <1>6 DEF Sleep
<1>7. ASSUME NEW w \in Workers, WakeSpuriously(w) PROVE TypeOK'
  BY <1>7 DEF WakeSpuriously
<1>8. ASSUME NEW w \in Workers, Exit(w) PROVE TypeOK'
  BY <1>8 DEF Exit
<1>9. ASSUME SetStop PROVE TypeOK'
  BY <1>9 DEF SetStop
<1>10. ASSUME NotifyAll PROVE TypeOK'
  BY <1>10 DEF NotifyAll
<1>11. ASSUME Join PROVE TypeOK'
  BY <1>11 DEF Join
<1>12. QED
  BY NextCases, <1>1, <1>2, <1>3, <1>4, <1>5, <1>6, <1>7, <1>8,
     <1>9, <1>10, <1>11

LEMMA ControlStep ==
  ASSUME TypeOK, Control, Next
  PROVE  Control'
<1> USE QueueFacts DEF TypeOK, Control, HolderRuns, StopSound, NoLostWakeup,
            poolVars, stopVars, history
<1>1. ASSUME NEW c \in Clients, NEW t \in Tasks, AddTask(c, t) PROVE Control'
  BY <1>1 DEF AddTask
<1>2. ASSUME NEW c \in Clients, NEW t \in Tasks, RefuseTask(c, t) PROVE Control'
  BY <1>2 DEF RefuseTask
<1>3. ASSUME NEW c \in Clients, NotifyOne(c) PROVE Control'
  BY <1>3 DEF NotifyOne, Asleep
<1>4. ASSUME NEW w \in Workers, Take(w) PROVE Control'
  BY <1>4 DEF Take
<1>5. ASSUME NEW w \in Workers, Finish(w) PROVE Control'
  BY <1>5 DEF Finish
<1>6. ASSUME NEW w \in Workers, Sleep(w) PROVE Control'
  BY <1>6 DEF Sleep
<1>7. ASSUME NEW w \in Workers, WakeSpuriously(w) PROVE Control'
  BY <1>7 DEF WakeSpuriously
<1>8. ASSUME NEW w \in Workers, Exit(w) PROVE Control'
  BY <1>8 DEF Exit
<1>9. ASSUME SetStop PROVE Control'
  BY <1>9 DEF SetStop
<1>10. ASSUME NotifyAll PROVE Control'
  BY <1>10 DEF NotifyAll
<1>11. ASSUME Join PROVE Control'
  BY <1>11 DEF Join
<1>12. QED
  BY NextCases, <1>1, <1>2, <1>3, <1>4, <1>5, <1>6, <1>7, <1>8,
     <1>9, <1>10, <1>11

LEMMA OrderStep ==
  ASSUME TypeOK, Control, ServedInOrder, Next
  PROVE  ServedInOrder'
<1> USE DEF TypeOK, Control, HolderRuns, ServedInOrder, poolVars, stopVars, history
<1>1. ASSUME NEW c \in Clients, NEW t \in Tasks, AddTask(c, t) PROVE ServedInOrder'
  <2>1. accepted = done \o <<>> \o tasks
    BY <1>1 DEF AddTask
  <2>2. Append(done \o <<>> \o tasks, t) = done \o <<>> \o Append(tasks, t)
    <3>1. done \in Seq(Tasks) /\ tasks \in Seq(Tasks)
      OBVIOUS
    <3> HIDE DEF TypeOK, Control, HolderRuns, ServedInOrder
    <3>2. QED
      BY <3>1, ConcatFacts
  <2>3. QED
    BY <1>1, <2>1, <2>2 DEF AddTask
<1>2. ASSUME NEW c \in Clients, NEW t \in Tasks, RefuseTask(c, t) PROVE ServedInOrder'
  BY <1>2 DEF RefuseTask
<1>3. ASSUME NEW c \in Clients, NotifyOne(c) PROVE ServedInOrder'
  BY <1>3 DEF NotifyOne, Asleep
<1>4. ASSUME NEW w \in Workers, Take(w) PROVE ServedInOrder'
  BY <1>4, ConcatFacts DEF Take
<1>5. ASSUME NEW w \in Workers, Finish(w) PROVE ServedInOrder'
  <2>1. holder = w /\ w # None /\ task[w] \in Tasks
    BY <1>5 DEF Finish
  <2>2. accepted = done \o <<task[w]>> \o tasks
    BY <2>1
  <2>3. Append(done, task[w]) \o <<>> \o tasks = done \o <<task[w]>> \o tasks
    BY <2>1, ConcatFacts
  <2>4. QED
    BY <1>5, <2>2, <2>3 DEF Finish
<1>6. ASSUME NEW w \in Workers, Sleep(w) PROVE ServedInOrder'
  BY <1>6 DEF Sleep
<1>7. ASSUME NEW w \in Workers, WakeSpuriously(w) PROVE ServedInOrder'
  BY <1>7 DEF WakeSpuriously
<1>8. ASSUME NEW w \in Workers, Exit(w) PROVE ServedInOrder'
  BY <1>8 DEF Exit
<1>9. ASSUME SetStop PROVE ServedInOrder'
  BY <1>9 DEF SetStop
<1>10. ASSUME NotifyAll PROVE ServedInOrder'
  BY <1>10 DEF NotifyAll
<1>11. ASSUME Join PROVE ServedInOrder'
  BY <1>11 DEF Join
<1>12. QED
  BY NextCases, <1>1, <1>2, <1>3, <1>4, <1>5, <1>6, <1>7, <1>8,
     <1>9, <1>10, <1>11

IInv == TypeOK /\ Control /\ ServedInOrder

LEMMA Invariance == Spec => []IInv
<1>1. Init => IInv
  <2>1. Init => TypeOK
    BY EmptySeq DEF Init, TypeOK
  <2>2. Init => Control
    BY DEF Init, Control, HolderRuns, StopSound, NoLostWakeup
  <2>3. Init => ServedInOrder
    BY ConcatEmptySeq DEF Init, ServedInOrder
  <2>4. QED
    BY <2>1, <2>2, <2>3 DEF IInv
<1>2. IInv /\ [Next]_vars => IInv'
  <2>1. ASSUME IInv, Next PROVE IInv'
    BY <2>1, TypeStep, ControlStep, OrderStep DEF IInv
  <2>2. ASSUME IInv, UNCHANGED vars PROVE IInv'
    BY <2>2 DEF IInv, vars, poolVars, stopVars, history, TypeOK, Control,
           HolderRuns, StopSound, NoLostWakeup, ServedInOrder
  <2>3. QED
    BY <2>1, <2>2
<1>3. QED
  BY <1>1, <1>2, PTL DEF Spec

\* Every variable keeps its type.
THEOREM TypeCorrect == Spec => []TypeOK
<1>1. IInv => TypeOK
  BY DEF IInv
<1>2. QED
  BY <1>1, Invariance, PTL

\* However many workers the pool has, its tasks never overlap: what
\* AgentWorkflow relies on when it reads a session's memory at the start of a
\* task and writes it back at the end.
THEOREM TasksExclude == Spec => []OneTaskAtATime
<1>1. IInv => OneTaskAtATime
  BY DEF IInv, Control, HolderRuns, OneTaskAtATime
<1>2. QED
  BY <1>1, Invariance, PTL

\* No accepted task is lost, run twice or overtaken.
THEOREM TasksInOrder == Spec => []ServedInOrder
<1>1. IInv => ServedInOrder
  BY DEF IInv
<1>2. QED
  BY <1>1, Invariance, PTL

\* Tasks never wait on an idle queue that nobody is going to look at.
THEOREM WakeupsKept == Spec => []NoLostWakeup
<1>1. IInv => NoLostWakeup
  BY DEF IInv, Control
<1>2. QED
  BY <1>1, Invariance, PTL

\* The destructor returns only when every accepted task has been run.
THEOREM DestructorDrains == Spec => []DrainedWhenGone
<1>1. ASSUME IInv, owner = "gone" PROVE done = accepted
  <2>1. tasks = <<>> /\ holder = None
    BY <1>1 DEF IInv, Control, HolderRuns, StopSound, TypeOK
  <2>2. QED
    BY <1>1, <2>1 DEF IInv, ServedInOrder, TypeOK
<1>2. IInv => DrainedWhenGone
  BY <1>1 DEF DrainedWhenGone
<1>3. QED
  BY <1>2, Invariance, PTL

\* Seen from the code that submits, the pool is a queue that runs one task
\* after another: each of its steps is a step of SerialPool or changes nothing
\* there.  (That accepted tasks do get run is left to model checking.)
THEOREM ImplementsSerialPool == Spec => Serial!Init /\ [][Serial!Next]_(Serial!vars)
<1>1. Init => Serial!Init
  BY DEF Init, Serial!Init
<1>2. IInv /\ [Next]_vars => [Serial!Next]_(Serial!vars)
  <2> SUFFICES ASSUME IInv, [Next]_vars PROVE [Serial!Next]_(Serial!vars)
    OBVIOUS
  <2> USE DEF IInv, TypeOK, Control, HolderRuns, Serial!vars, poolVars, history
  <2>1. ASSUME NEW c \in Clients, NEW t \in Tasks, AddTask(c, t) PROVE [Serial!Next]_(Serial!vars)
    BY <2>1 DEF AddTask, Serial!Next, Serial!Accept
  <2>2. ASSUME NEW c \in Clients, NEW t \in Tasks, RefuseTask(c, t) PROVE [Serial!Next]_(Serial!vars)
    BY <2>2 DEF RefuseTask
  <2>3. ASSUME NEW c \in Clients, NotifyOne(c) PROVE [Serial!Next]_(Serial!vars)
    BY <2>3 DEF NotifyOne
  <2>4. ASSUME NEW w \in Workers, Take(w) PROVE [Serial!Next]_(Serial!vars)
    BY <2>4 DEF Take, Serial!Next, Serial!Begin
  <2>5. ASSUME NEW w \in Workers, Finish(w) PROVE [Serial!Next]_(Serial!vars)
    BY <2>5 DEF Finish, Serial!Next, Serial!End
  <2>6. ASSUME NEW w \in Workers, Sleep(w) PROVE [Serial!Next]_(Serial!vars)
    BY <2>6 DEF Sleep
  <2>7. ASSUME NEW w \in Workers, WakeSpuriously(w) PROVE [Serial!Next]_(Serial!vars)
    BY <2>7 DEF WakeSpuriously
  <2>8. ASSUME NEW w \in Workers, Exit(w) PROVE [Serial!Next]_(Serial!vars)
    BY <2>8 DEF Exit
  <2>9. ASSUME SetStop PROVE [Serial!Next]_(Serial!vars)
    BY <2>9 DEF SetStop
  <2>10. ASSUME NotifyAll PROVE [Serial!Next]_(Serial!vars)
    BY <2>10 DEF NotifyAll
  <2>11. ASSUME Join PROVE [Serial!Next]_(Serial!vars)
    BY <2>11 DEF Join
  <2>12. CASE UNCHANGED vars
    BY <2>12 DEF vars
  <2>13. QED
    BY NextCases, <2>1, <2>2, <2>3, <2>4, <2>5, <2>6, <2>7, <2>8,
       <2>9, <2>10, <2>11, <2>12
<1>3. QED
  BY <1>1, <1>2, Invariance, PTL DEF Spec
=============================================================================
