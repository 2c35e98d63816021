----------------------------- MODULE ThreadPool -----------------------------
(***************************************************************************)
(* ThreadPool (threadpool.h): workers that share one queue, its mutex      *)
(* que_mtx and its condition variable.  The gateway and every provider run *)
(* all their requests through pools of this class.                         *)
(*                                                                         *)
(* A worker takes a task and runs it inside the scope of its lock, so      *)
(* que_mtx is held for as long as the task runs.  addTask and the          *)
(* destructor hold the mutex only to touch the queue or the flag, and      *)
(* notify after releasing it; each of those critical sections is one       *)
(* action, each notification another.                                      *)
(*                                                                         *)
(* A sleeping worker needs a notification, or wakes on its own as          *)
(* condition variables may; it then competes for the mutex and tests the   *)
(* predicate again.                                                        *)
(***************************************************************************)
EXTENDS Naturals, Sequences, FiniteSets

CONSTANTS Workers,   \* the pool's threads
          Clients,   \* the threads that call addTask
          Tasks,     \* what they submit, each task once
          None       \* no thread, no task

ASSUME WorkersAssumption == Workers # {} /\ None \notin Workers
ASSUME TasksAssumption == None \notin Tasks

VARIABLES
  tasks,      \* the queue
  holder,     \* the worker that holds que_mtx while its task runs, or None
  worker,     \* worker[w]: "ready" (wants que_mtx), "asleep", "running", "exited"
  task,       \* task[w]: what w runs, or None
  client,     \* client[c]: "out" of addTask, or about to "notify"
  stop,       \* the flag the destructor sets
  owner,      \* the destructor: "up", "notify", "join", "gone"
  submitted,  \* tasks handed to addTask
  accepted,   \* tasks addTask queued, in order
  done        \* tasks run to their end, in order

poolVars  == <<tasks, holder, worker, task>>
stopVars  == <<stop, owner>>
history   == <<submitted, accepted, done>>
vars == <<poolVars, client, stopVars, history>>

Init ==
  /\ tasks = <<>> /\ holder = None
  /\ worker = [w \in Workers |-> "ready"]
  /\ task = [w \in Workers |-> None]
  /\ client = [c \in Clients |-> "out"]
  /\ stop = FALSE /\ owner = "up"
  /\ submitted = {} /\ accepted = <<>> /\ done = <<>>

Asleep == {w \in Workers : worker[w] = "asleep"}

-----------------------------------------------------------------------------
(* Faulty variants of actions below, each with one plausible slip.         *)

\* The worker releases que_mtx before it runs the task.
TakeUnlocked(w) ==
  /\ worker[w] = "ready" /\ holder = None /\ tasks # <<>>
  /\ task' = [task EXCEPT ![w] = Head(tasks)]
  /\ tasks' = Tail(tasks)
  /\ worker' = [worker EXCEPT ![w] = "running"]
  /\ UNCHANGED <<holder, client, stopVars, history>>

\* The worker takes what there is without testing the predicate: out of an
\* empty queue, nothing.
TakeUntested(w) ==
  /\ worker[w] = "ready" /\ holder = None
  /\ holder' = w
  /\ task' = [task EXCEPT ![w] = IF tasks = <<>> THEN None ELSE Head(tasks)]
  /\ tasks' = IF tasks = <<>> THEN tasks ELSE Tail(tasks)
  /\ worker' = [worker EXCEPT ![w] = "running"]
  /\ UNCHANGED <<client, stopVars, history>>

\* The worker looks at the front and does not pop it.
TakeKeepsFront(w) ==
  /\ worker[w] = "ready" /\ holder = None /\ tasks # <<>>
  /\ holder' = w
  /\ task' = [task EXCEPT ![w] = Head(tasks)]
  /\ worker' = [worker EXCEPT ![w] = "running"]
  /\ UNCHANGED <<tasks, client, stopVars, history>>

\* The worker leaves as soon as the flag is set.
ExitEarly(w) ==
  /\ worker[w] = "ready" /\ holder = None /\ stop
  /\ worker' = [worker EXCEPT ![w] = "exited"]
  /\ UNCHANGED <<tasks, holder, task, client, stopVars, history>>

\* The worker waits on the condition without testing the predicate.
SleepBlindly(w) ==
  /\ worker[w] = "ready" /\ holder = None /\ ~stop
  /\ worker' = [worker EXCEPT ![w] = "asleep"]
  /\ UNCHANGED <<tasks, holder, task, client, stopVars, history>>

\* addTask does not notify.
NotifyNobody(c) ==
  /\ client[c] = "notify"
  /\ client' = [client EXCEPT ![c] = "out"]
  /\ UNCHANGED <<poolVars, stopVars, history>>

\* The destructor wakes a single worker.
NotifyOneOfAll ==
  /\ owner = "notify"
  /\ owner' = "join"
  /\ \E w \in Workers :
       worker' = [worker EXCEPT ![w] = IF @ = "asleep" THEN "ready" ELSE @]
  /\ UNCHANGED <<tasks, holder, task, client, stop, history>>

-----------------------------------------------------------------------------
(* addTask.                                                                *)

\* Under que_mtx: queue the task.
AddTask(c, t) ==
  /\ client[c] = "out" /\ t \notin submitted
  /\ holder = None /\ ~stop
  /\ tasks' = Append(tasks, t)
  /\ submitted' = submitted \cup {t}
  /\ accepted' = Append(accepted, t)
  /\ client' = [client EXCEPT ![c] = "notify"]
  /\ UNCHANGED <<holder, worker, task, stopVars, done>>

\* On a stopped pool it throws instead.
RefuseTask(c, t) ==
  /\ client[c] = "out" /\ t \notin submitted
  /\ holder = None /\ stop
  /\ submitted' = submitted \cup {t}
  /\ UNCHANGED <<poolVars, client, stopVars, accepted, done>>

\* notify_one, after the mutex was released: one sleeper wakes, if any.
NotifyOne(c) ==
  /\ client[c] = "notify"
  /\ client' = [client EXCEPT ![c] = "out"]
  /\ \/ Asleep = {} /\ UNCHANGED worker
     \/ \E w \in Asleep : worker' = [worker EXCEPT ![w] = "ready"]
  /\ UNCHANGED <<tasks, holder, task, stopVars, history>>

-----------------------------------------------------------------------------
(* A worker's loop.                                                        *)

\* The predicate holds and there is a task: pop it, and keep the mutex.
Take(w) ==
  /\ worker[w] = "ready" /\ holder = None /\ tasks # <<>>
  /\ holder' = w
  /\ task' = [task EXCEPT ![w] = Head(tasks)]
  /\ tasks' = Tail(tasks)
  /\ worker' = [worker EXCEPT ![w] = "running"]
  /\ UNCHANGED <<client, stopVars, history>>

\* The task returned, or threw into its packaged_task; the scope ends and
\* the mutex is released.
Finish(w) ==
  /\ worker[w] = "running"
  /\ holder' = None
  /\ task' = [task EXCEPT ![w] = None]
  /\ worker' = [worker EXCEPT ![w] = "ready"]
  /\ done' = Append(done, task[w])
  /\ UNCHANGED <<tasks, client, stopVars, submitted, accepted>>

Sleep(w) ==
  /\ worker[w] = "ready" /\ holder = None /\ tasks = <<>> /\ ~stop
  /\ worker' = [worker EXCEPT ![w] = "asleep"]
  /\ UNCHANGED <<tasks, holder, task, client, stopVars, history>>

WakeSpuriously(w) ==
  /\ worker[w] = "asleep"
  /\ worker' = [worker EXCEPT ![w] = "ready"]
  /\ UNCHANGED <<tasks, holder, task, client, stopVars, history>>

Exit(w) ==
  /\ worker[w] = "ready" /\ holder = None /\ tasks = <<>> /\ stop
  /\ worker' = [worker EXCEPT ![w] = "exited"]
  /\ UNCHANGED <<tasks, holder, task, client, stopVars, history>>

-----------------------------------------------------------------------------
(* The destructor.                                                         *)

SetStop ==
  /\ owner = "up" /\ holder = None
  /\ stop' = TRUE
  /\ owner' = "notify"
  /\ UNCHANGED <<poolVars, client, history>>

NotifyAll ==
  /\ owner = "notify"
  /\ owner' = "join"
  /\ worker' = [w \in Workers |-> IF worker[w] = "asleep" THEN "ready" ELSE worker[w]]
  /\ UNCHANGED <<tasks, holder, task, client, stop, history>>

Join ==
  /\ owner = "join" /\ \A w \in Workers : worker[w] = "exited"
  /\ owner' = "gone"
  /\ UNCHANGED <<poolVars, client, stop, history>>

-----------------------------------------------------------------------------

Work(w) == Take(w) \/ Finish(w) \/ Sleep(w) \/ Exit(w)

Submit(c) == \/ \E t \in Tasks : AddTask(c, t) \/ RefuseTask(c, t)
             \/ NotifyOne(c)

Destroy == SetStop \/ NotifyAll \/ Join

Next == \/ \E c \in Clients : Submit(c)
        \/ \E w \in Workers : Work(w) \/ WakeSpuriously(w)
        \/ Destroy

\* Threads that can run do, and every task ends.  Nobody has to submit a task
\* or to destroy the pool, and no sleeper wakes without being notified.
Fairness ==
  /\ \A w \in Workers : WF_vars(Work(w))
  /\ \A c \in Clients : WF_vars(NotifyOne(c))
  /\ WF_vars(NotifyAll) /\ WF_vars(Join)

Spec == Init /\ [][Next]_vars /\ Fairness

-----------------------------------------------------------------------------
(* Correctness.                                                            *)

TypeOK ==
  /\ tasks \in Seq(Tasks)
  /\ holder \in Workers \cup {None}
  /\ worker \in [Workers -> {"ready", "asleep", "running", "exited"}]
  /\ task \in [Workers -> Tasks \cup {None}]
  /\ client \in [Clients -> {"out", "notify"}]
  /\ stop \in BOOLEAN
  /\ owner \in {"up", "notify", "join", "gone"}
  /\ submitted \subseteq Tasks
  /\ accepted \in Seq(Tasks)
  /\ done \in Seq(Tasks)

\* Tasks exclude one another: AgentWorkflow reads a session's memory when its
\* task begins and writes it back when it ends, with no lock of its own.
OneTaskAtATime ==
  \A v, w \in Workers : worker[v] = "running" /\ worker[w] = "running" => v = w

\* Every accepted task is finished, running or queued, exactly once, and tasks
\* are run to their end in the order they were accepted.
ServedInOrder ==
  accepted = done \o (IF holder = None THEN <<>> ELSE <<task[holder]>>) \o tasks

\* No wakeup is lost: while tasks wait and none runs, some worker is on its
\* way to the queue or somebody is about to notify one.
NoLostWakeup ==
  tasks # <<>> /\ holder = None =>
    \/ \E w \in Workers : worker[w] = "ready"
    \/ \E c \in Clients : client[c] = "notify"

\* The destructor returns only after everything accepted has been run.
DrainedWhenGone == owner = "gone" => done = accepted

\* Once begun, the destructor returns.
DestructorReturns == (owner = "notify") ~> (owner = "gone")

\* Whoever submits sees a queue that runs one task after another, and runs
\* every task it accepted, also while the pool is being destroyed.
Serial == INSTANCE SerialPool
            WITH queue <- tasks, finished <- done,
                 running <- IF holder = None THEN None ELSE task[holder]

ActsSerially == Serial!Spec
=============================================================================
