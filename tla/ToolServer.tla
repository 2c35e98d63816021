----------------------------- MODULE ToolServer -----------------------------
(***************************************************************************)
(* A provider process: RpcProvider's receive loop (rpcprovider.cpp), its   *)
(* pool of 16 workers, and the two pools McpServiceImpl routes tools to    *)
(* (mcp_service_impl.h), "fast" for database queries and "io" for Python.  *)
(*                                                                         *)
(* Each pool is a SerialPool, which is what ThreadPool was shown to        *)
(* amount to: running[p] is the task that runs in p and holds p's queue    *)
(* mutex.  A thread that wants to queue a task in p waits for that mutex,  *)
(* and it waits where it is: the receive loop stops receiving, and a       *)
(* worker of the main pool stands in CallTool with the main pool's mutex   *)
(* in its hands.                                                           *)
(*                                                                         *)
(* Requests are numbered as they reach the socket; what each of them asks  *)
(* for is chosen then.                                                     *)
(***************************************************************************)
EXTENDS Naturals, Sequences, SequencesExt

CONSTANT MaxRequests   \* bound: how many requests reach the socket

ASSUME MaxAssumption == MaxRequests \in Nat

Requests == 1..MaxRequests
None == 0

\* "garbled" fails to decode or names no method of the provider; "unknown"
\* names no registered tool; "throwing" is a Python call whose handler throws.
Kinds == {"garbled", "list", "unknown", "fast", "python", "throwing"}
Pools == {"main", "fast", "io"}
Lanes == {"fast", "io"}

VARIABLES
  arrived,   \* number of requests that have reached the socket
  kind,      \* kind[r], once r has arrived
  inbox,     \* requests queued on the ROUTER socket
  hand,      \* what the receive loop is submitting, or None
  queue,     \* queue[p]: tasks of pool p
  running,   \* running[p]: the task p runs, or None
  finished,  \* finished[p]: tasks that ended in p, in order
  replies    \* requests answered, in order

poolVars == <<queue, running, finished>>
vars == <<arrived, kind, inbox, hand, poolVars, replies>>

Init ==
  /\ arrived = 0
  /\ kind = [r \in Requests |-> "garbled"]
  /\ inbox = <<>> /\ hand = None
  /\ queue = [p \in Pools |-> <<>>]
  /\ running = [p \in Pools |-> None]
  /\ finished = [p \in Pools |-> <<>>]
  /\ replies = <<>>

\* Which pool CallTool routes a tool to.
Lane(r) == IF kind[r] = "fast" THEN "fast" ELSE "io"
IsTool(r) == kind[r] \in {"fast", "python", "throwing"}

\* The task running in p ends, and p's mutex is released.
EndTask(p) == /\ running' = [running EXCEPT ![p] = None]
              /\ finished' = [finished EXCEPT ![p] = Append(@, running[p])]

-----------------------------------------------------------------------------
(* Faulty variants of actions below, each with one plausible slip.         *)

\* The tool's task is queued without waiting for the lane's mutex.
SubmitToolUnlocked ==
  LET r == running["main"]
  IN /\ r # None /\ IsTool(r)
     /\ queue' = [queue EXCEPT ![Lane(r)] = Append(@, r)]
     /\ EndTask("main")
     /\ UNCHANGED <<arrived, kind, inbox, hand, replies>>

\* CallTool gives up on a lane that is busy.
SubmitToolOrDrop ==
  LET r == running["main"]
  IN /\ r # None /\ IsTool(r)
     /\ queue' = [queue EXCEPT ![Lane(r)] =
                    IF running[Lane(r)] = None THEN Append(@, r) ELSE @]
     /\ EndTask("main")
     /\ UNCHANGED <<arrived, kind, inbox, hand, replies>>

\* The tool's task is put at the head of the lane's queue.
SubmitToolFirst ==
  LET r == running["main"]
  IN /\ r # None /\ IsTool(r) /\ running[Lane(r)] = None
     /\ queue' = [queue EXCEPT ![Lane(r)] = <<r>> \o @]
     /\ EndTask("main")
     /\ UNCHANGED <<arrived, kind, inbox, hand, replies>>

\* The receive loop submits a task also when it received nothing.
DispatchAnyway ==
  /\ running["main"] = None
  /\ queue' = [queue EXCEPT !["main"] = Append(@, hand)]
  /\ hand' = None
  /\ UNCHANGED <<arrived, kind, inbox, running, finished, replies>>

\* A tool's task submits its reply to the main pool, while it holds its lane.
RunToolViaMain(p) ==
  LET r == running[p]
  IN /\ r # None /\ kind[r] # "throwing" /\ running["main"] = None
     /\ EndTask(p)
     /\ replies' = Append(replies, r)
     /\ UNCHANGED <<arrived, kind, inbox, hand, queue>>

-----------------------------------------------------------------------------
(* The receive loop.                                                       *)

Arrive ==
  /\ arrived < MaxRequests
  /\ arrived' = arrived + 1
  /\ \E k \in Kinds : kind' = [kind EXCEPT ![arrived'] = k]
  /\ inbox' = Append(inbox, arrived')
  /\ UNCHANGED <<hand, poolVars, replies>>

Receive ==
  /\ hand = None /\ inbox # <<>>
  /\ hand' = Head(inbox)
  /\ inbox' = Tail(inbox)
  /\ UNCHANGED <<arrived, kind, poolVars, replies>>

\* addTask on the main pool: waits while a task of it runs.
Dispatch ==
  /\ hand # None /\ running["main"] = None
  /\ queue' = [queue EXCEPT !["main"] = Append(@, hand)]
  /\ hand' = None
  /\ UNCHANGED <<arrived, kind, inbox, running, finished, replies>>

-----------------------------------------------------------------------------
(* The pools.                                                              *)

BeginTask(p) ==
  /\ running[p] = None /\ queue[p] # <<>>
  /\ running' = [running EXCEPT ![p] = Head(queue[p])]
  /\ queue' = [queue EXCEPT ![p] = Tail(@)]
  /\ UNCHANGED <<arrived, kind, inbox, hand, finished, replies>>

\* The request does not decode, or its method is not registered: no reply.
Reject ==
  /\ running["main"] # None /\ kind[running["main"]] = "garbled"
  /\ EndTask("main")
  /\ UNCHANGED <<arrived, kind, inbox, hand, queue, replies>>

\* ListTools, and CallTool for an unknown tool, run the closure themselves.
AnswerDirectly ==
  /\ running["main"] # None /\ kind[running["main"]] \in {"list", "unknown"}
  /\ EndTask("main")
  /\ replies' = Append(replies, running["main"])
  /\ UNCHANGED <<arrived, kind, inbox, hand, queue>>

\* CallTool: addTask on the tool's lane, waiting for its mutex if need be.
SubmitTool ==
  LET r == running["main"]
  IN /\ r # None /\ IsTool(r) /\ running[Lane(r)] = None
     /\ queue' = [queue EXCEPT ![Lane(r)] = Append(@, r)]
     /\ EndTask("main")
     /\ UNCHANGED <<arrived, kind, inbox, hand, replies>>

\* The tool returns and its task runs the closure, which sends the reply.
RunTool(p) ==
  LET r == running[p]
  IN /\ r # None /\ kind[r] # "throwing"
     /\ EndTask(p)
     /\ replies' = Append(replies, r)
     /\ UNCHANGED <<arrived, kind, inbox, hand, queue>>

\* The tool throws: the exception stays in the packaged_task, no closure runs.
ToolThrows(p) ==
  LET r == running[p]
  IN /\ r # None /\ kind[r] = "throwing"
     /\ EndTask(p)
     /\ UNCHANGED <<arrived, kind, inbox, hand, queue, replies>>

-----------------------------------------------------------------------------

MainTask == Reject \/ AnswerDirectly \/ SubmitTool
LaneTask(p) == RunTool(p) \/ ToolThrows(p)

Next == \/ Arrive \/ Receive \/ Dispatch
        \/ \E p \in Pools : BeginTask(p)
        \/ MainTask
        \/ \E p \in Lanes : LaneTask(p)

\* Threads that can run do, and tools other than Python end.
Threads ==
  /\ WF_vars(Receive) /\ WF_vars(Dispatch)
  /\ \A p \in Pools : WF_vars(BeginTask(p))
  /\ WF_vars(MainTask)
  /\ WF_vars(LaneTask("fast"))

\* Python tools end too: the sandbox runs them under a timeout of 5 s.
Spec == Init /\ [][Next]_vars /\ Threads /\ WF_vars(LaneTask("io"))

\* The same when nothing bounds a Python call.
SlowPythonSpec == Init /\ [][Next]_vars /\ Threads

-----------------------------------------------------------------------------
(* Correctness.                                                            *)

TypeOK ==
  /\ arrived \in 0..MaxRequests
  /\ kind \in [Requests -> Kinds]
  /\ inbox \in Seq(Requests)
  /\ hand \in Requests \cup {None}
  /\ queue \in [Pools -> Seq(Requests)]
  /\ running \in [Pools -> Requests \cup {None}]
  /\ finished \in [Pools -> Seq(Requests)]
  /\ replies \in Seq(Requests)

\* What pool p has accepted and not ended.
Held(p) == ToSet(queue[p]) \cup ({running[p]} \ {None})

\* Requests that ended with no reply, as they may.
Dropped == {r \in ToSet(finished["main"]) : kind[r] = "garbled"}
           \cup {r \in ToSet(finished["io"]) : kind[r] = "throwing"}

Places == [socket |-> ToSet(inbox), loop |-> {hand} \ {None},
           main |-> Held("main"), fast |-> Held("fast"), io |-> Held("io"),
           answered |-> ToSet(replies), dropped |-> Dropped]

\* A request is in one place at a time: on the socket, in the receive loop's
\* hand, in one pool, answered or rightly dropped.  None is lost between two
\* pools, none is queued, run or answered twice.
InOnePlace ==
  /\ UNION {Places[a] : a \in DOMAIN Places} = 1..arrived
  /\ \A a, b \in DOMAIN Places : a # b => Places[a] \cap Places[b] = {}
  /\ IsInjective(inbox) /\ IsInjective(replies)
  /\ \A p \in Pools : /\ IsInjective(queue[p]) /\ running[p] \notin ToSet(queue[p])
                      /\ IsInjective(finished[p])

\* Tools of one lane are answered in the order their requests arrived, though
\* they pass three queues and four threads on the way.
LaneInOrder ==
  \A i, j \in DOMAIN replies :
    LET a == replies[i] b == replies[j]
    IN i < j /\ IsTool(a) /\ IsTool(b) /\ Lane(a) = Lane(b) => a < b

Answerable == {"list", "unknown", "fast", "python"}

\* Every request the provider can answer is answered: waiting for a lane's
\* mutex with the main pool's mutex in hand never ends in a deadlock.
AllAnswered ==
  \A r \in Requests :
    (r <= arrived /\ kind[r] \in Answerable) ~> (r \in ToSet(replies))

\* The bulkhead: Python calls, however slow, do not keep a database query from
\* being answered.
Bulkhead ==
  \A r \in Requests :
    (r <= arrived /\ kind[r] = "fast") ~> (r \in ToSet(replies))

MainPool == INSTANCE SerialPool WITH Tasks <- Requests, queue <- queue["main"],
                                     running <- running["main"],
                                     finished <- finished["main"]
FastPool == INSTANCE SerialPool WITH Tasks <- Requests, queue <- queue["fast"],
                                     running <- running["fast"],
                                     finished <- finished["fast"]
IoPool == INSTANCE SerialPool WITH Tasks <- Requests, queue <- queue["io"],
                                   running <- running["io"],
                                   finished <- finished["io"]

\* Each pool is used as a ThreadPool allows: nothing enters its queue while a
\* task of it runs, and what it accepts it runs.
PoolsAreSerial == MainPool!Spec /\ FastPool!Spec /\ IoPool!Spec
=============================================================================
