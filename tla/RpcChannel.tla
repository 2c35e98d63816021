----------------------------- MODULE RpcChannel -----------------------------
(***************************************************************************)
(* The gateway's asynchronous RPC client: MprpcChannel (mprpcchannel.cpp), *)
(* the poller thread that reads replies (GatewayServer::InitZmqPoller) and *)
(* the way a caller turns the asynchronous call into a blocking one with a *)
(* promise and a timed wait (AgentWorkflow::invokeRpcTool, GatewayServer:: *)
(* InitMcpTools).                                                          *)
(*                                                                         *)
(* Four kinds of threads interleave here.  A CALLER walks through          *)
(* CallMethod: it serializes, finds a provider on the hash ring (the first *)
(* asks ZooKeeper for the providers, which may take for ever), takes a     *)
(* correlation id, registers its response and closure under that id in     *)
(* pending_map_, bumps the gauge, sends, and then waits on its promise.    *)
(* The POLLER copies the dealer sockets, takes replies off them and runs   *)
(* HandleRpcResponse.  The SCAVENGER sweeps entries older than 60 seconds  *)
(* out of pending_map_.  The NETWORK and the providers behind it execute   *)
(* requests, drop them, and lose messages.                                 *)
(*                                                                         *)
(* Every action is one critical section or one step another thread can     *)
(* observe.  Time is counted in units: WaitLimit[c] of them is c's timed   *)
(* wait (10 s for a tool call, 2 s for tool discovery) and PendingLimit is *)
(* the scavenger's 60 s.  Two assumptions on scheduling: the steps of      *)
(* CallMethod between registering and waiting take less than a unit, and a *)
(* timed wait returns within a unit of its limit.                          *)
(***************************************************************************)
EXTENDS Integers, FiniteSets

CONSTANTS Calls,         \* calls the gateway's threads make
          Nodes,         \* children of the method's znode
          Malformed,     \* those of them whose name is not ip:port
          WaitLimit,     \* WaitLimit[c]: how long c's caller waits
          PendingLimit,  \* age beyond which the scavenger drops an entry
          None,          \* no call, no node, a response never written
          Garbled        \* a reply body ParseFromString rejects

ASSUME CallsAssumption == /\ IsFiniteSet(Calls)
                          /\ None \notin Calls
                          /\ Garbled \notin Calls
                          /\ Garbled # None

ASSUME NodesAssumption == Malformed \subseteq Nodes

\* 10 s and 2 s against 60 s: every caller gives up before the scavenger acts.
ASSUME LimitsAssumption == /\ PendingLimit \in Nat
                           /\ WaitLimit \in [Calls -> Nat]
                           /\ \A c \in Calls : WaitLimit[c] < PendingLimit

VARIABLES
  pc,           \* pc[c]: where c's caller is
  ring,         \* nodes on the static hash ring; {} until initialised
  target,       \* target[c]: the node GetNode chose
  uuid_gen,     \* next correlation id
  req_id,       \* req_id[c]: the id c took
  scavenging,   \* is_scavenger_started_
  pending_map,  \* correlation id -> call whose response and closure it holds
  age,          \* age[c]: time since c registered, while anyone counts it
  gauge,        \* metric_rpc_pending_count
  dealers,      \* nodes zq_dealer_pool_ has a socket for
  requests,     \* request messages in flight
  replies,      \* reply messages in flight or queued on a dealer
  executed,     \* calls a provider has executed
  response,     \* response[c]: the call whose result c's response object holds
  failed,       \* failed[c]: c's controller has SetFailed
  ran,          \* ran[c]: how often c's closure has run
  outcome,      \* outcome[c]: what c's caller concluded
  released,     \* released[c]: calls whose response was freed before c's was made
  sweep,        \* poller: sockets it has still to look at in this round
  stage,        \* poller: "poll", "parse" or "run"
  ctx,          \* poller: the call HandleRpcResponse is finishing
  body          \* poller: the reply body it has read

callerVars == <<pc, ring, target, uuid_gen, req_id, scavenging, outcome, released>>
tableVars  == <<pending_map, age, gauge>>
netVars    == <<dealers, requests, replies, executed>>
closureVars == <<response, failed, ran>>
pollerVars == <<sweep, stage, ctx, body>>
vars == <<callerVars, tableVars, netVars, closureVars, pollerVars>>

Locations == {"idle", "serialized", "hung", "routed", "numbered", "inserted",
              "counted", "waiting", "done"}
Outcomes  == {"none", "answered", "failed", "timedout"}
Bodies    == Calls \cup {Garbled}
Requests  == [id : Nat, call : Calls, node : Nodes]
Replies   == [id : Nat, body : Bodies, node : Nodes]

Pending == {pending_map[i] : i \in DOMAIN pending_map}

Put(f, k, v)   == [x \in DOMAIN f \cup {k} |-> IF x = k THEN v ELSE f[x]]
Without(f, ks) == [x \in DOMAIN f \ ks |-> f[x]]

Init ==
  /\ pc = [c \in Calls |-> "idle"]
  /\ ring = {}
  /\ target = [c \in Calls |-> None]
  /\ uuid_gen = 0
  /\ req_id = [c \in Calls |-> 0]
  /\ scavenging = FALSE
  /\ pending_map = [i \in {} |-> None]
  /\ age = [c \in Calls |-> 0]
  /\ gauge = 0
  /\ dealers = {} /\ requests = {} /\ replies = {} /\ executed = {}
  /\ response = [c \in Calls |-> None]
  /\ failed = [c \in Calls |-> FALSE]
  /\ ran = [c \in Calls |-> 0]
  /\ outcome = [c \in Calls |-> "none"]
  /\ released = [c \in Calls |-> {}]
  /\ sweep = {} /\ stage = "poll" /\ ctx = None /\ body = Garbled

Goto(c, from, to) == pc[c] = from /\ pc' = [pc EXCEPT ![c] = to]

\* Every early return of CallMethod: SetFailed, done->Run(), return.  The
\* caller then finds its promise already set.
FailCall(c) == /\ failed' = [failed EXCEPT ![c] = TRUE]
               /\ ran' = [ran EXCEPT ![c] = @ + 1]
               /\ UNCHANGED response

-----------------------------------------------------------------------------
(* Faulty variants of actions below, each with one plausible slip.  No     *)
(* behaviour of Spec uses them; a property that survives its variant would *)
(* say nothing about the code.                                             *)

\* fetch_add split into a load and a store: two calls may take one id.
TakeIdUnsynchronized(c) ==
  /\ Goto(c, "routed", "numbered")
  /\ req_id' = [req_id EXCEPT ![c] = uuid_gen]
  /\ uuid_gen' \in {uuid_gen, uuid_gen + 1}
  /\ scavenging' = TRUE
  /\ UNCHANGED <<ring, target, outcome, released, tableVars, netVars, closureVars, pollerVars>>

\* The scavenger is never started.
TakeIdNoScavenger(c) ==
  /\ Goto(c, "routed", "numbered")
  /\ req_id' = [req_id EXCEPT ![c] = uuid_gen]
  /\ uuid_gen' = uuid_gen + 1
  /\ UNCHANGED <<ring, target, scavenging, outcome, released, tableVars, netVars,
                 closureVars, pollerVars>>

\* A failure reported after the request was already queued on the socket.
SendMayFail(c) ==
  /\ Goto(c, "counted", "waiting")
  /\ dealers' = dealers \cup {target[c]}
  /\ requests' = requests \cup {[id |-> req_id[c], call |-> c, node |-> target[c]]}
  /\ \/ FailCall(c)
     \/ UNCHANGED closureVars
  /\ UNCHANGED <<ring, target, uuid_gen, req_id, scavenging, outcome, released, replies,
                 executed, tableVars, pollerVars>>

\* HandleRpcResponse looks the context up and leaves it registered.
ClaimKeepsEntry(r) ==
  /\ stage = "poll" /\ r \in replies /\ r.node \in sweep
  /\ r.id \in DOMAIN pending_map
  /\ ctx' = pending_map[r.id]
  /\ body' = r.body
  /\ stage' = "parse"
  /\ replies' = replies \ {r}
  /\ sweep' = sweep \ {r.node}
  /\ UNCHANGED <<tableVars, dealers, requests, executed, callerVars, closureVars>>

\* HandleRpcResponse forgets to lower the gauge.
ClaimKeepsGauge(r) ==
  /\ stage = "poll" /\ r \in replies /\ r.node \in sweep
  /\ r.id \in DOMAIN pending_map
  /\ ctx' = pending_map[r.id]
  /\ pending_map' = Without(pending_map, {r.id})
  /\ body' = r.body
  /\ stage' = "parse"
  /\ replies' = replies \ {r}
  /\ sweep' = sweep \ {r.node}
  /\ UNCHANGED <<age, gauge, dealers, requests, executed, callerVars, closureVars>>

\* HandleRpcResponse lowers the gauge for a reply nobody waits for.
DiscardLowersGauge(r) ==
  /\ stage = "poll" /\ r \in replies /\ r.node \in sweep
  /\ r.id \notin DOMAIN pending_map
  /\ gauge' = gauge - 1
  /\ replies' = replies \ {r}
  /\ sweep' = sweep \ {r.node}
  /\ UNCHANGED <<stage, ctx, body, dealers, requests, executed, callerVars,
                 pending_map, age, closureVars>>

\* A reply that does not parse ends the poller thread.
ParseFailureIsFatal ==
  /\ stage = "parse" /\ body = Garbled
  /\ response' = [response EXCEPT ![ctx] = Garbled]
  /\ UNCHANGED <<sweep, stage, ctx, body, failed, ran, callerVars, tableVars, netVars>>

-----------------------------------------------------------------------------
(* CallMethod, on the caller's thread.                                     *)

\* The caller makes its response object, perhaps where a freed one was.
Allocate(c) == released' = [released EXCEPT ![c] = {d \in Calls : pc[d] = "done"}]

Serialize(c) ==
  /\ Goto(c, "idle", "serialized")
  /\ Allocate(c)
  /\ UNCHANGED <<ring, target, uuid_gen, req_id, scavenging, outcome,
                 tableVars, netVars, closureVars, pollerVars>>

\* SerializePartialToString returned false for the request or its header.
SerializeFails(c) ==
  /\ Goto(c, "idle", "waiting")
  /\ Allocate(c) /\ FailCall(c)
  /\ UNCHANGED <<ring, target, uuid_gen, req_id, scavenging, outcome,
                 tableVars, netVars, pollerVars>>

\* The ring is not initialised and ring_init_mutex is free: c holds it for as
\* long as it asks ZooKeeper for the nodes.
Discovers(c) == pc[c] = "serialized" /\ ring = {} /\ ~\E d \in Calls : pc[d] = "hung"

\* The nodes that live now; the ring is never built again.
InitRing(c) ==
  /\ Discovers(c)
  /\ \E live \in SUBSET Nodes : live # {} /\ ring' = live
  /\ UNCHANGED <<pc, target, uuid_gen, req_id, scavenging, outcome, released,
                 tableVars, netVars, closureVars, pollerVars>>

\* GetChildren returned an empty list: no node lives, or it failed.  The next
\* caller asks again.
NoLiveNodes(c) ==
  /\ Discovers(c) /\ Goto(c, "serialized", "waiting")
  /\ FailCall(c)
  /\ UNCHANGED <<ring, target, uuid_gen, req_id, scavenging, outcome, released,
                 tableVars, netVars, pollerVars>>

\* ZkClient::Start waits, without a limit, for a session that never comes or
\* was reported before the semaphore was set: c keeps ring_init_mutex.
StartHangs(c) ==
  /\ Discovers(c) /\ Goto(c, "serialized", "hung")
  /\ UNCHANGED <<ring, target, uuid_gen, req_id, scavenging, outcome, released,
                 tableVars, netVars, closureVars, pollerVars>>

\* GetNode picks a node of the ring by the hash of the arguments.
Route(c) ==
  /\ Goto(c, "serialized", "routed")
  /\ \E n \in ring \ Malformed : target' = [target EXCEPT ![c] = n]
  /\ UNCHANGED <<ring, uuid_gen, req_id, scavenging, outcome, released,
                 tableVars, netVars, closureVars, pollerVars>>

BadAddress(c) ==
  /\ Goto(c, "serialized", "waiting") /\ ring \cap Malformed # {}
  /\ FailCall(c)
  /\ UNCHANGED <<ring, target, uuid_gen, req_id, scavenging, outcome, released,
                 tableVars, netVars, pollerVars>>

\* uuid_gen_.fetch_add(1), then the scavenger thread is started if it is not.
TakeId(c) ==
  /\ Goto(c, "routed", "numbered")
  /\ req_id' = [req_id EXCEPT ![c] = uuid_gen]
  /\ uuid_gen' = uuid_gen + 1
  /\ scavenging' = TRUE
  /\ UNCHANGED <<ring, target, outcome, released, tableVars, netVars, closureVars, pollerVars>>

Insert(c) ==
  /\ Goto(c, "numbered", "inserted")
  /\ pending_map' = Put(pending_map, req_id[c], c)
  /\ age' = [age EXCEPT ![c] = 0]
  /\ UNCHANGED <<ring, target, uuid_gen, req_id, scavenging, outcome, released, gauge,
                 netVars, closureVars, pollerVars>>

\* The gauge is raised only after map_mutex_ has been released.
Count(c) ==
  /\ Goto(c, "inserted", "counted")
  /\ gauge' = gauge + 1
  /\ UNCHANGED <<ring, target, uuid_gen, req_id, scavenging, outcome, released, pending_map,
                 age, netVars, closureVars, pollerVars>>

\* Under dealer_mutex_: create the node's dealer if there is none, send.
Send(c) ==
  /\ Goto(c, "counted", "waiting")
  /\ dealers' = dealers \cup {target[c]}
  /\ requests' = requests \cup {[id |-> req_id[c], call |-> c, node |-> target[c]]}
  /\ UNCHANGED <<ring, target, uuid_gen, req_id, scavenging, outcome, released, replies,
                 executed, tableVars, closureVars, pollerVars>>

-----------------------------------------------------------------------------
(* The caller's timed wait.  When it returns, the response object goes out *)
(* of scope with it.                                                       *)

WaitReady(c) ==
  /\ Goto(c, "waiting", "done")
  /\ ran[c] > 0
  /\ outcome' = [outcome EXCEPT ![c] = IF failed[c] THEN "failed" ELSE "answered"]
  /\ UNCHANGED <<ring, target, uuid_gen, req_id, scavenging, released,
                 tableVars, netVars, closureVars, pollerVars>>

WaitTimeout(c) ==
  /\ Goto(c, "waiting", "done")
  /\ ran[c] = 0 /\ age[c] >= WaitLimit[c]
  /\ outcome' = [outcome EXCEPT ![c] = "timedout"]
  /\ UNCHANGED <<ring, target, uuid_gen, req_id, scavenging, released,
                 tableVars, netVars, closureVars, pollerVars>>

-----------------------------------------------------------------------------
(* Providers and the network.                                              *)

\* A provider runs the service method and sends the response back under the
\* request's id frame.  The gateway may be unable to parse what it gets.
Execute(m) ==
  /\ m \in requests
  /\ requests' = requests \ {m}
  /\ executed' = executed \cup {m.call}
  /\ \E b \in {m.call, Garbled} :
       replies' = replies \cup {[id |-> m.id, body |-> b, node |-> m.node]}
  /\ UNCHANGED <<dealers, callerVars, tableVars, closureVars, pollerVars>>

\* Executed, and no reply comes: the tool threw, or the reply was not sent.
ExecuteSilently(m) ==
  /\ m \in requests
  /\ requests' = requests \ {m}
  /\ executed' = executed \cup {m.call}
  /\ UNCHANGED <<dealers, replies, callerVars, tableVars, closureVars, pollerVars>>

\* The connection broke or the provider rejected the request before executing.
LoseRequest(m) ==
  /\ m \in requests
  /\ requests' = requests \ {m}
  /\ UNCHANGED <<dealers, replies, executed, callerVars, tableVars, closureVars, pollerVars>>

LoseReply(r) ==
  /\ r \in replies
  /\ replies' = replies \ {r}
  /\ UNCHANGED <<dealers, requests, executed, callerVars, tableVars, closureVars, pollerVars>>

-----------------------------------------------------------------------------
(* The poller thread and HandleRpcResponse, which it runs inline.          *)

\* A new round: copy the dealers of this moment.
Snapshot ==
  /\ stage = "poll" /\ sweep = {}
  /\ sweep' = dealers
  /\ UNCHANGED <<stage, ctx, body, callerVars, tableVars, netVars, closureVars>>

RepliesAt(n) == {r \in replies : r.node = n}

\* recv(dontwait) on a socket that has nothing.
PollEmpty(n) ==
  /\ stage = "poll" /\ n \in sweep /\ RepliesAt(n) = {}
  /\ sweep' = sweep \ {n}
  /\ UNCHANGED <<stage, ctx, body, callerVars, tableVars, netVars, closureVars>>

\* A reply whose id is registered: its context leaves the map.
Claim(r) ==
  /\ stage = "poll" /\ r \in replies /\ r.node \in sweep
  /\ r.id \in DOMAIN pending_map
  /\ ctx' = pending_map[r.id]
  /\ pending_map' = Without(pending_map, {r.id})
  /\ gauge' = gauge - 1
  /\ body' = r.body
  /\ stage' = "parse"
  /\ replies' = replies \ {r}
  /\ sweep' = sweep \ {r.node}
  /\ UNCHANGED <<age, dealers, requests, executed, callerVars, closureVars>>

\* A reply whose id is not registered is dropped.
Discard(r) ==
  /\ stage = "poll" /\ r \in replies /\ r.node \in sweep
  /\ r.id \notin DOMAIN pending_map
  /\ replies' = replies \ {r}
  /\ sweep' = sweep \ {r.node}
  /\ UNCHANGED <<stage, ctx, body, dealers, requests, executed, callerVars,
                 tableVars, closureVars>>

\* The responses a write through ctx's pointer may change: ctx's own or, when
\* ctx's caller has returned and freed it, that of a call begun since, which
\* may have been given the same memory.
Landing == {ctx} \cup {c \in Calls : pc[c] # "done" /\ ctx \in released[c]}

Overwrite(b) == \E c \in Landing : response' = [response EXCEPT ![c] = b]

\* Outside map_mutex_: ParseFromString overwrites the caller's response.
Parse ==
  /\ stage = "parse" /\ body # Garbled
  /\ Overwrite(body)
  /\ stage' = "run"
  /\ UNCHANGED <<sweep, ctx, body, failed, ran, callerVars, tableVars, netVars>>

\* It returned false: the handler returns and the closure is never run.
ParseFails ==
  /\ stage = "parse" /\ body = Garbled
  /\ Overwrite(Garbled)
  /\ stage' = "poll"
  /\ UNCHANGED <<sweep, ctx, body, failed, ran, callerVars, tableVars, netVars>>

RunClosure ==
  /\ stage = "run"
  /\ ran' = [ran EXCEPT ![ctx] = @ + 1]
  /\ stage' = "poll"
  /\ UNCHANGED <<sweep, ctx, body, response, failed, callerVars, tableVars, netVars>>

-----------------------------------------------------------------------------
(* The scavenger and the clock.                                            *)

Ghosts == {i \in DOMAIN pending_map : age[pending_map[i]] > PendingLimit}

\* One patrol, under map_mutex_ from end to end: run and drop every entry
\* older than the limit.
ScavengerTask ==
  /\ scavenging /\ Ghosts # {}
  /\ ran' = [c \in Calls |-> IF \E i \in Ghosts : pending_map[i] = c
                             THEN ran[c] + 1 ELSE ran[c]]
  /\ pending_map' = Without(pending_map, Ghosts)
  /\ gauge' = gauge - Cardinality(Ghosts)
  /\ UNCHANGED <<age, response, failed, callerVars, netVars, pollerVars>>

Overdue(c) == pc[c] = "waiting" /\ age[c] >= WaitLimit[c]

\* age[c] stops one above PendingLimit, where nothing tells it from older.
Tick ==
  /\ \A c \in Calls : pc[c] \notin {"inserted", "counted"} /\ ~Overdue(c)
  /\ age' = [c \in Calls |-> IF (pc[c] = "waiting" \/ c \in Pending)
                                /\ age[c] <= PendingLimit
                             THEN age[c] + 1 ELSE age[c]]
  /\ UNCHANGED <<pending_map, gauge, callerVars, netVars, closureVars, pollerVars>>

-----------------------------------------------------------------------------

CallMethod(c) ==
  \/ Serialize(c) \/ SerializeFails(c)
  \/ InitRing(c) \/ NoLiveNodes(c) \/ StartHangs(c)
  \/ Route(c) \/ BadAddress(c)
  \/ TakeId(c) \/ Insert(c) \/ Count(c) \/ Send(c)

Wait(c) == WaitReady(c) \/ WaitTimeout(c)

Network ==
  \/ \E m \in requests : Execute(m) \/ ExecuteSilently(m) \/ LoseRequest(m)
  \/ \E r \in replies : LoseReply(r)

Receive(n) == \/ PollEmpty(n)
              \/ \E r \in RepliesAt(n) : Claim(r) \/ Discard(r)

HandleRpcResponse == Parse \/ ParseFails \/ RunClosure

Poller == Snapshot \/ (\E n \in Nodes : Receive(n)) \/ HandleRpcResponse

Next == \/ \E c \in Calls : CallMethod(c) \/ Wait(c)
        \/ Network
        \/ Poller
        \/ ScavengerTask
        \/ Tick

\* The operating system runs every thread that can run and time passes.  No
\* fairness for making a call, nor for the network and the providers; asking
\* ZooKeeper for the nodes may end in StartHangs every time.
Fairness ==
  /\ \A c \in Calls : WF_vars(pc[c] # "idle" /\ CallMethod(c)) /\ WF_vars(Wait(c))
  /\ WF_vars(Snapshot) /\ WF_vars(HandleRpcResponse)
  /\ \A n \in Nodes : WF_vars(Receive(n))
  /\ WF_vars(ScavengerTask)
  /\ WF_vars(Tick)

Spec == Init /\ [][Next]_vars /\ Fairness

-----------------------------------------------------------------------------
(* Correctness.                                                            *)

TypeOK ==
  /\ pc \in [Calls -> Locations]
  /\ ring \subseteq Nodes
  /\ target \in [Calls -> Nodes \cup {None}]
  /\ uuid_gen \in Nat
  /\ req_id \in [Calls -> Nat]
  /\ scavenging \in BOOLEAN
  /\ DOMAIN pending_map \subseteq Nat
  /\ pending_map \in [DOMAIN pending_map -> Calls]
  /\ age \in [Calls -> 0..(PendingLimit + 1)]
  /\ gauge \in Nat
  /\ dealers \subseteq Nodes
  /\ requests \subseteq Requests
  /\ replies \subseteq Replies
  /\ executed \subseteq Calls
  /\ response \in [Calls -> Bodies \cup {None}]
  /\ failed \in [Calls -> BOOLEAN]
  /\ ran \in [Calls -> Nat]
  /\ outcome \in [Calls -> Outcomes]
  /\ released \in [Calls -> SUBSET Calls]
  /\ sweep \subseteq Nodes
  /\ stage \in {"poll", "parse", "run"}
  /\ ctx \in Calls \cup {None}
  /\ body \in Bodies

\* A closure deletes itself when it runs, and its promise may be set once:
\* whoever gets to it first, the failing caller, the poller or the scavenger,
\* nobody runs it again.
ClosureAtMostOnce == \A c \in Calls : ran[c] <= 1

\* No call that ended before c's response was made had timed out.
Undisturbed(c) == \A d \in released[c] : outcome[d] # "timedout"

\* A caller that concludes it was answered holds the result of its own call:
\* not another call's (the correlation ids keep them apart), not the empty
\* response of a call the scavenger reclaimed, which looks like a success.
\* Only the late reply to an earlier call that timed out can spoil it.
AnsweredMeansOwnReply ==
  \A c \in Calls : outcome[c] = "answered" /\ Undisturbed(c) => response[c] = c

\* gateway_rpc_pending is the size of pending_map_, but for the entries whose
\* caller has not yet raised it.
Counted == {i \in DOMAIN pending_map : pc[pending_map[i]] # "inserted"}

GaugeExact == gauge = Cardinality(Counted)

\* Every entry of pending_map_ leaves it, answered or not: the table does not
\* leak.
PendingDrains == \A c \in Calls : (c \in Pending) ~> (c \notin Pending)

\* The poller takes every reply queued on a dealer, also on one created after
\* its last look at the pool.
RepliesDrained == \A n \in Nodes : (RepliesAt(n) # {}) ~> (RepliesAt(n) = {})

\* A reply that comes after its caller timed out is dropped, as the message of
\* HandleRpcResponse says: it is not parsed into anybody's response.
LateReplyDiscarded ==
  [][\A c \in Calls :
       outcome[c] = "timedout" /\ stage # "poll" /\ ctx = c => response' = response]_vars

\* What a call looks like from outside.
callState == [c \in Calls |-> IF pc[c] = "idle" THEN "new"
                              ELSE IF pc[c] = "done" THEN outcome[c]
                              ELSE "open"]

hanging == \E c \in Calls : pc[c] = "hung"

Contract == INSTANCE RpcCall WITH state <- callState, stalled <- hanging

\* The channel keeps the contract of RpcCall, its liveness included: calls end,
\* unless the first look for providers hangs, and then nothing was executed and
\* nothing ever will be.
KeepsContract == Contract!Spec
=============================================================================
