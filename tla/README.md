# MpRPC: specifications, model checks and proofs

This directory holds TLA+ specifications of the MpRPC system: an agent gateway
that answers chat requests with the help of a language model, and tool
providers it reaches through an RPC framework over ZeroMQ and ZooKeeper. The
specifications are translated from the C++ sources; comments, messages and
metric descriptions of the sources supply some of the claims that are checked.

All line numbers below are those of the sources as they stand; `PROJECT.json`
maps each definition to its lines, lists the runs, the mutated forms of
definitions that each property detects, and the hazards the properties are for.

## 1. The system

```
 chat_client ──REQ──▶ GatewayServer ──▶ GatewayPipeline (login, JWT, logout)
                          │ ThreadPool        │ Redis, MySQL
                          ▼
                     AgentWorkflow ── HTTP ──▶ language models
                          │  memory: ShardedLRUCache     RAG: MiniVectorDB
                          ▼
                     MprpcChannel ──▶ ConsistentHash ◀── ZkClient ◀── ZooKeeper
                          │ DEALER            ▲ poller thread, scavenger thread
                          ▼                   │
                     RpcProvider (ROUTER) ── ThreadPool "main"
                          ▼
                     McpServiceImpl ── ThreadPool "fast" (SQL), "io" (Python)
```

| Component | State | Operations | What is hard | Correct when |
|---|---|---|---|---|
| RPC client channel (`mprpcchannel.cpp`) | `pending_map_`, `uuid_gen_`, the gauge, the dealer pool, the static ring | `CallMethod`, `HandleRpcResponse`, `ScavengerTask` | caller, poller and scavenger interleave; replies come late, garbled or never | a closure runs once; an answer is the call's own; the table drains |
| Gateway poller and timed waits (`GatewayServer.h`, `AgentWorkflow.h`) | socket snapshot; promise and future | poll loop; `wait_for` 2 s and 10 s | sockets appear during a sweep; timeouts race answers, and begin only after a wait without one | replies do not stay queued; every call ends unless that wait holds it up |
| Thread pool (`threadpool.h`) | queue, mutex, condition variable, `stop` | `addTask`, worker loop, destructor | lost wakeups, shutdown, tasks that run under the lock | every accepted task runs once, in order; destruction ends |
| Provider (`rpcprovider.cpp`, `mcp_service_impl.h`, `agentserver.cpp`) | ROUTER socket, three pools, tool table | receive, dispatch, `ListTools`, `CallTool`, `SendRpcResponse` | nested pool mutexes, throwing tools, slow tools | nothing lost, doubled or deadlocked; slow tools do not stop fast ones |
| Service registry client (`zookeeperutil.cpp`, `rpcprovider.cpp:93-114`) | ZooKeeper session, znodes | `Start`, `Create`, `GetChildren` | sessions expire, providers restart and race, start-up race with the watcher, failures read as answers | who serves is listed; started again, all come to serve |
| Consistent hashing (`consistent_hash.h`) | map from point to node | `AddNode`, `GetNode` | hash collisions, wrap-around, a ring never refreshed | calls come to reach a provider that serves |
| Gateway receive loop (`GatewayServer.h`) | ROUTER socket, task pool | filter, answer or submit | it waits for a running turn's mutex, and for Redis and MySQL without a limit | every request is answered once, unless a silent service holds the gateway up |
| Agent workflow (`AgentWorkflow.h`) | the turn's messages, retry counters | RAG, model calls with fallback, tool rounds, memory | nested retries, exceptions; read-modify-write of memory | a turn ends within its limits; memory keeps whole exchanges |
| Session memory (`sharded_lru.hpp`) | list and map per shard | `get`, `put` | eviction between a turn's read and its write | the latest exchanges stay; a client is forgotten whole, and for another |
| Gateway pipeline (`GatewayPipeline.h`, `RedisUtil.h`) | token blacklist | login, verify, logout | Redis failing or silent, tokens that expire | nobody is locked out by a token no longer taken |
| Client (`chat_client.cpp`) | its token | log in, ask, log out | reads its state off the wording of answers | comes back to the login prompt |
| Logger (`logger.cpp`, `spsc_queue.hpp`) | ring buffer | `Push`, `Pop` | no locks; several producers of a one-producer queue | no message is lost or torn while there is room |
| Database access (`ConnectionPool.cpp`) | idle connections, count | `getConnection`, release, producer thread | one condition variable for opposite conditions, timeouts | at most 15 connections; each lent to one user; callers go on being served |
| RAG index (`mini_rag.hpp`) | graph, text map, two files | build, `Save`, `Load` | a crash between the two files | loaded index and texts belong together |

The pieces interact through shared state (the channel's static table and
dealer pool, read by the poller), messages (DEALER to ROUTER frames carrying a
correlation id), callbacks (closures that send a reply or set a promise), and
through the pools: each `addTask` waits for a mutex that a running task holds.

## 2. Modules

| Module | Models | Kind |
|---|---|---|
| `RpcCall` | what one remote call promises its caller | abstract specification |
| `RpcChannel` | the channel, the poller, the timed waits; network and providers as environment | detailed; refines `RpcCall` |
| `MCRpcChannel` | an instance of `RpcChannel` with two calls | for TLC |
| `RpcChannelProofs` | inductive invariant, safety theorems, step simulation of `RpcCall` | proofs |
| `SerialPool` | a queue that runs one task at a time | abstract specification |
| `ThreadPool` | `addTask`, workers, condition variable, destructor | detailed; refines `SerialPool` |
| `ThreadPoolProofs` | inductive invariant, safety theorems, step simulation | proofs |
| `ToolServer` | a provider: receive loop and three pools, each a `SerialPool` | composition; refines `SerialPool` three times |
| `ToolServerProofs` | inductive invariant, safety theorems, step simulation of the three `SerialPool`s | proofs |
| `ConsistentHash` | the hash ring as a value, its operations | operators |
| `ServiceRegistry` | providers registering in ZooKeeper, the gateway discovering them and their tools | composition with `ConsistentHash` |
| `ServiceRegistryProofs` | what the ring's operations do; inductive invariant and safety theorems of `ServiceRegistry` | proofs |
| `BoundedQueue` | a bounded first-in first-out queue that refuses only when full | abstract specification |
| `Logger` | the lock-free ring by single loads and stores, its producers and the writer thread | detailed; refines `BoundedQueue` for one producer |
| `LoggerProofs` | inductive invariant, safety theorems, step simulation, for one producer | proofs |
| `ConnectionPool` | borrowers and the producer thread of the MySQL pool | detailed |
| `ConnectionPoolProofs` | inductive invariant and safety theorems of `ConnectionPool` | proofs |
| `SessionMemory` | one shard of the session memory as a value, its operations | operators |
| `Conversation` | what the memory promises: the latest whole exchanges | abstract specification |
| `Gateway` | client, filters, receive loop, pool and turn, with `SessionMemory` | composition; refines `Conversation` |
| `GatewayProofs` | what `put` does to a cache; inductive invariant, safety theorems, `Conversation` implemented | proofs |
| `SequenceLemmas` | lemmas on sequences, their sets of elements, and induction over numbers | proofs, shared |

### RpcChannel

| Variables | In the code |
|---|---|
| `pc`, `target`, `req_id`, `outcome` | where a caller is in `CallMethod` and its wait, its locals, what it concluded |
| `ring`, `uuid_gen`, `scavenging`, `pending_map`, `gauge`, `dealers` | `chash_ring`, `uuid_gen_`, `is_scavenger_started_`, `pending_map_`, `metric_rpc_pending_count`, `zq_dealer_pool_` |
| `age` | now minus `start_time` (and the same clock for the wait) |
| `requests`, `replies`, `executed` | messages in flight; what providers did |
| `released` | the calls whose response objects had been freed when this call's was made |
| `response`, `failed`, `ran` | a call's response object, its controller's flag, how often its closure ran |
| `sweep`, `stage`, `ctx`, `body` | the poller's copy of the sockets and the locals of `HandleRpcResponse` |

An action is one critical section or one step that another thread can see:
`TakeId`, `Insert`, `Count` and `Send` are separate because no lock spans them;
`Claim`, `Parse` and `RunClosure` because `HandleRpcResponse` leaves
`map_mutex_` before it parses; `ScavengerTask` is one action because the whole
patrol holds `map_mutex_`. Each early return of `CallMethod` is an action.
A provider executes, executes without replying, or loses a request; a reply may
be lost, and may be one that `ParseFromString` rejects.

*Freed responses.* `pending_map_` holds raw pointers. When a caller's wait has
timed out and it has returned, its response object is freed while the entry
still points to it, and a late reply is parsed into freed memory: undefined
behaviour. The model chooses among what the allocator makes of it (`Landing`):
the write hits nothing, or it hits the response of a call begun after the free,
which may have been given the same memory (a retried tool call makes the same
objects in the same order on the same thread). Damage to anything else is
outside the model.

The ring is built once from whichever nodes live at that time, out of the
children of the first caller's method path, and every later call uses it; which
node a call gets is a free choice, since the hash of its arguments is.

*Waiting for ZooKeeper.* The first caller of all builds the ring, and for that
calls `ZkClient::Start` with `ring_init_mutex` held. `Start` waits for the session
on a semaphore, without a limit (`zookeeperutil.cpp:66`), and the post it waits for
is lost if the session is up before the watcher has been told of the semaphore, or
never comes if ZooKeeper does not answer. `StartHangs` takes such a caller to
`"hung"`, for good; callers that find the ring empty (`Discovers`) then wait for the
mutex as long. It is before any of the timed waits begins, so no caller's limit ends it.
`RpcCall` has a variable for this, `stalled`: calls end unless the gateway is stalled,
which may befall it only before any provider has executed anything, and then nothing
ever is executed.

Callers are independent threads. In the gateway as built few of them overlap,
because its pool serialises its tasks (see `ThreadPool`); but entries of timed
out calls do overlap with later calls, and the channel's locking is written for
concurrent callers, so the model does not rely on the pool.

*Time.* A unit is the granularity of the timed waits. Assumed, and stated in
the module: a caller gets from registering its entry to waiting in less than a
unit, and a timed wait returns within a unit of its limit; both concern
microseconds of local work against seconds. `LimitsAssumption` is what the
code's numbers give: 2 s and 10 s are below 60 s. `age` stops one above the
limit; the code only compares it with the limit.

### ThreadPool and SerialPool

A worker runs its task inside the scope of its `unique_lock`
(`threadpool.h:23-35`), so `holder` keeps `que_mtx` from `Take` to `Finish`.
The critical sections of `addTask` and of the destructor are one action each,
and the notifications, made after the lock is released, are others. Sleepers
wake by notification or spuriously and compete for the mutex again. A task
given to a stopped pool is refused by an exception.

`SerialPool` is what remains of this for a client: the number of workers does
not show. That is not what a reader of `ThreadPool(16)` expects, and two
things in the system hang on it: `AgentWorkflow` reads and rewrites a session's
memory without a lock of its own and is safe because tasks exclude one another;
and the provider's pools block each other as `ToolServer` shows.

### ToolServer

A request passes the ROUTER socket (`inbox`), the receive loop (`hand`), the
main pool and, when it calls a tool, the tool's lane. `Dispatch` and
`SubmitTool` are the two `addTask` calls and wait for the pool's mutex where
they are: the receive loop stops receiving, and a main-pool task keeps the
main pool's mutex. `ToolThrows` ends a task without running its closure.
Requests are numbered in the order in which they reach the socket, so an order
of service is an order of numbers. `Places` lists where a request can be.

### ServiceRegistry and ConsistentHash

| Variables | In the code |
|---|---|
| `step`, `absent` | where a provider is in `Run` (`rpcprovider.cpp:97-114`) and in `Create`: before or after `zoo_exists` |
| `session`, `owner`, `shared` | ZooKeeper: the session of a provider's present process; whose session holds its ephemeral node; the persistent nodes |
| `at`, `ring` | where virtual nodes hash to; `chash_ring` |
| `gateway`, `left`, `tools` | how far `InitMcpTools` is, or that the gateway waits in `Start` for ever; `tools` |
| `unsure`, `steady`, `faults` | history and bound |

`zoo_exists` and `zoo_create` are separate actions, since the other providers
act in between; that each answer but `ZNONODE` counts as existence is
`ExistsFails`, and each of the three ways `zoo_create` can fail leads to
`exit` (`CreateRefused`, `CreateUnanswered`). ZooKeeper itself is modelled from how it is
used: a tree, sessions that end, ephemeral nodes that end with them. A provider
whose watcher ran before `zoo_set_context` is `"hung"`, and so is a gateway to which
this happens in `InitMcpTools` or in a call that would fill the ring (`GatewayHangs`).
`GetChildren` returns what is listed or, when ZooKeeper does not say, an empty list,
which nothing tells from there being no provider: the call fails, the ring stays empty
and the next call asks again (`UseRing`); `InitMcpTools` asks nobody for tools. Points of the ring are
so few that virtual nodes of two providers collide and wrap around. One virtual
node per provider is modelled; a hundred only make the choice among providers
more even. `RemoveNode` and `GetData` are called by nothing. The gateway fills its
ring in whatever order `GetChildren` lists the providers in, and where two of
them hash to the same point the later one takes it (`AddAll`).

### Logger and BoundedQueue

Every load and store of `head_` and `tail_` and every access to a slot is an
action. Program order is enough: a push's slot is written before the release
store that publishes it, and the acquire load that sees the store comes before the slot is
read, the same the other way round for the free slot; the relaxed loads are of
the index the thread itself stores, when there is one producer. `Producers` is a
parameter because the program does not keep to one.

### ConnectionPool

What a thread does from getting `_queueMutex` to releasing it or going to sleep
is one action. `pc[c]` says where a borrower is, `maker` where the producer thread is;
`"late"` is a borrower whose `wait_for` timed out and that needs the mutex
before it returns null. `notify_all` makes every sleeper ready, whichever of the two
conditions it waits for. In the programs as built few threads meet here, because
the pools whose tasks borrow connections run one task at a time; the pool is
written for many.

### Gateway, SessionMemory and Conversation

| Variables | In the code |
|---|---|
| `token` | what `current_token` is worth: the client holds it, Redis and the clock decide |
| `request`, `reply`, `asked` | what a client waits for (its socket is a REQ socket), what is on its way back, its question's number |
| `inbox`, `hand`, `queue` | the ROUTER socket, the receive loop between filters and `addTask`, the pool's queue |
| `turn` | the running `AgentWorkflow`: `messages_array`, `tool_call_count`, `retry_count` |
| `cache` | `session_memory`, one shard |
| `answered` | history: a client's last question whose exchange was saved |
| `redis` | whether the Redis connection works and its commands are carried out |
| `stuck` | the receive loop is inside a `redisCommand` or a query that does not return |
| `routed` | `is_ring_initialized` of `CallMethod` |

Each filter is an action, and each way a turn goes on. `pool.addTask` waits for
the mutex the running turn holds (see `ThreadPool`), so `Dispatch` needs an idle
pool and nothing is received meanwhile, logins included. A turn reads its memory in
`Prepare` and writes it in `ModelAnswers`; in between other clients' turns cannot
come, but the copy is all the turn has, and an eviction happens at the write.
An exception anywhere in a turn is caught by `run` and becomes the answer.
Models, tools, Redis and the user database are choices; how a tool call ends is
`RpcChannel`'s business.

Two waits of the gateway have no limit, and the model has an action for each.
`RedisUtil` connects and sends its commands without a timeout (`RedisUtil.h:20,46,59`),
and the password of a login is looked up in MySQL: a service that takes the question and stays
silent keeps the receive loop (`FilterHangs`). A Redis whose connection is broken, or
that answers with an error, is another matter (`redis = "failing"`): the code then takes
a token for not revoked, or reports that the logout failed. And a tool call that finds
the ring empty may wait in `ZkClient::Start` for ever (`CallHangs`), with the pool's mutex
held; whether start-up has filled the ring is open at the start. `Stalled` names these
states; the two liveness properties are conditional on it, the safety properties are not.
 
Questions carry a number, given as they are asked, by
which the history tells exchanges apart; the program has only their texts.
`conversation` is what `Conversation` sees of the cache: for each client, the
numbers of the questions in its memory. A client reads its state off the wording of an answer, so an
answer of the model that contains the words drops a good token (`Hear`).

## 3. Runs

| Run | Bounds | Shows |
|---|---|---|
| `channel` | 2 calls; one good node, one malformed; waits of 1 and 2 units, sweep after 3 | types, `ClosureAtMostOnce`, `AnsweredMeansOwnReply`, `GaugeExact`, `PendingDrains`, `RepliesDrained`, `KeepsContract` |
| `channel_late` | the same | `LateReplyDiscarded` fails: see findings |
| `pool` | 3 workers, 2 clients, 3 tasks | types, `OneTaskAtATime`, `ServedInOrder`, `NoLostWakeup`, `DrainedWhenGone`, `DestructorReturns`, `ActsSerially` |
| `server` | 4 requests of any kind | types, `InOnePlace`, `LaneInOrder`, `AllAnswered`, `PoolsAreSerial` |
| `bulkhead` | 3 requests | `Bulkhead` fails: see findings |
| `registry` | 2 providers, 2 points, 3 faults (hangs of the gateway and lists it is not given among them), restarts wait for the old session | types, `ServingIsListed`, `CallsHaveAHome`, `EventuallyServing`, `CallsReachAgain` |
| `registry_restart` | 1 fault, restarts do not wait | `ServingIsListed` fails: see findings |
| `tools` | no fault | `ToolsComplete` fails: see findings |
| `logger` | 1 producer, room for 2, 6 messages | types, `SlotsExclusive`, `AcceptedKept`, `KeepsFifo` |
| `logger_many` | 2 producers | `AcceptedKept` fails: see findings |
| `connections` | 3 borrowers, 1 connection at the start, 2 at most, 3 failed connects or timeouts | types, `EachInOnePlace`, `SleepersHaveReason`, `KeepsServing` |
| `gateway` | 2 clients, 3 questions together, a memory of one entry of 6 messages, 2 tool calls, 1 review | types and the turn's limits, `OneRequestEach`, `MemoriesWellFormed`, `KeepsConversation`, `EveryRequestAnswered`, `DeadTokenDropped` |

Why the bounds are enough. *Channel*: every race is between one call and the
poller or the scavenger, or between two calls (identifiers, gauge, one sharing
the other's dealer); two calls with different limits show each, and the limits
keep the order 2 s < 10 s < 60 s. The malformed node makes both routing
failures possible. *Pool*: one worker running, one asleep and one awake at the
same time, one client notifying while another queues, and a third task to be
overtaken. *Server*: four requests fill every place a request can block in at
once: one running in a lane, one in the main pool waiting for that lane, one in
the receive loop's hand, one on the socket. The pools' sizes do not matter, by
`ActsSerially`. *Registry*: the races are between two providers that create the same
shared node, and the faults, any three in any order, include a crash, a lost session and an
unanswered request of the same provider, and a gateway that is refused the list twice
and then hangs. *Logger*: with three slots and six messages
the indices go round the ring twice, full and empty. *Connections*: one more
borrower than connections, so that one borrower waits while the producer has
nothing left to make. *Gateway*: two clients compete for one entry, so every
save may evict; a third exchange of one client overflows its six messages; the
second tool call is the last.

`pool`, `server` and `bulkhead` run without deadlock checking: a destroyed pool
and a provider whose bounded supply of requests is used up stop rightly. So do
the registry once the providers serve and the gateway has started, the logger
once its messages are written, and the gateway when the bounded questions are
asked. In
the channel the poller always has a step, so checking for deadlock says little
there. What it could tell is told by the liveness properties: `KeepsContract`,
`PendingDrains`, `DestructorReturns`, `ActsSerially` and `AllAnswered`.

### Fairness

Threads that can run are run: weak fairness of each caller's steps once it has
issued a call, of the wait's return, of the poller, of the scavenger, of each
worker, of a notification a client owes and of the destructor's steps once it
has begun; and of the clock. Tasks of a pool end. There is no fairness for
issuing calls, submitting tasks or destroying a pool, none for the network and
the providers, and none for spurious wakeups. In `Spec` of `ToolServer` Python
calls end, because the sandbox runs them under `timeout 5s`
(`agentserver.cpp:223`); `SlowPythonSpec` drops this one assumption (the
timeout bounds the script, not the start of its container). Weak fairness of
`Dispatch` and `SubmitTool` is weaker than a fair mutex; it suffices because
the pool whose mutex is awaited receives nothing while it is held and the
waiter is the only submitter, so its queue runs dry.

The waits without a limit are not assumed to end. In `RpcChannel` a caller that looks
for providers takes some step, which may be `StartHangs` every time; nothing takes it
out of `"hung"`, and `KeepsContract` promises an end of calls only while `RpcCall` is
not stalled. The same holds for `GatewayHangs` in `ServiceRegistry`, where
`CallsReachAgain` excepts a gateway that hangs before its ring is filled, and for
`FilterHangs` and `CallHangs` in `Gateway`, where `EveryRequestAnswered` and
`DeadTokenDropped` except what they hold up (`Stalled`). Where no such wait intervenes, each step ends.

In `ServiceRegistry` a provider that is down is started again. The program does
not see to this; it is what `EventuallyServing` and `CallsReachAgain` ask of whoever runs
it, and the constant `Patient` says whether he waits out the old session.
ZooKeeper ends the sessions of the dead. Faults are finitely many, so ZooKeeper gives the list
in the end to a gateway that goes on asking, as calls make it do. In
`Logger` the writer thread runs and a push that began ends; no fairness makes
anybody log. In `ConnectionPool` threads that are awake come by the mutex,
queries end, and somebody keeps asking, without which serving would not be a
question; connects and waits may fail finitely often. In `Gateway` clients hear what is sent to
them and go on sending (`DeadTokenDropped` needs that a client uses its dead
token; the number of questions is bounded, logging in and out is not), and every turn gets
an answer or a timeout from its models and tools: HTTP reads end after 30 s
(`GatewayServer.h:279`), tool waits after 10 s once the request has been sent. Each
thread has one fairness condition: a client, which sends or hears; the receive loop, which
filters the request at the head of the socket or submits the one in its hand; and the pool,
which runs one turn at a time. There is none for `RedisChanges`: a Redis that fails may fail for good.
The token `DeadTokenDropped` speaks of is expired, or revoked by a logout that was reported as
failed; the latter only as long as Redis says so, since the code lets it through otherwise.

### Findings

*A late reply is not dropped* (`channel_late`). `HandleRpcResponse` says of an
unknown or timed out id that it is dropped (`mprpcchannel.cpp:571`). But when a
caller's wait ends nothing removes its entry, so a reply that comes between
the caller's limit and the sweep is claimed and parsed into the response object
the caller has freed by returning. The consequence is why `AnsweredMeansOwnReply`
has a condition: without `Undisturbed(c)` TLC finds a caller that reads, as the
answer to its second call, what the late reply to its first left there.

*The bulkhead does not hold* (`bulkhead`). `mcp_service_impl.h:26` calls its two
pools independent and isolated. One Python call running and a second one
submitted make `CallTool` wait for the io pool's mutex with the main pool's in
hand; the receive loop then waits in `addTask`, although `rpcprovider.cpp:145`
says that it turns to the next message at once, and no database query gets
through until the first Python call ends. The cause is `threadpool.h:34`, which
runs the task inside the lock's scope.

*A restarted provider disappears* (`registry_restart`). Started again within
30 s of its end, a provider finds the ephemeral node of its old session,
does not create one (`zookeeperutil.cpp:78`), logs that its node is mounted
(`rpcprovider.cpp:112`) and serves. When the old session expires the node goes, and no
new gateway finds this provider. With `Patient` restarts the run `registry`
shows the same property to hold, unless ZooKeeper left the question about
the node unanswered, which the code also takes for a yes.

*Tool discovery asks one provider* (`tools`). `InitMcpTools` makes one `ListTools` call per
listed provider, but the calls have equal arguments and so go to the same point
of the ring: one provider is asked again and again (`GatewayServer.h:210-219`,
`mprpcchannel.cpp:181`), where the documentation speaks of the tools of the
whole network (`README.md:90`). If that provider is down, the gateway starts
without any tool.

*Log messages are lost while there is room* (`logger_many`). `SPSCQueue` is made
for one producer (`spsc_queue.hpp:7`); `Logger::Log` calls it from any thread.
The agent server has at least two: workers that run queries (`db.cpp:68`,
`ConnectionPool.cpp:71`) and the connection pool's own thread (`db.cpp:43`).
Two pushes that read the same tail write the same slot, and one accepted message is
gone; `logger.cpp:121` has it that only a full queue drops.

## 4. Proofs

Proved with TLAPS for every value of the constants that satisfies the modules'
assumptions.

`RpcChannelProofs`. `IInv` strengthens the safety properties to an inductive
invariant. Its parts: identifiers taken are distinct and below `uuid_gen`
(`IdsUnique`); an entry of the table is under its call's own identifier, which
has been registered (`TableSound`); messages carry the identifier of their call
(`MessagesMatch`); the poller's context is a call it has removed from the table
(`PollerSound`); entries of calls that are not yet waiting are fresh
(`FreshEntries`), and those of waiting calls are younger than the sweep's limit
(`TableSound`), which is where the limits enter; a routed call knows its node
(`Routed`); the right to run a closure is
a token held by the caller, the table or the poller, and gone once the closure
has run (`ClosuresSound`); and a call that is over while its closure has not run
timed out (`ReleasesSound`), so that whatever is written to a freed response is
the late reply of a timed out call. `ClosureAtMostOnce`, `AnsweredMeansOwnReply` and
`GaugeExact` are not inductive alone: the first needs the token, the second
needs messages and table to agree on identifiers and a waiting caller to be
younger than the sweep's limit, and gives the answer back only to undisturbed
callers; the third needs entries to belong to distinct
calls.

That a call is executed when, and only when, its caller may conclude so needs one
more invariant, `ExecutionsSound`: a request in flight belongs to a call not
executed, and a reply, the poller's context and a closure run in time to one that was; and while a caller hangs in `ZkClient::Start` the ring is empty, so that no
call has been sent. From it each step of the channel is a step of `RpcCall` or leaves what
`RpcCall` sees alone: a provider's executing a request is `Execute`, a return from
the wait is one of the ends of a call, `StartHangs` is `Stall`, and all the rest stutters.

Theorems: `TypeCorrect`, `ClosureRunsOnce`, `AnsweredOwnReply`, `GaugeIsExact`,
and `ImplementsRpcCall`, the safety half of `KeepsContract`.
The assumptions used are that there are finitely many calls, that `None` and
`Garbled` are not calls, that malformed nodes are nodes, and that waits are
shorter than the sweep's limit.

`ThreadPoolProofs`. The invariant says who holds the mutex (a worker runs a
task exactly when it is the holder), where each accepted task is, that sleepers
are covered by a worker awake or a notification owed, and that nobody sleeps
or exits against the flag. Theorems: `TypeCorrect`, `TasksExclude`,
`TasksInOrder`, `WakeupsKept`, `DestructorDrains`, and
`ImplementsSerialPool`: initial states and steps of the pool are initial states
and steps (or stutters) of `SerialPool` under the refinement mapping. The
assumptions are that there is a worker and that `None` is neither a worker nor
a task.

`ConnectionPoolProofs`. `EachInOnePlace` and `SleepersHaveReason` become
inductive with the types and `LentWhenUsing`: a caller has a connection exactly
while it uses one, so a caller that gets another does not drop the first. The
rest is about sequences whose elements differ: what taking the head and
appending a new element do to the set of elements. Theorems: `TypeCorrect`
(with it, the limit on connections), `NoneLostOrShared`, `NobodyForgotten`.

`LoggerProofs`, for a ring of any capacity under `SoleProducer`: there are no two
producers. The invariant adds to the types and `AcceptedKept` that the producer's copy of
the tail is the tail and that there is room from its check to its store
(`ProducerSound`), that what the consumer has found stays (`ConsumerSound`), and
that messages are numbered as they are logged (`Numbered`), so that none is
accepted twice. `SlotsExclusive` follows from the first two. The lemmas take
the remainders out of the ring's arithmetic once (`RingFacts`, `QueueFacts`) and say
what each step does to the queue (`QueuedPush`, `QueuedPop` and the others). Theorems:
`TypeCorrect`, `SlotsNeverShared`, `NothingLost`, and `ImplementsBoundedQueue`:
initial states and steps of the ring are initial states and steps (or stutters)
of `BoundedQueue`. `SoleProducer` is needed: the run `logger_many` shows
`AcceptedKept` violated without it.

`ToolServerProofs`, for any number of requests of any kinds. `InOnePlace` looks
like a statement about seven sets; what makes it inductive is an order. Requests
are numbered as they arrive, every queue is in order of its numbers, and all that
has left the main pool is numbered below all that has not (`InOrder`): the socket,
the receive loop and the main pool are single file, and `SubmitTool` holds the main
pool while it hands over. Which lane a request is in follows from its kind
(`KindsSound`), what a pool has finished does not come back (`FinishedSound`), and
no request is missing (`Covered`). A request in two places would be below itself, or
of two kinds (`PlacesApart`). `LaneInOrder` needs one part of the order more: a tool
answered is below the tools still in its lane. Theorems: `TypeCorrect`, `OnePlaceEach`,
`LanesInOrder`, and `PoolsUsedSerially`, the safety half of `PoolsAreSerial`: every step
is a step or a stutter of each of the three `SerialPool`s. Only
`MaxRequests \in Nat` is assumed.

`ServiceRegistryProofs` begins with the ring. `KeysMoveToNewNodeOnly` is what
consistent hashing is for: adding a node leaves a key where it was, or moves it to the
new node. `LastAdderHoldsPoint` says what a ring filled from a list holds,
whatever collides: a point belongs to the last node of the list that hashes to it.
`AddAll` is a recursive function, which the provers do not unfold by themselves:
`BuildExists` shows by induction over the list that a function satisfying the
recursion exists, and the theorem is another induction. Of
the providers the invariant says little (`Sound`), which is the point: only a
provider that serves in an open session holds a node in its own name, and, while
restarts wait (`Patient`), one that serves holds it. Nothing about the order of
crashes, refusals and expiries is needed. Theorems: `TypeCorrect`, `ServingListed`
(assuming `Patient`, without which the run `registry_restart` shows it violated) and
`CallsFindAHome`, the action property `CallsHaveAHome`: a call goes to a provider, or the ring
is empty still, nobody being listed or ZooKeeper having failed to say who is. That ring is
what `UseRingFacts` says of `UseRing`: filled once, it holds points of providers and every key
finds one of them. Assumed besides: finitely many
providers, `Nobody` not among them.

`GatewayProofs` is about what survives in a session's memory.

* `PutFacts` says what `ShardedLRUCache::put` does for any capacity: keys stay
  distinct, the new value is there, what it leaves of the others is unchanged,
  what is dropped, for a new key in a full cache, is the entry used longest ago, and the size
  stays within the capacity.
* `Control`: a client's request is handed from the socket to the loop, the pool, the
  turn and the answer, and is never in two of them. Each action moves one client
  from one set to the next. From it `RequestsInOnePlace`.
* `Numbered`: a question under way is newer than the last one answered. So an
  exchange that is saved is newer than all that is remembered.
* `Remembering`: every memory is well formed and ends with the last exchange answered
  or an earlier one; and what the turn has read is still what the cache holds
  (`Recall`). This is the read-modify-write of a session without a lock of its own:
  it holds because a turn ends before another begins (`pool`, `ActsSerially`).
  `CutFacts`, `LongerWhole` and `CutWhole` say that appending an exchange and dropping
  the oldest messages past the limit leaves whole exchanges. From it `MemoriesAreWhole`.
* `RemembersConversation` is all of `KeepsConversation`, which has no fairness: the
  step that saves an answer is `Conversation`'s `Exchange` (`AnswerIsExchange`), with the
  client that the cache evicted, if any, as the one forgotten; no other step changes a memory.

`TypeCorrect` contains the limits of a turn: tool calls, reviews, memories. Assumed are
`MaxMessages` even and above 2 and `MaxToolCalls` and `Capacity` positive, as they are in
the program (20, 6, 62 to a shard); an odd limit would cut an exchange in two.

`SequenceLemmas` holds what several of these proofs share: what `Append`, `Tail` and
concatenation do to the set of a sequence's elements, to distinctness and to increasing order,
and two facts on numbers. The library's induction theorems take an operator for a parameter, which no
installed prover instantiates; `Least` is derived from `WFMin`, which takes a set, and
`Induction` from `Least`, so that what a recursive function computes can be proved too.

Model-checked only: liveness, which is out of the prover's reach. That is
`PendingDrains`, `RepliesDrained`, `DestructorReturns`, `AllAnswered`, `EventuallyServing`,
`CallsReachAgain`, `KeepsServing`, `EveryRequestAnswered`, `DeadTokenDropped`, and the fairness
halves of `KeepsContract`, `ActsSerially`, `PoolsAreSerial` and `KeepsFifo`. Every
invariant and every action property of a passing run is stated by a theorem. The
claims that runs refute (section 3, Findings) are of course not.

## 5. Not modelled

* Thread-safety of ZeroMQ sockets: the poller, `RpcProvider` and
  `GatewayServer` receive on a socket without the mutex its senders use. What
  happens is decided inside libzmq. The models treat each send and each receive
  as atomic.
* `ZkClient::Start` when `zookeeper_init` itself fails: the process exits, as in a `Crash`
  of a provider; a gateway that exits serves nobody, and nothing here is about it.
* Equal tokens: two logins of one user within the same second get the same JWT (its dates are
  whole seconds), and a logout of one revokes the other. In `Gateway` each login has its own.
* Use of a pool after its destructor has returned: a client between queueing and
  notifying (`threadpool.h:71-73`) would touch a destroyed condition variable.
  The system's pools live as long as their processes; `ThreadPool` lets such a
  client notify nobody.
* Blocking of `send` at a socket's high-water mark, and exceptions thrown by
  ZeroMQ calls.
* The RAG index: embedding, normalisation, search and the scores by which
  snippets are cut off are floating-point arithmetic; `buildRagContext` is part
  of `Prepare` or throws. The index is built, saved and loaded once, by the main
  thread before it serves; what a crash between its two files leaves is a hazard without a
  property.
* What the sandbox and the database do with a tool call; temporary files of the
  sandbox (one task at a time, by `PoolsAreSerial`).
* ZeroMQ reconnections of a client: the ROUTER then sees a new identity, and with it a
  new session; the REQ socket waits for an answer that goes to the old one.
* `RemoveNode`, `GetData`, `lru_cache.hpp`, `lockqueue.h`: called by nothing that is
  built. `NotifyService` and `RegisterTool` run once before anything is
  concurrent. The connection pool's scanner only sleeps.
* Log levels: the writer stamps a line with the level last set, which may be
  another line's.
* Logging, metrics other than the pending gauge, formatting of prompts and
  results, embedding arithmetic and similarity scores.
* Generated stubs, vendored libraries, example services that are not built. They
  are most of the repository's lines (`json.hpp`, `httplib.h`, `jwt-cpp`,
  `hnswlib`, `*.pb.cc` and `*.pb.h` alone are over 50,000 of some 56,000), so the
  share of all lines that `map` names is small, whatever is modelled of the
  program's own.

## 6. Plan

1. The RAG index's start-up: building, saving and loading with crashes and an embedding
   service that fails.
2. Liveness by hand, as far as it goes without fairness: invariants from which the
   progress arguments start (who can take the next step while a call is pending, while a
   borrower sleeps, while a turn runs), stated and proved.
3. Lemmas now kept in one proof module that a second one comes to need: into
   `SequenceLemmas`.
