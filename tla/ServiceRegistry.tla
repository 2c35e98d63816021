-------------------------- MODULE ServiceRegistry --------------------------
(***************************************************************************)
(* Providers registering in ZooKeeper (rpcprovider.cpp, zookeeperutil.cpp) *)
(* and the gateway that finds them there (mprpcchannel.cpp,                *)
(* GatewayServer.h).                                                       *)
(*                                                                         *)
(* A provider creates three znodes in turn: "service" and "method", which  *)
(* are persistent and shared by all providers, and its own "node", an      *)
(* ephemeral child of the method.  ZkClient::Create asks zoo_exists and,   *)
(* told there is no such node, calls zoo_create; in between other          *)
(* providers act.  Services have several methods, registered alike; the    *)
(* gateway looks under one of them.                                        *)
(*                                                                         *)
(* Whoever turns to ZooKeeper, provider or gateway, does so through        *)
(* ZkClient::Start, which may wait for ever.                               *)
(*                                                                         *)
(* The ephemeral node of a process that died stays until ZooKeeper ends    *)
(* its session 30 s later: owner[p] is then "old", whatever p does since.  *)
(***************************************************************************)
EXTENDS Naturals, FiniteSets, SequencesExt

CONSTANTS
  Providers,   \* the addresses ("ip:port") providers run at
  LastPoint,   \* bound: hash values are 0..LastPoint
  MaxFaults,   \* bound: crashes, hangs, lost sessions, unanswered requests
  Patient      \* whether whoever restarts a provider waits out its old session

Nobody == "nobody"

ASSUME RegistryAssumption ==
  /\ IsFiniteSet(Providers) /\ Nobody \notin Providers
  /\ LastPoint \in Nat /\ MaxFaults \in Nat /\ Patient \in BOOLEAN

INSTANCE ConsistentHash WITH Nodes <- Providers

Paths == {"service", "method", "node"}
After == [service |-> "method", method |-> "node", node |-> "serving"]

VARIABLES
  step,      \* step[p]: "down", "hung" in Start, the path at hand, "serving"
  absent,    \* absent[p]: zoo_exists said the path is not there
  unsure,    \* unsure[p]: p's zoo_exists for its own node was not answered
  session,   \* session[p] of p's present process: "none", "open", "expired"
  owner,     \* owner[p]: whose session holds p's node: "none", "own", "old"
  shared,    \* the persistent nodes that exist
  faults,
  at,        \* at[p]: where the virtual nodes of p are on the ring
  ring,      \* CallMethod's static ring
  gateway,   \* "down", "syncing" tools, "running", "hung" in Start
  left,      \* ListTools calls InitMcpTools has still to make
  tools,     \* the providers whose tools the gateway knows
  steady     \* (history) providers that served all along since the listing

provider == <<step, absent, unsure, session, owner, shared>>
caller == <<at, ring, gateway, left, tools>>
vars == <<provider, faults, caller, steady>>

Init ==
  /\ step = [p \in Providers |-> "down"]
  /\ absent = [p \in Providers |-> FALSE]
  /\ unsure = [p \in Providers |-> FALSE]
  /\ session = [p \in Providers |-> "none"]
  /\ owner = [p \in Providers |-> "none"]
  /\ shared = {} /\ faults = 0
  /\ at \in [Providers -> {{x} : x \in Points}]
  /\ ring = EmptyRing
  /\ gateway = "down" /\ left = 0 /\ tools = {} /\ steady = {}

There(p, path) == IF path = "node" THEN owner[p] # "none" ELSE path \in shared
Parent == [service |-> {}, method |-> {"service"}, node |-> {"method"}]

\* ZooKeeper makes a node that is not there under a parent that is.
Creatable(p, path) == ~There(p, path) /\ Parent[path] \subseteq shared
Listed == {p \in Providers : owner[p] # "none"}

Fault == faults < MaxFaults /\ faults' = faults + 1

\* Create is through with the path at hand.
Advance(p) == /\ step' = [step EXCEPT ![p] = After[@]]
              /\ absent' = [absent EXCEPT ![p] = FALSE]

\* p's process ends; its session is not closed but left to expire.
Gone(p) == /\ step' = [step EXCEPT ![p] = "down"]
           /\ absent' = [absent EXCEPT ![p] = FALSE]
           /\ session' = [session EXCEPT ![p] = "none"]
           /\ steady' = steady \ {p}

MakeNode(p) ==
  IF step[p] = "node"
  THEN owner' = [owner EXCEPT ![p] = "own"] /\ UNCHANGED shared
  ELSE shared' = shared \cup {step[p]} /\ UNCHANGED owner

Orphaned(p) == IF owner[p] = "own" THEN "old" ELSE owner[p]

-----------------------------------------------------------------------------
(* Faulty variants of definitions below, each with one plausible slip.     *)

\* A shared node is created without asking whether it is there.
ExistsNotAsked(p) ==
  /\ step[p] \in Paths /\ ~absent[p] /\ session[p] = "open"
  /\ IF step[p] = "node" /\ There(p, "node")
     THEN Advance(p)
     ELSE absent' = [absent EXCEPT ![p] = TRUE] /\ UNCHANGED step
  /\ UNCHANGED <<unsure, session, owner, shared, faults, caller, steady>>

\* A provider goes on when it could not create its node.
CreateRefusedIgnored(p) ==
  /\ absent[p] /\ (session[p] = "expired" \/ ~Creatable(p, step[p]))
  /\ Advance(p)
  /\ UNCHANGED <<unsure, session, owner, shared, faults, caller, steady>>

\* One more call than there are providers.
AskOnceMore ==
  /\ gateway = "syncing"
  /\ left' = left - 1
  /\ UNCHANGED <<provider, faults, at, ring, gateway, tools, steady>>

\* The ring is filled at start-up only.
UseRingAtStart ==
  /\ IF gateway = "running" \/ Taken(ring) # {} THEN UNCHANGED ring
     ELSE \E order \in SetToSeqs(Listed) : ring' = AddAll(at, order)
  /\ UNCHANGED faults

-----------------------------------------------------------------------------
(* Providers.                                                              *)

\* ZkClient::Start.  The session may be up before zoo_set_context has named
\* the semaphore: the watcher then posts to nobody, and Start waits for ever.
Start(p) ==
  /\ step[p] = "down"
  /\ Patient => owner[p] # "old"
  /\ session' = [session EXCEPT ![p] = "open"]
  /\ unsure' = [unsure EXCEPT ![p] = FALSE]
  /\ \/ step' = [step EXCEPT ![p] = "service"] /\ UNCHANGED faults
     \/ step' = [step EXCEPT ![p] = "hung"] /\ Fault
  /\ UNCHANGED <<absent, owner, shared, caller, steady>>

\* zoo_exists answers.
Exists(p) ==
  /\ step[p] \in Paths /\ ~absent[p] /\ session[p] = "open"
  /\ IF There(p, step[p])
     THEN Advance(p)
     ELSE absent' = [absent EXCEPT ![p] = TRUE] /\ UNCHANGED step
  /\ UNCHANGED <<unsure, session, owner, shared, faults, caller, steady>>

\* zoo_exists fails.  Any code but ZNONODE is taken to mean the node exists.
ExistsFails(p) ==
  /\ step[p] \in Paths /\ ~absent[p]
  /\ IF session[p] = "expired" THEN UNCHANGED faults ELSE Fault
  /\ unsure' = [unsure EXCEPT ![p] = @ \/ step[p] = "node"]
  /\ Advance(p)
  /\ UNCHANGED <<session, owner, shared, caller, steady>>

Create(p) ==
  /\ absent[p] /\ session[p] = "open" /\ Creatable(p, step[p])
  /\ MakeNode(p) /\ Advance(p)
  /\ UNCHANGED <<unsure, session, faults, caller, steady>>

\* The node has come up since, its parent is missing because the question
\* about it went unanswered, or the session is gone: exit(EXIT_FAILURE).
CreateRefused(p) ==
  /\ absent[p] /\ (session[p] = "expired" \/ ~Creatable(p, step[p]))
  /\ Gone(p)
  /\ owner' = [owner EXCEPT ![p] = Orphaned(p)]
  /\ UNCHANGED <<unsure, shared, faults, caller>>

\* The connection is lost under zoo_create: exit, the node made or not.
CreateUnanswered(p) ==
  /\ absent[p] /\ Creatable(p, step[p]) /\ Fault
  /\ \/ session[p] = "open" /\ shared' = shared \cup ({step[p]} \ {"node"})
        /\ owner' = [owner EXCEPT ![p] = IF step[p] = "node" THEN "old" ELSE @]
     \/ UNCHANGED <<owner, shared>>
  /\ Gone(p)
  /\ UNCHANGED <<unsure, caller>>

Crash(p) ==
  /\ step[p] # "down" /\ Fault
  /\ Gone(p)
  /\ owner' = [owner EXCEPT ![p] = Orphaned(p)]
  /\ UNCHANGED <<unsure, shared, caller>>

\* ZooKeeper does not hear from a process that runs; nobody registers again.
LoseSession(p) ==
  /\ session[p] = "open" /\ Fault
  /\ session' = [session EXCEPT ![p] = "expired"]
  /\ owner' = [owner EXCEPT ![p] = IF @ = "own" THEN "none" ELSE @]
  /\ UNCHANGED <<step, absent, unsure, shared, caller, steady>>

\* ZooKeeper ends the session of a process that is no more.
ExpireOld(p) ==
  /\ owner[p] = "old"
  /\ owner' = [owner EXCEPT ![p] = "none"]
  /\ UNCHANGED <<step, absent, unsure, session, shared, faults, caller, steady>>

Register(p) == Start(p) \/ Exists(p) \/ Create(p) \/ CreateRefused(p)

-----------------------------------------------------------------------------
(* The gateway.                                                            *)

\* GetChildren returns the children or, if ZooKeeper does not give them, an
\* empty list, which looks like nobody being listed.
GetChildren(nodes) == \/ nodes = Listed /\ UNCHANGED faults
                      \/ nodes = {} /\ Fault

\* The ring is filled with the nodes of a list, which may come in any order.
Fill(nodes) == \E order \in SetToSeqs(nodes) : ring' = AddAll(at, order)

\* The ring CallMethod uses: once filled it stays, found empty it is filled
\* with what GetChildren returns; if that is nothing the call fails, and the
\* next one asks again.
UseRing ==
  \/ Taken(ring) # {} /\ UNCHANGED <<ring, faults>>
  \/ Taken(ring) = {} /\ \E nodes \in {Listed, {}} : GetChildren(nodes) /\ Fill(nodes)

\* InitMcpTools lists the providers to know how many there are.
ListProviders ==
  /\ gateway = "down"
  /\ \E nodes \in {Listed, {}} :
       /\ GetChildren(nodes)
       /\ left' = Cardinality(nodes)
       /\ steady' = {p \in nodes : step[p] = "serving"}
  /\ gateway' = "syncing"
  /\ UNCHANGED <<provider, at, ring, tools>>

\* The empty ListToolsRequest hashes to one point, whoever it is meant for.
ListKey == 0

\* One ListTools call per provider; a provider that is down is waited for
\* in vain.
AskForTools ==
  /\ gateway = "syncing" /\ left > 0
  /\ left' = left - 1
  /\ UseRing
  /\ LET home == GetNode(ring', ListKey)
     IN tools' = tools \cup {p \in {home} : p # Nobody /\ step[p] = "serving"}
  /\ UNCHANGED <<provider, at, gateway, steady>>

FinishSync ==
  /\ gateway = "syncing" /\ left = 0
  /\ gateway' = "running"
  /\ UNCHANGED <<provider, faults, at, ring, left, tools, steady>>

\* A tool call of a turn; what matters here is the ring it leaves.
CallTool ==
  /\ gateway = "running"
  /\ UseRing
  /\ UNCHANGED <<provider, at, gateway, left, tools, steady>>

\* The main thread, to list the providers or to fill the ring, or later a turn
\* that found the ring empty waits in ZkClient::Start for ever, holding
\* ring_init_mutex in CallMethod: the ring is never filled.
GatewayHangs ==
  /\ gateway \in {"down", "running"} \/ (gateway = "syncing" /\ left > 0)
  /\ Taken(ring) = {} /\ Fault
  /\ gateway' = "hung"
  /\ UNCHANGED <<provider, at, ring, left, tools, steady>>

Gateway == ListProviders \/ AskForTools \/ FinishSync \/ CallTool

-----------------------------------------------------------------------------

Next ==
  \/ \E p \in Providers :
       \/ Register(p) \/ ExistsFails(p) \/ CreateUnanswered(p)
       \/ Crash(p) \/ LoseSession(p) \/ ExpireOld(p)
  \/ Gateway \/ GatewayHangs

\* A provider that is down is started again (by hand: the program does not
\* see to it), a step that is not held up is taken, and ZooKeeper ends the
\* sessions of the dead.  The gateway makes calls as long as it does not hang.
Spec ==
  /\ Init /\ [][Next]_vars
  /\ \A p \in Providers : WF_vars(Register(p) \/ (session[p] = "expired" /\ ExistsFails(p)))
                          /\ WF_vars(ExpireOld(p))
  /\ WF_vars(Gateway)

-----------------------------------------------------------------------------
(* Correctness.                                                            *)

TypeOK ==
  /\ step \in [Providers -> Paths \cup {"down", "hung", "serving"}]
  /\ absent \in [Providers -> BOOLEAN] /\ unsure \in [Providers -> BOOLEAN]
  /\ session \in [Providers -> {"none", "open", "expired"}]
  /\ owner \in [Providers -> {"none", "own", "old"}]
  /\ shared \subseteq Paths \ {"node"}
  /\ faults \in 0..MaxFaults
  /\ ring \in Rings
  /\ gateway \in {"down", "syncing", "running", "hung"}
  /\ left \in 0..Cardinality(Providers)
  /\ tools \subseteq Providers /\ steady \subseteq Providers

\* "Node mounted": a provider that has logged its registration, serves and
\* still has its session is listed, and listed in the name of that session,
\* unless ZooKeeper did not answer when it asked for its node.
ServingIsListed ==
  \A p \in Providers :
    step[p] = "serving" /\ session[p] = "open" /\ ~unsure[p] => owner[p] = "own"

\* A call that does not hang has a node to go to, whatever its key, for every
\* key is below some point or wraps around to the first.  It goes without only
\* if the ring has not been filled so far, and then only because nobody is
\* listed or because ZooKeeper would not say who is.
CallsHaveAHome ==
  [][AskForTools \/ CallTool =>
       \/ \A x \in Points : GetNode(ring', x) \in Providers
       \/ Taken(ring) = {} /\ (Listed = {} \/ faults' # faults)]_vars

\* Providers that start together refuse one another's shared nodes and exit;
\* started again they all come to serve, unless one hangs in Start.
EventuallyServing ==
  <>[](\A p \in Providers : step[p] \in {"serving", "hung"})

\* The ring is never refreshed, yet it heals: if somebody stays listed, calls
\* come to have a node to go to, and it serves once its process is back.  A
\* list ZooKeeper did not give costs the calls that asked for it; only a
\* gateway that hangs before its ring is filled reaches nobody for ever.
CallsReachAgain ==
  <>[](Listed # {}) =>
    <>[](\/ gateway = "hung" /\ Taken(ring) = {}
         \/ \A x \in Points : LET home == GetNode(ring, x)
                               IN home # Nobody /\ step[home] \in {"serving", "hung"})

\* The gateway knows the tools of every provider that was listed when it
\* began to ask and has served since.
ToolsComplete == gateway = "running" => steady \subseteq tools
=============================================================================
