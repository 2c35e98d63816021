------------------------------ MODULE Gateway ------------------------------
(***************************************************************************)
(* The gateway from the client's prompt to its answer: chat_client.cpp,    *)
(* the receive loop of GatewayServer.h, the filters of GatewayPipeline.h,  *)
(* a pool that runs one task at a time (see ThreadPool), and the turn a    *)
(* task is, AgentWorkflow.h, with the memory it reads and writes.          *)
(*                                                                         *)
(* Clients use REQ sockets: one request of each is under way at a time.    *)
(* What models, tools, Redis and the user database answer is a choice; a   *)
(* tool call is one step, RpcChannel says how it ends.  Models and tools   *)
(* are waited for up to a limit.  Redis, the user database and, while the  *)
(* ring of providers is empty, ZooKeeper are waited for without one: the   *)
(* receive loop or the turn may be held up for ever.  The clients of the   *)
(* model share one shard of the memory.                                    *)
(*                                                                         *)
(* A client's token is "none", "live", "expired", or "revoked": on the     *)
(* black list, where it stays for 7200 s, which is as long as it can live. *)
(***************************************************************************)
EXTENDS SessionMemory, FiniteSets

CONSTANTS
  Clients,
  MaxQuestions,   \* bound: questions all clients ask together
  MaxMessages,    \* messages in a memory, 20 in the program
  MaxToolCalls,   \* in a turn, 6 in the program
  MaxRetry        \* reviews in a turn, 3 in the program

Nobody == "nobody"

ASSUME GatewayAssumption ==
  /\ Nobody \notin Clients /\ MaxQuestions \in Nat
  /\ MaxMessages \in Nat /\ MaxMessages > 2 /\ MaxMessages % 2 = 0
  /\ MaxToolCalls \in Nat \ {0} /\ MaxRetry \in Nat

Idle == [phase |-> "idle"]

VARIABLES
  token,     \* token[c]: what has become of the token c holds
  request,   \* request[c]: what c waits for an answer to, or "none"
  reply,     \* reply[c]: the answer on its way to c, or "none"
  asked,     \* asked[c]: number of c's last question
  inbox,     \* clients whose requests are queued on the ROUTER socket
  hand,      \* whose question the receive loop is submitting, or Nobody
  queue,     \* clients whose questions wait in the pool
  turn,      \* the task the pool runs
  cache,     \* session_memory
  answered,  \* answered[c]: c's last question whose exchange was saved
  redis,     \* "up" or "failing": commands fail, or the connection is broken
  stuck,     \* whether a service without a limit holds the receive loop up
  routed     \* whether CallMethod's ring of providers is filled

client == <<token, request, reply, asked>>
services == <<redis, stuck, routed>>
vars == <<client, inbox, hand, queue, turn, cache, answered, services>>

Requests == {"login", "logout", "question"}
Replies == {"welcome", "unauthorized", "forbidden", "goodbye", "redis error",
            "answer", "failure"}

Init ==
  /\ token = [c \in Clients |-> "none"]
  /\ request = [c \in Clients |-> "none"]
  /\ reply = [c \in Clients |-> "none"]
  /\ asked = [c \in Clients |-> 0]
  /\ inbox = <<>> /\ hand = Nobody /\ queue = <<>> /\ turn = Idle
  /\ cache = <<>> /\ answered = [c \in Clients |-> 0]
  /\ redis = "up" /\ stuck = FALSE /\ routed \in BOOLEAN

Answer(c, r) == reply' = [reply EXCEPT ![c] = r]

\* Memories: the system prompt, then questions and answers.
System == [role |-> "system", of |-> 0]
User(n) == [role |-> "user", of |-> n]
Assistant(n) == [role |-> "assistant", of |-> n]

EndTurn(r) == Answer(turn.client, r) /\ turn' = Idle

-----------------------------------------------------------------------------
(* Faulty variants of definitions below, each with one plausible slip.     *)

\* The oldest message is cut, not the oldest exchange.
RememberOddly(messages, n) ==
  LET more == messages \o <<User(n), Assistant(n)>>
  IN IF Len(more) > MaxMessages
     THEN <<Head(more)>> \o SubSeq(more, 3, Len(more)) ELSE more

\* The client drops its token when it is told of its logout, and only then.
HearGoodbyeOnly(c) ==
  /\ reply[c] # "none"
  /\ reply' = [reply EXCEPT ![c] = "none"]
  /\ request' = [request EXCEPT ![c] = "none"]
  /\ token' = [token EXCEPT ![c] = CASE reply[c] = "welcome" -> "live"
                                     [] reply[c] = "goodbye" -> "none"
                                     [] OTHER -> @]
  /\ UNCHANGED <<asked, inbox, hand, queue, turn, cache, answered, services>>

\* A turn that throws ends without an answer.
ThrowSilently ==
  /\ turn # Idle /\ turn.phase # "hung"
  /\ turn' = Idle
  /\ UNCHANGED <<client, inbox, hand, queue, cache, answered, services>>

\* A turn goes on however many tools it has called.
CallToolUnlimited ==
  /\ turn.phase = "tool"
  /\ turn' = [turn EXCEPT !.phase = "model"]
  /\ UNCHANGED <<client, inbox, hand, queue, cache, answered, services>>

\* The request is queued and stays in the receive loop's hand.
DispatchTwice ==
  /\ hand # Nobody /\ turn = Idle
  /\ queue' = Append(queue, hand)
  /\ hand' = IF queue = <<>> THEN hand ELSE Nobody
  /\ UNCHANGED <<client, inbox, turn, cache, answered, services>>

-----------------------------------------------------------------------------
(* The client.                                                             *)

Send(c, r) == /\ request[c] = "none"
              /\ request' = [request EXCEPT ![c] = r]
              /\ inbox' = Append(inbox, c)
              /\ UNCHANGED <<token, reply, hand, queue, turn, cache, answered, services>>

SendLogin(c) == token[c] = "none" /\ Send(c, "login") /\ UNCHANGED asked
SendLogout(c) == token[c] # "none" /\ Send(c, "logout") /\ UNCHANGED asked

\* Questions are numbered as they are asked, whoever asks them.
SendQuestion(c) ==
  /\ token[c] # "none"
  /\ Send(c, "question")
  /\ \E n \in 1..MaxQuestions :
       /\ \A d \in Clients : asked[d] < n
       /\ \E d \in Clients : asked[d] = n - 1
       /\ asked' = [asked EXCEPT ![c] = n]

\* "Login succeeded" brings a token; "logged out" and "403 Forbidden" drop it,
\* also when an answer of the model happens to contain these words.
Hear(c) ==
  /\ reply[c] # "none"
  /\ reply' = [reply EXCEPT ![c] = "none"]
  /\ request' = [request EXCEPT ![c] = "none"]
  /\ \E kept \in {TRUE, reply[c] # "answer"} :
       token' = [token EXCEPT ![c] =
                   CASE reply[c] = "welcome" -> "live"
                     [] reply[c] \in {"goodbye", "forbidden"} \/ ~kept -> "none"
                     [] OTHER -> @]
  /\ UNCHANGED <<asked, inbox, hand, queue, turn, cache, answered, services>>

TokenExpires(c) ==
  /\ token[c] \in {"live", "revoked"}
  /\ token' = [token EXCEPT ![c] = "expired"]
  /\ UNCHANGED <<request, reply, asked, inbox, hand, queue, turn, cache, answered, services>>

-----------------------------------------------------------------------------
(* The receive loop: one request through the filters.                      *)

\* The next request, taken off the socket by a loop that has its hands free.
Received(c) == ~stuck /\ hand = Nobody /\ inbox # <<>> /\ c = Head(inbox) /\ inbox' = Tail(inbox)

LoginFilter(c) ==
  /\ Received(c) /\ request[c] = "login"
  /\ \E r \in {"welcome", "unauthorized"} : Answer(c, r)
  /\ UNCHANGED <<token, request, asked, hand, queue, turn, cache, answered, services>>

\* exists() asks Redis for the black list; no answer, or an error for one, is
\* taken to mean that the token is not there.
Refuted(c) == token[c] = "expired" \/ (token[c] = "revoked" /\ redis = "up")

JwtAuthFilter(c) ==
  /\ Received(c) /\ request[c] # "login" /\ Refuted(c)
  /\ Answer(c, "forbidden")
  /\ UNCHANGED <<token, request, asked, hand, queue, turn, cache, answered, services>>

\* setEx: done; refused; or the connection breaks under it, and the token is on
\* the list or not.
LogoutFilter(c) ==
  /\ Received(c) /\ request[c] = "logout" /\ ~Refuted(c)
  /\ LET revoked == [token EXCEPT ![c] = "revoked"]
     IN \/ /\ redis = "up" /\ Answer(c, "goodbye")
           /\ token' = revoked /\ UNCHANGED redis
        \/ /\ Answer(c, "redis error")
           /\ token' \in {token} \cup {t \in {revoked} : redis = "up"}
           /\ redis' = "failing"
  /\ UNCHANGED <<request, asked, hand, queue, turn, cache, answered, stuck, routed>>

PassQuestion(c) ==
  /\ Received(c) /\ request[c] = "question" /\ ~Refuted(c)
  /\ hand' = c
  /\ UNCHANGED <<client, queue, turn, cache, answered, services>>

Filter(c) == LoginFilter(c) \/ JwtAuthFilter(c) \/ LogoutFilter(c) \/ PassQuestion(c)

\* The database (for a login) or Redis takes the question a filter asks and
\* never answers.  The request at hand counts as on the socket still.
FilterHangs ==
  /\ ~stuck /\ hand = Nobody /\ inbox # <<>>
  /\ stuck' = TRUE
  /\ UNCHANGED <<client, inbox, hand, queue, turn, cache, answered, redis, routed>>

\* Redis begins to refuse commands or to carry them out again, or its
\* connection breaks: nobody connects again, and it goes on failing.
RedisChanges ==
  /\ redis' \in {"up", "failing"} \ {redis}
  /\ UNCHANGED <<client, inbox, hand, queue, turn, cache, answered, stuck, routed>>

\* pool.addTask waits for the mutex a running turn holds, and nobody is
\* received from meanwhile.
Dispatch ==
  /\ hand # Nobody /\ turn = Idle
  /\ queue' = Append(queue, hand)
  /\ hand' = Nobody
  /\ UNCHANGED <<client, inbox, turn, cache, answered, services>>

-----------------------------------------------------------------------------
(* The turn.                                                               *)

BeginTurn ==
  /\ turn = Idle /\ queue # <<>>
  /\ turn' = [phase |-> "begun", client |-> Head(queue), messages |-> Null,
              calls |-> 0, retries |-> 0]
  /\ queue' = Tail(queue)
  /\ UNCHANGED <<client, inbox, hand, cache, answered, services>>

\* buildRagContext and loadSessionMemory.
Prepare ==
  /\ turn.phase = "begun"
  /\ LET found == Find(cache, turn.client)
     IN turn' = [turn EXCEPT !.phase = "model",
                             !.messages = IF found = Null THEN <<System>> ELSE found]
  /\ cache' = Touch(cache, turn.client)
  /\ UNCHANGED <<client, inbox, hand, queue, answered, services>>

\* An exception, in the retrieval or over what a model or a tool sent, is the
\* answer.
Throw ==
  /\ turn # Idle /\ turn.phase # "hung"
  /\ EndTurn("failure")
  /\ UNCHANGED <<token, request, asked, inbox, hand, queue, cache, answered, services>>

\* Neither model answers.
ModelFails ==
  /\ turn.phase = "model"
  /\ EndTurn("failure")
  /\ UNCHANGED <<token, request, asked, inbox, hand, queue, cache, answered, services>>

\* messages_array with one more exchange, cut down by two when too long.
Remember(messages, n) ==
  LET more == messages \o <<User(n), Assistant(n)>>
  IN IF Len(more) > MaxMessages
     THEN <<Head(more)>> \o SubSeq(more, 4, Len(more)) ELSE more

\* The model answers; the exchange is saved and the client told.
ModelAnswers ==
  /\ turn.phase = "model"
  /\ LET c == turn.client
     IN /\ cache' = Put(cache, c, Remember(turn.messages, asked[c]))
        /\ answered' = [answered EXCEPT ![c] = asked[c]]
  /\ EndTurn("answer")
  /\ UNCHANGED <<token, request, asked, inbox, hand, queue, services>>

\* The model calls for a tool, the last time perhaps although none was offered.
ModelCalls ==
  /\ turn.phase = "model"
  /\ turn' = [turn EXCEPT !.phase = "tool", !.calls = @ + 1]
  /\ UNCHANGED <<client, inbox, hand, queue, cache, answered, services>>

\* The tool's result, reviewed if it reads like an error, goes back to the
\* model, unless the turn has used up its calls.  A call that finds the ring
\* empty fills it or fails.
CallTool ==
  /\ turn.phase = "tool"
  /\ routed' \in {TRUE, routed}
  /\ \E failed \in {TRUE, ~routed'} :
       LET reviewed == failed /\ turn.retries < MaxRetry
           next == [turn EXCEPT !.phase = "model",
                                !.retries = IF reviewed THEN @ + 1 ELSE @]
       IN IF turn.calls < MaxToolCalls
          THEN turn' = next /\ UNCHANGED reply
          ELSE EndTurn("failure")
  /\ UNCHANGED <<token, request, asked, inbox, hand, queue, cache, answered, redis, stuck>>

\* Or it waits for ZooKeeper in ZkClient::Start for ever, before the tool's 10 s
\* begin: the turn does not end, and the pool's mutex is never released.
CallHangs ==
  /\ turn.phase = "tool" /\ ~routed
  /\ turn' = [turn EXCEPT !.phase = "hung"]
  /\ UNCHANGED <<client, inbox, hand, queue, cache, answered, services>>

Turn == \/ BeginTurn \/ Prepare \/ Throw \/ ModelFails \/ ModelAnswers
        \/ ModelCalls \/ CallTool \/ CallHangs

-----------------------------------------------------------------------------

Next ==
  \/ \E c \in Clients : \/ SendLogin(c) \/ SendLogout(c) \/ SendQuestion(c)
                        \/ Hear(c) \/ TokenExpires(c) \/ Filter(c)
  \/ FilterHangs \/ RedisChanges \/ Dispatch \/ Turn

\* Every thread runs: a client's, which goes on sending and hears what is sent
\* to it, the receive loop's and the pool's, which models and tools answer or
\* keep waiting up to a limit.  Nothing makes FilterHangs or CallHangs end.
Spec ==
  /\ Init /\ [][Next]_vars
  /\ \A c \in Clients : WF_vars(SendLogin(c) \/ SendLogout(c) \/ SendQuestion(c) \/ Hear(c))
  /\ WF_vars((\E c \in Clients : Filter(c)) \/ Dispatch)
  /\ WF_vars(Turn)

-----------------------------------------------------------------------------
(* Correctness.                                                            *)

Messages == {System} \cup {User(n) : n \in 1..MaxQuestions}
            \cup {Assistant(n) : n \in 1..MaxQuestions}

Turns == [phase : {"begun", "model", "tool", "hung"}, client : Clients, messages : Seq(Messages),
          calls : 0..MaxToolCalls, retries : 0..MaxRetry]

\* Types, and the limits a turn keeps to.
TypeOK ==
  /\ token \in [Clients -> {"none", "live", "expired", "revoked"}]
  /\ request \in [Clients -> Requests \cup {"none"}]
  /\ reply \in [Clients -> Replies \cup {"none"}]
  /\ asked \in [Clients -> 0..MaxQuestions]
  /\ answered \in [Clients -> 0..MaxQuestions]
  /\ inbox \in Seq(Clients) /\ queue \in Seq(Clients)
  /\ hand \in Clients \cup {Nobody}
  /\ turn \in Turns \cup {Idle}
  /\ cache \in Seq([key : Clients, value : Seq(Messages)]) /\ Len(cache) <= Capacity
  /\ redis \in {"up", "failing"} /\ stuck \in BOOLEAN /\ routed \in BOOLEAN

\* Whose request is where: on the socket, in the loop's hand, in the pool, in a
\* turn, or answered.
Places == [socket |-> ToSet(inbox), loop |-> {hand} \ {Nobody}, pool |-> ToSet(queue),
           turn |-> {c \in Clients : turn # Idle /\ turn.client = c},
           answered |-> {c \in Clients : reply[c] # "none"}]

\* A client that waits has its request in one place, and a client that does
\* not has none anywhere: none is lost, none is answered or served twice.
OneRequestEach ==
  /\ UNION {Places[a] : a \in DOMAIN Places} = {c \in Clients : request[c] # "none"}
  /\ \A a, b \in DOMAIN Places : a # b => Places[a] \cap Places[b] = {}
  /\ IsInjective(inbox) /\ IsInjective(queue)

\* The messages of a memory: the system prompt, kept for ever, then whole
\* exchanges in order, so that a model never reads a question or an answer
\* that has lost its other half; and fewer than the limit.
WellFormed(messages) ==
  /\ Len(messages) \in 3..(MaxMessages - 1) /\ Len(messages) % 2 = 1
  /\ messages[1] = System
  /\ \A i \in DOMAIN messages :
       i > 1 => LET n == messages[i].of
                IN IF i % 2 = 0
                   THEN messages[i] = User(n) /\ (i = 2 \/ n > messages[i - 1].of)
                   ELSE messages[i] = Assistant(messages[i - 1].of)

MemoriesWellFormed == \A i \in DOMAIN cache : WellFormed(cache[i].value)

\* The memory holds the latest exchanges that were answered, whatever turns
\* failed in between, and a client is forgotten only for another.
Exchanges(messages) ==
  [i \in 1..((Len(messages) - 1) \div 2) |-> messages[2 * i].of]
conversation ==
  [c \in Clients |-> IF c \in Keys(cache) THEN Exchanges(Find(cache, c)) ELSE <<>>]
Talk == INSTANCE Conversation
          WITH Window <- (MaxMessages - 1) \div 2, Room <- Capacity, memory <- conversation
KeepsConversation == Talk!Spec

\* A service that is waited for without a limit holds the gateway up for ever.
Stalled == stuck \/ turn.phase = "hung"

\* Unless the gateway stalls, nobody waits for ever: every request is answered,
\* a login's too while a turn of somebody else's keeps the receive loop waiting,
\* and whatever goes wrong in a turn or with Redis.
EveryRequestAnswered == \A c \in Clients : []<>(request[c] = "none" \/ Stalled)

\* A token the gateway will not take: expired, or on the black list of a Redis
\* that can say so.
Dead(c) == token[c] = "expired" \/ (token[c] = "revoked" /\ redis = "up")

\* No client is locked out: one that holds such a token, because it expired or
\* because its logout was carried out and reported as failed, learns of it and
\* comes back to the login prompt, unless the gateway stalls or Redis lets the
\* token through again.
DeadTokenDropped == \A c \in Clients : []<>(~Dead(c) \/ Stalled)
=============================================================================
