-------------------------- MODULE RpcChannelProofs --------------------------
(***************************************************************************)
(* Proofs about RpcChannel, for any finite set of calls, any nodes and any *)
(* limits that keep each wait shorter than the scavenger's limit.          *)
(*                                                                         *)
(* The closure of a call is a token that is in one place at a time: with   *)
(* the caller until it registers, then in pending_map_, then in the hands  *)
(* of HandleRpcResponse, and it is spent when it runs.  The inductive      *)
(* invariant IInv says where the token is, what the messages in flight and *)
(* the poller know about the call they belong to, and that an entry whose  *)
(* caller still waits is too young for the scavenger.                      *)
(***************************************************************************)
EXTENDS RpcChannel, FiniteSetTheorems, TLAPS

InCall == {"inserted", "counted"}
Sent   == {"waiting", "done"}

\* c has taken a correlation id (an early return leaves before taking one).
HasId(c) == pc[c] \in {"numbered"} \cup InCall \cup Sent /\ ~failed[c]

\* Ids taken are below the generator and no two calls share one.
IdsUnique ==
  /\ \A c \in Calls : HasId(c) => req_id[c] < uuid_gen
  /\ \A c, d \in Calls : HasId(c) /\ HasId(d) /\ req_id[c] = req_id[d] => c = d

\* What holds of a registered call.
TableSound ==
  /\ IsFiniteSet(DOMAIN pending_map)
  /\ \A i \in DOMAIN pending_map :
       LET c == pending_map[i]
       IN /\ req_id[c] = i
          /\ pc[c] \in InCall \cup Sent
          /\ ~failed[c]
          /\ ran[c] = 0
          /\ pc[c] = "waiting" => age[c] <= WaitLimit[c]
          /\ stage # "poll" => ctx # c

\* A call past GetNode knows its node.
Routed == \A c \in Calls :
            pc[c] \in {"routed", "numbered"} \cup InCall => target[c] \in Nodes

\* Between registering and sending, the entry is there and new.
FreshEntries ==
  \A c \in Calls : pc[c] \in InCall =>
    /\ req_id[c] \in DOMAIN pending_map
    /\ pending_map[req_id[c]] = c
    /\ age[c] = 0

\* A message carries the id of a call that has been sent, and a reply that
\* parses carries that call's result.
MessagesMatch ==
  /\ \A m \in requests : /\ HasId(m.call) /\ pc[m.call] \in Sent
                         /\ m.id = req_id[m.call]
  /\ \A r \in replies : \E c \in Calls : /\ HasId(c) /\ pc[c] \in Sent
                                         /\ r.id = req_id[c]
                                         /\ r.body \in {c, Garbled}

\* The call HandleRpcResponse is finishing, and what it has of it.
PollerSound ==
  stage # "poll" =>
    /\ ctx \in Calls
    /\ pc[ctx] \in Sent /\ ~failed[ctx] /\ ran[ctx] = 0
    /\ stage = "parse" => body \in {ctx, Garbled}
    /\ stage = "run" /\ pc[ctx] # "done" => response[ctx] = ctx

\* A closure runs only once the call was failed or sent, and a promise set
\* while the caller waits means a failure or the call's own result.
ClosuresSound ==
  \A c \in Calls :
    /\ ran[c] <= 1
    /\ pc[c] \notin Sent => ran[c] = 0 /\ ~failed[c]
    /\ failed[c] => ran[c] = 1
    /\ pc[c] = "waiting" /\ ran[c] = 1 /\ ~failed[c] /\ Undisturbed(c) => response[c] = c
    /\ outcome[c] = "answered" => ran[c] = 1 /\ (Undisturbed(c) => response[c] = c)

\* Responses are freed by calls that are over, and a call that is over while
\* its closure has not run timed out: only its reply can still land elsewhere.
ReleasesSound ==
  \A c \in Calls :
    /\ \A d \in released[c] : pc[d] = "done"
    /\ pc[c] = "done" /\ ran[c] = 0 => outcome[c] = "timedout"

IInv == /\ TypeOK
        /\ IdsUnique
        /\ TableSound
        /\ Routed
        /\ FreshEntries
        /\ MessagesMatch
        /\ PollerSound
        /\ ClosuresSound
        /\ ReleasesSound
        /\ GaugeExact

-----------------------------------------------------------------------------

USE CallsAssumption, NodesAssumption, LimitsAssumption

\* Every way the system can step, as a list to split on.
LEMMA NextCases ==
  ASSUME Next
  PROVE  \/ \E c \in Calls : Serialize(c)
         \/ \E c \in Calls : SerializeFails(c)
         \/ \E c \in Calls : InitRing(c)
         \/ \E c \in Calls : NoLiveNodes(c)
         \/ \E c \in Calls : StartHangs(c)
         \/ \E c \in Calls : Route(c)
         \/ \E c \in Calls : BadAddress(c)
         \/ \E c \in Calls : TakeId(c)
         \/ \E c \in Calls : Insert(c)
         \/ \E c \in Calls : Count(c)
         \/ \E c \in Calls : Send(c)
         \/ \E c \in Calls : WaitReady(c)
         \/ \E c \in Calls : WaitTimeout(c)
         \/ \E m \in requests : Execute(m)
         \/ \E m \in requests : ExecuteSilently(m)
         \/ \E m \in requests : LoseRequest(m)
         \/ \E r \in replies : LoseReply(r)
         \/ Snapshot
         \/ \E n \in Nodes : PollEmpty(n)
         \/ \E r \in replies : Claim(r)
         \/ \E r \in replies : Discard(r)
         \/ Parse
         \/ ParseFails
         \/ RunClosure
         \/ ScavengerTask
         \/ Tick
  BY DEF Next, CallMethod, Wait, Network, Poller, Receive, RepliesAt,
         HandleRpcResponse

\* The parts of IInv other than the gauge's, as they stand together.
Core == /\ IdsUnique
        /\ TableSound
        /\ Routed
        /\ FreshEntries
        /\ MessagesMatch
        /\ PollerSound
        /\ ClosuresSound
        /\ ReleasesSound

LEMMA CoreStep ==
  ASSUME TypeOK, Core, Next
  PROVE  Core'
<1> USE DEF vars, callerVars, tableVars, netVars, closureVars, pollerVars,
            Goto, HasId, InCall, Sent, TypeOK, Locations, Core, IdsUnique,
            TableSound, Routed, FreshEntries, MessagesMatch, PollerSound,
            ClosuresSound, ReleasesSound, Undisturbed
<1>1. ASSUME NEW c \in Calls, Serialize(c) PROVE Core'
  BY <1>1 DEF Serialize, Allocate
<1>2. ASSUME NEW c \in Calls, SerializeFails(c) PROVE Core'
  BY <1>2 DEF SerializeFails, FailCall, Allocate
<1>3. ASSUME NEW c \in Calls, InitRing(c) PROVE Core'
  BY <1>3 DEF InitRing, Discovers
<1>4. ASSUME NEW c \in Calls, NoLiveNodes(c) PROVE Core'
  BY <1>4 DEF NoLiveNodes, Discovers, FailCall
<1>4a. ASSUME NEW c \in Calls, StartHangs(c) PROVE Core'
  BY <1>4a DEF StartHangs, Discovers
<1>5. ASSUME NEW c \in Calls, Route(c) PROVE Core'
  BY <1>5 DEF Route
<1>6. ASSUME NEW c \in Calls, BadAddress(c) PROVE Core'
  BY <1>6 DEF BadAddress, FailCall
<1>7. ASSUME NEW c \in Calls, TakeId(c) PROVE Core'
  BY <1>7 DEF TakeId
<1>8. ASSUME NEW c \in Calls, Insert(c) PROVE Core'
  <2>1. IsFiniteSet(DOMAIN pending_map \cup {req_id[c]})
    BY FS_AddElement
  <2>2. DOMAIN pending_map' = DOMAIN pending_map \cup {req_id[c]}
    BY <1>8 DEF Insert, Put
  <2>3. QED
    BY <1>8, <2>1, <2>2 DEF Insert, Put
<1>9. ASSUME NEW c \in Calls, Count(c) PROVE Core'
  BY <1>9 DEF Count
<1>10. ASSUME NEW c \in Calls, Send(c) PROVE Core'
  BY <1>10 DEF Send
<1>11. ASSUME NEW c \in Calls, WaitReady(c) PROVE Core'
  BY <1>11 DEF WaitReady
<1>12. ASSUME NEW c \in Calls, WaitTimeout(c) PROVE Core'
  BY <1>12 DEF WaitTimeout
<1>13. ASSUME NEW m \in requests, Execute(m) PROVE Core'
  <2>1. PICK b \in {m.call, Garbled} :
          replies' = replies \cup {[id |-> m.id, body |-> b, node |-> m.node]}
    BY <1>13 DEF Execute
  <2>2. m.call \in Calls /\ m.id = req_id[m.call]
    BY DEF Requests
  <2>3. MessagesMatch'
    BY <1>13, <2>1, <2>2 DEF Execute
  <2>4. QED
    BY <1>13, <2>3 DEF Execute
<1>14. ASSUME NEW m \in requests, ExecuteSilently(m) PROVE Core'
  BY <1>14 DEF ExecuteSilently
<1>15. ASSUME NEW m \in requests, LoseRequest(m) PROVE Core'
  BY <1>15 DEF LoseRequest
<1>16. ASSUME NEW r \in replies, LoseReply(r) PROVE Core'
  BY <1>16 DEF LoseReply
<1>17. ASSUME Snapshot PROVE Core'
  BY <1>17 DEF Snapshot
<1>18. ASSUME NEW n \in Nodes, PollEmpty(n) PROVE Core'
  BY <1>18 DEF PollEmpty
<1>19. ASSUME NEW r \in replies, Claim(r) PROVE Core'
  <2>1. IsFiniteSet(DOMAIN pending_map \ {r.id})
    BY FS_RemoveElement
  <2>2. DOMAIN pending_map' = DOMAIN pending_map \ {r.id}
    BY <1>19 DEF Claim, Without
  <2>3. QED
    BY <1>19, <2>1, <2>2 DEF Claim, Without
<1>20. ASSUME NEW r \in replies, Discard(r) PROVE Core'
  BY <1>20 DEF Discard
<1>21. ASSUME Parse PROVE Core'
  BY <1>21 DEF Parse, Overwrite, Landing
<1>22. ASSUME ParseFails PROVE Core'
  BY <1>22 DEF ParseFails, Overwrite, Landing
<1>23. ASSUME RunClosure PROVE Core'
  BY <1>23 DEF RunClosure
<1>24. ASSUME ScavengerTask PROVE Core'
  <2>1. IsFiniteSet(DOMAIN pending_map \ Ghosts)
    BY FS_Subset
  <2>2. DOMAIN pending_map' = DOMAIN pending_map \ Ghosts
    BY <1>24 DEF ScavengerTask, Without
  <2>3. QED
    BY <1>24, <2>1, <2>2 DEF ScavengerTask, Ghosts, Without
<1>25. ASSUME Tick PROVE Core'
  BY <1>25 DEF Tick, Overdue, Pending
<1>26. QED
  BY NextCases, <1>1, <1>2, <1>3, <1>4, <1>5, <1>6, <1>7, <1>8, <1>9, <1>10,
     <1>11, <1>12, <1>13, <1>14, <1>15, <1>16, <1>17, <1>18,
     <1>19, <1>20, <1>21, <1>22, <1>23, <1>24, <1>25, <1>4a

\* Taking one element out of a finite set: FS_RemoveElement without its cases.
LEMMA CardinalityLess ==
  \A S, x : IsFiniteSet(S) /\ x \in S => Cardinality(S \ {x}) = Cardinality(S) - 1
  BY FS_RemoveElement

LEMMA GaugeStep ==
  ASSUME TypeOK, Core, GaugeExact, Next
  PROVE  GaugeExact'
<1> USE DEF vars, callerVars, tableVars, netVars, closureVars, pollerVars,
            Goto, HasId, InCall, Sent, TypeOK, Locations, Core, TableSound
<1>0. /\ IsFiniteSet(Counted)
      /\ Counted' = Counted /\ gauge' = gauge => GaugeExact'
  BY FS_Subset DEF Counted, GaugeExact
<1>1. ASSUME NEW c \in Calls, Serialize(c) PROVE GaugeExact'
  BY <1>1, <1>0 DEF Serialize, Counted
<1>2. ASSUME NEW c \in Calls, SerializeFails(c) PROVE GaugeExact'
  BY <1>2, <1>0 DEF SerializeFails, FailCall, Counted
<1>3. ASSUME NEW c \in Calls, InitRing(c) PROVE GaugeExact'
  BY <1>3, <1>0 DEF InitRing, Discovers, Counted
<1>4. ASSUME NEW c \in Calls, NoLiveNodes(c) PROVE GaugeExact'
  BY <1>4, <1>0 DEF NoLiveNodes, Discovers, FailCall, Counted
<1>4a. ASSUME NEW c \in Calls, StartHangs(c) PROVE GaugeExact'
  BY <1>4a, <1>0 DEF StartHangs, Discovers, Counted
<1>5. ASSUME NEW c \in Calls, Route(c) PROVE GaugeExact'
  BY <1>5, <1>0 DEF Route, Counted
<1>6. ASSUME NEW c \in Calls, BadAddress(c) PROVE GaugeExact'
  BY <1>6, <1>0 DEF BadAddress, FailCall, Counted
<1>7. ASSUME NEW c \in Calls, TakeId(c) PROVE GaugeExact'
  BY <1>7, <1>0 DEF TakeId, Counted
<1>8. ASSUME NEW c \in Calls, Insert(c) PROVE GaugeExact'
  <2>1. req_id[c] \notin DOMAIN pending_map
    BY <1>8 DEF Insert, IdsUnique, ClosuresSound
  <2>2. Counted' = Counted
    BY <1>8, <2>1 DEF Insert, Put, Counted
  <2>3. QED
    BY <1>8, <1>0, <2>2 DEF Insert
<1>9. ASSUME NEW c \in Calls, Count(c) PROVE GaugeExact'
  <2>1. /\ req_id[c] \notin Counted
        /\ Counted' = Counted \cup {req_id[c]}
    BY <1>9 DEF Count, Counted, FreshEntries
  <2>2. Cardinality(Counted \cup {req_id[c]}) = Cardinality(Counted) + 1
    BY <1>0, <2>1, FS_AddElement
  <2>3. QED
    BY <1>9, <2>1, <2>2 DEF Count, GaugeExact
<1>10. ASSUME NEW c \in Calls, Send(c) PROVE GaugeExact'
  BY <1>10, <1>0 DEF Send, Counted
<1>11. ASSUME NEW c \in Calls, WaitReady(c) PROVE GaugeExact'
  BY <1>11, <1>0 DEF WaitReady, Counted
<1>12. ASSUME NEW c \in Calls, WaitTimeout(c) PROVE GaugeExact'
  BY <1>12, <1>0 DEF WaitTimeout, Counted
<1>13. ASSUME NEW m \in requests, Execute(m) PROVE GaugeExact'
  BY <1>13, <1>0 DEF Execute, Counted
<1>14. ASSUME NEW m \in requests, ExecuteSilently(m) PROVE GaugeExact'
  BY <1>14, <1>0 DEF ExecuteSilently, Counted
<1>15. ASSUME NEW m \in requests, LoseRequest(m) PROVE GaugeExact'
  BY <1>15, <1>0 DEF LoseRequest, Counted
<1>16. ASSUME NEW r \in replies, LoseReply(r) PROVE GaugeExact'
  BY <1>16, <1>0 DEF LoseReply, Counted
<1>17. ASSUME Snapshot PROVE GaugeExact'
  BY <1>17, <1>0 DEF Snapshot, Counted
<1>18. ASSUME NEW n \in Nodes, PollEmpty(n) PROVE GaugeExact'
  BY <1>18, <1>0 DEF PollEmpty, Counted
<1>19. ASSUME NEW r \in replies, Claim(r) PROVE GaugeExact'
  <2>1. r.id \in Counted
    BY <1>19 DEF Claim, Counted, MessagesMatch, IdsUnique
  <2>2. Counted' = Counted \ {r.id}
    BY <1>19 DEF Claim, Without, Counted
  <2>3. Cardinality(Counted \ {r.id}) = Cardinality(Counted) - 1
    BY <1>0, <2>1, CardinalityLess
  <2>4. gauge' = gauge - 1
    BY <1>19 DEF Claim
  <2> HIDE DEF TypeOK, Core, TableSound
  <2>5. QED
    BY <2>2, <2>3, <2>4 DEF GaugeExact
<1>20. ASSUME NEW r \in replies, Discard(r) PROVE GaugeExact'
  BY <1>20, <1>0 DEF Discard, Counted
<1>21. ASSUME Parse PROVE GaugeExact'
  BY <1>21, <1>0 DEF Parse, Counted
<1>22. ASSUME ParseFails PROVE GaugeExact'
  BY <1>22, <1>0 DEF ParseFails, Counted
<1>23. ASSUME RunClosure PROVE GaugeExact'
  BY <1>23, <1>0 DEF RunClosure, Counted
<1>24. ASSUME ScavengerTask PROVE GaugeExact'
  <2>1. Ghosts \subseteq Counted
    BY DEF Ghosts, Counted, FreshEntries
  <2>2. Counted' = Counted \ Ghosts
    BY <1>24 DEF ScavengerTask, Without, Counted
  <2>3. Counted \cap Ghosts = Ghosts
    BY <2>1
  <2>4. Cardinality(Counted \ Ghosts)
          = Cardinality(Counted) - Cardinality(Counted \cap Ghosts)
    BY <1>0, FS_Difference
  <2>5. QED
    BY <1>24, <2>2, <2>3, <2>4 DEF ScavengerTask, GaugeExact
<1>25. ASSUME Tick PROVE GaugeExact'
  BY <1>25, <1>0 DEF Tick, Overdue, Pending, Counted
<1>26. QED
  BY NextCases, <1>1, <1>2, <1>3, <1>4, <1>5, <1>6, <1>7, <1>8, <1>9, <1>10,
     <1>11, <1>12, <1>13, <1>14, <1>15, <1>16, <1>17, <1>18,
     <1>19, <1>20, <1>21, <1>22, <1>23, <1>24, <1>25, <1>4a

LEMMA TypeStep ==
  ASSUME TypeOK, Core, Next, gauge' \in Nat
  PROVE  TypeOK'
<1> USE DEF vars, callerVars, tableVars, netVars, closureVars, pollerVars,
            Goto, TypeOK, Locations, Outcomes, Bodies, Requests, Replies
<1>1. ASSUME NEW c \in Calls, Serialize(c) PROVE TypeOK'
  BY <1>1 DEF Serialize, Allocate
<1>2. ASSUME NEW c \in Calls, SerializeFails(c) PROVE TypeOK'
  BY <1>2 DEF SerializeFails, FailCall, Allocate
<1>3. ASSUME NEW c \in Calls, InitRing(c) PROVE TypeOK'
  BY <1>3 DEF InitRing, Discovers
<1>4. ASSUME NEW c \in Calls, NoLiveNodes(c) PROVE TypeOK'
  BY <1>4 DEF NoLiveNodes, Discovers, FailCall
<1>4a. ASSUME NEW c \in Calls, StartHangs(c) PROVE TypeOK'
  BY <1>4a DEF StartHangs, Discovers
<1>5. ASSUME NEW c \in Calls, Route(c) PROVE TypeOK'
  BY <1>5 DEF Route
<1>6. ASSUME NEW c \in Calls, BadAddress(c) PROVE TypeOK'
  BY <1>6 DEF BadAddress, FailCall
<1>7. ASSUME NEW c \in Calls, TakeId(c) PROVE TypeOK'
  BY <1>7 DEF TakeId
<1>8. ASSUME NEW c \in Calls, Insert(c) PROVE TypeOK'
  BY <1>8 DEF Insert, Put
<1>9. ASSUME NEW c \in Calls, Count(c) PROVE TypeOK'
  BY <1>9 DEF Count
<1>10. ASSUME NEW c \in Calls, Send(c) PROVE TypeOK'
  BY <1>10 DEF Send, Core, Routed, InCall
<1>11. ASSUME NEW c \in Calls, WaitReady(c) PROVE TypeOK'
  BY <1>11 DEF WaitReady
<1>12. ASSUME NEW c \in Calls, WaitTimeout(c) PROVE TypeOK'
  BY <1>12 DEF WaitTimeout
<1>13. ASSUME NEW m \in requests, Execute(m) PROVE TypeOK'
  BY <1>13 DEF Execute
<1>14. ASSUME NEW m \in requests, ExecuteSilently(m) PROVE TypeOK'
  BY <1>14 DEF ExecuteSilently
<1>15. ASSUME NEW m \in requests, LoseRequest(m) PROVE TypeOK'
  BY <1>15 DEF LoseRequest
<1>16. ASSUME NEW r \in replies, LoseReply(r) PROVE TypeOK'
  BY <1>16 DEF LoseReply
<1>17. ASSUME Snapshot PROVE TypeOK'
  BY <1>17 DEF Snapshot
<1>18. ASSUME NEW n \in Nodes, PollEmpty(n) PROVE TypeOK'
  BY <1>18 DEF PollEmpty
<1>19. ASSUME NEW r \in replies, Claim(r) PROVE TypeOK'
  BY <1>19 DEF Claim, Without
<1>20. ASSUME NEW r \in replies, Discard(r) PROVE TypeOK'
  BY <1>20 DEF Discard
<1>21. ASSUME Parse PROVE TypeOK'
  <2>1. PICK c : response' = [response EXCEPT ![c] = body]
    BY <1>21 DEF Parse, Overwrite
  <2>2. response' \in [Calls -> Bodies \cup {None}]
    BY <2>1
  <2>3. QED
    BY <1>21, <2>2 DEF Parse
<1>22. ASSUME ParseFails PROVE TypeOK'
  <2>1. PICK c : response' = [response EXCEPT ![c] = Garbled]
    BY <1>22 DEF ParseFails, Overwrite
  <2>2. response' \in [Calls -> Bodies \cup {None}]
    BY <2>1
  <2>3. QED
    BY <1>22, <2>2 DEF ParseFails
<1>23. ASSUME RunClosure PROVE TypeOK'
  BY <1>23 DEF RunClosure, Core, PollerSound
<1>24. ASSUME ScavengerTask PROVE TypeOK'
  BY <1>24 DEF ScavengerTask, Ghosts, Without
<1>25. ASSUME Tick PROVE TypeOK'
  BY <1>25 DEF Tick, Overdue, Pending
<1>26. QED
  BY NextCases, <1>1, <1>2, <1>3, <1>4, <1>5, <1>6, <1>7, <1>8, <1>9, <1>10,
     <1>11, <1>12, <1>13, <1>14, <1>15, <1>16, <1>17, <1>18,
     <1>19, <1>20, <1>21, <1>22, <1>23, <1>24, <1>25, <1>4a

LEMMA InitIInv == Init => IInv
<1> SUFFICES ASSUME Init PROVE IInv
  OBVIOUS
<1> USE DEF Init
<1>1. DOMAIN pending_map = {} /\ IsFiniteSet(DOMAIN pending_map)
  <2>1. DOMAIN pending_map = {}
    OBVIOUS
  <2>2. QED
    BY <2>1, FS_EmptySet
<1>2. TypeOK
  <2>1. pending_map \in [DOMAIN pending_map -> Calls] /\ DOMAIN pending_map \subseteq Nat
    BY <1>1
  <2>2. age \in [Calls -> 0..(PendingLimit + 1)]
    BY LimitsAssumption
  <2>3. QED
    BY <2>1, <2>2 DEF TypeOK, Locations, Outcomes, Bodies
<1>3. IdsUnique /\ TableSound /\ Routed /\ FreshEntries
  BY <1>1 DEF IdsUnique, TableSound, Routed, FreshEntries, HasId, InCall, Sent
<1>4. MessagesMatch /\ PollerSound /\ ClosuresSound /\ ReleasesSound
  BY DEF MessagesMatch, PollerSound, ClosuresSound, ReleasesSound, Sent
<1>5. GaugeExact
  <2>1. Counted = {}
    BY <1>1 DEF Counted
  <2>2. QED
    BY <2>1, FS_EmptySet DEF GaugeExact
<1>6. QED
  BY <1>2, <1>3, <1>4, <1>5 DEF IInv

LEMMA NextIInv == IInv /\ [Next]_vars => IInv'
<1>1. ASSUME IInv, Next PROVE IInv'
  <2>1. TypeOK /\ Core /\ GaugeExact
    BY <1>1 DEF IInv, Core
  <2>2. Core'
    BY <1>1, <2>1, CoreStep
  <2>3. GaugeExact'
    BY <1>1, <2>1, GaugeStep
  <2>4. gauge' \in Nat
    <3>1. IsFiniteSet((DOMAIN pending_map)')
      BY <2>2 DEF Core, TableSound
    <3>2. IsFiniteSet(Counted')
      BY <3>1, FS_Subset DEF Counted
    <3>3. QED
      BY <2>3, <3>2, FS_CardinalityType DEF GaugeExact
  <2>5. TypeOK'
    BY <1>1, <2>1, <2>4, TypeStep
  <2>6. QED
    BY <2>2, <2>3, <2>5 DEF IInv, Core
<1>2. ASSUME IInv, UNCHANGED vars PROVE IInv'
  <2> USE <1>2 DEF vars, callerVars, tableVars, netVars, closureVars, pollerVars, IInv
  <2>1. TypeOK'
    BY DEF TypeOK
  <2>2. IdsUnique' /\ TableSound' /\ Routed' /\ FreshEntries'
    BY DEF IdsUnique, TableSound, Routed, FreshEntries, HasId
  <2>3. MessagesMatch' /\ PollerSound' /\ ClosuresSound' /\ ReleasesSound'
    BY DEF MessagesMatch, PollerSound, ClosuresSound, ReleasesSound, Undisturbed, HasId
  <2>4. GaugeExact'
    BY DEF GaugeExact, Counted
  <2>5. QED
    BY <2>1, <2>2, <2>3, <2>4
<1>3. QED
  BY <1>1, <1>2

LEMMA Invariance == Spec => []IInv
  BY InitIInv, NextIInv, PTL DEF Spec

\* Every variable keeps its type: in particular the gauge, unsigned in the
\* code, never drops below zero.
THEOREM TypeCorrect == Spec => []TypeOK
<1>1. IInv => TypeOK
  BY DEF IInv
<1>2. QED
  BY <1>1, Invariance, PTL

\* Whichever of the failing caller, the poller and the scavenger reaches a
\* closure first, it is never run twice.
THEOREM ClosureRunsOnce == Spec => []ClosureAtMostOnce
<1>1. IInv => ClosureAtMostOnce
  BY DEF IInv, ClosuresSound, ClosureAtMostOnce
<1>2. QED
  BY <1>1, Invariance, PTL

\* A caller that believes it was answered holds its own call's result, unless
\* its response took the place of one whose call had timed out.
THEOREM AnsweredOwnReply == Spec => []AnsweredMeansOwnReply
<1>1. IInv => AnsweredMeansOwnReply
  BY DEF IInv, ClosuresSound, AnsweredMeansOwnReply
<1>2. QED
  BY <1>1, Invariance, PTL

\* The gauge equals the number of registered calls whose caller has raised it.
THEOREM GaugeIsExact == Spec => []GaugeExact
<1>1. IInv => GaugeExact
  BY DEF IInv
<1>2. QED
  BY <1>1, Invariance, PTL

-----------------------------------------------------------------------------
(* The contract of RpcCall.                                                *)

\* Who has been executed: a request in flight belongs to a call that has not,
\* a reply, the poller's context and a closure run in time to one that has.
\* Before the ring is filled, and so while StartHangs keeps it from being
\* filled, no call has come further than looking for a node or failing.
ExecutionsSound ==
  /\ \A m \in requests : m.call \notin executed /\ m.node = target[m.call]
  /\ \A r \in replies : \A c \in Calls : HasId(c) /\ r.id = req_id[c] => c \in executed
  /\ stage # "poll" => ctx \in executed
  /\ \A c \in Calls :
       /\ c \in executed => pc[c] \in Sent /\ ~failed[c]
       /\ ran[c] > 0 /\ ~failed[c] /\ outcome[c] # "timedout" => c \in executed
       /\ pc[c] = "done" <=> outcome[c] # "none"
       /\ outcome[c] = "answered" => c \in executed
       /\ outcome[c] = "failed" => failed[c]
       /\ failed[c] => outcome[c] # "timedout"
       /\ pc[c] = "hung" => ring = {}
       /\ ring = {} => pc[c] \in {"idle", "serialized", "hung"} \/ failed[c]

LEMMA ExecutionsStep ==
  ASSUME IInv, ExecutionsSound, Next
  PROVE  ExecutionsSound'
<1> USE DEF vars, callerVars, tableVars, netVars, closureVars, pollerVars,
            Goto, HasId, InCall, Sent, IInv, TypeOK, Locations, Outcomes, Requests,
            IdsUnique, TableSound, MessagesMatch, PollerSound, ClosuresSound,
            ReleasesSound, ExecutionsSound
<1>1. ASSUME NEW c \in Calls, Serialize(c) PROVE ExecutionsSound'
  BY <1>1 DEF Serialize, Allocate
<1>2. ASSUME NEW c \in Calls, SerializeFails(c) PROVE ExecutionsSound'
  BY <1>2 DEF SerializeFails, FailCall, Allocate
<1>3. ASSUME NEW c \in Calls, InitRing(c) PROVE ExecutionsSound'
  BY <1>3 DEF InitRing, Discovers
<1>4. ASSUME NEW c \in Calls, NoLiveNodes(c) PROVE ExecutionsSound'
  BY <1>4 DEF NoLiveNodes, Discovers, FailCall
<1>4a. ASSUME NEW c \in Calls, StartHangs(c) PROVE ExecutionsSound'
  BY <1>4a DEF StartHangs, Discovers
<1>5. ASSUME NEW c \in Calls, Route(c) PROVE ExecutionsSound'
  BY <1>5 DEF Route
<1>6. ASSUME NEW c \in Calls, BadAddress(c) PROVE ExecutionsSound'
  BY <1>6 DEF BadAddress, FailCall
<1>7. ASSUME NEW c \in Calls, TakeId(c) PROVE ExecutionsSound'
  BY <1>7 DEF TakeId
<1>8. ASSUME NEW c \in Calls, Insert(c) PROVE ExecutionsSound'
  BY <1>8 DEF Insert
<1>9. ASSUME NEW c \in Calls, Count(c) PROVE ExecutionsSound'
  BY <1>9 DEF Count
<1>10. ASSUME NEW c \in Calls, Send(c) PROVE ExecutionsSound'
  BY <1>10 DEF Send
<1>11. ASSUME NEW c \in Calls, WaitReady(c) PROVE ExecutionsSound'
  BY <1>11 DEF WaitReady
<1>12. ASSUME NEW c \in Calls, WaitTimeout(c) PROVE ExecutionsSound'
  BY <1>12 DEF WaitTimeout
<1>13. ASSUME NEW m \in requests, Execute(m) PROVE ExecutionsSound'
  BY <1>13 DEF Execute
<1>14. ASSUME NEW m \in requests, ExecuteSilently(m) PROVE ExecutionsSound'
  BY <1>14 DEF ExecuteSilently
<1>15. ASSUME NEW m \in requests, LoseRequest(m) PROVE ExecutionsSound'
  BY <1>15 DEF LoseRequest
<1>16. ASSUME NEW r \in replies, LoseReply(r) PROVE ExecutionsSound'
  BY <1>16 DEF LoseReply
<1>17. ASSUME Snapshot PROVE ExecutionsSound'
  BY <1>17 DEF Snapshot
<1>18. ASSUME NEW n \in Nodes, PollEmpty(n) PROVE ExecutionsSound'
  BY <1>18 DEF PollEmpty
<1>19. ASSUME NEW r \in replies, Claim(r) PROVE ExecutionsSound'
  BY <1>19 DEF Claim
<1>20. ASSUME NEW r \in replies, Discard(r) PROVE ExecutionsSound'
  BY <1>20 DEF Discard
<1>21. ASSUME Parse PROVE ExecutionsSound'
  BY <1>21 DEF Parse
<1>22. ASSUME ParseFails PROVE ExecutionsSound'
  BY <1>22 DEF ParseFails
<1>23. ASSUME RunClosure PROVE ExecutionsSound'
  BY <1>23 DEF RunClosure
<1>24. ASSUME ScavengerTask PROVE ExecutionsSound'
  <2>1. ASSUME NEW i \in Ghosts
        PROVE  pending_map[i] \in Calls /\ outcome[pending_map[i]] = "timedout"
    <3> DEFINE c == pending_map[i]
    <3>1. /\ c \in Calls /\ age[c] \in Nat /\ age[c] > PendingLimit /\ ran[c] = 0
          /\ pc[c] \in InCall \cup Sent
          /\ pc[c] = "waiting" => age[c] <= WaitLimit[c]
          /\ pc[c] \in InCall => age[c] = 0
      BY DEF Ghosts, FreshEntries
    <3>2. WaitLimit[c] \in Nat /\ WaitLimit[c] < PendingLimit /\ PendingLimit \in Nat
      BY <3>1
    <3>3. pc[c] = "done" => outcome[c] = "timedout"
      BY <3>1
    <3> HIDE DEF c
    <3>4. pc[c] \notin InCall /\ pc[c] # "waiting"
      <4> HIDE DEF IInv, TypeOK, ExecutionsSound
      <4>1. QED
        BY <3>1, <3>2
    <3>5. QED
      BY <3>1, <3>3, <3>4 DEF c
  <2>2. ASSUME NEW c \in Calls, ran'[c] # ran[c] PROVE outcome[c] = "timedout"
    BY <1>24, <2>1, <2>2 DEF ScavengerTask
  <2>3. \A c \in Calls : ran'[c] = ran[c] \/ outcome[c] = "timedout"
    BY <2>2
  <2>4. UNCHANGED <<failed, callerVars, netVars, pollerVars>>
    BY <1>24 DEF ScavengerTask
  <2>5. QED
    BY <2>3, <2>4
<1>25. ASSUME Tick PROVE ExecutionsSound'
  BY <1>25 DEF Tick
<1>26. QED
  BY NextCases, <1>1, <1>2, <1>3, <1>4, <1>5, <1>6, <1>7, <1>8, <1>9, <1>10,
     <1>11, <1>12, <1>13, <1>14, <1>15, <1>16, <1>17, <1>18,
     <1>19, <1>20, <1>21, <1>22, <1>23, <1>24, <1>25, <1>4a

LEMMA ExecutionsInvariance == Spec => []ExecutionsSound
<1>1. Init => ExecutionsSound
  BY DEF Init, ExecutionsSound
<1>2. ASSUME IInv, ExecutionsSound, [Next]_vars PROVE ExecutionsSound'
  <2>1. CASE Next
    BY <1>2, <2>1, ExecutionsStep
  <2>2. CASE UNCHANGED vars
    BY <1>2, <2>2 DEF ExecutionsSound, HasId, vars, callerVars, tableVars, netVars,
                      closureVars, pollerVars
  <2>3. QED
    BY <1>2, <2>1, <2>2
<1>3. QED
  BY <1>1, <1>2, Invariance, PTL DEF Spec

\* Each step of the channel is a step RpcCall allows or changes nothing there:
\* a call is answered only when a provider executed it, fails only when none
\* did or will, and is executed at most once; and once the search for providers
\* hangs no call is executed, answered or timed out any more.  (That calls end
\* when it does not is left to model checking.)
THEOREM ImplementsRpcCall ==
  Spec => Contract!Init /\ [][Contract!Next]_(Contract!vars)
<1>1. Init => Contract!Init
  BY DEF Init, Contract!Init, callState, hanging
<1>2. ASSUME IInv, ExecutionsSound, [Next]_vars PROVE [Contract!Next]_(Contract!vars)
  <2> USE <1>2 DEF Goto, IInv, TypeOK, Contract!vars, callerVars, netVars
  <2>0. /\ hanging \in BOOLEAN
        /\ hanging => ring = {}
    BY DEF hanging, ExecutionsSound
  <2>1. ASSUME NEW c \in Calls, Serialize(c) \/ SerializeFails(c)
        PROVE  Contract!Next
    <3>1. callState' = [callState EXCEPT ![c] = "open"] /\ callState[c] = "new"
      BY <2>1 DEF Serialize, SerializeFails, callState
    <3>2. executed' = executed /\ hanging' = hanging
      BY <2>1 DEF Serialize, SerializeFails, hanging
    <3>3. QED
      BY <3>1, <3>2 DEF Contract!Next, Contract!Issue
  <2>2. ASSUME NEW c \in Calls,
               \/ InitRing(c) \/ NoLiveNodes(c) \/ Route(c) \/ BadAddress(c)
               \/ TakeId(c) \/ Insert(c) \/ Count(c) \/ Send(c)
        PROVE  UNCHANGED Contract!vars
    <3> USE DEF InitRing, NoLiveNodes, Discovers, Route, BadAddress, TakeId, Insert,
                Count, Send
    <3>1. executed' = executed /\ outcome' = outcome
      BY <2>2
    <3>2. \A d \in Calls : /\ pc'[d] = "idle" <=> pc[d] = "idle"
                           /\ pc'[d] = "done" <=> pc[d] = "done"
                           /\ pc'[d] = "hung" <=> pc[d] = "hung"
      BY <2>2
    <3>3. callState' = callState
      BY <3>1, <3>2 DEF callState
    <3>4. hanging' = hanging
      BY <3>2 DEF hanging
    <3>5. QED
      BY <3>1, <3>3, <3>4
  <2>2a. ASSUME NEW c \in Calls, StartHangs(c) PROVE Contract!Next
    <3>1. ring = {} /\ pc[c] = "serialized" /\ pc' = [pc EXCEPT ![c] = "hung"]
      BY <2>2a DEF StartHangs, Discovers
    <3>2. executed' = executed /\ outcome' = outcome /\ hanging = FALSE /\ hanging' = TRUE
      BY <2>2a, <3>1 DEF StartHangs, Discovers, hanging
    <3>3. executed = {}
      BY <3>1 DEF ExecutionsSound, Sent
    <3>4. callState' = callState /\ callState[c] = "open"
      BY <3>1, <3>2 DEF callState
    <3>5. \A d \in Calls : callState[d] \in {"new", "open", "failed"}
      BY <3>1, <3>3 DEF callState, ExecutionsSound, Outcomes
    <3>6. QED
      BY <3>2, <3>3, <3>4, <3>5 DEF Contract!Next, Contract!Stall
  <2>3. ASSUME NEW c \in Calls, WaitReady(c) PROVE Contract!Next
    <3>1. /\ callState[c] = "open"
          /\ callState' = [callState EXCEPT ![c] = IF failed[c] THEN "failed" ELSE "answered"]
      BY <2>3 DEF WaitReady, callState
    <3>2. executed' = executed /\ hanging' = hanging
      BY <2>3 DEF WaitReady, hanging
    <3>3. CASE failed[c]
      BY <3>1, <3>2, <3>3 DEF ExecutionsSound, Contract!Next, Contract!End, Contract!Fail
    <3>4. CASE ~failed[c]
      <4>1. c \in executed
        BY <2>3, <3>4 DEF WaitReady, ExecutionsSound
      <4>2. QED
        BY <3>1, <3>2, <3>4, <4>1 DEF Contract!Next, Contract!End, Contract!Answer
    <3>5. QED
      BY <3>3, <3>4
  <2>4. ASSUME NEW c \in Calls, WaitTimeout(c) PROVE Contract!Next
    <3>1. callState[c] = "open" /\ callState' = [callState EXCEPT ![c] = "timedout"]
      BY <2>4 DEF WaitTimeout, callState
    <3>2. executed' = executed /\ hanging' = hanging
      BY <2>4 DEF WaitTimeout, hanging
    <3>3. ~hanging
      BY <2>0, <2>4 DEF WaitTimeout, ExecutionsSound, ClosuresSound
    <3>4. QED
      BY <3>1, <3>2, <3>3 DEF Contract!Next, Contract!End, Contract!GiveUp
  <2>5. ASSUME NEW m \in requests, Execute(m) \/ ExecuteSilently(m)
        PROVE  Contract!Next
    <3>1. /\ m.call \in Calls /\ m.call \notin executed
          /\ pc[m.call] \in Sent /\ ~failed[m.call]
      BY DEF Requests, MessagesMatch, HasId, ExecutionsSound
    <3>2. callState[m.call] \in {"open", "timedout"}
      BY <3>1 DEF Sent, callState, ExecutionsSound, Outcomes
    <3>3. executed' = executed \cup {m.call} /\ UNCHANGED <<pc, outcome>>
      BY <2>5 DEF Execute, ExecuteSilently
    <3>4. callState' = callState /\ hanging' = hanging
      BY <3>3 DEF callState, hanging
    <3>5. ~hanging
      BY <2>0, <3>1 DEF Sent, ExecutionsSound
    <3>6. QED
      BY <3>1, <3>2, <3>3, <3>4, <3>5 DEF Contract!Next, Contract!Execute
  <2>6. ASSUME UNCHANGED <<pc, outcome, executed>> PROVE UNCHANGED Contract!vars
    BY <2>6 DEF callState, hanging
  <2>7. ASSUME \/ \E m \in requests : LoseRequest(m)
               \/ \E r \in replies : LoseReply(r) \/ Claim(r) \/ Discard(r)
               \/ Snapshot \/ \E n \in Nodes : PollEmpty(n)
               \/ HandleRpcResponse \/ ScavengerTask \/ Tick \/ UNCHANGED vars
        PROVE  UNCHANGED <<pc, outcome, executed>>
    BY <2>7 DEF LoseRequest, LoseReply, Claim, Discard, Snapshot, PollEmpty, Parse,
                ParseFails, RunClosure, HandleRpcResponse, ScavengerTask, Tick, vars
  <2>8. QED
    BY NextCases, <2>1, <2>2, <2>2a, <2>3, <2>4, <2>5, <2>6, <2>7 DEF HandleRpcResponse
<1>3. QED
  BY <1>1, <1>2, Invariance, ExecutionsInvariance, PTL DEF Spec
=============================================================================
