-------------------------- MODULE ToolServerProofs --------------------------
(***************************************************************************)
(* Proofs about ToolServer, for any number of requests: none is lost or    *)
(* served twice, tools of a lane are answered in order, and each pool is   *)
(* used as SerialPool allows.                                              *)
(*                                                                         *)
(* The argument: requests are numbered as they arrive, and everything that *)
(* has left the main pool is numbered below everything that has not.       *)
(* Where a request was sent follows from its kind.  So the places a        *)
(* request can be in are told apart by its number and its kind.            *)
(***************************************************************************)
EXTENDS ToolServer, SequenceLemmas, TLAPS

USE MaxAssumption

Loop == {hand} \ {None}

\* Requests that have not left the main pool, and requests that have and are
\* not dropped.
Coming == ToSet(inbox) \cup Loop \cup Held("main")
Past == Held("fast") \cup Held("io") \cup ToSet(replies)

Covered == Coming \cup Past \cup Dropped = 1..arrived

\* Queues are in order of arrival, from the lanes back to the socket.
InOrder ==
  /\ Increasing(inbox)
  /\ \A p \in Pools : /\ Increasing(queue[p])
                      /\ running[p] # None => \A r \in ToSet(queue[p]) : running[p] < r
  /\ \A a \in Held("main") : \A b \in Loop \cup ToSet(inbox) : a < b
  /\ \A a \in Loop : \A b \in ToSet(inbox) : a < b
  /\ \A a \in Past : \A b \in Coming : a < b
  /\ \A p \in Lanes : \A a \in ToSet(replies) : \A b \in Held(p) :
       IsTool(a) /\ Lane(a) = p => a < b

\* A lane has only tools of its own, and what must not be answered was not.
KindsSound ==
  /\ \A p \in Lanes : \A r \in Held(p) \cup ToSet(finished[p]) : IsTool(r) /\ Lane(r) = p
  /\ \A r \in ToSet(replies) : kind[r] \notin {"garbled", "throwing"}

\* What a pool has finished does not come back.
FinishedSound ==
  /\ \A p \in Pools : /\ ToSet(finished[p]) \subseteq 1..arrived
                      /\ IsInjective(finished[p])
                      /\ ToSet(finished[p]) \cap (Coming \cup Held(p)) = {}
  /\ IsInjective(replies)

IInv == TypeOK /\ Covered /\ InOrder /\ KindsSound /\ FinishedSound /\ LaneInOrder

-----------------------------------------------------------------------------
(* What the invariant says of places.                                      *)

LEMMA Ranges ==
  ASSUME TypeOK
  PROVE  /\ Requests \subseteq Nat \ {0} /\ None = 0 /\ arrived \in Nat
         /\ ToSet(inbox) \subseteq Requests /\ Loop \subseteq Requests
         /\ ToSet(replies) \subseteq Requests
         /\ \A p \in Pools : Held(p) \subseteq Requests /\ ToSet(queue[p]) \subseteq Requests
<1>1. \A q \in Seq(Requests) : ToSet(q) \subseteq Requests
  BY DEF ToSet
<1> QED BY <1>1 DEF TypeOK, Requests, None, Loop, Held

LEMMA PlacesApart ==
  ASSUME IInv
  PROVE  InOnePlace
<1>1. /\ Requests \subseteq Nat /\ ToSet(inbox) \subseteq Requests
      /\ \A p \in Pools : Held(p) \subseteq Requests /\ queue[p] \in Seq(Nat)
      /\ inbox \in Seq(Nat) /\ Loop \subseteq Requests /\ ToSet(replies) \subseteq Requests
  BY Ranges DEF IInv, TypeOK
<1>2. UNION {Places[a] : a \in DOMAIN Places} = Coming \cup Past \cup Dropped
  BY DEF Places, Coming, Past, Loop
<1>3. \A p \in Pools : IsInjective(queue[p])
  BY <1>1, IncreasingInjective DEF IInv, InOrder
<1>4. IsInjective(inbox)
  BY <1>1, IncreasingInjective DEF IInv, InOrder
<1>5. \A p \in Pools : running[p] \notin ToSet(queue[p])
  <2>1. ASSUME NEW p \in Pools, running[p] \in ToSet(queue[p]) PROVE FALSE
    <3>1. running[p] \in Nat /\ running[p] # None
      BY <2>1, Ranges DEF IInv
    <3> QED BY <2>1, <3>1 DEF IInv, InOrder
  <2> QED BY <2>1
<1>6. \A a, b \in DOMAIN Places : a # b => Places[a] \cap Places[b] = {}
  <2>1. /\ ToSet(inbox) \cap Loop = {} /\ ToSet(inbox) \cap Held("main") = {}
        /\ Loop \cap Held("main") = {} /\ Coming \cap Past = {}
    <3>1. \A r \in Requests : ~(r < r)
      BY <1>1
    <3>2. "main" \in Pools
      BY DEF Pools
    <3> QED BY <1>1, <3>1, <3>2 DEF IInv, InOrder, Coming
  <2>2. /\ Held("fast") \cap Held("io") = {}
        /\ Held("fast") \cap ToSet(replies) = {} /\ Held("io") \cap ToSet(replies) = {}
    <3>1. ASSUME NEW p \in Lanes, NEW r \in Held(p), r \in ToSet(replies) PROVE FALSE
      <4>1. IsTool(r) /\ Lane(r) = p
        BY <3>1 DEF IInv, KindsSound
      <4>2. r < r /\ r \in Nat
        BY <1>1, <3>1, <4>1 DEF IInv, InOrder
      <4> QED BY <4>2
    <3>2. \A p \in Lanes : Held(p) \cap ToSet(replies) = {}
      BY <3>1
    <3>3. ASSUME NEW r \in Held("fast"), r \in Held("io") PROVE FALSE
      BY <3>3 DEF IInv, KindsSound, Lanes
    <3> QED BY <3>2, <3>3 DEF Lanes
  <2>3. Dropped \cap Coming = {} /\ Dropped \cap Past = {}
    <3>1. ASSUME NEW r \in ToSet(finished["main"]), kind[r] = "garbled"
          PROVE  r \notin Coming \cup Past
      BY <3>1 DEF IInv, FinishedSound, KindsSound, Past, Pools, Lanes, IsTool
    <3>2. ASSUME NEW r \in ToSet(finished["io"]), kind[r] = "throwing"
          PROVE  r \notin Coming \cup Past
      <4>1. r \notin Coming \cup Held("io") /\ r \notin ToSet(replies)
        BY <3>2 DEF IInv, FinishedSound, KindsSound, Pools
      <4>2. r \notin Held("fast")
        BY <3>2 DEF IInv, KindsSound, Lanes, Lane
      <4> QED BY <4>1, <4>2 DEF Past
    <3> QED BY <3>1, <3>2 DEF Dropped
  <2> QED BY <2>1, <2>2, <2>3 DEF Places, Coming, Past, Loop
<1> QED BY <1>2, <1>3, <1>4, <1>5, <1>6 DEF IInv, Covered, FinishedSound, InOnePlace

-----------------------------------------------------------------------------
(* The receive loop keeps the invariant.                                   *)

LEMMA InitInvariant == Init => IInv
<1> SUFFICES ASSUME Init PROVE IInv
  OBVIOUS
<1>1. TypeOK
  BY DEF Init, TypeOK, Kinds
<1>2. /\ ToSet(inbox) = {} /\ Loop = {} /\ ToSet(replies) = {}
      /\ \A p \in Pools : /\ ToSet(queue[p]) = {} /\ Held(p) = {} /\ ToSet(finished[p]) = {}
                          /\ IsInjective(finished[p]) /\ Increasing(queue[p])
      /\ Increasing(inbox) /\ IsInjective(replies)
  BY ToSetEmpty DEF Init, Loop, Held, IsInjective, Increasing
<1>3. Covered /\ InOrder /\ KindsSound /\ FinishedSound
  BY <1>2 DEF Init, Covered, InOrder, KindsSound, FinishedSound, Coming, Past, Dropped,
              Pools, Lanes
<1>4. LaneInOrder
  BY DEF Init, LaneInOrder
<1> QED BY <1>1, <1>3, <1>4 DEF IInv

LEMMA ArriveKeeps ==
  ASSUME IInv, Arrive
  PROVE  IInv'
<1> DEFINE n == arrived + 1
<1>1. /\ n \in Requests /\ arrived' = n /\ arrived \in Nat /\ inbox' = Append(inbox, n)
      /\ inbox \in Seq(Requests) /\ inbox \in Seq(Nat)
      /\ UNCHANGED <<hand, queue, running, finished, replies>>
  BY Ranges DEF IInv, TypeOK, Arrive, Requests, poolVars
<1>2. PICK k \in Kinds : kind' = [kind EXCEPT ![n] = k]
  BY DEF Arrive
<1>3. kind' \in [Requests -> Kinds] /\ \A r \in 1..arrived : kind'[r] = kind[r]
  BY <1>1, <1>2 DEF IInv, TypeOK
<1>4. ToSet(inbox') = ToSet(inbox) \cup {n}
  BY <1>1, ToSetAppend
<1>5. /\ Loop' = Loop /\ \A p \in Pools : Held(p)' = Held(p)
      /\ Coming' = Coming \cup {n} /\ Past' = Past
  BY <1>1, <1>4 DEF Loop, Held, Coming, Past, Pools
<1> HIDE DEF n
<1>6. TypeOK'
  BY <1>1, <1>3 DEF IInv, TypeOK, Requests
<1>7. Coming \cup Past \cup Dropped = 1..arrived
  BY DEF IInv, Covered
<1>8. \A p \in Pools : ToSet(finished[p]) \subseteq 1..arrived
  BY DEF IInv, FinishedSound
<1>9. Dropped' = Dropped
  BY <1>1, <1>3, <1>8 DEF Dropped, Pools
<1>10. 1..n = 1..arrived \cup {n} /\ \A r \in 1..arrived : r < n
  BY <1>1 DEF n
<1>11. Covered'
  BY <1>1, <1>5, <1>7, <1>9, <1>10 DEF Covered
<1>12. /\ ToSet(inbox) \cup Loop \cup ToSet(replies) \subseteq 1..arrived
       /\ \A p \in Pools : Held(p) \subseteq 1..arrived
  BY <1>7 DEF Coming, Past, Pools
<1>13. \A r \in 1..arrived : IsTool(r)' = IsTool(r) /\ Lane(r)' = Lane(r)
  BY <1>3 DEF IsTool, Lane
<1>14. InOrder'
  <2>1. Increasing(inbox')
    BY <1>1, <1>10, <1>12, IncreasingAppend DEF IInv, InOrder
  <2>2. /\ \A a \in Held("main")' : \A b \in Loop' \cup ToSet(inbox') : a < b
        /\ \A a \in Loop' : \A b \in ToSet(inbox') : a < b
        /\ \A a \in Past' : \A b \in Coming' : a < b
    BY <1>4, <1>5, <1>7, <1>10, <1>12 DEF IInv, InOrder, Pools
  <2>3. \A p \in Lanes : \A a \in ToSet(replies') : \A b \in Held(p)' :
          (IsTool(a) /\ Lane(a) = p)' => a < b
    BY <1>1, <1>5, <1>12, <1>13 DEF IInv, InOrder, Lanes, Pools
  <2> QED BY <1>1, <2>1, <2>2, <2>3 DEF IInv, InOrder
<1>15. KindsSound'
  BY <1>1, <1>3, <1>5, <1>8, <1>12, <1>13 DEF IInv, KindsSound, Lanes, Pools
<1>16. FinishedSound'
  BY <1>1, <1>5, <1>8, <1>10 DEF IInv, FinishedSound
<1>17. LaneInOrder'
  <2>1. \A i \in DOMAIN replies : replies[i] \in 1..arrived
    BY <1>12 DEF ToSet
  <2> QED BY <1>1, <1>13, <2>1 DEF IInv, LaneInOrder
<1> QED BY <1>6, <1>11, <1>14, <1>15, <1>16, <1>17 DEF IInv

LEMMA ReceiveKeeps ==
  ASSUME IInv, Receive
  PROVE  IInv'
<1> DEFINE r == Head(inbox)
<1>1. /\ hand = None /\ hand' = r /\ inbox' = Tail(inbox) /\ inbox # <<>>
      /\ UNCHANGED <<arrived, kind, queue, running, finished, replies>>
      /\ inbox \in Seq(Requests) /\ inbox \in Seq(Nat)
  BY Ranges DEF IInv, TypeOK, Receive, poolVars
<1>2. /\ r \in Requests /\ Tail(inbox) \in Seq(Requests)
      /\ ToSet(inbox) = {r} \cup ToSet(inbox') /\ r # None
  BY <1>1, ToSetTail, Ranges DEF IInv
<1>3. Increasing(inbox') /\ \A y \in ToSet(inbox') : r < y
  BY <1>1, IncreasingTail DEF IInv, InOrder
<1> HIDE DEF r
<1>4. TypeOK'
  BY <1>1, <1>2 DEF IInv, TypeOK
<1>5. /\ \A p \in Pools : Held(p)' = Held(p)
      /\ Loop = {} /\ Loop' = {r} /\ Coming' = Coming /\ Past' = Past /\ Dropped' = Dropped
  BY <1>1, <1>2 DEF Held, Loop, Coming, Past, Dropped, Pools
<1>6. InOrder'
  <2>1. /\ \A a \in Held("main")' : \A b \in Loop' \cup ToSet(inbox') : a < b
        /\ \A a \in Loop' : \A b \in ToSet(inbox') : a < b
    BY <1>2, <1>3, <1>5 DEF IInv, InOrder, Pools
  <2> QED BY <1>1, <1>3, <1>5, <2>1 DEF IInv, InOrder, IsTool, Lane, Lanes, Pools
<1> QED BY <1>1, <1>4, <1>5, <1>6
        DEF IInv, Covered, KindsSound, FinishedSound, LaneInOrder, IsTool, Lane, Lanes, Pools

LEMMA DispatchKeeps ==
  ASSUME IInv, Dispatch
  PROVE  IInv'
<1>1. /\ hand \in Requests /\ hand # None /\ hand' = None /\ running["main"] = None
      /\ queue' = [queue EXCEPT !["main"] = Append(@, hand)] /\ "main" \in Pools
      /\ UNCHANGED <<arrived, kind, inbox, running, finished, replies>>
      /\ queue \in [Pools -> Seq(Requests)] /\ queue["main"] \in Seq(Nat)
  BY Ranges DEF IInv, TypeOK, Dispatch, Pools
<1>2. /\ queue'["main"] = Append(queue["main"], hand)
      /\ \A p \in Pools \ {"main"} : queue'[p] = queue[p]
      /\ queue' \in [Pools -> Seq(Requests)]
  BY <1>1
<1>3. ToSet(queue'["main"]) = ToSet(queue["main"]) \cup {hand}
  BY <1>1, <1>2, ToSetAppend
<1>4. TypeOK'
  BY <1>1, <1>2 DEF IInv, TypeOK
<1>5. /\ Held("main")' = Held("main") \cup {hand}
      /\ \A p \in Pools \ {"main"} : Held(p)' = Held(p)
  BY <1>1, <1>2, <1>3 DEF Held
<1>6. /\ Loop = {hand} /\ Loop' = {} /\ Coming' = Coming /\ Past' = Past
      /\ Dropped' = Dropped
  BY <1>1, <1>5 DEF Loop, Coming, Past, Dropped, Pools
<1>7. InOrder'
  <2>1. /\ \A a \in Held("main") : a < hand
        /\ \A b \in ToSet(inbox) : hand < b
    BY <1>6 DEF IInv, InOrder
  <2>2. Increasing(queue'["main"])
    BY <1>1, <1>2, <2>1, Ranges, IncreasingAppend DEF IInv, InOrder, Held
  <2>3. \A p \in Pools : /\ Increasing(queue'[p])
                         /\ running'[p] # None => \A r \in ToSet(queue'[p]) : running'[p] < r
    BY <1>1, <1>2, <2>2 DEF IInv, InOrder
  <2>4. \A a \in Held("main")' : \A b \in Loop' \cup ToSet(inbox') : a < b
    BY <1>1, <1>5, <1>6, <2>1 DEF IInv, InOrder
  <2> QED BY <1>1, <1>5, <1>6, <2>3, <2>4 DEF IInv, InOrder, IsTool, Lane, Lanes, Pools
<1>8. KindsSound'
  BY <1>1, <1>5 DEF IInv, KindsSound, IsTool, Lane, Lanes, Pools
<1>9. FinishedSound'
  <2>1. \A p \in Pools : Coming' \cup Held(p)' = Coming \cup Held(p)
    BY <1>5, <1>6 DEF Coming
  <2> QED BY <1>1, <2>1 DEF IInv, FinishedSound
<1> QED BY <1>1, <1>4, <1>6, <1>7, <1>8, <1>9
        DEF IInv, Covered, LaneInOrder, IsTool, Lane

-----------------------------------------------------------------------------
(* The pools keep the invariant.                                           *)

LEMMA BeginTaskKeeps ==
  ASSUME IInv, NEW p \in Pools, BeginTask(p)
  PROVE  IInv'
<1> DEFINE r == Head(queue[p])
<1>1. /\ running[p] = None /\ queue[p] # <<>>
      /\ queue' = [queue EXCEPT ![p] = Tail(queue[p])]
      /\ running' = [running EXCEPT ![p] = r]
      /\ UNCHANGED <<arrived, kind, inbox, hand, finished, replies>>
      /\ queue \in [Pools -> Seq(Requests)] /\ queue[p] \in Seq(Nat)
      /\ running \in [Pools -> Requests \cup {None}]
  BY Ranges DEF IInv, TypeOK, BeginTask
<1>2. /\ r \in Requests /\ Tail(queue[p]) \in Seq(Requests)
      /\ ToSet(queue[p]) = {r} \cup ToSet(Tail(queue[p])) /\ r # None
  BY <1>1, ToSetTail, Ranges DEF IInv
<1>3. Increasing(Tail(queue[p])) /\ \A y \in ToSet(Tail(queue[p])) : r < y
  BY <1>1, IncreasingTail DEF IInv, InOrder
<1> HIDE DEF r
<1>4. /\ queue'[p] = Tail(queue[p]) /\ running'[p] = r
      /\ \A q \in Pools \ {p} : queue'[q] = queue[q] /\ running'[q] = running[q]
  BY <1>1
<1>5. TypeOK'
  BY <1>1, <1>2 DEF IInv, TypeOK
<1>6. \A q \in Pools : Held(q)' = Held(q)
  BY <1>1, <1>2, <1>4 DEF Held
<1>7. Loop' = Loop /\ Coming' = Coming /\ Past' = Past /\ Dropped' = Dropped
  BY <1>1, <1>6 DEF Loop, Coming, Past, Dropped, Pools
<1>8. \A q \in Pools : /\ Increasing(queue'[q])
                       /\ running'[q] # None => \A y \in ToSet(queue'[q]) : running'[q] < y
  BY <1>3, <1>4 DEF IInv, InOrder
<1>9. InOrder'
  BY <1>1, <1>6, <1>7, <1>8 DEF IInv, InOrder, IsTool, Lane, Lanes, Pools
<1> QED BY <1>1, <1>5, <1>6, <1>7, <1>9
        DEF IInv, Covered, KindsSound, FinishedSound, LaneInOrder, IsTool, Lane, Lanes, Pools

\* The task that ends is the first of its pool and is not known as finished.
LEMMA EndTaskFacts ==
  ASSUME IInv, NEW p \in Pools, running[p] # None, EndTask(p)
  PROVE  /\ running[p] \in Requests /\ running[p] \in Held(p)
         /\ running' = [running EXCEPT ![p] = None]
         /\ ToSet(queue[p]) = Held(p) \ {running[p]}
         /\ \A r \in Held(p) \ {running[p]} : running[p] < r
         /\ finished' \in [Pools -> Seq(Requests)]
         /\ ToSet(finished'[p]) = ToSet(finished[p]) \cup {running[p]}
         /\ \A q \in Pools \ {p} : finished'[q] = finished[q]
         /\ \A q \in Pools : IsInjective(finished'[q])
<1> DEFINE r == running[p]
<1>1. /\ r \in Requests /\ r \in Nat /\ running' = [running EXCEPT ![p] = None]
      /\ finished' = [finished EXCEPT ![p] = Append(finished[p], r)]
      /\ finished \in [Pools -> Seq(Requests)]
  BY Ranges DEF IInv, TypeOK, EndTask
<1>2. \A y \in ToSet(queue[p]) : r < y
  BY DEF IInv, InOrder
<1>3. Held(p) = ToSet(queue[p]) \cup {r} /\ r \notin ToSet(queue[p])
  BY <1>1, <1>2 DEF Held
<1>4. r \notin ToSet(finished[p]) /\ \A q \in Pools : IsInjective(finished[q])
  BY <1>3 DEF IInv, FinishedSound
<1>5. /\ ToSet(Append(finished[p], r)) = ToSet(finished[p]) \cup {r}
      /\ IsInjective(Append(finished[p], r))
  BY <1>1, <1>4, AppendFacts
<1>6. /\ finished'[p] = Append(finished[p], r)
      /\ \A q \in Pools \ {p} : finished'[q] = finished[q]
      /\ finished' \in [Pools -> Seq(Requests)]
  BY <1>1
<1> QED BY <1>1, <1>2, <1>3, <1>4, <1>5, <1>6

\* The main pool's task is the first of all requests not yet past that pool.
LEMMA MainTaskFacts ==
  ASSUME IInv, running["main"] # None, EndTask("main"), UNCHANGED <<inbox, hand>>,
         queue'["main"] = queue["main"]
  PROVE  /\ running["main"] \in Coming /\ running["main"] \notin Past
         /\ Held("main")' = Held("main") \ {running["main"]}
         /\ Coming' = Coming \ {running["main"]}
         /\ \A b \in Coming' : running["main"] < b
         /\ \A p \in Lanes : finished'[p] = finished[p] /\ running'[p] = running[p]
<1> DEFINE r == running["main"]
<1>1. /\ "main" \in Pools /\ Lanes \subseteq Pools \ {"main"}
      /\ running \in [Pools -> Requests \cup {None}]
  BY DEF Pools, Lanes, IInv, TypeOK
<1>2. /\ r \in Requests /\ r \in Nat /\ r \in Held("main")
      /\ running' = [running EXCEPT !["main"] = None]
      /\ ToSet(queue["main"]) = Held("main") \ {r}
      /\ \A y \in Held("main") \ {r} : r < y
      /\ \A q \in Pools \ {"main"} : finished'[q] = finished[q]
  BY <1>1, EndTaskFacts, Ranges DEF IInv
<1>3. Held("main")' = Held("main") \ {r}
  BY <1>1, <1>2 DEF Held
<1>4. /\ \A b \in Loop \cup ToSet(inbox) : r < b
      /\ \A a \in Past : a < r
  BY <1>2 DEF IInv, InOrder, Coming
<1>5. r \notin Loop \cup ToSet(inbox) /\ r \notin Past
  BY <1>2, <1>4
<1>6. Coming' = Coming \ {r}
  BY <1>3, <1>5 DEF Coming, Loop
<1> QED BY <1>1, <1>2, <1>3, <1>4, <1>5, <1>6 DEF Coming

LEMMA RejectKeeps ==
  ASSUME IInv, Reject
  PROVE  IInv'
<1> DEFINE r == running["main"]
<1>1. /\ r # None /\ kind[r] = "garbled" /\ EndTask("main") /\ "main" \in Pools
      /\ UNCHANGED <<arrived, kind, inbox, hand, queue, replies>>
  BY DEF Reject, Pools
<1>2. /\ r \in Requests /\ running' = [running EXCEPT !["main"] = None]
      /\ finished' \in [Pools -> Seq(Requests)]
      /\ ToSet(finished'["main"]) = ToSet(finished["main"]) \cup {r}
      /\ \A q \in Pools : IsInjective(finished'[q])
  BY <1>1, EndTaskFacts
<1>3. /\ r \in Coming /\ r \notin Past
      /\ Held("main")' = Held("main") \ {r} /\ Coming' = Coming \ {r}
      /\ \A p \in Lanes : finished'[p] = finished[p] /\ running'[p] = running[p]
  BY <1>1, MainTaskFacts
<1>4. \A p \in Lanes : Held(p)' = Held(p)
  BY <1>1, <1>3 DEF Held
<1>5. Loop' = Loop /\ Past' = Past
  BY <1>1, <1>4 DEF Loop, Past, Lanes
<1>6. Dropped' = Dropped \cup {r}
  BY <1>1, <1>2, <1>3 DEF Dropped, Lanes
<1>7. TypeOK'
  BY <1>1, <1>2 DEF IInv, TypeOK
<1>8. Covered'
  BY <1>1, <1>3, <1>5, <1>6 DEF IInv, Covered
<1>9. InOrder'
  <2>1. \A p \in Pools : running'[p] # None => running'[p] = running[p]
    BY <1>2 DEF IInv, TypeOK
  <2> QED BY <1>1, <1>3, <1>4, <1>5, <2>1 DEF IInv, InOrder, IsTool, Lane, Lanes, Pools
<1>10. KindsSound'
  BY <1>1, <1>3, <1>4 DEF IInv, KindsSound, IsTool, Lane
<1>11. FinishedSound'
  <2>1. r \in 1..arrived
    BY <1>3 DEF IInv, Covered
  <2>2. /\ ToSet(finished'["main"]) \subseteq 1..arrived
        /\ ToSet(finished'["main"]) \cap (Coming' \cup Held("main")') = {}
    BY <1>2, <1>3, <2>1 DEF IInv, FinishedSound, Pools, Coming
  <2>3. \A p \in Lanes : /\ ToSet(finished'[p]) \subseteq 1..arrived
                         /\ ToSet(finished'[p]) \cap (Coming' \cup Held(p)') = {}
    BY <1>3, <1>4 DEF IInv, FinishedSound, Pools, Lanes
  <2> QED BY <1>1, <1>2, <2>2, <2>3 DEF IInv, FinishedSound, Pools, Lanes
<1> QED BY <1>1, <1>7, <1>8, <1>9, <1>10, <1>11 DEF IInv, LaneInOrder, IsTool, Lane

LEMMA AnswerDirectlyKeeps ==
  ASSUME IInv, AnswerDirectly
  PROVE  IInv'
<1> DEFINE r == running["main"]
<1>1. /\ r # None /\ kind[r] \in {"list", "unknown"} /\ EndTask("main") /\ "main" \in Pools
      /\ replies' = Append(replies, r)
      /\ UNCHANGED <<arrived, kind, inbox, hand, queue>>
  BY DEF AnswerDirectly, Pools
<1>2. /\ r \in Requests /\ running' = [running EXCEPT !["main"] = None]
      /\ finished' \in [Pools -> Seq(Requests)]
      /\ ToSet(finished'["main"]) = ToSet(finished["main"]) \cup {r}
      /\ \A q \in Pools : IsInjective(finished'[q])
  BY <1>1, EndTaskFacts
<1>3. /\ r \in Coming /\ r \notin Past
      /\ Held("main")' = Held("main") \ {r} /\ Coming' = Coming \ {r}
      /\ \A b \in Coming' : r < b
      /\ \A p \in Lanes : finished'[p] = finished[p] /\ running'[p] = running[p]
  BY <1>1, MainTaskFacts
<1>4. \A p \in Lanes : Held(p)' = Held(p)
  BY <1>1, <1>3 DEF Held
<1>5. /\ replies \in Seq(Requests) /\ IsInjective(replies) /\ r \notin ToSet(replies)
  BY <1>3 DEF IInv, TypeOK, FinishedSound, Past
<1>6. ToSet(replies') = ToSet(replies) \cup {r} /\ IsInjective(replies')
      /\ replies' \in Seq(Requests)
  BY <1>1, <1>2, <1>5, AppendFacts
<1>7. Loop' = Loop /\ Past' = Past \cup {r}
  BY <1>1, <1>4, <1>6 DEF Loop, Past, Lanes
<1>8. Dropped' = Dropped
  BY <1>1, <1>2, <1>3 DEF Dropped, Lanes
<1>9. TypeOK'
  BY <1>1, <1>2, <1>6 DEF IInv, TypeOK
<1>10. Covered'
  BY <1>1, <1>3, <1>7, <1>8 DEF IInv, Covered
<1>11. \A q \in Requests : IsTool(q)' = IsTool(q) /\ Lane(q)' = Lane(q)
  BY <1>1 DEF IsTool, Lane
<1>12. ~IsTool(r)
  BY <1>1 DEF IsTool
<1>13. InOrder'
  <2>1. \A p \in Pools : running'[p] # None => running'[p] = running[p]
    BY <1>2 DEF IInv, TypeOK
  <2>2. \A a \in Past' : \A b \in Coming' : a < b
    BY <1>3, <1>7 DEF IInv, InOrder
  <2>3. \A p \in Lanes : \A a \in ToSet(replies') : \A b \in Held(p)' :
          (IsTool(a) /\ Lane(a) = p)' => a < b
    BY <1>1, <1>4, <1>6, <1>12 DEF IInv, InOrder, IsTool, Lane
  <2> QED BY <1>1, <1>3, <1>4, <1>7, <2>1, <2>2, <2>3 DEF IInv, InOrder, Lanes, Pools
<1>14. KindsSound'
  BY <1>1, <1>3, <1>4, <1>6 DEF IInv, KindsSound, IsTool, Lane
<1>15. FinishedSound'
  <2>1. r \in 1..arrived
    BY <1>3 DEF IInv, Covered
  <2>2. /\ ToSet(finished'["main"]) \subseteq 1..arrived
        /\ ToSet(finished'["main"]) \cap (Coming' \cup Held("main")') = {}
    BY <1>2, <1>3, <2>1 DEF IInv, FinishedSound, Pools, Coming
  <2>3. \A p \in Lanes : /\ ToSet(finished'[p]) \subseteq 1..arrived
                         /\ ToSet(finished'[p]) \cap (Coming' \cup Held(p)') = {}
    BY <1>3, <1>4 DEF IInv, FinishedSound, Pools, Lanes
  <2> QED BY <1>1, <1>2, <1>6, <2>2, <2>3 DEF IInv, FinishedSound, Pools, Lanes
<1>16. LaneInOrder'
  <2>1. /\ Len(replies) \in Nat /\ DOMAIN replies = 1..Len(replies)
        /\ DOMAIN replies' = 1..(Len(replies) + 1) /\ replies'[Len(replies) + 1] = r
        /\ \A i \in 1..Len(replies) : replies'[i] = replies[i]
    BY <1>1, <1>2, <1>5
  <2>2. \A q : IsTool(q)' = IsTool(q) /\ Lane(q)' = Lane(q)
    BY <1>1 DEF IsTool, Lane
  <2> QED BY <1>12, <2>1, <2>2 DEF IInv, LaneInOrder
<1> QED BY <1>9, <1>10, <1>13, <1>14, <1>15, <1>16 DEF IInv

LEMMA SubmitToolKeeps ==
  ASSUME IInv, SubmitTool
  PROVE  IInv'
<1>0. /\ running["main"] # None /\ IsTool(running["main"]) /\ "main" \in Pools
      /\ Lane(running["main"]) \in Lanes /\ EndTask("main")
  BY DEF SubmitTool, Pools, Lanes, Lane
<1> SUFFICES ASSUME NEW r \in Requests, r = running["main"], NEW l \in Lanes, l = Lane(r)
             PROVE  IInv'
  BY <1>0, EndTaskFacts
<1>1. /\ r # None /\ IsTool(r) /\ running[l] = None /\ EndTask("main") /\ "main" \in Pools
      /\ queue' = [queue EXCEPT ![l] = Append(queue[l], r)]
      /\ UNCHANGED <<arrived, kind, inbox, hand, replies>>
      /\ l \in Pools /\ Lanes \subseteq Pools \ {"main"}
      /\ queue \in [Pools -> Seq(Requests)] /\ queue[l] \in Seq(Nat)
  BY Ranges DEF SubmitTool, Pools, Lanes, Lane, IInv, TypeOK
<1>2. /\ running' = [running EXCEPT !["main"] = None]
      /\ finished' \in [Pools -> Seq(Requests)]
      /\ ToSet(finished'["main"]) = ToSet(finished["main"]) \cup {r}
      /\ \A q \in Pools : IsInjective(finished'[q])
  BY <1>1, EndTaskFacts
<1>3. /\ queue'[l] = Append(queue[l], r) /\ \A p \in Pools \ {l} : queue'[p] = queue[p]
      /\ queue' \in [Pools -> Seq(Requests)]
  BY <1>1
<1>4. /\ r \in Coming /\ r \notin Past
      /\ Held("main")' = Held("main") \ {r} /\ Coming' = Coming \ {r}
      /\ \A b \in Coming' : r < b
      /\ \A p \in Lanes : finished'[p] = finished[p] /\ running'[p] = running[p]
  BY <1>1, <1>3, MainTaskFacts
<1>5. ToSet(queue'[l]) = ToSet(queue[l]) \cup {r}
  BY <1>1, <1>3, ToSetAppend
<1>6. /\ Held(l)' = Held(l) \cup {r} /\ Held(l) = ToSet(queue[l])
      /\ \A p \in Lanes \ {l} : Held(p)' = Held(p)
  BY <1>1, <1>3, <1>4, <1>5 DEF Held
<1>7. Loop' = Loop /\ Past' = Past \cup {r}
  BY <1>1, <1>6 DEF Loop, Past, Lanes
<1>8. Dropped' = Dropped
  BY <1>1, <1>2, <1>4 DEF Dropped, Lanes, IsTool
<1>9. TypeOK'
  BY <1>1, <1>2, <1>3 DEF IInv, TypeOK
<1>10. Covered'
  BY <1>1, <1>4, <1>7, <1>8 DEF IInv, Covered
<1>11. \A q : IsTool(q)' = IsTool(q) /\ Lane(q)' = Lane(q)
  BY <1>1 DEF IsTool, Lane
<1>12. \A a \in Past : a < r
  BY <1>4 DEF IInv, InOrder
<1>13. InOrder'
  <2>1. \A a \in ToSet(queue[l]) : a < r
    BY <1>1, <1>6, <1>12 DEF Past, Lanes
  <2>2. Increasing(queue'[l])
    BY <1>1, <1>2, <1>3, <2>1, Ranges, IncreasingAppend DEF IInv, InOrder
  <2>3. \A p \in Pools : /\ Increasing(queue'[p])
                         /\ running'[p] # None => \A q \in ToSet(queue'[p]) : running'[p] < q
    <3>1. /\ running'[l] = None /\ \A p \in Pools : running'[p] # None => running'[p] = running[p]
      BY <1>1, <1>2, <1>4 DEF IInv, TypeOK
    <3> QED BY <1>3, <2>2, <3>1 DEF IInv, InOrder
  <2>4. \A a \in Past' : \A b \in Coming' : a < b
    BY <1>4, <1>7 DEF IInv, InOrder
  <2>5. \A p \in Lanes : \A a \in ToSet(replies') : \A b \in Held(p)' :
          (IsTool(a) /\ Lane(a) = p)' => a < b
    <3>1. \A a \in ToSet(replies) : a < r
      BY <1>12 DEF Past
    <3> QED BY <1>1, <1>6, <1>11, <3>1 DEF IInv, InOrder
  <2> QED BY <1>1, <1>4, <1>7, <2>3, <2>4, <2>5 DEF IInv, InOrder
<1>14. KindsSound'
  <2>1. IsTool(r)' /\ Lane(r)' = l
    BY <1>1, <1>11
  <2> QED BY <1>1, <1>4, <1>6, <1>11, <2>1 DEF IInv, KindsSound
<1>15. FinishedSound'
  <2>1. r \in 1..arrived
    BY <1>4 DEF IInv, Covered
  <2>2. /\ ToSet(finished'["main"]) \subseteq 1..arrived
        /\ ToSet(finished'["main"]) \cap (Coming' \cup Held("main")') = {}
    BY <1>2, <1>4, <2>1 DEF IInv, FinishedSound, Pools, Coming
  <2>3. \A p \in Lanes : /\ ToSet(finished'[p]) \subseteq 1..arrived
                         /\ ToSet(finished'[p]) \cap (Coming' \cup Held(p)') = {}
    BY <1>1, <1>4, <1>6 DEF IInv, FinishedSound
  <2> QED BY <1>1, <1>2, <2>2, <2>3 DEF IInv, FinishedSound, Pools, Lanes
<1>16. LaneInOrder'
  BY <1>1, <1>11 DEF IInv, LaneInOrder
<1> QED BY <1>9, <1>10, <1>13, <1>14, <1>15, <1>16 DEF IInv

\* A lane's task is a tool of that lane, and in no other place.
LEMMA LaneTaskFacts ==
  ASSUME IInv, NEW p \in Lanes, NEW r \in Requests, r = running[p], EndTask(p),
         UNCHANGED <<arrived, kind, inbox, hand, queue>>
  PROVE  /\ r # None /\ r \in Held(p) /\ r \notin Coming /\ r \notin ToSet(replies)
         /\ IsTool(r) /\ Lane(r) = p
         /\ Held(p)' = Held(p) \ {r} /\ \A q \in Pools \ {p} : Held(q)' = Held(q)
         /\ \A q \in Lanes \ {p} : r \notin Held(q)
         /\ \A b \in Held(p)' : r < b
         /\ Coming' = Coming
         /\ \A q \in Pools : running'[q] # None => running'[q] = running[q]
<1>1. /\ p \in Pools /\ "main" \in Pools /\ p # "main" /\ r # None /\ r \in Nat
      /\ running \in [Pools -> Requests \cup {None}]
      /\ \A q \in Pools : Held(q) \subseteq Requests /\ Requests \subseteq Nat
  BY Ranges DEF Pools, Lanes, IInv, TypeOK
<1>2. /\ r \in Held(p) /\ running' = [running EXCEPT ![p] = None]
      /\ ToSet(queue[p]) = Held(p) \ {r} /\ \A b \in Held(p) \ {r} : r < b
  BY <1>1, EndTaskFacts
<1>3. /\ running'[p] = None /\ \A q \in Pools \ {p} : running'[q] = running[q]
  BY <1>1, <1>2
<1>4. /\ Held(p)' = Held(p) \ {r} /\ \A q \in Pools \ {p} : Held(q)' = Held(q)
  BY <1>2, <1>3 DEF Held
<1>5. Coming' = Coming
  BY <1>1, <1>4 DEF Coming, Loop
<1>6. IsTool(r) /\ Lane(r) = p /\ \A q \in Lanes \ {p} : r \notin Held(q)
  BY <1>2 DEF IInv, KindsSound
<1>7. r \notin ToSet(replies)
  BY <1>1, <1>2, <1>6 DEF IInv, InOrder
<1>8. r \in Past
  BY <1>2 DEF Past, Lanes
<1>9. r \notin Coming
  BY <1>1, <1>8 DEF IInv, InOrder
<1> QED BY <1>1, <1>2, <1>3, <1>4, <1>5, <1>6, <1>7, <1>9

\* What the pools have finished stays apart from what is under way.
LEMMA LaneTaskFinished ==
  ASSUME IInv, NEW p \in Lanes, NEW r \in Requests, r = running[p], EndTask(p),
         UNCHANGED <<arrived, kind, inbox, hand, queue>>
  PROVE  /\ finished' \in [Pools -> Seq(Requests)] /\ running' \in [Pools -> Requests \cup {None}]
         /\ ToSet(finished'[p]) = ToSet(finished[p]) \cup {r}
         /\ \A q \in Pools \ {p} : finished'[q] = finished[q]
         /\ \A q \in Pools : /\ ToSet(finished'[q]) \subseteq 1..arrived
                             /\ IsInjective(finished'[q])
                             /\ ToSet(finished'[q]) \cap (Coming \cup Held(q))' = {}
<1>1. p \in Pools /\ p # "main" /\ r # None /\ running \in [Pools -> Requests \cup {None}]
  BY Ranges DEF Pools, Lanes, IInv, TypeOK
<1>2. /\ finished' \in [Pools -> Seq(Requests)] /\ running' = [running EXCEPT ![p] = None]
      /\ ToSet(finished'[p]) = ToSet(finished[p]) \cup {r}
      /\ \A q \in Pools \ {p} : finished'[q] = finished[q]
      /\ \A q \in Pools : IsInjective(finished'[q])
  BY <1>1, EndTaskFacts
<1>3. /\ r \in Held(p) /\ r \notin Coming /\ Held(p)' = Held(p) \ {r} /\ Coming' = Coming
      /\ \A q \in Pools \ {p} : Held(q)' = Held(q)
  BY LaneTaskFacts
<1>4. r \in 1..arrived
  BY <1>3 DEF IInv, Covered, Past, Lanes
<1>5. ASSUME NEW q \in Pools
      PROVE  /\ ToSet(finished'[q]) \subseteq 1..arrived
             /\ ToSet(finished'[q]) \cap (Coming \cup Held(q))' = {}
  <2>1. /\ ToSet(finished[q]) \subseteq 1..arrived
        /\ ToSet(finished[q]) \cap (Coming \cup Held(q)) = {}
    BY DEF IInv, FinishedSound
  <2>2. CASE q = p
    BY <1>2, <1>3, <1>4, <2>1, <2>2
  <2>3. CASE q # p
    BY <1>2, <1>3, <2>1, <2>3
  <2> QED BY <2>2, <2>3
<1> QED BY <1>1, <1>2, <1>5

LEMMA RunToolKeeps ==
  ASSUME IInv, NEW p \in Lanes, RunTool(p)
  PROVE  IInv'
<1>0. running[p] \in Requests /\ EndTask(p)
  BY DEF RunTool, IInv, TypeOK, Lanes, Pools
<1> SUFFICES ASSUME NEW r \in Requests, r = running[p] PROVE IInv'
  BY <1>0
<1>1. /\ kind[r] # "throwing" /\ EndTask(p) /\ replies' = Append(replies, r)
      /\ UNCHANGED <<arrived, kind, inbox, hand, queue>> /\ Lanes \subseteq Pools
      /\ "main" \in Pools /\ "main" \notin Lanes
  BY DEF RunTool, Pools, Lanes
<1>2. /\ r # None /\ r \in Held(p) /\ r \notin Coming /\ r \notin ToSet(replies)
      /\ IsTool(r) /\ Lane(r) = p
      /\ Held(p)' = Held(p) \ {r} /\ \A q \in Pools \ {p} : Held(q)' = Held(q)
      /\ \A b \in Held(p)' : r < b
      /\ Coming' = Coming
      /\ \A q \in Pools : running'[q] # None => running'[q] = running[q]
  BY <1>1, LaneTaskFacts
<1>3. /\ finished' \in [Pools -> Seq(Requests)] /\ running' \in [Pools -> Requests \cup {None}]
      /\ ToSet(finished'[p]) = ToSet(finished[p]) \cup {r}
      /\ \A q \in Pools \ {p} : finished'[q] = finished[q]
      /\ \A q \in Pools : /\ ToSet(finished'[q]) \subseteq 1..arrived
                          /\ IsInjective(finished'[q])
                          /\ ToSet(finished'[q]) \cap (Coming \cup Held(q))' = {}
  BY <1>1, LaneTaskFinished
<1>4. /\ ToSet(replies') = ToSet(replies) \cup {r} /\ IsInjective(replies')
      /\ replies' \in Seq(Requests) /\ replies \in Seq(Requests)
  BY <1>1, <1>2, AppendFacts DEF IInv, TypeOK, FinishedSound
<1>5. Past' = Past
  BY <1>1, <1>2, <1>4 DEF Past, Lanes
<1>6. Dropped' = Dropped
  BY <1>1, <1>2, <1>3 DEF Dropped, Lanes, IsTool
<1>7. TypeOK'
  BY <1>1, <1>3, <1>4 DEF IInv, TypeOK
<1>8. Covered'
  BY <1>1, <1>2, <1>5, <1>6 DEF IInv, Covered
<1>9. \A q : IsTool(q)' = IsTool(q) /\ Lane(q)' = Lane(q)
  BY <1>1 DEF IsTool, Lane
<1>10. InOrder'
  <2>1. Loop' = Loop /\ Held("main")' = Held("main")
    BY <1>1, <1>2 DEF Loop
  <2>2. \A q \in Lanes : \A a \in ToSet(replies') : \A b \in Held(q)' :
          (IsTool(a) /\ Lane(a) = q)' => a < b
    BY <1>1, <1>2, <1>4, <1>9 DEF IInv, InOrder
  <2> QED BY <1>1, <1>2, <1>5, <2>1, <2>2 DEF IInv, InOrder
<1>11. KindsSound'
  <2>1. kind[r] # "garbled"
    BY <1>2 DEF IsTool
  <2>2. ASSUME NEW q \in Lanes, NEW x \in Held(q)' \cup ToSet(finished'[q])
        PROVE  IsTool(x) /\ Lane(x) = q
    BY <1>1, <1>2, <1>3, <2>2 DEF IInv, KindsSound
  <2> QED BY <1>1, <1>4, <1>9, <2>1, <2>2 DEF IInv, KindsSound
<1>12. FinishedSound'
  BY <1>1, <1>3, <1>4 DEF FinishedSound
<1>13. LaneInOrder'
  <2>1. /\ Len(replies) \in Nat /\ DOMAIN replies = 1..Len(replies)
        /\ DOMAIN replies' = 1..(Len(replies) + 1) /\ replies'[Len(replies) + 1] = r
        /\ \A i \in 1..Len(replies) : replies'[i] = replies[i] /\ replies[i] \in ToSet(replies)
    BY <1>1, <1>4 DEF ToSet
  <2>2. \A a \in ToSet(replies) : IsTool(a) /\ Lane(a) = p => a < r
    BY <1>2 DEF IInv, InOrder
  <2>3. kind' = kind /\ \A i, j \in DOMAIN replies :
                          IsTool(replies[i]) /\ IsTool(replies[j])
                          /\ Lane(replies[i]) = Lane(replies[j]) /\ i < j => replies[i] < replies[j]
    BY <1>1 DEF IInv, LaneInOrder
  <2>4. ASSUME NEW i \in DOMAIN replies', NEW j \in DOMAIN replies', i < j,
               NEW a, a = replies'[i], NEW b, b = replies'[j],
               IsTool(a), IsTool(b), Lane(a) = Lane(b)
        PROVE  a < b
    <3>1. CASE j = Len(replies) + 1
      <4>1. i \in 1..Len(replies) /\ a = replies[i] /\ a \in ToSet(replies) /\ b = r
        BY <2>1, <2>4, <3>1
      <4> QED BY <1>2, <2>2, <2>4, <4>1
    <3>2. CASE j # Len(replies) + 1
      <4>1. i \in DOMAIN replies /\ j \in DOMAIN replies /\ a = replies[i] /\ b = replies[j]
        BY <2>1, <2>4, <3>2
      <4> QED BY <2>3, <2>4, <4>1
    <3> QED BY <3>1, <3>2
  <2> QED BY <1>9, <2>4 DEF LaneInOrder
<1> QED BY <1>7, <1>8, <1>10, <1>11, <1>12, <1>13 DEF IInv

LEMMA ToolThrowsKeeps ==
  ASSUME IInv, NEW p \in Lanes, ToolThrows(p)
  PROVE  IInv'
<1>0. running[p] \in Requests /\ EndTask(p)
  BY DEF ToolThrows, IInv, TypeOK, Lanes, Pools
<1> SUFFICES ASSUME NEW r \in Requests, r = running[p] PROVE IInv'
  BY <1>0
<1>1. /\ kind[r] = "throwing" /\ EndTask(p)
      /\ UNCHANGED <<arrived, kind, inbox, hand, queue, replies>> /\ Lanes \subseteq Pools
      /\ "main" \in Pools /\ "main" \notin Lanes
  BY DEF ToolThrows, Pools, Lanes
<1>2. /\ r # None /\ r \in Held(p) /\ r \notin Coming /\ r \notin ToSet(replies)
      /\ IsTool(r) /\ Lane(r) = p
      /\ Held(p)' = Held(p) \ {r} /\ \A q \in Pools \ {p} : Held(q)' = Held(q)
      /\ \A q \in Lanes \ {p} : r \notin Held(q)
      /\ Coming' = Coming
      /\ \A q \in Pools : running'[q] # None => running'[q] = running[q]
  BY <1>1, LaneTaskFacts
<1>3. /\ finished' \in [Pools -> Seq(Requests)] /\ running' \in [Pools -> Requests \cup {None}]
      /\ ToSet(finished'[p]) = ToSet(finished[p]) \cup {r}
      /\ \A q \in Pools \ {p} : finished'[q] = finished[q]
      /\ \A q \in Pools : /\ ToSet(finished'[q]) \subseteq 1..arrived
                          /\ IsInjective(finished'[q])
                          /\ ToSet(finished'[q]) \cap (Coming \cup Held(q))' = {}
  BY <1>1, LaneTaskFinished
<1>4. p = "io"
  BY <1>1, <1>2 DEF Lane
<1>5. Past' = Past \ {r}
  BY <1>1, <1>2, <1>4 DEF Past, Lanes, Pools
<1>6. Dropped' = Dropped \cup {r}
  BY <1>1, <1>3, <1>4 DEF Dropped, Pools
<1>7. TypeOK'
  BY <1>1, <1>3 DEF IInv, TypeOK
<1>8. Covered'
  <2>1. r \in Past
    BY <1>2 DEF Past, Lanes
  <2> QED BY <1>1, <1>2, <1>5, <1>6, <2>1 DEF IInv, Covered
<1>9. \A q : IsTool(q)' = IsTool(q) /\ Lane(q)' = Lane(q)
  BY <1>1 DEF IsTool, Lane
<1>10. InOrder'
  <2>1. Loop' = Loop /\ Held("main")' = Held("main")
    BY <1>1, <1>2 DEF Loop
  <2>2. \A q \in Lanes : \A a \in ToSet(replies') : \A b \in Held(q)' :
          (IsTool(a) /\ Lane(a) = q)' => a < b
    BY <1>1, <1>2, <1>9 DEF IInv, InOrder
  <2> QED BY <1>1, <1>2, <1>5, <2>1, <2>2 DEF IInv, InOrder
<1>11. KindsSound'
  BY <1>1, <1>2, <1>3, <1>9 DEF IInv, KindsSound
<1>12. FinishedSound'
  BY <1>1, <1>3 DEF IInv, FinishedSound
<1>13. LaneInOrder'
  BY <1>1, <1>9 DEF IInv, LaneInOrder
<1> QED BY <1>7, <1>8, <1>10, <1>11, <1>12, <1>13 DEF IInv

LEMMA StutterKeeps ==
  ASSUME IInv, UNCHANGED vars
  PROVE  IInv'
BY DEF IInv, TypeOK, Covered, InOrder, KindsSound, FinishedSound, LaneInOrder, vars, poolVars,
       Coming, Past, Loop, Held, Dropped, IsTool, Lane

LEMMA StepInvariant == IInv /\ [Next]_vars => IInv'
<1> SUFFICES ASSUME IInv, [Next]_vars PROVE IInv'
  OBVIOUS
<1>1. CASE Arrive
  BY <1>1, ArriveKeeps
<1>2. CASE Receive
  BY <1>2, ReceiveKeeps
<1>3. CASE Dispatch
  BY <1>3, DispatchKeeps
<1>4. ASSUME NEW p \in Pools, BeginTask(p) PROVE IInv'
  BY <1>4, BeginTaskKeeps
<1>5. CASE MainTask
  BY <1>5, RejectKeeps, AnswerDirectlyKeeps, SubmitToolKeeps DEF MainTask
<1>6. ASSUME NEW p \in Lanes, LaneTask(p) PROVE IInv'
  BY <1>6, RunToolKeeps, ToolThrowsKeeps DEF LaneTask
<1>7. CASE UNCHANGED vars
  BY <1>7, StutterKeeps
<1> QED BY <1>1, <1>2, <1>3, <1>4, <1>5, <1>6, <1>7 DEF Next

-----------------------------------------------------------------------------
(* The properties.                                                         *)

\* The inductive invariant holds throughout.
THEOREM Invariant == Spec => []IInv
<1>1. Init => IInv
  BY InitInvariant
<1>2. IInv /\ [Next]_vars => IInv'
  BY StepInvariant
<1> QED BY <1>1, <1>2, PTL DEF Spec

\* The provider's variables keep their types.
THEOREM TypeCorrect == Spec => []TypeOK
<1>1. IInv => TypeOK
  BY DEF IInv
<1> QED BY <1>1, Invariant, PTL

\* No request is lost between the receive loop and two pools, and none is
\* queued, run or answered twice, however many there are.
THEOREM OnePlaceEach == Spec => []InOnePlace
<1>1. IInv => InOnePlace
  BY PlacesApart
<1> QED BY <1>1, Invariant, PTL

\* Tools of one lane are answered in the order their requests arrived.
THEOREM LanesInOrder == Spec => []LaneInOrder
<1>1. IInv => LaneInOrder
  BY DEF IInv
<1> QED BY <1>1, Invariant, PTL

-----------------------------------------------------------------------------
(* Each pool is used as a SerialPool allows.                               *)

\* What an action does to pool p, whichever of the three p is.
Accepts(p, r) == /\ running[p] = None /\ queue'[p] = Append(queue[p], r)
                 /\ running'[p] = running[p] /\ finished'[p] = finished[p]
Begins(p) == /\ running[p] = None /\ queue[p] # <<>> /\ running'[p] = Head(queue[p])
             /\ queue'[p] = Tail(queue[p]) /\ finished'[p] = finished[p]
Ends(p) == /\ running[p] # None /\ finished'[p] = Append(finished[p], running[p])
           /\ running'[p] = None /\ queue'[p] = queue[p]
Rests(p) == queue'[p] = queue[p] /\ running'[p] = running[p] /\ finished'[p] = finished[p]

Serially(p) == (\E r \in Requests : Accepts(p, r)) \/ Begins(p) \/ Ends(p) \/ Rests(p)

LEMMA StepsSerially ==
  ASSUME TypeOK, [Next]_vars, NEW p \in Pools
  PROVE  Serially(p)
<1> USE DEF TypeOK, poolVars, Serially
<1>1. CASE Arrive \/ Receive
  BY <1>1 DEF Arrive, Receive, Rests
<1>2. CASE Dispatch
  BY <1>2 DEF Dispatch, Accepts, Rests
<1>3. ASSUME NEW q \in Pools, BeginTask(q) PROVE Serially(p)
  BY <1>3 DEF BeginTask, Begins, Rests
<1>4. CASE Reject \/ AnswerDirectly
  BY <1>4 DEF Reject, AnswerDirectly, EndTask, Ends, Rests
<1>5. CASE SubmitTool
  <2> DEFINE r == running["main"]
             l == Lane(r)
  <2>1. /\ r \in Requests /\ l \in Pools /\ l # "main" /\ "main" \in Pools
        /\ running[l] = None /\ queue' = [queue EXCEPT ![l] = Append(queue[l], r)]
        /\ running' = [running EXCEPT !["main"] = None]
        /\ finished' = [finished EXCEPT !["main"] = Append(finished["main"], r)] /\ r # None
    BY <1>5 DEF SubmitTool, EndTask, Lane, Pools
  <2> HIDE DEF l
  <2>2. CASE p = "main"
    BY <2>1, <2>2 DEF Ends
  <2>3. CASE p = l
    BY <2>1, <2>3 DEF Accepts
  <2>4. CASE p # "main" /\ p # l
    BY <2>1, <2>4 DEF Rests
  <2> QED BY <2>2, <2>3, <2>4
<1>6. ASSUME NEW q \in Lanes, LaneTask(q) PROVE Serially(p)
  BY <1>6 DEF LaneTask, RunTool, ToolThrows, EndTask, Lanes, Pools, Ends, Rests
<1>7. CASE UNCHANGED vars
  BY <1>7 DEF vars, Rests
<1> QED BY <1>1, <1>2, <1>3, <1>4, <1>5, <1>6, <1>7 DEF Next, MainTask

\* Nothing enters a pool's queue while a task of the pool runs, and what the
\* pool accepts it runs in order, one at a time: the provider's steps are steps
\* of SerialPool, three times over, or leave the pool alone.
THEOREM PoolsUsedSerially ==
  Spec => /\ MainPool!Init /\ [][MainPool!Next]_(MainPool!vars)
          /\ FastPool!Init /\ [][FastPool!Next]_(FastPool!vars)
          /\ IoPool!Init /\ [][IoPool!Next]_(IoPool!vars)
<1>1. Init => MainPool!Init /\ FastPool!Init /\ IoPool!Init
  BY DEF Init, Pools, MainPool!Init, FastPool!Init, IoPool!Init
<1>2. TypeOK /\ [Next]_vars => [MainPool!Next]_(MainPool!vars)
  <2> SUFFICES ASSUME Serially("main") PROVE [MainPool!Next]_(MainPool!vars)
    BY StepsSerially DEF Pools
  <2> QED BY DEF Serially, Accepts, Begins, Ends, Rests, MainPool!Next, MainPool!Accept, MainPool!Begin,
                 MainPool!End, MainPool!vars
<1>3. TypeOK /\ [Next]_vars => [FastPool!Next]_(FastPool!vars)
  <2> SUFFICES ASSUME Serially("fast") PROVE [FastPool!Next]_(FastPool!vars)
    BY StepsSerially DEF Pools
  <2> QED BY DEF Serially, Accepts, Begins, Ends, Rests, FastPool!Next, FastPool!Accept, FastPool!Begin,
                 FastPool!End, FastPool!vars
<1>4. TypeOK /\ [Next]_vars => [IoPool!Next]_(IoPool!vars)
  <2> SUFFICES ASSUME Serially("io") PROVE [IoPool!Next]_(IoPool!vars)
    BY StepsSerially DEF Pools
  <2> QED BY DEF Serially, Accepts, Begins, Ends, Rests, IoPool!Next, IoPool!Accept, IoPool!Begin,
                 IoPool!End, IoPool!vars
<1> QED BY <1>1, <1>2, <1>3, <1>4, TypeCorrect, PTL DEF Spec
=============================================================================
