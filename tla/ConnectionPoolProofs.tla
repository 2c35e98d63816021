------------------------ MODULE ConnectionPoolProofs ------------------------
(***************************************************************************)
(* Proofs about ConnectionPool, for any callers and sizes: connections are *)
(* neither lost nor lent twice, and nobody sleeps without a reason.        *)
(***************************************************************************)
EXTENDS ConnectionPool, SequenceLemmas, TLAPS

\* A caller has a connection exactly while it uses one.
LentWhenUsing == \A c \in Callers : pc[c] = "using" <=> lent[c] # None

IInv == TypeOK /\ LentWhenUsing /\ EachInOnePlace /\ SleepersHaveReason

-----------------------------------------------------------------------------
(* The invariant.                                                          *)

LEMMA InitInvariant == Init => IInv
<1> SUFFICES ASSUME Init PROVE IInv
  OBVIOUS
<1>1. /\ count \in Nat /\ count <= MaxSize
      /\ queue \in Seq(Connections) /\ DOMAIN queue = 1..count
      /\ \A i \in 1..count : queue[i] = i
  BY PoolAssumption DEF Init, Connections
<1>2. TypeOK
  BY <1>1, PoolAssumption DEF Init, TypeOK
<1>3. IsInjective(queue) /\ ToSet(queue) = 1..count
  BY <1>1 DEF IsInjective, ToSet
<1>4. EachInOnePlace
  BY <1>3 DEF Init, EachInOnePlace
<1> QED BY <1>2, <1>4 DEF Init, IInv, LentWhenUsing, SleepersHaveReason

\* notify_all moves sleepers only: who used a connection uses it still.
LEMMA AwakeFacts ==
  ASSUME NEW next \in [Callers -> {"away", "ready", "asleep", "late", "using"}]
  PROVE  /\ Awake(next) \in [Callers -> {"away", "ready", "asleep", "late", "using"}]
         /\ \A c \in Callers : /\ Awake(next)[c] # "asleep"
                               /\ Awake(next)[c] = "using" <=> next[c] = "using"
  BY DEF Awake

\* Steps that move no connection.
LEMMA Unmoved ==
  ASSUME EachInOnePlace, UNCHANGED <<queue, count, lent>>
  PROVE  EachInOnePlace'
  BY DEF EachInOnePlace

LEMMA GetKeeps ==
  ASSUME IInv, NEW c \in Callers, Get(c)
  PROVE  IInv'
<1> USE PoolAssumption
<1> DEFINE next == [pc EXCEPT ![c] = "using"]
<1>1. /\ Head(queue) \in Connections /\ Head(queue) \in ToSet(queue)
      /\ queue' \in Seq(Connections) /\ IsInjective(queue')
      /\ ToSet(queue') = ToSet(queue) \ {Head(queue)}
  BY TailFacts DEF IInv, TypeOK, EachInOnePlace, Get
<1>2. /\ next \in [Callers -> {"away", "ready", "asleep", "late", "using"}]
      /\ pc' = Awake(next) /\ maker' = "ready"
  BY DEF IInv, TypeOK, Get, NotifyAll
<1>3. TypeOK'
  BY <1>1, <1>2, AwakeFacts DEF IInv, TypeOK, Get
<1>4. lent[c] = None /\ Head(queue) # None
  BY <1>1 DEF IInv, LentWhenUsing, Get, Connections, None
<1>5. LentWhenUsing'
  BY <1>2, <1>4, AwakeFacts DEF IInv, TypeOK, LentWhenUsing, Get
<1>6. EachInOnePlace'
  <2> DEFINE out == {d \in Callers : lent[d] # None}
  <2>1. {d \in Callers : lent'[d] # None} = out \cup {c}
    BY <1>4 DEF IInv, TypeOK, Get
  <2>2. \A d \in out : lent'[d] = lent[d] /\ lent[d] \notin ToSet(queue)
    BY <1>4 DEF IInv, TypeOK, EachInOnePlace, Get
  <2>3. lent'[c] = Head(queue)
    BY DEF IInv, TypeOK, Get
  <2>4. {lent'[d] : d \in out \cup {c}} = {lent[d] : d \in out} \cup {Head(queue)}
    BY <2>2, <2>3
  <2>5. \A d, e \in out \cup {c} : lent'[d] = lent'[e] => d = e
    BY <1>1, <2>2, <2>3 DEF IInv, EachInOnePlace
  <2>6. {lent[d] : d \in out} \cap ToSet(queue) = {}
        /\ {lent[d] : d \in out} \cup ToSet(queue) = 1..count
    BY DEF IInv, EachInOnePlace
  <2>7. count' = count
    BY DEF Get
  <2>8. {lent'[d] : d \in out \cup {c}} \cap ToSet(queue') = {}
    BY <1>1, <2>4, <2>6
  <2>9. {lent'[d] : d \in out \cup {c}} \cup ToSet(queue') = 1..count'
    BY <1>1, <2>4, <2>6, <2>7
  <2> DEFINE out2 == {d \in Callers : lent'[d] # None}
  <2>10. /\ \A d, e \in out2 : lent'[d] = lent'[e] => d = e
         /\ {lent'[d] : d \in out2} \cap ToSet(queue') = {}
         /\ {lent'[d] : d \in out2} \cup ToSet(queue') = 1..count'
    BY <2>1, <2>5, <2>8, <2>9
  <2> QED BY <1>1, <2>10 DEF EachInOnePlace
<1>7. SleepersHaveReason'
  BY <1>2, AwakeFacts DEF SleepersHaveReason
<1> QED BY <1>3, <1>5, <1>6, <1>7 DEF IInv

LEMMA ReleaseKeeps ==
  ASSUME IInv, NEW c \in Callers, Release(c)
  PROVE  IInv'
<1> USE PoolAssumption
<1> DEFINE next == [pc EXCEPT ![c] = "away"]
           out == {d \in Callers : lent[d] # None}
<1>1. c \in out /\ lent[c] \in Connections /\ lent[c] \notin ToSet(queue)
  BY DEF IInv, TypeOK, LentWhenUsing, EachInOnePlace, Release
<1>2. /\ queue' \in Seq(Connections) /\ queue' # <<>> /\ IsInjective(queue')
      /\ ToSet(queue') = ToSet(queue) \cup {lent[c]}
  BY <1>1, AppendFacts DEF IInv, TypeOK, EachInOnePlace, Release
<1>3. /\ next \in [Callers -> {"away", "ready", "asleep", "late", "using"}]
      /\ pc' = Awake(next) /\ maker' = "ready"
  BY DEF IInv, TypeOK, Release, NotifyAll
<1>4. TypeOK'
  BY <1>2, <1>3, AwakeFacts DEF IInv, TypeOK, Release
<1>5. LentWhenUsing'
  BY <1>3, AwakeFacts DEF IInv, TypeOK, LentWhenUsing, Release
<1>6. EachInOnePlace'
  <2>1. {d \in Callers : lent'[d] # None} = out \ {c}
    BY DEF IInv, TypeOK, Release
  <2>2. \A d \in out \ {c} : lent'[d] = lent[d] /\ lent[d] # lent[c]
    BY <1>1 DEF IInv, TypeOK, EachInOnePlace, Release
  <2>3. {lent'[d] : d \in out \ {c}} = {lent[d] : d \in out} \ {lent[c]}
    BY <1>1, <2>2
  <2>4. \A d, e \in out \ {c} : lent'[d] = lent'[e] => d = e
    BY <2>2 DEF IInv, EachInOnePlace
  <2>5. lent[c] \in {lent[d] : d \in out}
    BY <1>1
  <2>6. {lent[d] : d \in out} \cap ToSet(queue) = {}
        /\ {lent[d] : d \in out} \cup ToSet(queue) = 1..count
    BY DEF IInv, EachInOnePlace
  <2>7. count' = count
    BY DEF Release
  <2>8. {lent'[d] : d \in out \ {c}} \cap ToSet(queue') = {}
    BY <1>2, <2>3, <2>6
  <2>9. {lent'[d] : d \in out \ {c}} \cup ToSet(queue') = 1..count'
    BY <1>2, <2>3, <2>5, <2>6, <2>7
  <2> DEFINE out2 == {d \in Callers : lent'[d] # None}
  <2>10. /\ \A d, e \in out2 : lent'[d] = lent'[e] => d = e
         /\ {lent'[d] : d \in out2} \cap ToSet(queue') = {}
         /\ {lent'[d] : d \in out2} \cup ToSet(queue') = 1..count'
    BY <2>1, <2>4, <2>8, <2>9
  <2> QED BY <1>2, <2>10 DEF EachInOnePlace
<1>7. SleepersHaveReason'
  BY <1>3, AwakeFacts DEF SleepersHaveReason
<1> QED BY <1>4, <1>5, <1>6, <1>7 DEF IInv

LEMMA ConnectKeeps ==
  ASSUME IInv, Connect
  PROVE  IInv'
<1> USE PoolAssumption
<1> DEFINE out == {d \in Callers : lent[d] # None}
<1>1. count + 1 \in Connections /\ count + 1 \notin ToSet(queue)
  BY DEF IInv, TypeOK, EachInOnePlace, Connect, Connections
<1>2. /\ queue' \in Seq(Connections) /\ queue' # <<>> /\ IsInjective(queue')
      /\ ToSet(queue') = ToSet(queue) \cup {count + 1}
  <2>1. queue \in Seq(Connections) /\ IsInjective(queue)
        /\ queue' = Append(queue, count + 1)
    BY DEF IInv, TypeOK, EachInOnePlace, Connect
  <2> QED BY <1>1, <2>1, AppendFacts
<1>3. pc' = Awake(pc) /\ maker' = "ready" /\ lent' = lent
  BY DEF Connect, NotifyAll
<1>4. TypeOK'
  BY <1>2, <1>3, AwakeFacts DEF IInv, TypeOK, Connect
<1>5. LentWhenUsing'
  BY <1>3, AwakeFacts DEF IInv, TypeOK, LentWhenUsing
<1>6. EachInOnePlace'
  <2>1. {lent[d] : d \in out} \cap ToSet(queue) = {}
        /\ {lent[d] : d \in out} \cup ToSet(queue) = 1..count
        /\ \A d, e \in out : lent[d] = lent[e] => d = e
    BY DEF IInv, EachInOnePlace
  <2>2. count + 1 \notin {lent[d] : d \in out} /\ 1..count' = 1..count \cup {count + 1}
    BY <2>1 DEF IInv, TypeOK, Connect
  <2>3. {lent[d] : d \in out} \cap ToSet(queue') = {}
    BY <1>2, <2>1, <2>2
  <2>4. {lent[d] : d \in out} \cup ToSet(queue') = 1..count'
    BY <1>2, <2>1, <2>2
  <2> QED BY <1>2, <1>3, <2>1, <2>3, <2>4 DEF EachInOnePlace
<1>7. SleepersHaveReason'
  BY <1>3, AwakeFacts DEF IInv, TypeOK, SleepersHaveReason
<1> QED BY <1>4, <1>5, <1>6, <1>7 DEF IInv

LEMMA StepInvariant == IInv /\ [Next]_vars => IInv'
<1> SUFFICES ASSUME IInv, [Next]_vars PROVE IInv'
  OBVIOUS
<1> USE PoolAssumption
<1>1. ASSUME NEW c \in Callers, Ask(c) PROVE IInv'
  BY <1>1, Unmoved DEF IInv, TypeOK, LentWhenUsing, SleepersHaveReason, Ask
<1>2. ASSUME NEW c \in Callers, Sleep(c) PROVE IInv'
  BY <1>2, Unmoved DEF IInv, TypeOK, LentWhenUsing, SleepersHaveReason, Sleep
<1>3. ASSUME NEW c \in Callers, TimeOut(c) PROVE IInv'
  BY <1>3, Unmoved DEF IInv, TypeOK, LentWhenUsing, SleepersHaveReason, TimeOut, Trouble
<1>4. ASSUME NEW c \in Callers, GiveUp(c) PROVE IInv'
  BY <1>4, Unmoved DEF IInv, TypeOK, LentWhenUsing, SleepersHaveReason, GiveUp
<1>5. ASSUME MakerSleeps PROVE IInv'
  BY <1>5, Unmoved DEF IInv, TypeOK, LentWhenUsing, SleepersHaveReason, MakerSleeps
<1>6. ASSUME ConnectFails \/ Full PROVE IInv'
  <2>1. /\ pc' = Awake(pc) /\ maker' = "ready" /\ trouble' \in 0..MaxTrouble
        /\ UNCHANGED <<queue, count, lent>>
    BY <1>6 DEF IInv, TypeOK, ConnectFails, Full, NotifyAll, Trouble
  <2> QED BY <2>1, AwakeFacts, Unmoved
          DEF IInv, TypeOK, LentWhenUsing, SleepersHaveReason
<1>7. ASSUME WakeSpuriously PROVE IInv'
  BY <1>7, Unmoved DEF IInv, TypeOK, LentWhenUsing, SleepersHaveReason, WakeSpuriously
<1>8. CASE UNCHANGED vars
  BY <1>8, Unmoved DEF IInv, TypeOK, LentWhenUsing, SleepersHaveReason, vars
<1> QED BY <1>1, <1>2, <1>3, <1>4, <1>5, <1>6, <1>7, <1>8,
           GetKeeps, ReleaseKeeps, ConnectKeeps
        DEF Next, Caller, Proceed, Maker

-----------------------------------------------------------------------------
(* The theorems.                                                           *)

\* The strengthened invariant holds in every behaviour of the pool.
THEOREM Invariant == Spec => []IInv
  BY InitInvariant, StepInvariant, PTL DEF Spec

\* Every variable keeps its type; in particular no more connections are made
\* than the limit (ConnectionPool.cpp:55).
THEOREM TypeCorrect == Spec => []TypeOK
<1>1. IInv => TypeOK
  BY DEF IInv
<1> QED BY <1>1, Invariant, PTL

\* Whatever the number of callers, every connection made is in the queue or
\* lent to one caller, once (getConnection and releaseConnection).
THEOREM NoneLostOrShared == Spec => []EachInOnePlace
<1>1. IInv => EachInOnePlace
  BY DEF IInv
<1> QED BY <1>1, Invariant, PTL

\* A caller sleeps only while the queue is empty, the producer thread only
\* while it is not: one condition variable is enough for both.
THEOREM NobodyForgotten == Spec => []SleepersHaveReason
<1>1. IInv => SleepersHaveReason
  BY DEF IInv
<1> QED BY <1>1, Invariant, PTL
=============================================================================
