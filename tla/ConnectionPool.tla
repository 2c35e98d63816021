--------------------------- MODULE ConnectionPool ---------------------------
(***************************************************************************)
(* The pool of MySQL connections, ConnectionPool.cpp: callers that borrow  *)
(* and give back, and one producer thread that makes connections when the  *)
(* queue is empty.  All of them share one mutex and, for two different     *)
(* conditions, one condition variable.  What a thread does between taking  *)
(* the mutex and releasing it or going to sleep is one step: the producer  *)
(* connects to the database inside it.                                     *)
(*                                                                         *)
(* A connection is the number it was made as.  Whether the database still  *)
(* holds the other end of it is never asked and not modelled.              *)
(***************************************************************************)
EXTENDS Naturals, FiniteSets, SequencesExt

CONSTANTS
  Callers,     \* threads that borrow connections
  InitSize,    \* connections made by the constructor, 5 in the program
  MaxSize,     \* connections made in all, 15 in the program
  MaxTrouble   \* bound: failed connects and timeouts after construction

ASSUME PoolAssumption ==
  InitSize \in Nat /\ MaxSize \in Nat \ {0} /\ InitSize <= MaxSize /\ MaxTrouble \in Nat

Connections == 1..MaxSize
None == 0

VARIABLES
  queue,     \* _connectionQue
  count,     \* _connectionCnt
  pc,        \* pc[c]: "away", "ready" to look at the queue, "asleep",
             \* "late": its wait timed out, "using"
  lent,      \* lent[c]: the connection c uses, or None
  maker,     \* the producer thread: "ready" or "asleep"
  trouble

vars == <<queue, count, pc, lent, maker, trouble>>

\* The constructor connects InitSize times; any of them may fail.
Init ==
  /\ count \in 0..InitSize
  /\ queue = [i \in 1..count |-> i]
  /\ pc = [c \in Callers |-> "away"]
  /\ lent = [c \in Callers |-> None]
  /\ maker = "ready"
  /\ trouble = 0

Trouble == trouble < MaxTrouble /\ trouble' = trouble + 1

\* notify_all after the steps "next" of the callers.
Awake(next) == [c \in Callers |-> IF next[c] = "asleep" THEN "ready" ELSE next[c]]
NotifyAll(next) == pc' = Awake(next) /\ maker' = "ready"

-----------------------------------------------------------------------------
(* Faulty variants of actions below, each with one plausible slip.         *)

\* The limit is tested before the queue is found empty, not again after.
ConnectUnlimited ==
  /\ maker = "ready" /\ queue = <<>>
  /\ queue' = Append(queue, count + 1) /\ count' = count + 1
  /\ NotifyAll(pc)
  /\ UNCHANGED <<lent, trouble>>

\* A connect that failed is counted all the same.
ConnectFailsCounted ==
  /\ maker = "ready" /\ queue = <<>> /\ count < MaxSize /\ Trouble
  /\ count' = count + 1
  /\ NotifyAll(pc)
  /\ UNCHANGED <<queue, lent>>

\* The caller looks at the front of the queue and pops it later.
GetFront(c) ==
  /\ pc[c] = "ready" /\ queue # <<>>
  /\ lent' = [lent EXCEPT ![c] = Head(queue)]
  /\ queue' = IF Len(queue) > 1 THEN Tail(queue) ELSE queue
  /\ NotifyAll([pc EXCEPT ![c] = "using"])
  /\ UNCHANGED <<count, trouble>>

\* One sleeper is woken for the one connection that came back.
ReleaseNotifyOne(c) ==
  /\ pc[c] = "using"
  /\ queue' = Append(queue, lent[c])
  /\ lent' = [lent EXCEPT ![c] = None]
  /\ LET away == [pc EXCEPT ![c] = "away"]
     IN \/ \E d \in Callers : /\ pc[d] = "asleep"
                              /\ pc' = [away EXCEPT ![d] = "ready"]
                              /\ UNCHANGED maker
        \/ pc' = away /\ maker' = "ready"
  /\ UNCHANGED <<count, trouble>>

-----------------------------------------------------------------------------
(* Callers.                                                                *)

Ask(c) ==
  /\ pc[c] = "away"
  /\ pc' = [pc EXCEPT ![c] = "ready"]
  /\ UNCHANGED <<queue, count, lent, maker, trouble>>

Get(c) ==
  /\ pc[c] = "ready" /\ queue # <<>>
  /\ lent' = [lent EXCEPT ![c] = Head(queue)]
  /\ queue' = Tail(queue)
  /\ NotifyAll([pc EXCEPT ![c] = "using"])
  /\ UNCHANGED <<count, trouble>>

Sleep(c) ==
  /\ pc[c] = "ready" /\ queue = <<>>
  /\ pc' = [pc EXCEPT ![c] = "asleep"]
  /\ UNCHANGED <<queue, count, lent, maker, trouble>>

TimeOut(c) ==
  /\ pc[c] = "asleep" /\ Trouble
  /\ pc' = [pc EXCEPT ![c] = "late"]
  /\ UNCHANGED <<queue, count, lent, maker>>

\* With the mutex again in hand getConnection returns null, whatever has come
\* into the queue meanwhile.
GiveUp(c) ==
  /\ pc[c] = "late"
  /\ pc' = [pc EXCEPT ![c] = "away"]
  /\ UNCHANGED <<queue, count, lent, maker, trouble>>

\* The last shared_ptr goes, its deleter gives the connection back.
Release(c) ==
  /\ pc[c] = "using"
  /\ queue' = Append(queue, lent[c])
  /\ lent' = [lent EXCEPT ![c] = None]
  /\ NotifyAll([pc EXCEPT ![c] = "away"])
  /\ UNCHANGED <<count, trouble>>

-----------------------------------------------------------------------------
(* The producer thread.                                                    *)

MakerSleeps ==
  /\ maker = "ready" /\ queue # <<>>
  /\ maker' = "asleep"
  /\ UNCHANGED <<queue, count, pc, lent, trouble>>

Connect ==
  /\ maker = "ready" /\ queue = <<>> /\ count < MaxSize
  /\ queue' = Append(queue, count + 1) /\ count' = count + 1
  /\ NotifyAll(pc)
  /\ UNCHANGED <<lent, trouble>>

ConnectFails ==
  /\ maker = "ready" /\ queue = <<>> /\ count < MaxSize /\ Trouble
  /\ NotifyAll(pc)
  /\ UNCHANGED <<queue, count, lent>>

\* All connections are out: the thread does not sleep but wakes the callers,
\* who look again and start their 100 ms anew.
Full ==
  /\ maker = "ready" /\ queue = <<>> /\ count = MaxSize
  /\ NotifyAll(pc)
  /\ UNCHANGED <<queue, count, lent, trouble>>

Maker == MakerSleeps \/ Connect \/ Full

-----------------------------------------------------------------------------

\* Either thread may wake without being notified.
WakeSpuriously ==
  /\ \/ maker' = "ready" /\ UNCHANGED pc
     \/ \E c \in Callers : /\ pc[c] = "asleep"
                           /\ pc' = [pc EXCEPT ![c] = "ready"]
                           /\ UNCHANGED maker
  /\ UNCHANGED <<queue, count, lent, trouble>>

Proceed(c) == Get(c) \/ Sleep(c) \/ GiveUp(c)
Caller(c) == Ask(c) \/ Proceed(c) \/ TimeOut(c) \/ Release(c)

Next == \/ \E c \in Callers : Caller(c)
        \/ Maker \/ ConnectFails
        \/ WakeSpuriously

\* A thread that is not asleep comes by the mutex in the end, queries end,
\* and there is always somebody who asks.
Spec ==
  /\ Init /\ [][Next]_vars
  /\ WF_vars(Maker)
  /\ \A c \in Callers : WF_vars(Ask(c)) /\ WF_vars(Proceed(c)) /\ WF_vars(Release(c))

-----------------------------------------------------------------------------
(* Correctness.                                                            *)

TypeOK ==
  /\ queue \in Seq(Connections)
  /\ count \in 0..MaxSize
  /\ pc \in [Callers -> {"away", "ready", "asleep", "late", "using"}]
  /\ lent \in [Callers -> Connections \cup {None}]
  /\ maker \in {"ready", "asleep"}
  /\ trouble \in 0..MaxTrouble

\* Every connection made is idle or with one caller: none leaks, and no two
\* callers send statements down the same one.
EachInOnePlace ==
  LET out == {c \in Callers : lent[c] # None}
  IN /\ IsInjective(queue)
     /\ \A c, d \in out : lent[c] = lent[d] => c = d
     /\ {lent[c] : c \in out} \cap ToSet(queue) = {}
     /\ {lent[c] : c \in out} \cup ToSet(queue) = 1..count

\* Two kinds of sleepers share a condition variable and none is forgotten: a
\* caller sleeps only while there is nothing to have, the producer only while
\* there is nothing to make.
SleepersHaveReason ==
  /\ \A c \in Callers : pc[c] = "asleep" => queue = <<>>
  /\ maker = "asleep" => queue # <<>>

\* However the pool started, if connecting and waiting fail finitely often
\* callers go on being served.
KeepsServing == []<>(\E c \in Callers : pc[c] = "using")
=============================================================================
