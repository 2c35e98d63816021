------------------------------- MODULE Logger -------------------------------
(***************************************************************************)
(* The asynchronous logger: threads that log push into a ring of slots     *)
(* (spsc_queue.hpp), one detached thread pops and writes (logger.cpp).     *)
(* Nothing locks: each load and store of an index and each access to a     *)
(* slot is a step of its own.  The acquire and release orders of the code  *)
(* make an index's store visible no earlier than the slot access before    *)
(* it, so the steps can be taken in program order.                         *)
(*                                                                         *)
(* Producers is a parameter: the queue is made for one, the processes have *)
(* several (agentserver's pool workers and ConnectionPool's own thread).   *)
(* Log levels are left out; what the consumer does with a message, write   *)
(* it or drop it because the day's file does not open, is one step.        *)
(***************************************************************************)
EXTENDS Naturals, SequencesExt

CONSTANTS
  Producers,   \* the threads that log
  Capacity,    \* what the queue was made for, 100000 in the program
  MaxMessages  \* bound: messages a producer logs

ASSUME LoggerAssumption == Capacity \in Nat \ {0} /\ MaxMessages \in Nat

Messages == Producers \X (1..MaxMessages)
Nothing == <<>>   \* a slot never written, or moved from

Size == Capacity + 1   \* one slot more, to tell full from empty
Slots == 0..(Size - 1)

\* (A faulty Succ: the index is not brought back to 0 at the ring's end.)
SuccUnwrapped(i) == i + 1
Succ(i) == (i + 1) % Size

VARIABLES
  head, tail,  \* the consumer's and the producers' index
  buffer,
  pc,          \* pc[p] in Push: "idle", "loaded", "room", "filled"
  seen,        \* seen[p]: current_tail
  sent,        \* sent[p]: messages p has logged
  consumer,    \* the consumer in Pop: "idle", "found", "taken"; or "writing"
  result,      \* what it popped
  accepted,    \* messages for which Push returned true, in order
  popped, refused

producer == <<pc, seen, sent>>
vars == <<head, tail, buffer, producer, consumer, result, accepted, popped, refused>>

Init ==
  /\ head = 0 /\ tail = 0
  /\ buffer = [i \in Slots |-> Nothing]
  /\ pc = [p \in Producers |-> "idle"]
  /\ seen = [p \in Producers |-> 0]
  /\ sent = [p \in Producers |-> 0]
  /\ consumer = "idle" /\ result = Nothing
  /\ accepted = <<>> /\ popped = <<>> /\ refused = {}

Message(p) == <<p, sent[p]>>

-----------------------------------------------------------------------------
(* Faulty variants of actions below, each with one plausible slip.         *)

\* Full is taken to be what empty is, so a full queue is written over.
CheckFullAsEmpty(p) ==
  /\ pc[p] = "loaded"
  /\ pc' = [pc EXCEPT ![p] = "room"]
  /\ UNCHANGED <<head, tail, buffer, seen, sent, consumer, result, accepted,
                 popped, refused>>

\* The last free slot is not used, as if there were not one to spare.
CheckFullEarly(p) ==
  /\ pc[p] = "loaded"
  /\ IF Succ(seen[p]) = head \/ Succ(Succ(seen[p])) = head
     THEN /\ pc' = [pc EXCEPT ![p] = "idle"]
          /\ refused' = refused \cup {Message(p)}
     ELSE pc' = [pc EXCEPT ![p] = "room"] /\ UNCHANGED refused
  /\ UNCHANGED <<head, tail, buffer, seen, sent, consumer, result, accepted, popped>>

\* Pop moves on to where the producers are.
StoreHeadAtTail ==
  /\ consumer = "taken"
  /\ head' = tail
  /\ popped' = Append(popped, result)
  /\ consumer' = "writing"
  /\ UNCHANGED <<tail, buffer, producer, result, accepted, refused>>

-----------------------------------------------------------------------------
(* Producers: Logger::Log and SPSCQueue::Push.                             *)

LoadTail(p) ==
  /\ pc[p] = "idle" /\ sent[p] < MaxMessages
  /\ sent' = [sent EXCEPT ![p] = @ + 1]
  /\ seen' = [seen EXCEPT ![p] = tail]
  /\ pc' = [pc EXCEPT ![p] = "loaded"]
  /\ UNCHANGED <<head, tail, buffer, consumer, result, accepted, popped, refused>>

\* Full: Push returns false and the message is dropped with a warning.
CheckFull(p) ==
  /\ pc[p] = "loaded"
  /\ IF Succ(seen[p]) = head
     THEN /\ pc' = [pc EXCEPT ![p] = "idle"]
          /\ refused' = refused \cup {Message(p)}
     ELSE pc' = [pc EXCEPT ![p] = "room"] /\ UNCHANGED refused
  /\ UNCHANGED <<head, tail, buffer, seen, sent, consumer, result, accepted, popped>>

WriteSlot(p) ==
  /\ pc[p] = "room"
  /\ buffer' = [buffer EXCEPT ![seen[p]] = Message(p)]
  /\ pc' = [pc EXCEPT ![p] = "filled"]
  /\ UNCHANGED <<head, tail, seen, sent, consumer, result, accepted, popped, refused>>

StoreTail(p) ==
  /\ pc[p] = "filled"
  /\ tail' = Succ(seen[p])
  /\ accepted' = Append(accepted, Message(p))
  /\ pc' = [pc EXCEPT ![p] = "idle"]
  /\ UNCHANGED <<head, buffer, seen, sent, consumer, result, popped, refused>>

Log(p) == LoadTail(p) \/ CheckFull(p) \/ WriteSlot(p) \/ StoreTail(p)

-----------------------------------------------------------------------------
(* The consumer.  Finding the queue empty it only backs off and tries      *)
(* again, which changes nothing here.                                      *)

Find ==
  /\ consumer = "idle" /\ head # tail
  /\ consumer' = "found"
  /\ UNCHANGED <<head, tail, buffer, producer, result, accepted, popped, refused>>

TakeSlot ==
  /\ consumer = "found"
  /\ result' = buffer[head]
  /\ buffer' = [buffer EXCEPT ![head] = Nothing]
  /\ consumer' = "taken"
  /\ UNCHANGED <<head, tail, producer, accepted, popped, refused>>

StoreHead ==
  /\ consumer = "taken"
  /\ head' = Succ(head)
  /\ popped' = Append(popped, result)
  /\ consumer' = "writing"
  /\ UNCHANGED <<tail, buffer, producer, result, accepted, refused>>

\* The line is written, or given up because its file does not open.
Write ==
  /\ consumer = "writing"
  /\ consumer' = "idle" /\ result' = Nothing
  /\ UNCHANGED <<head, tail, buffer, producer, accepted, popped, refused>>

Consume == Find \/ TakeSlot \/ StoreHead \/ Write

-----------------------------------------------------------------------------

Next == Consume \/ \E p \in Producers : Log(p)

\* The consumer's thread loops for ever, and a Push that began ends.
Spec == /\ Init /\ [][Next]_vars
        /\ WF_vars(Consume)
        /\ \A p \in Producers : WF_vars(pc[p] # "idle" /\ Log(p))

-----------------------------------------------------------------------------
(* Correctness.                                                            *)

TypeOK ==
  /\ head \in Slots /\ tail \in Slots
  /\ buffer \in [Slots -> Messages \cup {Nothing}]
  /\ pc \in [Producers -> {"idle", "loaded", "room", "filled"}]
  /\ seen \in [Producers -> Slots]
  /\ sent \in [Producers -> 0..MaxMessages]
  /\ consumer \in {"idle", "found", "taken", "writing"}
  /\ result \in Messages \cup {Nothing}
  /\ accepted \in Seq(Messages) /\ popped \in Seq(Messages \cup {Nothing})
  /\ refused \subseteq Messages

\* No slot is written and read, or written twice, at the same time: what the
\* queue relies on instead of a lock.
SlotsExclusive ==
  LET writing == {p \in Producers : pc[p] = "room"}
  IN /\ \A p \in writing : consumer = "found" => seen[p] # head
     /\ \A p, q \in writing : p # q => seen[p] # seen[q]

\* What is queued, the message being popped included.
Queued ==
  [i \in 1..((tail + Size - head) % Size) |->
     IF i = 1 /\ consumer = "taken" THEN result ELSE buffer[(head + i - 1) % Size]]

\* A message is dropped only when the queue is full: every message Push
\* accepted is still queued or was popped, once and as it was logged.
AcceptedKept == accepted = popped \o Queued

\* For one producer the ring is a bounded queue, in order and without loss.
Fifo == INSTANCE BoundedQueue WITH queue <- Queued, delivered <- popped
KeepsFifo == Fifo!Spec
=============================================================================
