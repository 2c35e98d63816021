---------------------------- MODULE LoggerProofs ----------------------------
(***************************************************************************)
(* Proofs about Logger for a queue of any capacity with one producer, or   *)
(* none: the use spsc_queue.hpp is made for.  With two the run logger_many *)
(* shows how the invariant fails.                                          *)
(*                                                                         *)
(* The argument: a producer's copy of the tail is the tail, because nobody *)
(* else moves it; while it has room the consumer cannot make the queue     *)
(* full, and while the consumer has found a message the producer cannot    *)
(* make the queue empty.  So both work on different slots, and the slots   *)
(* between head and tail hold what was accepted and not popped.            *)
(***************************************************************************)
EXTENDS Logger, SequenceLemmas, TLAPS

SoleProducer == \A p, q \in Producers : p = q

USE LoggerAssumption

\* How many slots there are from h to t, and which is the i-th from h.
Distance(h, t) == (t + Size - h) % Size
Slot(h, i) == (h + i - 1) % Size

\* The copy of the tail is not stale; there is room while it is used.
ProducerSound ==
  \A p \in Producers :
    /\ pc[p] # "idle" => seen[p] = tail
    /\ pc[p] \in {"room", "filled"} => Succ(tail) # head
    /\ pc[p] = "filled" => buffer[tail] = Message(p)

\* What the consumer found cannot go away.
ConsumerSound == consumer \in {"found", "taken"} => head # tail

\* Messages are numbered in the order they are logged.
Numbered ==
  \A p \in Producers :
    /\ pc[p] # "idle" => sent[p] >= 1
    /\ \A i \in 1..MaxMessages :
         <<p, i>> \in ToSet(accepted) \cup refused
           => i <= sent[p] /\ (pc[p] # "idle" => i < sent[p])

IInv == TypeOK /\ ProducerSound /\ ConsumerSound /\ AcceptedKept /\ Numbered

-----------------------------------------------------------------------------
(* Arithmetic of the ring.                                                 *)

LEMMA ModFacts ==
  ASSUME NEW n \in Nat \ {0}
  PROVE  /\ \A i \in 0..(n - 1) : i % n = i
         /\ \A i \in n..(2 * n - 1) : i % n = i - n
<1>1. ASSUME NEW i \in 0..(n - 1) PROVE i % n = i
  OBVIOUS
<1>2. ASSUME NEW i \in n..(2 * n - 1) PROVE i % n = i - n
  OBVIOUS
<1> QED BY <1>1, <1>2

LEMMA SuccFacts ==
  ASSUME NEW i \in Slots
  PROVE  /\ Succ(i) = IF i = Size - 1 THEN 0 ELSE i + 1
         /\ Succ(i) \in Slots
<1>1. Size \in Nat \ {0} /\ Slots = 0..(Size - 1)
  BY DEF Size, Slots
<1>2. Succ(i) = IF i = Size - 1 THEN 0 ELSE i + 1
  <2>1. CASE i = Size - 1
    BY <1>1, <2>1, ModFacts DEF Succ
  <2>2. CASE i # Size - 1
    <3>1. i + 1 \in 0..(Size - 1)
      BY <1>1, <2>2
    <3> QED BY <1>1, <2>2, <3>1, ModFacts DEF Succ
  <2> QED BY <2>1, <2>2
<1> QED BY <1>1, <1>2

\* Distance and Slot without the remainders.
LEMMA RingFacts ==
  ASSUME NEW h \in Slots, NEW t \in Slots
  PROVE  /\ Distance(h, t) = IF t >= h THEN t - h ELSE t + Size - h
         /\ \A i \in 1..Size :
              /\ Slot(h, i) \in Slots
              /\ Slot(h, i) = IF h + i - 1 < Size THEN h + i - 1 ELSE h + i - 1 - Size
<1>1. Size \in Nat \ {0} /\ Slots = 0..(Size - 1)
  BY DEF Size, Slots
<1>2. Distance(h, t) = IF t >= h THEN t - h ELSE t + Size - h
  <2>1. CASE t >= h
    <3> DEFINE x == t + Size - h
    <3>1. x \in Size..(2 * Size - 1) /\ Distance(h, t) = x % Size
      BY <1>1, <2>1 DEF Distance
    <3>2. x - Size = t - h
      BY <1>1
    <3> HIDE DEF x
    <3>3. x % Size = x - Size
      BY <1>1, <3>1, ModFacts
    <3> QED BY <2>1, <3>1, <3>2, <3>3
  <2>2. CASE ~(t >= h)
    <3>1. t + Size - h \in 0..(Size - 1)
      BY <1>1, <2>2
    <3> QED BY <1>1, <2>2, <3>1, ModFacts DEF Distance
  <2> QED BY <2>1, <2>2
<1>3. ASSUME NEW i \in 1..Size
      PROVE Slot(h, i) = IF h + i - 1 < Size THEN h + i - 1 ELSE h + i - 1 - Size
  <2>1. CASE h + i - 1 < Size
    <3>1. h + i - 1 \in 0..(Size - 1)
      BY <1>1, <2>1
    <3> QED BY <1>1, <2>1, <3>1, ModFacts DEF Slot
  <2>2. CASE ~(h + i - 1 < Size)
    <3> DEFINE x == h + i - 1
    <3>1. x \in Size..(2 * Size - 1) /\ Slot(h, i) = x % Size
      BY <1>1, <2>2 DEF Slot
    <3>2. x - Size = h + i - 1 - Size
      BY <1>1
    <3> HIDE DEF x
    <3>3. x % Size = x - Size
      BY <1>1, <3>1, ModFacts
    <3> QED BY <1>1, <2>2, <3>1, <3>2, <3>3
  <2> QED BY <2>1, <2>2
<1>4. ASSUME NEW i \in 1..Size PROVE Slot(h, i) \in Slots
  BY <1>1, <1>3
<1> QED BY <1>2, <1>3, <1>4

\* The slots from h up to t are different ones, h the first, t the next after
\* the last; moving t or h on adds one at the end or takes the first away.
LEMMA QueueFacts ==
  ASSUME NEW h \in Slots, NEW t \in Slots
  PROVE  /\ Distance(h, t) \in 0..Capacity
         /\ Distance(h, t) = 0 <=> h = t
         /\ Distance(h, t) = Capacity <=> Succ(t) = h
         /\ \A i \in 1..Distance(h, t) :
              /\ Slot(h, i) \in Slots /\ Slot(h, i) # t
              /\ Slot(h, i) = h <=> i = 1
         /\ Slot(h, Distance(h, t) + 1) = t
         /\ Succ(t) # h => Distance(h, Succ(t)) = Distance(h, t) + 1
         /\ h # t => /\ Distance(Succ(h), t) = Distance(h, t) - 1
                     /\ \A i \in 1..(Distance(h, t) - 1) :
                          Slot(Succ(h), i) = Slot(h, i + 1)
<1>1. Capacity \in Nat \ {0} /\ Size = Capacity + 1 /\ Slots = 0..Capacity
  BY DEF Size, Slots
<1> DEFINE n == Distance(h, t)
<1>2. n = IF t >= h THEN t - h ELSE t + Size - h
  BY RingFacts
<1>3. \A i \in 1..Size :
        /\ Slot(h, i) \in Slots
        /\ Slot(h, i) = IF h + i - 1 < Size THEN h + i - 1 ELSE h + i - 1 - Size
  BY RingFacts
<1>4. /\ Succ(t) \in Slots /\ Succ(t) = IF t = Size - 1 THEN 0 ELSE t + 1
      /\ Succ(h) \in Slots /\ Succ(h) = IF h = Size - 1 THEN 0 ELSE h + 1
  BY SuccFacts
<1>5. Distance(h, Succ(t)) = IF Succ(t) >= h THEN Succ(t) - h ELSE Succ(t) + Size - h
  BY <1>4, RingFacts
<1>6. Distance(Succ(h), t) = IF t >= Succ(h) THEN t - Succ(h) ELSE t + Size - Succ(h)
  BY <1>4, RingFacts
<1>7. \A i \in 1..Size :
        Slot(Succ(h), i) = IF Succ(h) + i - 1 < Size THEN Succ(h) + i - 1
                           ELSE Succ(h) + i - 1 - Size
  BY <1>4, RingFacts
<1> HIDE DEF n
<1>8. n \in 0..Capacity /\ (n = 0 <=> h = t)
  BY <1>1, <1>2
<1>9. n = Capacity <=> Succ(t) = h
  BY <1>1, <1>2, <1>4
<1>10. ASSUME NEW i \in 1..n
       PROVE  Slot(h, i) \in Slots /\ Slot(h, i) # t /\ (Slot(h, i) = h <=> i = 1)
  <2>1. i \in 1..Size /\ i <= n
    BY <1>1, <1>8
  <2>2. /\ Slot(h, i) \in Slots
        /\ Slot(h, i) = IF h + i - 1 < Size THEN h + i - 1 ELSE h + i - 1 - Size
    BY <1>3, <2>1
  <2> QED BY <1>1, <1>2, <2>1, <2>2
<1>11. Slot(h, n + 1) = t
  BY <1>1, <1>2, <1>3, <1>8
<1>12. Succ(t) # h => Distance(h, Succ(t)) = n + 1
  BY <1>1, <1>2, <1>4, <1>5
<1>13. h # t => Distance(Succ(h), t) = n - 1
  BY <1>1, <1>2, <1>4, <1>6
<1>14. ASSUME h # t, NEW i \in 1..(n - 1) PROVE Slot(Succ(h), i) = Slot(h, i + 1)
  BY <1>1, <1>3, <1>4, <1>7, <1>8, <1>14
<1> QED BY <1>8, <1>9, <1>10, <1>11, <1>12, <1>13, <1>14 DEF n

-----------------------------------------------------------------------------
(* Sequences.                                                              *)

LEMMA ConcatFacts ==
  ASSUME NEW S, NEW a \in Seq(S), NEW q \in Seq(S), NEW x \in S
  PROVE  /\ a \o Append(q, x) = Append(a \o q, x)
         /\ q # <<>> => Append(a, Head(q)) \o Tail(q) = a \o q
<1>1. a \o Append(q, x) = Append(a \o q, x)
  OBVIOUS
<1>2. q # <<>> => Append(a, Head(q)) \o Tail(q) = a \o q
  OBVIOUS
<1> QED BY <1>1, <1>2

-----------------------------------------------------------------------------
(* What is queued, before and after each step.                             *)

LEMMA QueuedFacts ==
  ASSUME TypeOK
  PROVE  /\ Queued \in Seq(Messages \cup {Nothing}) /\ Len(Queued) = Distance(head, tail)
         /\ Len(Queued) \in 0..Capacity
         /\ Queued = <<>> <=> head = tail
         /\ Len(Queued) = Capacity <=> Succ(tail) = head
<1> DEFINE n == Distance(head, tail)
<1>1. Queued = [i \in 1..n |-> IF i = 1 /\ consumer = "taken" THEN result
                               ELSE buffer[Slot(head, i)]]
  BY DEF Queued, Distance, Slot
<1>2. /\ n \in 0..Capacity /\ (n = 0 <=> head = tail) /\ (n = Capacity <=> Succ(tail) = head)
      /\ \A i \in 1..n : Slot(head, i) \in Slots
  BY QueueFacts DEF TypeOK
<1> HIDE DEF n
<1>3. \A i \in 1..n : (IF i = 1 /\ consumer = "taken" THEN result
                       ELSE buffer[Slot(head, i)]) \in Messages \cup {Nothing}
  BY <1>2 DEF TypeOK
<1>4. Queued \in Seq(Messages \cup {Nothing}) /\ Len(Queued) = n
  BY <1>1, <1>2, <1>3
<1> QED BY <1>2, <1>4 DEF n

LEMMA QueuedUnmoved ==
  ASSUME UNCHANGED <<head, tail, buffer, consumer, result>>
  PROVE  Queued' = Queued
  BY DEF Queued

\* The consumer's states matter only in that "taken" is or is not left.
LEMMA QueuedConsumer ==
  ASSUME UNCHANGED <<head, tail, buffer>>, consumer # "taken", consumer' # "taken"
  PROVE  Queued' = Queued
  BY DEF Queued

LEMMA QueuedWrite ==
  ASSUME TypeOK, NEW m, buffer' = [buffer EXCEPT ![tail] = m],
         UNCHANGED <<head, tail, consumer, result>>
  PROVE  Queued' = Queued
<1> DEFINE n == Distance(head, tail)
<1>1. /\ Queued = [i \in 1..n |-> IF i = 1 /\ consumer = "taken" THEN result
                                  ELSE buffer[Slot(head, i)]]
      /\ Queued' = [i \in 1..n |-> IF i = 1 /\ consumer = "taken" THEN result
                                   ELSE buffer'[Slot(head, i)]]
  BY DEF Queued, Distance, Slot
<1>2. \A i \in 1..n : Slot(head, i) \in Slots /\ Slot(head, i) # tail
  BY QueueFacts DEF TypeOK
<1>3. \A i \in 1..n : buffer'[Slot(head, i)] = buffer[Slot(head, i)]
  BY <1>2 DEF TypeOK
<1> HIDE DEF n
<1> QED BY <1>1, <1>3

LEMMA QueuedTake ==
  ASSUME TypeOK, ConsumerSound, TakeSlot
  PROVE  Queued' = Queued
<1> DEFINE n == Distance(head, tail)
<1>1. /\ Queued = [i \in 1..n |-> IF i = 1 /\ consumer = "taken" THEN result
                                  ELSE buffer[Slot(head, i)]]
      /\ Queued' = [i \in 1..n |-> IF i = 1 /\ consumer' = "taken" THEN result'
                                   ELSE buffer'[Slot(head, i)]]
  BY DEF Queued, Distance, Slot, TakeSlot
<1>2. \A i \in 1..n : Slot(head, i) \in Slots /\ (Slot(head, i) = head <=> i = 1)
  BY QueueFacts DEF TypeOK
<1> HIDE DEF n
<1>3. /\ consumer # "taken" /\ consumer' = "taken" /\ result' = buffer[head]
      /\ \A i \in 1..n : i # 1 => buffer'[Slot(head, i)] = buffer[Slot(head, i)]
  BY <1>2 DEF TypeOK, TakeSlot
<1>4. \A i \in 1..n : (IF i = 1 /\ consumer' = "taken" THEN result'
                       ELSE buffer'[Slot(head, i)])
                    = (IF i = 1 /\ consumer = "taken" THEN result
                       ELSE buffer[Slot(head, i)])
  BY <1>2, <1>3
<1> QED BY <1>1, <1>4

LEMMA QueuedPush ==
  ASSUME TypeOK, ConsumerSound, Succ(tail) # head, tail' = Succ(tail),
         UNCHANGED <<head, buffer, consumer, result>>
  PROVE  Queued' = Append(Queued, buffer[tail])
<1> DEFINE n == Distance(head, tail)
           Item(i) == IF i = 1 /\ consumer = "taken" THEN result ELSE buffer[Slot(head, i)]
<1>1. /\ Distance(head, tail') = n + 1 /\ n \in Nat /\ (n = 0 <=> head = tail)
      /\ Slot(head, n + 1) = tail
  BY QueueFacts DEF TypeOK
<1>2. /\ Queued = [i \in 1..n |-> Item(i)]
      /\ Queued' = [i \in 1..Distance(head, tail') |-> Item(i)]
  BY DEF Queued, Distance, Slot
<1>3. Item(n + 1) = buffer[tail]
  BY <1>1 DEF ConsumerSound
<1>4. Len(Queued) = n /\ Queued \in Seq(Messages \cup {Nothing})
  BY QueuedFacts
<1> HIDE DEF n, Item
<1>5. Queued' = [i \in 1..(n + 1) |-> Item(i)]
  BY <1>1, <1>2
<1> QED BY <1>1, <1>2, <1>3, <1>4, <1>5

LEMMA QueuedPop ==
  ASSUME TypeOK, ConsumerSound, StoreHead
  PROVE  /\ Queued # <<>> /\ Head(Queued) = result
         /\ Queued' = Tail(Queued)
<1> DEFINE n == Distance(head, tail)
           Item(i) == IF i = 1 /\ consumer = "taken" THEN result ELSE buffer[Slot(head, i)]
           Next1(i) == buffer[Slot(head', i)]
<1>1. /\ consumer = "taken" /\ consumer' # "taken" /\ head # tail /\ head' = Succ(head)
      /\ tail' = tail /\ buffer' = buffer
  BY DEF ConsumerSound, StoreHead
<1>2. /\ Distance(head', tail) = n - 1 /\ n \in Nat /\ n # 0
      /\ \A i \in 1..(n - 1) : Slot(head', i) = Slot(head, i + 1)
  BY <1>1, QueueFacts DEF TypeOK
<1>3. /\ Queued = [i \in 1..n |-> Item(i)]
      /\ Queued' = [i \in 1..Distance(head', tail) |-> Next1(i)]
  BY <1>1 DEF Queued, Distance, Slot
<1>4. Item(1) = result /\ \A i \in 1..(n - 1) : Next1(i) = Item(i + 1)
  BY <1>1, <1>2
<1>5. Len(Queued) = n /\ Queued \in Seq(Messages \cup {Nothing})
  BY QueuedFacts
<1> HIDE DEF n, Item, Next1
<1>6. Queued' = [i \in 1..(n - 1) |-> Item(i + 1)]
  BY <1>2, <1>3, <1>4
<1> QED BY <1>2, <1>3, <1>4, <1>5, <1>6

-----------------------------------------------------------------------------
(* The invariant.                                                          *)

LEMMA InitInvariant == Init => IInv
<1> SUFFICES ASSUME Init PROVE IInv
  OBVIOUS
<1>1. 0 \in Slots
  BY DEF Slots, Size
<1>2. TypeOK
  BY <1>1 DEF Init, TypeOK, Nothing
<1>3. Queued = <<>>
  BY <1>2, QueuedFacts DEF Init
<1>4. AcceptedKept
  BY <1>3 DEF Init, AcceptedKept
<1> QED BY <1>2, <1>4 DEF Init, IInv, ProducerSound, ConsumerSound, Numbered, ToSet

LEMMA MessageFacts ==
  ASSUME TypeOK, Numbered, NEW p \in Producers, pc[p] # "idle"
  PROVE  /\ sent[p] \in 1..MaxMessages /\ Message(p) \in Messages
         /\ Message(p) \notin ToSet(accepted) \cup refused
  BY DEF TypeOK, Numbered, Messages, Message

LEMMA LoadTailKeeps ==
  ASSUME IInv, NEW p \in Producers, LoadTail(p)
  PROVE  IInv'
<1> USE DEF IInv, TypeOK, LoadTail
<1>1. TypeOK'
  OBVIOUS
<1>2. ProducerSound' /\ ConsumerSound'
  BY DEF ProducerSound, ConsumerSound, Message
<1>3. AcceptedKept'
  BY QueuedUnmoved DEF AcceptedKept
<1>4. Numbered'
  BY DEF Numbered
<1> QED BY <1>1, <1>2, <1>3, <1>4

LEMMA CheckFullKeeps ==
  ASSUME SoleProducer, IInv, NEW p \in Producers, CheckFull(p)
  PROVE  IInv'
<1>1. /\ sent[p] \in 1..MaxMessages /\ Message(p) \in Messages
      /\ seen[p] = tail
  BY MessageFacts DEF IInv, ProducerSound, CheckFull
<1>2. TypeOK'
  BY <1>1 DEF IInv, TypeOK, CheckFull
<1>3. ProducerSound' /\ ConsumerSound'
  BY <1>1 DEF IInv, TypeOK, ProducerSound, ConsumerSound, Message, CheckFull
<1>4. AcceptedKept'
  BY QueuedUnmoved DEF IInv, AcceptedKept, CheckFull
<1>5. Numbered'
  <2>1. CASE Succ(seen[p]) = head
    BY <1>1, <2>1 DEF IInv, TypeOK, Numbered, Message, CheckFull
  <2>2. CASE Succ(seen[p]) # head
    BY <2>2 DEF IInv, TypeOK, Numbered, CheckFull
  <2> QED BY <2>1, <2>2
<1> QED BY <1>2, <1>3, <1>4, <1>5 DEF IInv

LEMMA WriteSlotKeeps ==
  ASSUME SoleProducer, IInv, NEW p \in Producers, WriteSlot(p)
  PROVE  IInv'
<1>1. Message(p) \in Messages /\ seen[p] = tail /\ Succ(tail) # head
  BY MessageFacts DEF IInv, ProducerSound, WriteSlot
<1>2. TypeOK'
  BY <1>1 DEF IInv, TypeOK, WriteSlot
<1>3. ProducerSound'
  BY <1>1 DEF SoleProducer, IInv, TypeOK, ProducerSound, Message, WriteSlot
<1>4. AcceptedKept'
  BY <1>1, QueuedWrite DEF IInv, AcceptedKept, WriteSlot
<1> QED BY <1>2, <1>3, <1>4
        DEF IInv, TypeOK, ConsumerSound, Numbered, WriteSlot

LEMMA StoreTailKeeps ==
  ASSUME SoleProducer, IInv, NEW p \in Producers, StoreTail(p)
  PROVE  IInv' /\ Queued' = Append(Queued, Message(p))
<1>1. /\ sent[p] \in 1..MaxMessages /\ Message(p) \in Messages
      /\ seen[p] = tail /\ Succ(tail) # head /\ buffer[tail] = Message(p)
  BY MessageFacts DEF IInv, ProducerSound, StoreTail
<1>2. Queued' = Append(Queued, Message(p))
  BY <1>1, QueuedPush DEF IInv, StoreTail
<1>3. Succ(tail) \in Slots
  BY SuccFacts DEF IInv, TypeOK
<1>4. TypeOK'
  BY <1>1, <1>3 DEF IInv, TypeOK, StoreTail
<1>5. ProducerSound' /\ ConsumerSound'
  BY <1>1 DEF SoleProducer, IInv, TypeOK, ProducerSound, ConsumerSound, StoreTail
<1>6. AcceptedKept'
  <2> DEFINE S == Messages \cup {Nothing}
  <2>1. popped \in Seq(S) /\ Queued \in Seq(S) /\ Message(p) \in S
    BY <1>1, QueuedFacts DEF IInv, TypeOK
  <2>2. popped \o Append(Queued, Message(p)) = Append(popped \o Queued, Message(p))
    BY <2>1, ConcatFacts
  <2> QED BY <1>2, <2>2 DEF IInv, AcceptedKept, StoreTail
<1>7. Numbered'
  <2>1. accepted \in Seq(Messages) /\ accepted' = Append(accepted, Message(p))
    BY DEF IInv, TypeOK, StoreTail
  <2>2. ToSet(accepted') = ToSet(accepted) \cup {Message(p)}
    BY <1>1, <2>1, ToSetAppend
  <2>3. /\ refused' = refused /\ sent' = sent /\ pc' = [pc EXCEPT ![p] = "idle"]
        /\ pc[p] # "idle" /\ pc \in [Producers -> {"idle", "loaded", "room", "filled"}]
        /\ \A q \in Producers : q = p
    BY DEF SoleProducer, IInv, TypeOK, StoreTail
  <2>4. ASSUME NEW i \in 1..MaxMessages, <<p, i>> \in ToSet(accepted') \cup refused'
        PROVE  i <= sent[p]
    <3>1. CASE <<p, i>> = Message(p)
      BY <1>1, <3>1 DEF Message
    <3>2. CASE <<p, i>> \in ToSet(accepted) \cup refused
      BY <3>2 DEF IInv, Numbered
    <3> QED BY <2>2, <2>3, <2>4, <3>1, <3>2
  <2> QED BY <2>3, <2>4 DEF Numbered
<1> QED BY <1>2, <1>4, <1>5, <1>6, <1>7 DEF IInv

LEMMA FindKeeps ==
  ASSUME IInv, Find
  PROVE  IInv'
<1>1. AcceptedKept'
  BY QueuedConsumer DEF IInv, AcceptedKept, Find
<1> QED BY <1>1
        DEF IInv, TypeOK, ProducerSound, ConsumerSound, Numbered, Message, Find, producer

LEMMA TakeSlotKeeps ==
  ASSUME IInv, TakeSlot
  PROVE  IInv'
<1>1. TypeOK'
  BY DEF IInv, TypeOK, TakeSlot, producer
<1>2. ProducerSound' /\ ConsumerSound'
  BY DEF IInv, TypeOK, ProducerSound, ConsumerSound, Message, TakeSlot, producer
<1>3. AcceptedKept'
  BY QueuedTake DEF IInv, AcceptedKept, TakeSlot
<1> QED BY <1>1, <1>2, <1>3 DEF IInv, Numbered, TakeSlot, producer

LEMMA StoreHeadKeeps ==
  ASSUME IInv, StoreHead
  PROVE  IInv'
<1>1. /\ Queued # <<>> /\ Head(Queued) = result /\ Queued' = Tail(Queued)
  BY QueuedPop DEF IInv
<1>2. Succ(head) \in Slots /\ (tail # head => Succ(tail) # Succ(head))
  <2>1. /\ Capacity \in Nat \ {0} /\ Size = Capacity + 1 /\ Slots = 0..Capacity
        /\ head \in Slots /\ tail \in Slots
    BY DEF IInv, TypeOK, Size, Slots
  <2>2. /\ Succ(head) \in Slots /\ Succ(head) = IF head = Size - 1 THEN 0 ELSE head + 1
        /\ Succ(tail) = IF tail = Size - 1 THEN 0 ELSE tail + 1
    BY <2>1, SuccFacts
  <2> QED BY <2>1, <2>2
<1>3. TypeOK'
  BY <1>2 DEF IInv, TypeOK, StoreHead, producer
<1>4. ProducerSound' /\ ConsumerSound'
  BY <1>2 DEF IInv, TypeOK, ProducerSound, ConsumerSound, Message, StoreHead, producer
<1>5. AcceptedKept'
  <2> DEFINE S == Messages \cup {Nothing}
  <2>1. popped \in Seq(S) /\ Queued \in Seq(S) /\ result \in S
    BY QueuedFacts DEF IInv, TypeOK
  <2>2. Append(popped, Head(Queued)) \o Tail(Queued) = popped \o Queued
    BY <1>1, <2>1, ConcatFacts
  <2> QED BY <1>1, <2>2 DEF IInv, AcceptedKept, StoreHead
<1> QED BY <1>3, <1>4, <1>5 DEF IInv, Numbered, StoreHead, producer

LEMMA WriteKeeps ==
  ASSUME IInv, Write
  PROVE  IInv'
<1>1. AcceptedKept'
  BY QueuedConsumer DEF IInv, AcceptedKept, Write
<1> QED BY <1>1
        DEF IInv, TypeOK, ProducerSound, ConsumerSound, Numbered, Message, Write, producer

LEMMA StutterKeeps ==
  ASSUME IInv, UNCHANGED vars
  PROVE  IInv'
<1>1. AcceptedKept'
  BY QueuedUnmoved DEF IInv, AcceptedKept, vars
<1> QED BY <1>1
        DEF IInv, TypeOK, ProducerSound, ConsumerSound, Numbered, Message, vars, producer

LEMMA StepInvariant == SoleProducer /\ IInv /\ [Next]_vars => IInv'
  BY LoadTailKeeps, CheckFullKeeps, WriteSlotKeeps, StoreTailKeeps, FindKeeps,
     TakeSlotKeeps, StoreHeadKeeps, WriteKeeps, StutterKeeps
  DEF Next, Log, Consume

-----------------------------------------------------------------------------
(* The theorems.                                                           *)

\* With one producer the strengthened invariant holds in every behaviour.
THEOREM Invariant == ASSUME SoleProducer PROVE Spec => []IInv
<1>1. Init => IInv
  BY InitInvariant
<1>2. IInv /\ [Next]_vars => IInv'
  BY StepInvariant
<1> QED BY <1>1, <1>2, PTL DEF Spec

\* Indices stay in the ring, whatever its capacity (spsc_queue.hpp:28, 56).
THEOREM TypeCorrect == ASSUME SoleProducer PROVE Spec => []TypeOK
<1>1. IInv => TypeOK
  BY DEF IInv
<1> QED BY <1>1, Invariant, PTL

\* Producer and consumer never touch the same slot at the same time, though
\* nothing locks it (spsc_queue.hpp:36, 53).
THEOREM SlotsNeverShared == ASSUME SoleProducer PROVE Spec => []SlotsExclusive
<1>1. IInv => SlotsExclusive
  BY DEF SoleProducer, IInv, ProducerSound, ConsumerSound, SlotsExclusive
<1> QED BY <1>1, Invariant, PTL

\* Every message Push accepted is queued or was popped, once, in order.
THEOREM NothingLost == ASSUME SoleProducer PROVE Spec => []AcceptedKept
<1>1. IInv => AcceptedKept
  BY DEF IInv
<1> QED BY <1>1, Invariant, PTL

\* With one producer each step of the ring is a step of a bounded first-in
\* first-out queue or changes nothing there: StoreTail accepts, a CheckFull
\* that finds no room refuses, StoreHead delivers.  (That messages are
\* delivered in the end is left to model checking.)
THEOREM ImplementsBoundedQueue ==
  ASSUME SoleProducer PROVE Spec => Fifo!Init /\ [][Fifo!Next]_(Fifo!vars)
<1>1. Init => Fifo!Init
  <2>1. Init => Queued = <<>>
    BY InitInvariant, QueuedFacts DEF IInv, Init
  <2> QED BY <2>1 DEF Init, Fifo!Init
<1>2. IInv /\ [Next]_vars => [Fifo!Next]_(Fifo!vars)
  <2> SUFFICES ASSUME IInv, [Next]_vars PROVE [Fifo!Next]_(Fifo!vars)
    OBVIOUS
  <2> USE DEF Fifo!vars
  <2>1. ASSUME NEW p \in Producers, pc[p] # "idle"
        PROVE  Message(p) \in Messages /\ Fifo!New(Message(p))
    <3> DEFINE S == Messages \cup {Nothing}
    <3>1. popped \in Seq(S) /\ Queued \in Seq(S) /\ Message(p) \in S
          /\ Message(p) \in Messages /\ Message(p) \notin ToSet(accepted) \cup refused
      BY <2>1, MessageFacts, QueuedFacts DEF IInv, TypeOK
    <3>2. ToSet(popped \o Queued) = ToSet(popped) \cup ToSet(Queued)
      BY <3>1, ToSetConcat
    <3>3. Message(p) \notin ToSet(popped) \cup ToSet(Queued) \cup refused
      BY <3>1, <3>2 DEF IInv, AcceptedKept
    <3> QED BY <3>1, <3>3 DEF Fifo!New, Fifo!ToSet, ToSet
  <2>2. ASSUME NEW p \in Producers, LoadTail(p) PROVE UNCHANGED Fifo!vars
    BY <2>2, QueuedUnmoved DEF LoadTail
  <2>3. ASSUME NEW p \in Producers, CheckFull(p) PROVE [Fifo!Next]_(Fifo!vars)
    <3>1. Queued' = Queued /\ popped' = popped
      BY <2>3, QueuedUnmoved DEF CheckFull
    <3>2. CASE Succ(seen[p]) = head
      <4>1. Len(Queued) = Capacity
        BY <2>3, <3>2, QueuedFacts DEF IInv, ProducerSound, CheckFull
      <4>2. Message(p) \in Messages /\ Fifo!New(Message(p))
        BY <2>1, <2>3 DEF CheckFull
      <4>3. Fifo!Refuse(Message(p))
        BY <2>3, <3>1, <3>2, <4>1, <4>2 DEF CheckFull, Fifo!Refuse
      <4> QED BY <4>2, <4>3 DEF Fifo!Next
    <3>3. CASE Succ(seen[p]) # head
      BY <2>3, <3>1, <3>3 DEF CheckFull
    <3> QED BY <3>2, <3>3
  <2>4. ASSUME NEW p \in Producers, WriteSlot(p) PROVE UNCHANGED Fifo!vars
    <3>1. seen[p] = tail
      BY <2>4 DEF IInv, ProducerSound, WriteSlot
    <3> QED BY <2>4, <3>1, QueuedWrite DEF IInv, WriteSlot
  <2>5. ASSUME NEW p \in Producers, StoreTail(p) PROVE [Fifo!Next]_(Fifo!vars)
    <3>1. Queued' = Append(Queued, Message(p))
      BY <2>5, StoreTailKeeps
    <3>2. Len(Queued) < Capacity
      BY <2>5, QueuedFacts DEF IInv, ProducerSound, StoreTail
    <3>3. Message(p) \in Messages /\ Fifo!New(Message(p))
      BY <2>1, <2>5 DEF StoreTail
    <3>4. Fifo!Accept(Message(p))
      BY <2>5, <3>1, <3>2, <3>3 DEF StoreTail, Fifo!Accept
    <3> QED BY <3>3, <3>4 DEF Fifo!Next
  <2>6. ASSUME Find PROVE UNCHANGED Fifo!vars
    BY <2>6, QueuedConsumer DEF Find
  <2>7. ASSUME TakeSlot PROVE UNCHANGED Fifo!vars
    BY <2>7, QueuedTake DEF IInv, TakeSlot
  <2>8. ASSUME StoreHead PROVE [Fifo!Next]_(Fifo!vars)
    BY <2>8, QueuedPop DEF IInv, StoreHead, Fifo!Next, Fifo!Deliver
  <2>9. ASSUME Write PROVE UNCHANGED Fifo!vars
    BY <2>9, QueuedConsumer DEF Write
  <2>10. ASSUME UNCHANGED vars PROVE UNCHANGED Fifo!vars
    BY <2>10, QueuedUnmoved DEF vars
  <2> QED BY <2>2, <2>3, <2>4, <2>5, <2>6, <2>7, <2>8, <2>9, <2>10
          DEF Next, Log, Consume
<1> QED BY <1>1, <1>2, Invariant, PTL DEF Spec
=============================================================================
