---------------------------- MODULE BoundedQueue ----------------------------
(***************************************************************************)
(* What the logger's queue promises: a first-in first-out queue of fixed   *)
(* capacity that refuses a message only when it is full, hands each        *)
(* accepted message over once, and does so in the end.                     *)
(***************************************************************************)
EXTENDS Naturals, SequencesExt

CONSTANTS Messages, Capacity

VARIABLES queue, delivered, refused

vars == <<queue, delivered, refused>>

Init == queue = <<>> /\ delivered = <<>> /\ refused = {}

New(m) == m \notin ToSet(queue) \cup ToSet(delivered) \cup refused

Accept(m) == /\ New(m) /\ Len(queue) < Capacity
             /\ queue' = Append(queue, m)
             /\ UNCHANGED <<delivered, refused>>

Refuse(m) == /\ New(m) /\ Len(queue) = Capacity
             /\ refused' = refused \cup {m}
             /\ UNCHANGED <<queue, delivered>>

Deliver == /\ queue # <<>>
           /\ queue' = Tail(queue)
           /\ delivered' = Append(delivered, Head(queue))
           /\ UNCHANGED refused

Next == Deliver \/ \E m \in Messages : Accept(m) \/ Refuse(m)

Spec == Init /\ [][Next]_vars /\ WF_vars(Deliver)
=============================================================================
