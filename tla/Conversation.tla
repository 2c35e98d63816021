---------------------------- MODULE Conversation ----------------------------
(***************************************************************************)
(* What the session memory promises: for each client the latest exchanges  *)
(* of its conversation, question and answer together, at most Window of    *)
(* them and none skipped.  A client may be forgotten altogether, but only  *)
(* when another one needs the room.                                        *)
(***************************************************************************)
EXTENDS Naturals, FiniteSets, SequencesExt

CONSTANTS Clients, Window, Room

VARIABLES memory,    \* memory[c]: numbers of the questions remembered
          answered   \* answered[c]: number of c's last answered question

vars == <<memory, answered>>

Init == /\ memory = [c \in Clients |-> <<>>]
        /\ answered = [c \in Clients |-> 0]

Remembered == {c \in Clients : memory[c] # <<>>}

LastOf(s, n) == SubSeq(s, IF Len(s) > n THEN Len(s) - n + 1 ELSE 1, Len(s))

\* Question n of client c is answered.
Exchange(c, n) ==
  /\ n > answered[c]
  /\ answered' = [answered EXCEPT ![c] = n]
  /\ LET kept == [memory EXCEPT ![c] = LastOf(Append(@, n), Window)]
     IN IF Cardinality(Remembered \cup {c}) <= Room
        THEN memory' = kept
        ELSE \E d \in Remembered \ {c} : memory' = [kept EXCEPT ![d] = <<>>]

Next == \E c \in Clients : Exchange(c, answered'[c])

Spec == Init /\ [][Next]_vars
=============================================================================
