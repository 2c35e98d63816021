------------------------------ MODULE RpcCall ------------------------------
(***************************************************************************)
(* What the gateway is promised by one remote call through MprpcChannel,   *)
(* whatever the threads, sockets and timers behind it do:                  *)
(*                                                                         *)
(*  - an issued call ends at most once, as answered, failed or timed out;  *)
(*  - it ends as answered only after a provider executed that very call;   *)
(*  - it ends as failed (the controller says so) only if no provider has   *)
(*    executed it or ever will, so that a failed call is safe to repeat;   *)
(*  - a provider executes it at most once, possibly after the caller gave  *)
(*    up: a timeout says nothing about execution;                          *)
(*  - it does end, unless the gateway is stalled: the search for providers *)
(*    that precedes the first request may hang.  Then no provider has      *)
(*    executed anything or will, and a call that has not failed stays open *)
(*    for ever, past any limit its caller set.                             *)
(*                                                                         *)
(* RpcChannel implements this module.                                      *)
(***************************************************************************)
CONSTANT Calls

VARIABLES state,     \* state[c]: where call c stands for its caller
          executed,  \* the calls some provider has executed
          stalled    \* the search for providers hangs

vars == <<state, executed, stalled>>

Outcomes == {"answered", "failed", "timedout"}

Init == /\ state = [c \in Calls |-> "new"]
        /\ executed = {}
        /\ stalled = FALSE

Issue(c) == /\ state[c] = "new"
            /\ state' = [state EXCEPT ![c] = "open"]
            /\ UNCHANGED <<executed, stalled>>

\* Only before any request has left the gateway.
Stall == /\ ~stalled
         /\ executed = {}
         /\ \A c \in Calls : state[c] \in {"new", "open", "failed"}
         /\ \E c \in Calls : state[c] = "open"
         /\ stalled' = TRUE
         /\ UNCHANGED <<state, executed>>

Execute(c) == /\ ~stalled
              /\ state[c] \in {"open", "timedout"}
              /\ c \notin executed
              /\ executed' = executed \cup {c}
              /\ UNCHANGED <<state, stalled>>

Answer(c) == /\ state[c] = "open"
             /\ c \in executed
             /\ state' = [state EXCEPT ![c] = "answered"]
             /\ UNCHANGED <<executed, stalled>>

Fail(c) == /\ state[c] = "open"
           /\ c \notin executed
           /\ state' = [state EXCEPT ![c] = "failed"]
           /\ UNCHANGED <<executed, stalled>>

GiveUp(c) == /\ ~stalled
             /\ state[c] = "open"
             /\ state' = [state EXCEPT ![c] = "timedout"]
             /\ UNCHANGED <<executed, stalled>>

End(c) == Answer(c) \/ Fail(c) \/ GiveUp(c)

Next == \/ \E c \in Calls : Issue(c) \/ Execute(c) \/ End(c)
        \/ Stall

Spec == /\ Init
        /\ [][Next]_vars
        /\ \A c \in Calls : WF_vars(~stalled /\ End(c))
=============================================================================
