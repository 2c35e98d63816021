---------------------------- MODULE MCRpcChannel ----------------------------
(* Two calls: c1 waits as tool discovery does, c2 as a tool call does.     *)
EXTENDS RpcChannel, TLC

CONSTANTS c1, c2, n1, bad

MCWaitLimit == c1 :> 1 @@ c2 :> 2
=============================================================================
