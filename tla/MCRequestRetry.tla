----------------------------- MODULE MCRequestRetry ----------------------------
(* Two requests on two connections: a read beside an operation or the      *)
(* deletion of a group, and other mutations beside one another, of threads *)
(* and of an asyncio client.                                               *)
EXTENDS RequestRetry, TLC

CONSTANTS r1, r2, c1, c2

Sync(kind)  == [kind |-> kind, pooled |-> TRUE]
Async(kind) == [kind |-> kind, pooled |-> FALSE]

Pairs == { <<Sync("read"), Sync("operation")>>,
           <<Sync("delete"), Sync("other")>>,
           <<Async("discard"), Sync("read")>>,
           <<Sync("operation"), Async("create")>> }

RequestMixes == {(r1 :> p[1]) @@ (r2 :> p[2]) : p \in Pairs}
=============================================================================
