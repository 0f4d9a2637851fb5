------------------ MODULE MCConcurrentMessageQueueNoThread ------------------
(***************************************************************************)
(* The receive side of a transfer is generator 0 and pushes lists and      *)
(* single messages, the connector pushes single messages as generator 1,   *)
(* both to consumer 0.  Consumer 1 walks the same generators.              *)
(***************************************************************************)
EXTENDS ConcurrentMessageQueueNoThread

CONSTANTS recv, connector

MCPushers == {recv, connector}
MCGeneratorOf == [t \in MCPushers |-> IF t = connector THEN 1 ELSE 0]
MCTargets == [t \in MCPushers |-> {0}]
MCListPushers == {recv}
MCMaxSent == [g \in Generators |-> 2 - g]
=============================================================================
