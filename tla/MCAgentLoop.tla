---------------------------- MODULE MCAgentLoop ----------------------------
(* A small instance of AgentLoop: directories with two chains and a file     *)
(* that cannot be parsed, with one id given twice, and without any chain;    *)
(* and events that raise no alert or one of each of two chains.              *)
EXTENDS AgentLoop

Dirs == {<<Unparsable, "chain_001", "chain_002">>, <<"chain_001", "chain_001">>,
         <<Unparsable>>}

DistinctIds == [id \in {"chain_001", "chain_002"} |-> {id}]

NoneOrBoth == {<<>>, <<2, 1>>}
============================================================================
