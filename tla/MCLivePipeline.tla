--------------------------- MODULE MCLivePipeline ---------------------------
(* LivePipeline on a small ring, the bit arithmetic of which MCRingBuf      *)
(* compares with bitwise AND, and one chain that any event may complete.    *)
EXTENDS LivePipeline, MCRingBuf, TLC

OneChain == {<<"chain_001">>}

OwnId == "chain_001" :> {"chain_001"}

MayAlert == {<<>>, <<1>>}
============================================================================
