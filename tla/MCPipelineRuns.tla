-------------------------- MODULE MCPipelineRuns --------------------------
(* PipelineRuns for TLC: the first two stages write a draft, the second asks *)
(* before it does, the third saves it.  A callable is stored as None, which  *)
(* is what a fresh field holds; the checks are callables, which only restore *)
(* makes here, once the first stage is behind.                               *)
EXTENDS PipelineRuns

CONSTANTS draft, answers, checks, none, text, callable

WritesOf == {<<1, draft>>, <<2, draft>>}
StoredOf == [v \in Values |-> IF v = callable THEN none ELSE v]
RebuiltOf == {<<1, checks>>}
RemakeOf == [b \in Bundles |-> [b EXCEPT ![checks] = callable]]

=============================================================================
