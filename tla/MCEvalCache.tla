----------------------------- MODULE MCEvalCache -----------------------------
(* Three keys: b and c share an entry whatever the size of the cache, a and  *)
(* b only in the smallest.  One evaluation asks for two results at once.     *)
EXTENDS EvalCache

CONSTANTS a, b, c

MCKey == {a, b, c}
MCHash == [k \in MCKey |-> IF k = a THEN 0 ELSE 1]
MCRequests == <<{<<a>>}, {<<>>, <<b, c>>}>>
=============================================================================
