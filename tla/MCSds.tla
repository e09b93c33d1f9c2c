------------------------------- MODULE MCSds -------------------------------
(* Sds on small instances: scaled-down header types and numbers of base 2.  *)
EXTENDS Sds
MCTypeMax == [t \in HeaderTypes |-> <<2, 4, 6, 12, 63>>[t + 1]]
MCHdrSize == [t \in HeaderTypes |-> IF t = 0 THEN 1 ELSE 2^t + 1]
MCCorpus == UNION {[1 .. n -> {0, 34, 39, 52, 92, 120}] : n \in 0 .. 4} \union {<<10>>, <<9, 255>>}
MCPieces == {<<>>, <<52>>, <<92, 52>>}
MCOutputs == {<<52>>, <<52, 52, 52>>, <<92, 0, 52, 52>>}
MCFormats == {<<<<>>>>, <<<<92>>, <<52, 52>>>>}
MCIndices == {-6, -2, 0, 1, 3}
MCSeparators == {<<52>>, <<92, 120>>, <<34, 34>>}
Edges == UNION {{2^k - 1, 2^k, -(2^k)} : k \in {1, 12, 13}}
MCNumbers == {v \in Edges : v >= -(LongLongs \div 2) /\ v < LongLongs \div 2}
=============================================================================
