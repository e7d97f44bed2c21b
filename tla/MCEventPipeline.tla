--------------------------- MODULE MCEventPipeline ---------------------------
EXTENDS EventPipeline

\* All applications on one partition, or the first apart from the others.
CONSTANTS a1, p1, p2

OnePartition == [a \in Applications |-> p1]
TwoPartitions == [a \in Applications |-> IF a = a1 THEN p1 ELSE p2]
==============================================================================
