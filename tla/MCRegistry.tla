----------------------------- MODULE MCRegistry ------------------------------
EXTENDS Registry, TLC

CONSTANTS c1, c2, s1, s2, s3, n1, n2, w1, w2, t1, t2

\* The conditional maps serve instances with one or two of each.
MCConnOf == [s \in Subs |-> IF s # s2 \/ c2 \notin Conns THEN c1 ELSE c2]
MCHome == [c \in Conns |-> IF c = c1 \/ n2 \notin Nodes THEN n1 ELSE n2]
MCWaitsOn == [w \in Waiters |-> n1]
MCTopicOf == [s \in Subs |-> IF s = s3 THEN t2 ELSE t1]
=============================================================================
