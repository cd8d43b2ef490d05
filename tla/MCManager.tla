------------------------------ MODULE MCManager -------------------------------
(* Instances of SubscriptionManager: e3 is for a topic of its own.          *)
EXTENDS Manager

CONSTANTS e1, e2, e3, e4, t1, t2

MCTopicOf == [e \in Entries |-> IF e = e3 THEN t2 ELSE t1]
MCPuts == Deliveries
===============================================================================
