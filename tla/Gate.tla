--------------------------------- MODULE Gate ---------------------------------
(***************************************************************************)
(* TopicGate: how the client classifies the stamps of one topic.           *)
(*                                                                         *)
(* The registry stamps from 1, so 0 stands for `undefined`.                *)
(***************************************************************************)
EXTENDS Naturals

NoStamp == 0

\* A new gate, and what reset leaves.
NewGate == [last |-> NoStamp, witnessed |-> NoStamp]

\* classify: where `order` stands against the baseline, which does not move.
Classify(g, order) ==
    CASE g.last = NoStamp ->
           IF g.witnessed # NoStamp /\ order > g.witnessed THEN "gap" ELSE "fresh"
      [] g.last # NoStamp /\ order <= g.last -> "stale"
      [] g.last # NoStamp /\ order = g.last + 1 -> "fresh"
      [] OTHER -> "gap"

\* Mutant: the delivered stamp becomes the baseline even when it is older.
AdvanceAlways(g, order) == [last |-> order, witnessed |-> NoStamp]

\* advance: commit `order` as the delivered baseline, never backwards.
Advance(g, order) ==
    [last |-> IF g.last = NoStamp \/ order > g.last THEN order ELSE g.last,
     witnessed |-> NoStamp]

\* witness: before any baseline, remember the lowest stamp that was not delivered.
Witness(g, order) ==
    IF g.last = NoStamp /\ (g.witnessed = NoStamp \/ order < g.witnessed)
    THEN [g EXCEPT !.witnessed = order] ELSE g

\* expected: the next stamp that would be fresh, if the gate has seen any.
Expected(g) == IF g.last # NoStamp THEN g.last + 1 ELSE g.witnessed
===============================================================================
