------------------------------ MODULE AtMostOnce ------------------------------
(***************************************************************************)
(* What an enqueueing backplane promises: publishes are acknowledged one   *)
(* after the other, an acknowledged publish is sequenced at most once and   *)
(* in the order of the acknowledgments, and a closed fabric acknowledges    *)
(* and sequences nothing more.  A publish is named by the position of its   *)
(* acknowledgment.                                                          *)
(***************************************************************************)
EXTENDS Naturals, Sequences

VARIABLES acked,     \* how many publishes were answered Ok
          sequenced, \* the publishes that were given a stamp, in stamp order
          closed     \* the fabric has failed

amovars == <<acked, sequenced, closed>>

AMOInit == acked = 0 /\ sequenced = <<>> /\ closed = FALSE

Acknowledge == /\ ~closed
               /\ acked' = acked + 1
               /\ UNCHANGED <<sequenced, closed>>

SequenceOne(n) == /\ ~closed
                  /\ \A i \in 1..Len(sequenced) : sequenced[i] < n
                  /\ sequenced' = Append(sequenced, n)
                  /\ UNCHANGED <<acked, closed>>

Fail == /\ closed' = TRUE
        /\ UNCHANGED <<acked, sequenced>>

AMONext == Acknowledge \/ Fail \/ \E n \in 1..acked : SequenceOne(n)

AMOSpec == AMOInit /\ [][AMONext]_amovars
===============================================================================
