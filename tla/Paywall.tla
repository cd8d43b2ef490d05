------------------------------- MODULE Paywall --------------------------------
(***************************************************************************)
(* Paid sessions: the knobs and the signer a browser dials with, the demo    *)
(* paywall that grants budgets and invoices each session and renewal, and    *)
(* the approvers that answer an invoice: a JavaScript callback, or a wallet  *)
(* of limited payments shared by concurrent dials.  The order of the steps   *)
(* is that of the transport handshake, which is external.                    *)
(***************************************************************************)
EXTENDS Naturals, Sequences

CONSTANTS Dialers,      \* concurrent dials
          Payments,     \* what the shared wallet can settle
          Ceiling,      \* budget_ceiling, per direction
          Credits,      \* budgets a dial may ask for
          MaxRenewals   \* bound: renewals per session

Directions == {"c2s", "s2c"}

ASSUME PaywallAssumption ==
    /\ Payments \in Nat /\ MaxRenewals \in Nat
    /\ Credits \subseteq Nat /\ Ceiling \in [Directions -> Nat]

VARIABLES remaining,  \* FixedWallet.remaining
          approvals,  \* payments the wallet handed out (history)
          pay         \* each dial: see IdleDial

paywallvars == <<remaining, approvals, pay>>

\* A JavaScript number by what the checks look at; NaN and the infinities, like a
\* fraction, have a fractional part that is not zero.
Integer(n) == [shape |-> "integer", n |-> n]
Odd(shape) == [shape |-> shape, n |-> 0]
OddNumbers == {Odd("fraction"), Odd("negative"), Odd("not a number")}

NoBudgets == [d \in Directions |-> Odd("absent")]

IdleDial == [stage |-> "idle", asked |-> NoBudgets, granted |-> NoBudgets,
             approver |-> "none", key |-> "raw", left |-> 0, answer |-> "none",
             signature |-> <<>>, rounds |-> 0, paid |-> 0, lost |-> 0]

PaywallInit == /\ remaining = Payments /\ approvals = 0
               /\ pay = [s \in Dialers |-> IdleDial]
-----------------------------------------------------------------------------
(* The client's side of a dial.                                             *)

RawBudgets == [Directions -> {Integer(n) : n \in Credits} \cup OddNumbers]

\* budgets_from_js: both directions are non-negative integers.
BudgetsFromJs(raw) == \A d \in Directions : raw[d].shape = "integer"

\* SessionOffer::from_js and JsSigningKeyProvider::identity: the dial is rejected when a
\* knob has the wrong shape or the signer's key is not the certificate's.
DialWith(s, raw, approver, key) ==
    /\ pay[s].stage = "idle"
    /\ pay' = [pay EXCEPT ![s] =
                 IF \/ raw # NoBudgets /\ ~BudgetsFromJs(raw)
                    \/ approver = "not a function" \/ key = "mismatch"
                 THEN [IdleDial EXCEPT !.stage = "rejected"]
                 ELSE [IdleDial EXCEPT !.stage = "offered", !.asked = raw,
                                       !.approver = approver, !.key = key]]
    /\ UNCHANGED <<remaining, approvals>>

\* What signPrehash may settle with; one that throws or rejects settles with nothing.
ArrayLikes ==
    LET Arrays == {<<>>, <<Integer(0)>>, <<Integer(255), Integer(1)>>, <<Integer(256)>>,
                   <<Integer(1), Odd("not a number")>>, <<Odd("fraction")>>} IN
    [length : {"integer"}, entries : Arrays]
      \cup [length : {"rejected", "missing", "fraction"}, entries : {<<>>}]

IsOctet(e) == e.shape = "integer" /\ e.n <= 255

\* bytes_from_array_like: every entry below the length is an octet; <<>> is a fault, and
\* so is an empty signature.
BytesFromArrayLike(v) ==
    IF v.length = "integer" /\ \A i \in DOMAIN v.entries : IsOctet(v.entries[i])
    THEN [i \in DOMAIN v.entries |-> v.entries[i].n % 256] ELSE <<>>

\* sign_prehash for the handshake transcript.
SignPrehash(s, v) ==
    LET bytes == BytesFromArrayLike(v) IN
    /\ pay[s].stage = "signing"
    /\ pay' = [pay EXCEPT ![s].stage = IF bytes = <<>> THEN "rejected" ELSE "receipt",
                          ![s].signature = IF bytes = <<>> THEN <<>> ELSE <<v.entries, bytes>>]
    /\ UNCHANGED <<remaining, approvals>>

Approved(s, answer, left) ==
    pay' = [pay EXCEPT ![s].stage = IF answer = "refused" THEN "refused" ELSE "settling",
                       ![s].answer = answer, ![s].left = left]

\* JsReceiptApprover::approve by how the callback settles; without an approver there is
\* no answer to the invoice.  An answer over MAX_SETTLEMENT_ANSWER refuses.
ApproveJs(s, settled) ==
    /\ pay[s].stage = "receipt" /\ pay[s].approver # "wallet"
    /\ pay[s].approver = "none" => settled = "undefined"
    /\ Approved(s, CASE settled \in {"throws", "rejects", "oversized"} -> "refused"
                     [] settled = "undefined" -> "none"
                     [] OTHER -> settled, 0)
    /\ UNCHANGED <<remaining, approvals>>

\* FixedWallet::approve: load, refuse when empty ...
WalletLoad(s) ==
    /\ pay[s].stage = "receipt" /\ pay[s].approver = "wallet"
    /\ IF remaining = 0 THEN Approved(s, "refused", 0)
       ELSE pay' = [pay EXCEPT ![s].stage = "loaded", ![s].left = remaining]
    /\ UNCHANGED <<remaining, approvals>>

\* Mutant: the balance is stored without comparing.
WalletStore(s) ==
    /\ pay[s].stage = "loaded"
    /\ remaining' = pay[s].left - 1 /\ approvals' = approvals + 1
    /\ pay' = [pay EXCEPT ![s].stage = "settling", ![s].answer = "payment", ![s].left = 0,
                          ![s].paid = @ + 1]

\* ... and exchange; a dial that lost the race goes round the loop.
WalletSwap(s) ==
    /\ pay[s].stage = "loaded"
    /\ IF remaining = pay[s].left
       THEN /\ remaining' = pay[s].left - 1 /\ approvals' = approvals + 1
            /\ pay' = [pay EXCEPT ![s].stage = "settling", ![s].answer = "payment",
                                  ![s].left = 0, ![s].paid = @ + 1]
       ELSE /\ pay' = [pay EXCEPT ![s].stage = "receipt", ![s].left = 0, ![s].lost = @ + 1]
            /\ UNCHANGED <<remaining, approvals>>
-----------------------------------------------------------------------------
(* The server's side.                                                       *)

Smaller(a, b) == IF a < b THEN a ELSE b

\* What DemoPaywall::authorize grants: the smaller of the request and the ceiling.
Grant(s) ==
    IF pay[s].asked = NoBudgets THEN NoBudgets
    ELSE [d \in Directions |-> Integer(Smaller(pay[s].asked[d].n, Ceiling[d]))]

\* authorize: every grant carries the invoice.
Authorize(s) ==
    /\ pay[s].stage = "offered"
    /\ pay' = [pay EXCEPT ![s].granted = Grant(s),
                          ![s].stage = IF pay[s].key = "signer" THEN "signing" ELSE "receipt"]
    /\ UNCHANGED <<remaining, approvals>>

\* settle's condition: the response is the expected payment.
IsPayment(s) == pay[s].answer = "payment"

Settle(s) ==
    /\ pay[s].stage = "settling"
    /\ pay' = [pay EXCEPT ![s].stage = IF IsPayment(s) THEN "open" ELSE "refused",
                          ![s].rounds = IF IsPayment(s) THEN @ + 1 ELSE @]
    /\ UNCHANGED <<remaining, approvals>>

\* challenge_renewal: a session that spent its budget is invoiced again.
ChallengeRenewal(s) ==
    /\ pay[s].stage = "open" /\ pay[s].rounds <= MaxRenewals
    /\ pay' = [pay EXCEPT ![s].stage = "receipt", ![s].answer = "none"]
    /\ UNCHANGED <<remaining, approvals>>

Approvals == {"throws", "rejects", "oversized", "undefined", "junk", "payment"}

PaywallNext == \E s \in Dialers :
    \/ \E raw \in RawBudgets \cup {NoBudgets},
          a \in {"none", "js", "wallet", "not a function"}, k \in {"raw", "signer", "mismatch"} :
         DialWith(s, raw, a, k)
    \/ Authorize(s) \/ Settle(s) \/ ChallengeRenewal(s)
    \/ \E v \in ArrayLikes : SignPrehash(s, v)
    \/ \E o \in Approvals : ApproveJs(s, o)
    \/ WalletLoad(s) \/ WalletSwap(s)

PaywallSpec == PaywallInit /\ [][PaywallNext]_paywallvars
-----------------------------------------------------------------------------
\* Concurrent dials never overdraw the wallet: what it handed out and what it still
\* holds are always what it was filled with (the compare_exchange in approve).
PaymentsConserved == /\ remaining + approvals = Payments
                     /\ remaining \in Nat

\* No dial is granted more credit than the ceiling or than it asked for, in either
\* direction ("the ceiling MUST be applied here", DemoPaywall).
GrantWithinCeiling ==
    \A s \in Dialers, d \in Directions : pay[s].granted # NoBudgets =>
      pay[s].granted[d].n <= Ceiling[d] /\ pay[s].granted[d].n <= pay[s].asked[d].n

\* A session over the wallet serves only periods the wallet paid for, renewals included,
\* and any other session only what its callback paid (settle).
ServedIsPaid ==
    \A s \in Dialers :
      /\ pay[s].stage = "open" => pay[s].answer = "payment"
      /\ pay[s].approver = "wallet" => pay[s].rounds <= pay[s].paid
      /\ pay[s].approver = "none" => pay[s].rounds = 0

\* The handshake goes on only with the octets the signer returned, unchanged and not
\* empty (sign_prehash, bytes_from_array_like).
SignatureIsExact ==
    \A s \in Dialers : pay[s].signature # <<>> =>
      LET returned == pay[s].signature[1] IN
      returned # <<>> /\ returned = [i \in DOMAIN returned |-> Integer(pay[s].signature[2][i])]

\* However dials race for the wallet, a dial loses an exchange only to a payment another
\* one made, so with finitely many payments its loop ends (approve reloads).
LosesOnlyToPayments == \A s \in Dialers : pay[s].lost <= approvals - pay[s].paid

\* Credit, payments and signatures are exact although dials race for one wallet: every
\* period served was paid from it once, within the ceiling, and no dial spins on it
\* (DemoPaywall, FixedWallet, sign_prehash).
PaywallIsExact ==
    /\ PaymentsConserved /\ LosesOnlyToPayments /\ ServedIsPaid
    /\ GrantWithinCeiling /\ SignatureIsExact
===============================================================================
