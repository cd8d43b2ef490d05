---------------------------- MODULE PaywallProofs -----------------------------
(***************************************************************************)
(* Proofs about paid sessions, for any number of dials, payments, credits    *)
(* and ceilings.                                                             *)
(*                                                                          *)
(* The wallet's loop is the delicate part: a dial carries the balance it     *)
(* loaded across the exchange.  While it does, the balance can only have     *)
(* gone down, and what the dial won or lost so far is bounded by the         *)
(* payments made before the load; so a failed exchange names a payment of    *)
(* somebody else that no earlier failure has named.                          *)
(***************************************************************************)
EXTENDS Paywall, TLAPS

Numbers == [shape : {"integer", "fraction", "negative", "not a number", "absent"}, n : Nat]
Budgets == [Directions -> Numbers]
Signatures == {<<>>} \cup {<<v.entries, BytesFromArrayLike(v)>> : v \in ArrayLikes}

DialRecords ==
    [stage : {"idle", "rejected", "offered", "signing", "receipt", "loaded", "settling",
              "refused", "open"},
     asked : Budgets, granted : Budgets, approver : {"none", "js", "wallet"},
     key : {"raw", "signer", "mismatch"}, left : Nat,
     answer : {"none", "refused", "junk", "payment"},
     signature : Signatures, rounds : Nat, paid : Nat, lost : Nat]

\* What a dial's record says of itself and of the wallet.
WalletOK(r, rem, app) ==
    /\ r.lost + r.paid <= app
    /\ r.stage = "loaded" => /\ r.left >= 1 /\ rem <= r.left
                             /\ r.lost + r.paid + r.left <= Payments
PaidOK(r) ==
    /\ r.stage = "loaded" => r.approver = "wallet"
    /\ r.stage = "open" => r.answer = "payment"
    /\ r.approver = "wallet" => r.rounds <= r.paid /\ (r.stage = "settling" => r.rounds < r.paid)
    /\ r.approver = "none" => r.rounds = 0 /\ r.answer # "payment"
GrantOK(r) ==
    r.granted # NoBudgets =>
      \A d \in Directions : r.granted[d].n <= Ceiling[d] /\ r.granted[d].n <= r.asked[d].n
SignatureOK(signature) ==
    signature # <<>> =>
      LET returned == signature[1] IN
      returned # <<>> /\ returned = [i \in DOMAIN returned |-> Integer(signature[2][i])]

PayTypeOK == remaining \in Nat /\ approvals \in Nat /\ pay \in [Dialers -> DialRecords]

PayInv == /\ PayTypeOK /\ remaining + approvals = Payments
          /\ \A s \in Dialers : /\ WalletOK(pay[s], remaining, approvals)
                                /\ PaidOK(pay[s]) /\ GrantOK(pay[s])
                                /\ SignatureOK(pay[s].signature)
-----------------------------------------------------------------------------
\* An array-like that was accepted is its octets: nothing was cut to eight bits.
LEMMA OctetsAreExact ==
    ASSUME NEW e \in Seq(Numbers), \A i \in DOMAIN e : IsOctet(e[i])
    PROVE  e = [i \in DOMAIN e |-> Integer(e[i].n % 256)]
<1>1. ASSUME NEW i \in DOMAIN e PROVE e[i] = Integer(e[i].n % 256)
  <2>0. e[i] \in Numbers
    OBVIOUS
  <2>1. e[i].shape = "integer" /\ e[i].n <= 255 /\ e[i].n \in Nat
    BY <2>0 DEF IsOctet, Numbers
  <2>2. e[i].n % 256 = e[i].n
    BY <2>1
  <2>3. e[i] = [shape |-> e[i].shape, n |-> e[i].n]
    BY <2>0 DEF Numbers
  <2> QED BY <2>1, <2>2, <2>3 DEF Integer
<1>2. e = [i \in DOMAIN e |-> e[i]]
  OBVIOUS
<1> QED BY <1>1, <1>2

\* So the signature that is kept is what the signer returned, and not empty.
LEMMA SignedIsExact ==
    ASSUME NEW v \in ArrayLikes, BytesFromArrayLike(v) # <<>>
    PROVE  SignatureOK(<<v.entries, BytesFromArrayLike(v)>>)
<1> DEFINE e == v.entries
           b == BytesFromArrayLike(v)
<1>1. Integer(0) \in Numbers /\ Integer(1) \in Numbers /\ Integer(255) \in Numbers
      /\ Integer(256) \in Numbers /\ Odd("not a number") \in Numbers /\ Odd("fraction") \in Numbers
  BY DEF Integer, Odd, Numbers
<1>2. e \in Seq(Numbers)
  <2>1. \/ e = <<>> \/ e = <<Integer(0)>> \/ e = <<Integer(255), Integer(1)>> \/ e = <<Integer(256)>>
        \/ e = <<Integer(1), Odd("not a number")>> \/ e = <<Odd("fraction")>>
    BY DEF ArrayLikes
  <2> HIDE DEF e
  <2>2. \A a, b2 \in Numbers : <<>> \in Seq(Numbers) /\ <<a>> \in Seq(Numbers) /\ <<a, b2>> \in Seq(Numbers)
    OBVIOUS
  <2>3. CASE e = <<>>
    BY <2>3
  <2>4. CASE e = <<Integer(0)>>
    BY <2>4, <1>1, <2>2
  <2>5. CASE e = <<Integer(255), Integer(1)>>
    BY <2>5, <1>1, <2>2
  <2>6. CASE e = <<Integer(256)>>
    BY <2>6, <1>1, <2>2
  <2>7. CASE e = <<Integer(1), Odd("not a number")>>
    BY <2>7, <1>1, <2>2
  <2>8. CASE e = <<Odd("fraction")>>
    BY <2>8, <1>1, <2>2
  <2> QED BY <2>1, <2>3, <2>4, <2>5, <2>6, <2>7, <2>8
<1>3. /\ \A i \in DOMAIN e : IsOctet(e[i])
      /\ b = [i \in DOMAIN e |-> e[i].n % 256]
  BY DEF BytesFromArrayLike
<1>4. e # <<>>
  BY <1>2, <1>3
<1>5. e = [i \in DOMAIN e |-> Integer(e[i].n % 256)]
  BY <1>2, <1>3, OctetsAreExact
<1>6. \A i \in DOMAIN e : b[i] = e[i].n % 256
  BY <1>3
<1> HIDE DEF e, b
<1>7. e = [i \in DOMAIN e |-> Integer(b[i])]
  BY <1>5, <1>6
<1>8. <<e, b>>[1] = e /\ <<e, b>>[2] = b
  OBVIOUS
<1>9. SignatureOK(<<e, b>>)
  BY <1>4, <1>7, <1>8 DEF SignatureOK
<1> QED BY <1>9 DEF e, b

\* The smaller of two numbers is one of them.
LEMMA SmallerIsLess ==
    ASSUME NEW a \in Nat, NEW b \in Nat
    PROVE  Smaller(a, b) \in Nat /\ Smaller(a, b) <= a /\ Smaller(a, b) <= b
BY DEF Smaller

\* The record of a dial that was not made.
LEMMA IdleDialTyped == IdleDial \in DialRecords /\ NoBudgets \in Budgets
<1>1. NoBudgets \in Budgets
  BY DEF NoBudgets, Budgets, Numbers, Odd
<1>2. <<>> \in Signatures
  BY DEF Signatures
<1> QED BY <1>1, <1>2 DEF IdleDial, DialRecords
-----------------------------------------------------------------------------
\* A dial before its first invoice owes and is owed nothing.
LEMMA FreshDial ==
    ASSUME NEW r \in DialRecords, NEW rem, NEW app \in Nat,
           r.granted = NoBudgets, r.stage \in {"idle", "rejected", "offered"},
           r.rounds = 0, r.answer = "none", r.paid = 0, r.lost = 0
    PROVE  WalletOK(r, rem, app) /\ PaidOK(r) /\ GrantOK(r)
BY DEF WalletOK, PaidOK, GrantOK

\* A step of dial s that leaves the wallet alone: only the record of s matters.
LEMMA OneDial ==
    ASSUME PayInv, NEW s \in Dialers, NEW w \in DialRecords,
           pay' = [pay EXCEPT ![s] = w], UNCHANGED <<remaining, approvals>>,
           WalletOK(w, remaining, approvals), PaidOK(w), GrantOK(w), SignatureOK(w.signature)
    PROVE  PayInv'
<1>1. pay' \in [Dialers -> DialRecords] /\ \A r \in Dialers : pay'[r] = IF r = s THEN w ELSE pay[r]
  BY DEF PayInv, PayTypeOK
<1>2. ASSUME NEW r \in Dialers
      PROVE  /\ WalletOK(pay'[r], remaining', approvals')
             /\ PaidOK(pay'[r]) /\ GrantOK(pay'[r]) /\ SignatureOK(pay'[r].signature)
  BY <1>1 DEF PayInv
<1> QED BY <1>1, <1>2 DEF PayInv, PayTypeOK

\* budgets_from_js and the rest of the dial: an idle dial begins, or is rejected.
LEMMA DialWithStep ==
    ASSUME PayInv, NEW s \in Dialers, NEW raw \in RawBudgets \cup {NoBudgets},
           NEW a \in {"none", "js", "wallet", "not a function"},
           NEW k \in {"raw", "signer", "mismatch"}, DialWith(s, raw, a, k)
    PROVE  PayInv'
<1>1. raw \in Budgets
  <2>1. \A n \in Credits : Integer(n) \in Numbers
    BY PaywallAssumption DEF Integer, Numbers
  <2>2. OddNumbers \subseteq Numbers
    <3>1. Odd("fraction") \in Numbers /\ Odd("negative") \in Numbers /\ Odd("not a number") \in Numbers
      BY DEF Odd, Numbers
    <3> QED BY <3>1 DEF OddNumbers
  <2> QED BY <2>1, <2>2, IdleDialTyped DEF RawBudgets, Budgets
<1> DEFINE rejected == [IdleDial EXCEPT !.stage = "rejected"]
           offered == [IdleDial EXCEPT !.stage = "offered", !.asked = raw, !.approver = a, !.key = k]
<1>2. PICK w \in {rejected, offered} :
        /\ pay' = [pay EXCEPT ![s] = w]
        /\ w = offered => a # "not a function"
  <2>1. CASE a = "not a function"
    <3>1. pay' = [pay EXCEPT ![s] = rejected]
      BY <2>1 DEF DialWith
    <3>2. rejected # offered
      BY DEF IdleDial
    <3> QED BY <3>1, <3>2
  <2>2. CASE a # "not a function"
    BY <2>2 DEF DialWith
  <2> QED BY <2>1, <2>2
<1>0. approvals \in Nat
  BY DEF PayInv, PayTypeOK
<1>3. rejected \in DialRecords /\ rejected.signature = <<>> /\ GrantOK(rejected)
      /\ PaidOK(rejected) /\ WalletOK(rejected, remaining, approvals)
  <2>1. rejected \in DialRecords
    BY IdleDialTyped DEF DialRecords
  <2>2. rejected.signature = <<>> /\ rejected.granted = NoBudgets /\ rejected.stage = "rejected"
    BY DEF IdleDial
  <2>3. rejected.rounds = 0 /\ rejected.answer = "none" /\ rejected.paid = 0 /\ rejected.lost = 0
    BY DEF IdleDial
  <2> HIDE DEF rejected
  <2> QED BY <1>0, <2>1, <2>2, <2>3, FreshDial
<1>4. ASSUME a # "not a function"
      PROVE  /\ offered \in DialRecords /\ offered.signature = <<>> /\ GrantOK(offered)
             /\ PaidOK(offered) /\ WalletOK(offered, remaining, approvals)
  <2>1. offered \in DialRecords
    BY <1>1, <1>4, IdleDialTyped DEF DialRecords
  <2>2. offered.signature = <<>> /\ offered.granted = NoBudgets /\ offered.stage = "offered"
    BY DEF IdleDial
  <2>3. offered.rounds = 0 /\ offered.answer = "none" /\ offered.paid = 0 /\ offered.lost = 0
    BY DEF IdleDial
  <2> HIDE DEF offered
  <2> QED BY <1>0, <2>1, <2>2, <2>3, FreshDial
<1>5. UNCHANGED <<remaining, approvals>>
  BY DEF DialWith
<1>6. /\ w \in DialRecords /\ w.signature = <<>> /\ GrantOK(w)
      /\ PaidOK(w) /\ WalletOK(w, remaining, approvals)
  BY <1>2, <1>3, <1>4
<1>7. SignatureOK(w.signature)
  BY <1>6 DEF SignatureOK
<1> QED BY <1>2, <1>5, <1>6, <1>7, OneDial

\* authorize grants no more than was asked for and than the ceiling.
LEMMA AuthorizeStep ==
    ASSUME PayInv, NEW s \in Dialers, Authorize(s)
    PROVE  PayInv'
<1> DEFINE g == Grant(s)
           stage == IF pay[s].key = "signer" THEN "signing" ELSE "receipt"
           w == [pay[s] EXCEPT !.granted = g, !.stage = stage]
<1>1. pay[s] \in DialRecords
  BY DEF PayInv, PayTypeOK
<1>2. g \in Budgets /\ (g # NoBudgets =>
        \A d \in Directions : g[d].n <= Ceiling[d] /\ g[d].n <= pay[s].asked[d].n)
  <2>1. CASE pay[s].asked = NoBudgets
    BY <2>1, IdleDialTyped DEF Grant
  <2>2. CASE pay[s].asked # NoBudgets
    <3>1. \A d \in Directions : pay[s].asked[d].n \in Nat /\ Ceiling[d] \in Nat
      BY <1>1, PaywallAssumption DEF DialRecords, Budgets, Numbers
    <3>2. \A d \in Directions : LET m == Smaller(pay[s].asked[d].n, Ceiling[d]) IN
            m \in Nat /\ m <= Ceiling[d] /\ m <= pay[s].asked[d].n
      BY <3>1, SmallerIsLess, Zenon
    <3>3. g = [d \in Directions |-> Integer(Smaller(pay[s].asked[d].n, Ceiling[d]))]
      BY <2>2 DEF Grant
    <3>4. \A m \in Nat : Integer(m) \in Numbers /\ Integer(m).n = m
      BY DEF Integer, Numbers
    <3> QED BY <3>2, <3>3, <3>4 DEF Budgets
  <2> QED BY <2>1, <2>2
<1>3. pay[s].stage = "offered" /\ pay' = [pay EXCEPT ![s] = w] /\ UNCHANGED <<remaining, approvals>>
  BY <1>1, Zenon DEF Authorize, PayInv, PayTypeOK
<1> HIDE DEF g
<1>4. w \in DialRecords /\ w.signature = pay[s].signature /\ w.granted = g /\ w.asked = pay[s].asked
  BY <1>1, <1>2, Zenon DEF DialRecords
<1>5. PaidOK(w) /\ WalletOK(w, remaining, approvals)
  BY <1>1 DEF PayInv, PaidOK, WalletOK, DialRecords
<1>6. GrantOK(w)
  BY <1>2, <1>4 DEF GrantOK
<1>7. SignatureOK(w.signature)
  BY <1>4 DEF PayInv
<1> QED BY <1>3, <1>4, <1>5, <1>6, <1>7, OneDial, Zenon

\* sign_prehash: the signature kept is the octets the signer returned.
LEMMA SignPrehashStep ==
    ASSUME PayInv, NEW s \in Dialers, NEW v \in ArrayLikes, SignPrehash(s, v)
    PROVE  PayInv'
<1> DEFINE b == BytesFromArrayLike(v)
           stage == IF b = <<>> THEN "rejected" ELSE "receipt"
           sig == IF b = <<>> THEN <<>> ELSE <<v.entries, b>>
           w == [pay[s] EXCEPT !.stage = stage, !.signature = sig]
<1>1. pay[s] \in DialRecords
  BY DEF PayInv, PayTypeOK
<1>2. sig \in Signatures
  BY DEF Signatures
<1>3. SignatureOK(sig)
  BY SignedIsExact DEF SignatureOK
<1>4. pay[s].stage = "signing" /\ pay' = [pay EXCEPT ![s] = w] /\ UNCHANGED <<remaining, approvals>>
  BY <1>1, Zenon DEF SignPrehash, PayInv, PayTypeOK
<1> HIDE DEF b, sig
<1>5. w \in DialRecords /\ w.signature = sig
  BY <1>1, <1>2, Zenon DEF DialRecords
<1>6. PaidOK(w) /\ WalletOK(w, remaining, approvals) /\ GrantOK(w)
  BY <1>1 DEF PayInv, PaidOK, WalletOK, DialRecords, GrantOK
<1> QED BY <1>3, <1>4, <1>5, <1>6, OneDial, Zenon

\* approve, for a callback: only an answer it gave is passed on.
LEMMA ApproveJsStep ==
    ASSUME PayInv, NEW s \in Dialers, NEW o \in Approvals, ApproveJs(s, o)
    PROVE  PayInv'
<1> DEFINE answer == CASE o \in {"throws", "rejects", "oversized"} -> "refused"
                       [] o = "undefined" -> "none"
                       [] OTHER -> o
           stage == IF answer = "refused" THEN "refused" ELSE "settling"
           w == [pay[s] EXCEPT !.stage = stage, !.answer = answer, !.left = 0]
<1>1. pay[s] \in DialRecords
  BY DEF PayInv, PayTypeOK
<1>2. answer \in {"none", "refused", "junk", "payment"} /\ (o = "undefined" => answer = "none")
  BY DEF Approvals
<1>3. /\ pay[s].approver # "wallet" /\ (pay[s].approver = "none" => o = "undefined")
      /\ pay' = [pay EXCEPT ![s] = w] /\ UNCHANGED <<remaining, approvals>>
  BY <1>1, Zenon DEF ApproveJs, Approved, PayInv, PayTypeOK
<1>0. stage \in {"refused", "settling"}
  OBVIOUS
<1> HIDE DEF answer, stage
<1>4. w \in DialRecords /\ w.signature = pay[s].signature
  BY <1>0, <1>1, <1>2, Zenon DEF DialRecords
<1>5. PaidOK(w) /\ WalletOK(w, remaining, approvals) /\ GrantOK(w)
  <2>1. PaidOK(pay[s]) /\ WalletOK(pay[s], remaining, approvals) /\ GrantOK(pay[s])
    BY DEF PayInv
  <2> QED BY <1>0, <1>1, <1>2, <1>3, <2>1 DEF PaidOK, WalletOK, DialRecords, GrantOK
<1>6. SignatureOK(w.signature)
  BY <1>4 DEF PayInv
<1> QED BY <1>3, <1>4, <1>5, <1>6, OneDial, Zenon

\* approve, for the wallet: the balance loaded is what the payments made so far leave.
LEMMA WalletLoadStep ==
    ASSUME PayInv, NEW s \in Dialers, WalletLoad(s)
    PROVE  PayInv'
<1> DEFINE refused == [pay[s] EXCEPT !.stage = "refused", !.answer = "refused", !.left = 0]
           loaded == [pay[s] EXCEPT !.stage = "loaded", !.left = remaining]
<1>1. pay[s] \in DialRecords /\ remaining \in Nat /\ approvals \in Nat
      /\ remaining + approvals = Payments /\ Payments \in Nat
  BY PaywallAssumption DEF PayInv, PayTypeOK
<1>2. pay[s].approver = "wallet" /\ UNCHANGED <<remaining, approvals>>
  BY DEF WalletLoad
<1>3. PaidOK(pay[s]) /\ WalletOK(pay[s], remaining, approvals) /\ GrantOK(pay[s])
      /\ SignatureOK(pay[s].signature)
  BY DEF PayInv
<1>4. CASE remaining = 0
  <2>1. pay' = [pay EXCEPT ![s] = refused]
    BY <1>1, <1>4, Zenon DEF WalletLoad, Approved, PayInv, PayTypeOK
  <2>2. refused \in DialRecords /\ refused.signature = pay[s].signature
    BY <1>1, Zenon DEF DialRecords
  <2>3. PaidOK(refused) /\ WalletOK(refused, remaining, approvals) /\ GrantOK(refused)
    BY <1>1, <1>2, <1>3 DEF PaidOK, WalletOK, DialRecords, GrantOK
  <2> QED BY <1>2, <1>3, <2>1, <2>2, <2>3, OneDial, Zenon
<1>5. CASE remaining # 0
  <2>1. pay' = [pay EXCEPT ![s] = loaded]
    BY <1>1, <1>5, Zenon DEF WalletLoad, PayInv, PayTypeOK
  <2>2. loaded \in DialRecords /\ loaded.signature = pay[s].signature
    BY <1>1, Zenon DEF DialRecords
  <2>3. PaidOK(loaded) /\ GrantOK(loaded)
    BY <1>1, <1>2, <1>3 DEF PaidOK, DialRecords, GrantOK
  <2>4. WalletOK(loaded, remaining, approvals)
    <3>1. loaded.lost = pay[s].lost /\ loaded.paid = pay[s].paid /\ loaded.left = remaining
          /\ pay[s].lost \in Nat /\ pay[s].paid \in Nat
      BY <1>1 DEF DialRecords
    <3>2. pay[s].lost + pay[s].paid <= approvals
      BY <1>3 DEF WalletOK
    <3> QED BY <1>1, <1>5, <3>1, <3>2 DEF WalletOK
  <2> QED BY <1>2, <1>3, <2>1, <2>2, <2>3, <2>4, OneDial, Zenon
<1> QED BY <1>4, <1>5

\* compare_exchange: a success hands out one payment, a failure names one somebody made.
LEMMA WalletSwapStep ==
    ASSUME PayInv, NEW s \in Dialers, WalletSwap(s)
    PROVE  PayInv'
<1> DEFINE won == [pay[s] EXCEPT !.stage = "settling", !.answer = "payment", !.left = 0,
                                 !.paid = @ + 1]
           beaten == [pay[s] EXCEPT !.stage = "receipt", !.left = 0, !.lost = @ + 1]
           l == pay[s].lost
           p == pay[s].paid
           left == pay[s].left
<1>1. pay[s] \in DialRecords /\ remaining \in Nat /\ approvals \in Nat
      /\ remaining + approvals = Payments /\ Payments \in Nat
  BY PaywallAssumption DEF PayInv, PayTypeOK
<1>2. PaidOK(pay[s]) /\ WalletOK(pay[s], remaining, approvals) /\ GrantOK(pay[s])
      /\ SignatureOK(pay[s].signature) /\ pay[s].stage = "loaded"
  BY DEF PayInv, WalletSwap
<1>3. /\ l \in Nat /\ p \in Nat /\ left \in Nat /\ left >= 1 /\ remaining <= left
      /\ l + p <= approvals /\ l + p + left <= Payments /\ pay[s].approver = "wallet"
  BY <1>1, <1>2 DEF WalletOK, PaidOK, DialRecords
<1>4. CASE remaining # left
  <2>1. pay' = [pay EXCEPT ![s] = beaten] /\ UNCHANGED <<remaining, approvals>>
    BY <1>1, <1>4, Zenon DEF WalletSwap, PayInv, PayTypeOK
  <2>2. beaten \in DialRecords /\ beaten.signature = pay[s].signature
    <3>1. l + 1 \in Nat
      BY <1>3
    <3> QED BY <1>1, <3>1, Zenon DEF DialRecords
  <2>3. PaidOK(beaten) /\ GrantOK(beaten)
    BY <1>1, <1>2 DEF PaidOK, DialRecords, GrantOK
  <2>4. WalletOK(beaten, remaining, approvals)
    <3>1. beaten.lost = l + 1 /\ beaten.paid = p /\ beaten.stage = "receipt"
      BY <1>1 DEF DialRecords
    <3>2. l + 1 + p <= approvals
      <4> HIDE DEF l, p, left
      <4> QED BY <1>1, <1>3, <1>4
    <3> QED BY <3>1, <3>2 DEF WalletOK
  <2> QED BY <1>2, <2>1, <2>2, <2>3, <2>4, OneDial, Zenon
<1>5. CASE remaining = left
  <2>1. /\ remaining' = remaining - 1 /\ approvals' = approvals + 1
        /\ pay' = [pay EXCEPT ![s] = won]
    BY <1>1, <1>5, Zenon DEF WalletSwap, PayInv, PayTypeOK
  <2>2. /\ remaining' \in Nat /\ approvals' \in Nat /\ remaining' + approvals' = Payments
        /\ remaining' <= remaining /\ approvals <= approvals'
    <3> HIDE DEF l, p, left
    <3> QED BY <1>1, <1>3, <1>5, <2>1
  <2>3. won \in DialRecords /\ won.signature = pay[s].signature
    <3>1. p + 1 \in Nat
      BY <1>3
    <3> QED BY <1>1, <3>1, Zenon DEF DialRecords
  <2>4. PaidOK(won) /\ GrantOK(won)
    BY <1>1, <1>2, <1>3 DEF PaidOK, DialRecords, GrantOK
  <2>5. WalletOK(won, remaining', approvals')
    <3>1. won.lost = l /\ won.paid = p + 1 /\ won.stage = "settling"
      BY <1>1 DEF DialRecords
    <3>2. l + (p + 1) <= approvals'
      BY <1>1, <1>3, <2>1
    <3> QED BY <3>1, <3>2 DEF WalletOK
  <2>6. ASSUME NEW r \in Dialers, r # s PROVE WalletOK(pay[r], remaining', approvals')
    <3>1. WalletOK(pay[r], remaining, approvals) /\ pay[r] \in DialRecords
      BY DEF PayInv, PayTypeOK
    <3>2. pay[r].lost \in Nat /\ pay[r].paid \in Nat /\ pay[r].left \in Nat
      BY <3>1 DEF DialRecords
    <3> QED BY <1>1, <2>2, <3>1, <3>2 DEF WalletOK
  <2>7. /\ pay' \in [Dialers -> DialRecords]
        /\ \A r \in Dialers : pay'[r] = IF r = s THEN won ELSE pay[r]
    BY <2>1, <2>3 DEF PayInv, PayTypeOK
  <2> HIDE DEF won
  <2>8. ASSUME NEW r \in Dialers
        PROVE  /\ WalletOK(pay'[r], remaining', approvals')
               /\ PaidOK(pay'[r]) /\ GrantOK(pay'[r]) /\ SignatureOK(pay'[r].signature)
    <3>1. CASE r = s
      BY <3>1, <1>2, <2>3, <2>4, <2>5, <2>7
    <3>2. CASE r # s
      BY <3>2, <2>6, <2>7 DEF PayInv
    <3> QED BY <3>1, <3>2
  <2> QED BY <2>2, <2>7, <2>8 DEF PayInv, PayTypeOK
<1> QED BY <1>4, <1>5

\* settle opens a session on a payment only.
LEMMA SettleStep ==
    ASSUME PayInv, NEW s \in Dialers, Settle(s)
    PROVE  PayInv'
<1> DEFINE w == IF IsPayment(s) THEN [pay[s] EXCEPT !.stage = "open", !.rounds = @ + 1]
                                ELSE [pay[s] EXCEPT !.stage = "refused"]
<1>1. pay[s] \in DialRecords /\ approvals \in Nat
  BY DEF PayInv, PayTypeOK
<1>2. PaidOK(pay[s]) /\ WalletOK(pay[s], remaining, approvals) /\ GrantOK(pay[s])
      /\ SignatureOK(pay[s].signature) /\ pay[s].stage = "settling"
  BY DEF PayInv, Settle
<1>3. pay' = [pay EXCEPT ![s] = w] /\ UNCHANGED <<remaining, approvals>>
  BY <1>1, Zenon DEF Settle, PayInv, PayTypeOK
<1>4. w \in DialRecords /\ w.signature = pay[s].signature
  <2>1. pay[s].rounds + 1 \in Nat
    BY <1>1 DEF DialRecords
  <2>2. CASE IsPayment(s)
    BY <1>1, <2>1, <2>2, Zenon DEF DialRecords
  <2>3. CASE ~IsPayment(s)
    BY <1>1, <2>3 DEF DialRecords
  <2> QED BY <2>2, <2>3
<1>5. PaidOK(w)
  BY <1>1, <1>2 DEF PaidOK, DialRecords, IsPayment
<1>6. WalletOK(w, remaining, approvals) /\ GrantOK(w)
  BY <1>1, <1>2 DEF WalletOK, DialRecords, GrantOK
<1> HIDE DEF w
<1> QED BY <1>2, <1>3, <1>4, <1>5, <1>6, OneDial, Zenon

\* challenge_renewal asks for the next payment before the next period.
LEMMA ChallengeRenewalStep ==
    ASSUME PayInv, NEW s \in Dialers, ChallengeRenewal(s)
    PROVE  PayInv'
<1> DEFINE w == [pay[s] EXCEPT !.stage = "receipt", !.answer = "none"]
<1>1. pay[s] \in DialRecords
  BY DEF PayInv, PayTypeOK
<1>2. PaidOK(pay[s]) /\ WalletOK(pay[s], remaining, approvals) /\ GrantOK(pay[s])
      /\ SignatureOK(pay[s].signature)
  BY DEF PayInv
<1>3. pay' = [pay EXCEPT ![s] = w] /\ UNCHANGED <<remaining, approvals>>
  BY <1>1, Zenon DEF ChallengeRenewal, PayInv, PayTypeOK
<1>4. w \in DialRecords /\ w.signature = pay[s].signature
  BY <1>1, Zenon DEF DialRecords
<1>5. PaidOK(w) /\ WalletOK(w, remaining, approvals) /\ GrantOK(w)
  BY <1>1, <1>2 DEF PaidOK, WalletOK, DialRecords, GrantOK
<1> QED BY <1>2, <1>3, <1>4, <1>5, OneDial, Zenon
-----------------------------------------------------------------------------
\* No dial was made and the wallet is full.
LEMMA PayInvInit == PaywallInit => PayInv
<1> SUFFICES ASSUME PaywallInit PROVE PayInv
  OBVIOUS
<1>1. remaining = Payments /\ approvals = 0 /\ Payments \in Nat
  BY PaywallAssumption DEF PaywallInit
<1>2. pay \in [Dialers -> DialRecords] /\ \A s \in Dialers : pay[s] = IdleDial
  BY IdleDialTyped DEF PaywallInit
<1>3. WalletOK(IdleDial, remaining, approvals) /\ PaidOK(IdleDial) /\ GrantOK(IdleDial)
      /\ SignatureOK(IdleDial.signature)
  BY <1>1 DEF IdleDial, WalletOK, PaidOK, GrantOK, SignatureOK
<1> QED BY <1>1, <1>2, <1>3 DEF PayInv, PayTypeOK

\* The invariant says all the property does.
LEMMA PayInvImplies == PayInv => PaywallIsExact
<1> SUFFICES ASSUME PayInv PROVE PaywallIsExact
  OBVIOUS
<1>1. PaymentsConserved
  BY DEF PayInv, PayTypeOK, PaymentsConserved
<1>2. LosesOnlyToPayments
  <2> SUFFICES ASSUME NEW s \in Dialers PROVE pay[s].lost <= approvals - pay[s].paid
    BY DEF LosesOnlyToPayments
  <2>1. pay[s] \in DialRecords /\ approvals \in Nat /\ WalletOK(pay[s], remaining, approvals)
    BY DEF PayInv, PayTypeOK
  <2>2. pay[s].lost \in Nat /\ pay[s].paid \in Nat /\ pay[s].lost + pay[s].paid <= approvals
    BY <2>1 DEF DialRecords, WalletOK
  <2> QED BY <2>1, <2>2
<1>3. ServedIsPaid
  BY DEF PayInv, ServedIsPaid, PaidOK
<1>4. GrantWithinCeiling
  BY DEF PayInv, GrantWithinCeiling, GrantOK
<1>5. SignatureIsExact
  BY DEF PayInv, SignatureIsExact, SignatureOK
<1> QED BY <1>1, <1>2, <1>3, <1>4, <1>5 DEF PaywallIsExact

\* Credit, payments and signatures are exact for any number of dials racing for a wallet
\* of any size, whatever budgets they ask for and whatever the ceiling (approve's
\* compare_exchange loop, authorize, settle, sign_prehash).
THEOREM PaidExactly == PaywallSpec => []PaywallIsExact
<1>1. PayInv /\ [PaywallNext]_paywallvars => PayInv'
  <2> SUFFICES ASSUME PayInv, [PaywallNext]_paywallvars PROVE PayInv'
    OBVIOUS
  <2>1. CASE PaywallNext
    <3>1. PICK s \in Dialers :
            \/ \E raw \in RawBudgets \cup {NoBudgets},
                  a \in {"none", "js", "wallet", "not a function"},
                  k \in {"raw", "signer", "mismatch"} : DialWith(s, raw, a, k)
            \/ Authorize(s) \/ Settle(s) \/ ChallengeRenewal(s)
            \/ \E v \in ArrayLikes : SignPrehash(s, v)
            \/ \E o \in Approvals : ApproveJs(s, o)
            \/ WalletLoad(s) \/ WalletSwap(s)
      BY <2>1 DEF PaywallNext
    <3> QED BY <3>1, DialWithStep, AuthorizeStep, SettleStep, ChallengeRenewalStep,
               SignPrehashStep, ApproveJsStep, WalletLoadStep, WalletSwapStep
  <2>2. CASE UNCHANGED paywallvars
    BY <2>2 DEF paywallvars, PayInv, PayTypeOK
  <2> QED BY <2>1, <2>2
<1> QED BY <1>1, PayInvInit, PayInvImplies, PTL DEF PaywallSpec
===============================================================================
