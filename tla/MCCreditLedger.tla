--------------------------- MODULE MCCreditLedger ---------------------------
(* Small instances of CreditLedger: one account is enough, since no function     *)
(* touches a row of another; two businesses, two concurrent requests.            *)
EXTENDS CreditLedger, TLC

CONSTANTS k1, k2, g1, g2

TwoCredits == g1 :> 2
OneAndTwo == (g1 :> 1) @@ (g2 :> 2)

NoAmounts == {}
Retried == {0, 1, 2}
BothLeads == {{k1, k2}}
OneOff == {1}

\* Businesses are interchangeable, and so are requests.  Used with invariants only.
Alike == Permutations(Keys) \cup Permutations(Calls)
=============================================================================
