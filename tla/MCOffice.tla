------------------------------ MODULE MCOffice ------------------------------
(* What the parts around a customer are checked on (office.cfg).           *)
EXTENDS Office

\* Both leads are of one website; both rows are of one business, met by two searches;
\* "b" is found by both searches of the screen.
OneSite(l) == "site"
OneBusiness(r) == "first"
Market(q) == IF q = "dentists" THEN {"a", "b"} ELSE {"b"}
=============================================================================
