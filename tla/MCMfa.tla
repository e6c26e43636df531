------------------------------- MODULE MCMfa -------------------------------
\* Instances of Mfa: a customer with an app, an emailed code and a passkey on two
\* devices.
EXTENDS Mfa

CONSTANTS laptop, phone, app, mail, key, c1

Devices == {laptop, phone}
OneDevice == {laptop}
AllFactors == {app, mail, key}
KindOf == [f \in AllFactors |-> IF f = app THEN "totp" ELSE IF f = mail THEN "email" ELSE "passkey"]
OwnedBy == [f \in AllFactors |-> CHOOSE i \in Ids : TRUE]
OneChallenge == {c1}
UserSettings ==
  { <<{app, mail}, {laptop}, {}, 1>>, <<{mail, key}, {laptop}, {}, 1>>, <<{app}, {laptop, phone}, {app}, 0>> }
TwoSets == Ids \X {1, 2}
=============================================================================
