---------------------------- MODULE MCIstioCSRCA ----------------------------
(***************************************************************************)
(* Instances of IstioCSRCA for TLC.                                        *)
(***************************************************************************)
EXTENDS IstioCSRCA

Request(ca, ref) == [ca |-> ca, issuerRef |-> ref]
AllRequests == {Request("user", "valid"), Request("issuer", "valid"), Request("user", "invalid")}
OfTheUser == {Request("user", "valid")}
OfTheIssuer == {Request("issuer", "valid")}
=============================================================================
