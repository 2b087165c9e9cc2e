---------------------------- MODULE MCIdffLogout ----------------------------
(***************************************************************************)
(* Instances of IdffLogout for TLC: two service providers that log out     *)
(* over either binding, a third that offers only HTTP-Redirect, and an     *)
(* identity provider.                                                      *)
(***************************************************************************)
EXTENDS IdffLogout, TLC

CONSTANTS sp1, sp2, sp3, idp, n1, n2, s1, a1

MCLoginOf == [p \in Providers |-> [id |-> a1, nid |-> n1, sidx |-> s1]]

\* sp3 received an assertion without SessionIndex: it is counted, and not
\* listed for the logout.
MCLoginNoIndex == [MCLoginOf EXCEPT ![sp3].sidx = NoSessionIndex]

MCFederatedNames == [p \in Providers |-> IF p = sp1 THEN {n1} ELSE {}]

Req(p, n, f, m, ok) == [from |-> p, nid |-> n, federated |-> f, method |-> m, sig |-> ok]

\* Each way a request can be right or wrong, from a service provider and from
\* the identity provider.
MCRequests ==
  { Req(sp1, n1, TRUE, "SOAP", TRUE),   Req(sp1, n1, TRUE, "REDIRECT", TRUE),
    Req(sp1, n2, TRUE, "SOAP", TRUE),   Req(sp1, n2, FALSE, "REDIRECT", TRUE),
    Req(sp1, n1, TRUE, "SOAP", FALSE),  Req(idp, n1, FALSE, "REDIRECT", TRUE) }

MCTwoRequests ==
  { Req(sp1, n1, TRUE, "SOAP", TRUE), Req(sp1, n1, TRUE, "REDIRECT", TRUE) }
=============================================================================
