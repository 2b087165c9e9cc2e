---------------------------- MODULE MCSaml2Logout ----------------------------
(***************************************************************************)
(* Instances of Saml2Logout for TLC: two service providers that log out    *)
(* over either binding, one that offers only HTTP-Redirect, and an         *)
(* identity provider, for which the local provider is a service provider.  *)
(***************************************************************************)
EXTENDS Saml2Logout, TLC

CONSTANTS sp1, sp2, sp3, idp, n1, n2, s1, s2, a1

MCLoginOf == [p \in Providers |-> [id |-> a1, nid |-> n1, sidx |-> s1]]

\* sp3 received an assertion without SessionIndex: it is counted, and not
\* listed for the logout.
MCLoginNoIndex ==
  [MCLoginOf EXCEPT ![sp3].sidx = NoSessionIndex]

Req(p, n, s, m, ok) == [from |-> p, nid |-> n, sidxs |-> s, method |-> m, sig |-> ok]

\* Each way a request can be right or wrong, from a service provider and from
\* the identity provider.
MCRequests ==
  { Req(sp1, n1, {s1}, "SOAP", TRUE),      Req(sp1, n1, {s1, s2}, "REDIRECT", TRUE),
    Req(sp1, n2, {s1}, "SOAP", TRUE),      Req(sp1, NoNameID, {s1}, "SOAP", TRUE),
    Req(sp1, n1, {s2}, "REDIRECT", TRUE),  Req(sp1, n1, {}, "SOAP", TRUE),
    Req(sp1, n1, {s1}, "REDIRECT", FALSE), Req(idp, n1, {}, "REDIRECT", TRUE),
    Req(idp, n1, {s2}, "SOAP", TRUE) }

MCTwoRequests ==
  { Req(sp1, n1, {s1}, "SOAP", TRUE), Req(sp1, n1, {s1}, "REDIRECT", TRUE) }
=============================================================================
