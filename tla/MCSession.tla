------------------------------ MODULE MCSession ------------------------------
(***************************************************************************)
(* Instances of Session for TLC.                                           *)
(***************************************************************************)
EXTENDS Session

CONSTANTS p1, p2, n1, n2, s1, a1, a2, a3, a4

\* a1 and a2 name one login twice, as an identity provider does that keeps
\* the SessionIndex of a renewed authentication; a3 has no SessionIndex, so
\* that it is counted and not listed; a4 has no NameID, so that adding it
\* fails half-way.
MCReceived ==
  { [id |-> a1, nid |-> n1, sidx |-> s1],
    [id |-> a2, nid |-> n1, sidx |-> s1],
    [id |-> a3, nid |-> n2, sidx |-> NoSessionIndex],
    [id |-> a4, nid |-> NoNameID, sidx |-> s1] }
=============================================================================
