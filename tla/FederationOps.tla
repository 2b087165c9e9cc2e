----------------------------- MODULE FederationOps -----------------------------
(***************************************************************************)
(* A principal's federation with one provider (lasso/id-ff/federation.c),  *)
(* its place in the identity (lasso/id-ff/identity.c), and the choice of a *)
(* name identifier for a request (lasso_profile_get_nameIdentifier).       *)
(*                                                                         *)
(* A name identifier is a record: its content, a fresh value for every     *)
(* name ever given, and its SPProvidedID (SAML 2.0 only).  Two providers   *)
(* are modelled, so an identity holds one federation or none.              *)
(***************************************************************************)
EXTENDS Naturals

CONSTANTS
  Contents,      \* the contents of name identifiers
  NoContent,     \* an absent SPProvidedID
  NoName,        \* NULL in place of a name identifier
  NoFederation   \* the identity has no federation with the other provider

ASSUME NamesApartFromNull ==
  /\ NoContent \notin Contents
  /\ NoFederation # NoName

Parties == {"sp", "idp"}
Peer(x) == IF x = "sp" THEN "idp" ELSE "sp"

Name == [content : Contents, sp : Contents \cup {NoContent}]
Federation == [local : Name \cup {NoName}, remote : Name \cup {NoName}]

ASSUME NullIsNoValue == NoName \notin Name /\ NoFederation \notin Federation

NewName(c) == [content |-> c, sp |-> NoContent]

\* lasso_federation_new, then lasso_federation_build_local_name_identifier.
NewFederation(c) == [local |-> NewName(c), remote |-> NoName]

\* lasso_federation_verify_name_identifier: the contents alone are compared,
\* with the name of either side.
VerifyNameIdentifier(f, n) ==
  \E m \in {f.local, f.remote} : m # NoName /\ m.content = n.content

\* lasso_profile_get_nameIdentifier.  inSession is the NameID of the assertion
\* the session keeps for the other provider: "for transient federations, we
\* must look at assertions", and they come first for every federation.
NameToSend(f, inSession) ==
  IF inSession # NoName THEN inSession
  ELSE IF f = NoFederation THEN NoName
  ELSE IF f.remote # NoName THEN f.remote ELSE f.local

-----------------------------------------------------------------------------
(* What a handler does.  It is called with the federation and the session's *)
(* NameID of the provider it runs at and returns                            *)
(*   fed, inSession   what is left of them when the application has saved   *)
(*                    what is marked dirty;                                 *)
(*   rc               "ok", or the class of the error it returns;           *)
(*   answer           the status of the response built, "none" without one. *)

Result(fed, inSession, rc, answer) ==
  [fed |-> fed, inSession |-> inSession, rc |-> rc, answer |-> answer]
=============================================================================
