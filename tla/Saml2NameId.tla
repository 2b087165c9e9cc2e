------------------------------ MODULE Saml2NameId ------------------------------
(***************************************************************************)
(* SAML 2.0 name identifier management                                     *)
(* (lasso/saml-2.0/name_id_management.c): the handlers of a                *)
(* ManageNameIDRequest, which renames ("rename", a NewID) or ends          *)
(* ("terminate") a federation.  A request is a record: from, kind, nid     *)
(* (its NameID or NoName) and new (its NewID or NoContent).                *)
(***************************************************************************)
EXTENDS FederationOps

\* What the undefined behaviour of lasso_identity_add_federation can do to a
\* federation that is already in the identity: g_hash_table_insert unrefs the
\* old value, which is the object being inserted.
Fates == {"kept", "lost", "crash"}

\* lasso_name_id_management_init_request.  The request of a provider with no
\* name to send has no NameID.
Saml2Name(x, kind, fed, inSession) == NameToSend(fed, inSession)

\* "If we are the IdP we can apply termination immediately."
Saml2Init(x, kind, fed, inSession) ==
  Result(IF kind = "terminate" /\ x = "idp" THEN NoFederation ELSE fed,
         inSession, "ok", "none")

\* Mutant: the content of the old name is not copied.
RenamedEmpty(req) ==
  IF req.from = "sp" THEN [content |-> NoContent, sp |-> req.new]
  ELSE NewName(req.new)

\* The name both sides build for a rename: a service provider adds its
\* SPProvidedID, an identity provider changes the content.
Renamed(req) ==
  IF req.from = "sp" THEN [content |-> req.nid.content, sp |-> req.new]
  ELSE NewName(req.new)

\* lasso_identity_add_federation with the federation found in the identity,
\* and the response that follows.
AddedAgain(fed, changed, inSession, fate) ==
  [kept  |-> Result(changed, inSession, "ok", "success"),
   lost  |-> Result(NoFederation, inSession, "ok", "success"),
   crash |-> Result(fed, inSession, "crash", "none")][fate]

\* Mutant: a termination is confirmed before the name is compared, and then
\* not applied.
Saml2ValidateForgets(req, fed, inSession, verified, fate) ==
  Result(fed, inSession, "ok", "success")

\* lasso_name_id_management_process_request_msg, validate_request and
\* build_response_msg.  The response exists, with Success, before the
\* federation is looked up, and is not changed when there is none.
Saml2Validate(req, fed, inSession, verified, fate) ==
  IF ~ verified              THEN Result(fed, inSession, "signature", "refused")
  ELSE IF fed = NoFederation THEN Result(fed, inSession, "not_found", "success")
  ELSE IF req.nid = NoName   THEN Result(fed, inSession, "missing", "refused")
  ELSE IF ~ VerifyNameIdentifier(fed, req.nid)
                             THEN Result(fed, inSession, "unknown", "refused")
  ELSE IF req.kind = "terminate"
                             THEN Result(NoFederation, inSession, "ok", "success")
  ELSE AddedAgain(fed, [fed EXCEPT !.local = Renamed(req)], inSession, fate)

\* Mutant: the rename of a federation that is gone creates it.
Saml2ProcessCreates(req, fed, inSession, answer, verified) ==
  IF answer # "success" \/ ~ verified THEN Result(fed, inSession, "refused", "none")
  ELSE IF req.kind = "terminate" THEN Result(NoFederation, inSession, "ok", "none")
  ELSE IF req.nid = NoName THEN Result(fed, inSession, "crash", "none")
  ELSE Result([local |-> Renamed(req), remote |-> NoName], inSession, "ok", "none")

\* lasso_name_id_management_process_response_msg.  The answer is not compared
\* with the request: neither its InResponseTo nor its Issuer.
Saml2Process(req, fed, inSession, answer, verified) ==
  IF answer # "success" \/ ~ verified
                             THEN Result(fed, inSession, "refused", "none")
  ELSE IF req.kind = "terminate"
                             THEN Result(NoFederation, inSession, "ok", "none")
  ELSE IF req.nid = NoName   THEN Result(fed, inSession, "crash", "none")  \* its Format is read
  ELSE IF fed = NoFederation THEN Result(fed, inSession, "not_found", "none")
  ELSE Result([fed EXCEPT !.local = Renamed(req)], inSession, "ok", "none")
=============================================================================
