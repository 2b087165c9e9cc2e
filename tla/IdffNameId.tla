------------------------------ MODULE IdffNameId ------------------------------
(***************************************************************************)
(* ID-FF 1.2 name registration (lasso/id-ff/name_registration.c), here     *)
(* "rename", and federation termination (lasso/id-ff/defederation.c), here *)
(* "terminate", a notification without answer.  A request is a record:     *)
(* from, kind, nid (the NameIdentifier of a notification, the              *)
(* OldProvidedNameIdentifier of a registration) and new (the name          *)
(* registered, or NoContent).                                              *)
(***************************************************************************)
EXTENDS FederationOps

\* lasso_name_registration_init_request: the old name is the requester's own
\* one; a service provider that gave none names the identity provider's.
OldName(x, fed) ==
  IF x = "sp" /\ fed.local = NoName THEN fed.remote ELSE fed.local

IdffName(x, kind, fed, inSession) ==
  IF fed = NoFederation THEN NoName
  ELSE IF kind = "terminate" THEN NameToSend(fed, inSession)
  ELSE OldName(x, fed)

\* lasso_defederation_init_notification removes the federation and the
\* session's assertion before the message leaves.
IdffInit(x, kind, fed, inSession) ==
  IF kind = "terminate"
  THEN Result(NoFederation, NoName, "ok", "none")
  ELSE Result(fed, inSession, "ok", "none")

\* lasso_defederation_process_notification_msg, validate_notification.
ValidateNotification(req, fed, inSession, verified) ==
  IF ~ verified              THEN Result(fed, inSession, "signature", "none")
  ELSE IF fed = NoFederation THEN Result(fed, inSession, "not_found", "none")
  ELSE IF ~ VerifyNameIdentifier(fed, req.nid)
                             THEN Result(fed, inSession, "unknown", "none")
  ELSE Result(NoFederation, NoName, "ok", "none")

\* lasso_name_registration_process_request_msg, validate_request: an error of
\* validate_request leaves the Success response it has built before.
ValidateRegistration(req, fed, inSession, verified) ==
  IF ~ verified              THEN Result(fed, inSession, "signature", "none")
  ELSE IF fed = NoFederation THEN Result(fed, inSession, "not_found", "success")
  ELSE IF ~ VerifyNameIdentifier(fed, req.nid)
                             THEN Result(fed, inSession, "unknown", "success")
  ELSE Result([fed EXCEPT !.remote = NewName(req.new)], inSession, "ok", "success")

IdffValidate(req, fed, inSession, verified) ==
  IF req.kind = "terminate"
  THEN ValidateNotification(req, fed, inSession, verified)
  ELSE ValidateRegistration(req, fed, inSession, verified)

\* lasso_name_registration_process_response_msg: the result of verifying the
\* signature is returned after the federation was changed.
IdffProcess(req, fed, inSession, answer, verified) ==
  IF answer # "success"      THEN Result(fed, inSession, "refused", "none")
  ELSE IF fed = NoFederation THEN Result(fed, inSession, "not_found", "none")
  ELSE Result([fed EXCEPT !.local = NewName(req.new)], inSession,
              IF verified THEN "ok" ELSE "signature", "none")
=============================================================================
