---------------------------- MODULE Saml2LoginOps ----------------------------
(***************************************************************************)
(* The decisions of the SAML 2.0 single sign-on profile                    *)
(* (lasso/saml-2.0/login.c) that depend on the messages alone: which       *)
(* binding an answer takes, when the principal must authenticate or        *)
(* consent, and when a service provider believes a response.               *)
(***************************************************************************)
EXTENDS SessionOps

CONSTANTS
  DefaultBinding,   \* the binding of a provider's default assertion consumer
  DefaultFormat,    \* the NameID format a provider's metadata lists first
  WantSigned,       \* the identity provider verifies AuthnRequests
  NoMethod,         \* the request has no RequestedAuthnContext
  AnyMethod         \* it has one, without an AuthnContextClassRef

Bindings == {"post", "artifact", "paos"}
Formats == {"absent", "none", "transient", "persistent", "encrypted"}
Hints == {"maybe", "force", "ignore"}
SignatureStatus == {"valid", "not_found", "invalid"}

-----------------------------------------------------------------------------
(* The AuthnRequest at the identity provider.  A request is a record:       *)
(*   sp           its Issuer;                                               *)
(*   binding      its ProtocolBinding, "default" when it names none;        *)
(*   format       the Format of its NameIDPolicy, "none" when the policy    *)
(*                has no Format and "absent" when there is no policy;       *)
(*   allowCreate, force, passive   AllowCreate, ForceAuthn, IsPassive;      *)
(*   consentOpen  its Consent attribute says the consent is unavailable or  *)
(*                inapplicable;                                             *)
(*   method       the AuthnContextClassRef it asks for, NoMethod, AnyMethod;*)
(*   sig          the result of verifying its signature.                    *)

\* "default" stands for -1, "the right value to get default assertion consumer".
ProtocolProfile(req) ==
  IF req.binding = "default" THEN DefaultBinding[req.sp] ELSE req.binding

\* The bindings a response can take: LASSO_PROFILE_ERROR_INVALID_PROTOCOLPROFILE
\* is returned for the others (HTTP-Redirect among them).
ProtocolProfileOk(req) == ProtocolProfile(req) \in Bindings

SignatureRefused(req) == WantSigned /\ req.sig # "valid"

\* lasso_saml20_login_must_authenticate: every comparison is made as "exact",
\* and a RequestedAuthnContext without class is matched by any session, an
\* empty one included.  The NoPassive status it may write is overwritten by
\* validate_request_msg.
MustAuthenticate(req, session, methodOf) ==
  LET matched ==
        CASE req.method = AnyMethod -> TRUE
          [] req.method = NoMethod  -> CountAssertions(session) > 0
          [] OTHER -> \E p \in StoredProviders(session) :
                        methodOf[session.assertions[p].id] = req.method
  IN  ~ req.passive /\ (req.force \/ ~ matched)

MustAskForConsent(req, hasFederation) ==
  /\ req.format # "transient"
  /\ req.format = "absent" \/ req.allowCreate
  /\ ~ hasFederation
  /\ req.consentOpen

\* name_id_policy_format of lasso_saml20_login_process_federation.
FederationFormat(req) ==
  IF req.format \in {"absent", "none"} THEN DefaultFormat[req.sp] ELSE req.format

\* lasso_saml20_login_process_federation: its return code.
FederationVerdict(req, hasFederation, consent) ==
  IF MustAskForConsent(req, hasFederation) /\ ~ consent THEN "consent_not_obtained"
  ELSE IF /\ FederationFormat(req) = "persistent" /\ ~ hasFederation
          /\ req.format = "absent" \/ ~ req.allowCreate
       THEN "federation_not_found"
  ELSE "ok"

\* Whether it leaves a new federation behind.
CreatesFederation(req, hasFederation, consent) ==
  /\ FederationVerdict(req, hasFederation, consent) = "ok"
  /\ FederationFormat(req) = "persistent"
  /\ ~ hasFederation

Statuses ==
  {"success", "request_denied", "invalid_signature", "federation_does_not_exist"}

\* The status lasso_saml20_login_validate_request_msg writes in the response.
ValidateStatus(req, authenticated, verdict) ==
  IF ~ authenticated                       THEN "request_denied"
  ELSE IF SignatureRefused(req)            THEN "invalid_signature"
  ELSE IF verdict = "federation_not_found" THEN "federation_does_not_exist"
  ELSE IF verdict # "ok"                   THEN "request_denied"
  ELSE "success"

\* The NameID format of the assertion.  A request without Format gets a
\* transient NameID, whatever default process_federation worked with.
UsesFederation(req) == req.format \in {"persistent", "encrypted"}

-----------------------------------------------------------------------------
(* The Response at the service provider.  m.status is its StatusCode,       *)
(* m.respSig what verifying the signature of the message gave (for an       *)
(* artifact, of the ArtifactResponse around it), m.assertSig the same for   *)
(* its assertion, m.inResponseTo the InResponseTo of the assertion.         *)

\* The first return code: lasso_saml20_profile_process_any_response for POST
\* and for the ArtifactResponse, process_soap_response_with_headers for PAOS.
MessageAccepted(binding, hint, m) ==
  CASE binding = "post"     -> m.status = "success"
    [] binding = "artifact" -> m.respSig = "valid" \/ hint = "ignore"
    [] binding = "paos"     -> m.respSig \in {"valid", "not_found"} \/ hint = "ignore"

\* Mutant: an assertion in a signed response is taken as signed.
SignaturesAcceptedOuter(hint, m) ==
  m.respSig = "valid" \/ (m.respSig = "not_found" /\ hint # "force")

\* The signatures lasso_saml20_login_process_response_status_and_assertion wants.
SignaturesAccepted(hint, m) ==
  CASE m.respSig = "invalid"   -> FALSE
    [] m.respSig = "not_found" -> \/ hint = "ignore"
                                  \/ hint = "maybe" /\ m.assertSig = "valid"
    [] m.respSig = "valid"     -> \/ hint = "ignore"
                                  \/ hint = "maybe" /\ m.assertSig # "invalid"
                                  \/ m.assertSig = "valid"

\* Mutant: the InResponseTo is not compared.
ResponseAcceptedAnyRequest(binding, hint, requestId, noRequest, m) ==
  MessageAccepted(binding, hint, m) /\ m.status = "success" /\ SignaturesAccepted(hint, m)

\* Return code 0.  requestId is login->private_data->request_id, or noRequest
\* for a login object that sent no request.
ResponseAccepted(binding, hint, requestId, noRequest, m) ==
  /\ MessageAccepted(binding, hint, m)
  /\ m.status = "success"
  /\ SignaturesAccepted(hint, m)
  /\ requestId # noRequest => m.inResponseTo = requestId
=============================================================================
