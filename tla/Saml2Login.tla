------------------------------ MODULE Saml2Login ------------------------------
(***************************************************************************)
(* SAML 2.0 web single sign-on (lasso/saml-2.0/login.c and profile.c): one *)
(* principal, one identity provider, several service providers, and the    *)
(* POST, artifact and PAOS (ECP) bindings of the response.                 *)
(*                                                                         *)
(* The browser carries the messages: it may deliver an AuthnRequest, a     *)
(* response or an artifact late, again, in any order or never.  So the     *)
(* messages sent are kept for ever, in requests and in logins.  A provider *)
(* serves one HTTP request in one step; the identity provider needs two,   *)
(* one before and one after the principal is asked, and a service provider *)
(* needs two for an artifact, before and after its SOAP call.              *)
(***************************************************************************)
EXTENDS Saml2LoginOps

CONSTANTS
  Sps, Idp,       \* the providers
  Qualifier,      \* lasso_provider_get_sp_name_qualifier: the affiliation, or the provider
  Wishes,         \* the AuthnRequests the service providers may send
  WithSlo,        \* the service providers with a single logout endpoint
  EncryptsNameId, \* those whose NameIDs are encrypted
  Unsolicited,    \* those the identity provider may log in without a request
  Methods,        \* authentication methods
  VerifyHints,    \* signature verify hints of the service providers
  NoRequest,      \* no AuthnRequest ID
  NoLogin,        \* an unused login object of the identity provider
  MaxRequests,    \* bound: AuthnRequests sent
  MaxLogins       \* bound: login objects of the identity provider

RequestIds == 1 .. MaxRequests
LoginIds   == 1 .. MaxLogins

\* lasso_build_unique_id: a NameID is known by the login that created it, and
\* the assertion of login l has the ID l.
Persistent(l) == <<"persistent", l>>
Transient(l)  == <<"transient", l>>

\* The AuthnRequests the model tells apart (see Saml2LoginOps).
AuthnRequest ==
  [sp : Sps, binding : Bindings \cup {"default", "redirect"}, format : Formats,
   allowCreate : BOOLEAN, force : BOOLEAN, passive : BOOLEAN, consentOpen : BOOLEAN,
   method : Methods \cup {NoMethod, AnyMethod}, sig : SignatureStatus]

\* LassoLogin at the identity provider, with the answer it sent.
Login ==
  [req : AuthnRequest, id : RequestIds \cup {NoRequest},
   phase : {"received", "answered", "failed"}, status : Statuses \cup {"none"},
   ask : BOOLEAN, authenticated : BOOLEAN, method : Methods \cup {NoMethod},
   signed : BOOLEAN, assertion : Assertion \cup {NoAssertion}]

ASSUME LoginConstants ==
  /\ MaxRequests \in Nat /\ MaxLogins \in Nat
  /\ Providers = Sps \cup {Idp} /\ Idp \notin Sps
  /\ AssertionIds = LoginIds /\ SessionIndexes = LoginIds
  /\ NameIds = {"persistent", "transient"} \X LoginIds
  /\ VerifyHints \subseteq Hints
  /\ WithSlo \cup EncryptsNameId \cup Unsolicited \subseteq Sps
  /\ DefaultBinding \in [Sps -> Bindings] /\ DefaultFormat \in [Sps -> Formats]
  /\ DOMAIN Qualifier = Sps
  /\ NoRequest \notin RequestIds
  /\ NoMethod \notin Methods /\ AnyMethod \notin Methods /\ AnyMethod # NoMethod
  /\ Wishes \subseteq AuthnRequest
  /\ NoRequest \notin AuthnRequest /\ NoLogin \notin Login

Qualifiers == { Qualifier[sp] : sp \in Sps }

VARIABLES
  requests,     \* the AuthnRequest sent under each ID, or NoRequest
  logins,       \* login objects of the identity provider, with the answer they sent
  artifacts,    \* logins whose response is stored under an artifact
  federations,  \* the identity at the identity provider: NameID by qualifier
  idpSession,   \* the session at the identity provider
  identityKnown,\* the identity provider has an identity for this browser
  hint,         \* the service providers' signature verify hint
  resolving,    \* SOAP calls in progress: [sp, from, login, answer]
  spSessions,   \* the session at each service provider
  spFederation, \* NameID of the federation each service provider keeps
  opened        \* history: the logins accepted since the last logout

idpVars == <<logins, artifacts, federations, idpSession, identityKnown>>
spVars == <<spSessions, spFederation, opened>>
vars == <<requests, idpVars, hint, resolving, spVars>>

Init ==
  /\ requests = [r \in RequestIds |-> NoRequest]
  /\ logins = [l \in LoginIds |-> NoLogin]
  /\ artifacts = {}
  /\ federations = [q \in Qualifiers |-> NoNameID]
  /\ idpSession = EmptySession
  /\ identityKnown = FALSE
  /\ hint \in VerifyHints
  /\ resolving = {}
  /\ spSessions = [sp \in Sps |-> EmptySession]
  /\ spFederation = [sp \in Sps |-> NoNameID]
  /\ opened = {}

-----------------------------------------------------------------------------
(* The identity provider *)

Used(l) == logins[l] # NoLogin
Answered(l) == Used(l) /\ logins[l].phase = "answered"
NextLogin(l) == ~ Used(l) /\ \A k \in LoginIds : k < l => Used(k)

MethodOf == [l \in LoginIds |-> IF Used(l) THEN logins[l].method ELSE NoMethod]

\* How the principal has authenticated so far.
PastMethods == { MethodOf[k] : k \in { l \in LoginIds : Used(l) /\ logins[l].authenticated } }

\* A login object after lasso_login_process_authn_request_msg, with the answer
\* of lasso_login_must_authenticate the application acts upon.
NewLogin(req, r) ==
  [req |-> req, id |-> r, phase |-> "received", status |-> "none",
   ask |-> MustAuthenticate(req, idpSession, MethodOf),
   authenticated |-> FALSE, method |-> NoMethod, signed |-> FALSE,
   assertion |-> NoAssertion]

\* lasso_login_init_authn_request and build_authn_request_msg; the ID stays in
\* the login object (and in its dump) "for later check".
SendAuthnRequest(wish, r) ==
  /\ requests[r] = NoRequest
  /\ \A k \in RequestIds : k < r => requests[k] # NoRequest
  /\ requests' = [requests EXCEPT ![r] = wish]
  /\ UNCHANGED <<idpVars, hint, resolving, spVars>>

\* lasso_login_process_authn_request_msg.  A request whose answer cannot be
\* sent is dropped; one whose signature is refused is answered all the same.
ReceiveAuthnRequest(r, l) ==
  /\ requests[r] # NoRequest
  /\ NextLogin(l)
  /\ ProtocolProfileOk(requests[r])
  /\ logins' = [logins EXCEPT ![l] = NewLogin(requests[r], r)]
  /\ UNCHANGED <<requests, artifacts, federations, idpSession, identityKnown,
                 hint, resolving, spVars>>

\* lasso_login_init_idp_initiated_authn_request: a request without ID, asking
\* for the provider's default format.
UnsolicitedRequest(sp) ==
  [sp |-> sp, binding |-> "default", format |-> DefaultFormat[sp], allowCreate |-> FALSE,
   force |-> FALSE, passive |-> FALSE, consentOpen |-> FALSE, method |-> NoMethod,
   sig |-> "valid"]

InitIdpInitiated(sp, l) ==
  /\ NextLogin(l)
  /\ logins' = [logins EXCEPT ![l] = NewLogin(UnsolicitedRequest(sp), NoRequest)]
  /\ UNCHANGED <<requests, artifacts, federations, idpSession, identityKnown,
                 hint, resolving, spVars>>

\* Mutant: whichever federation comes first.
KeyAny(req) == CHOOSE q \in Qualifiers : TRUE

Key(req) == Qualifier[req.sp]
HasFederation(req) == federations[Key(req)] # NoNameID

\* Mutant: the federation of an earlier login is not looked up.
FederationsAfterBlind(l, consent) ==
  [federations EXCEPT ![Key(logins[l].req)] =
     IF FederationFormat(logins[l].req) = "persistent" /\ logins[l].req.allowCreate
     THEN Persistent(l) ELSE @]

\* Mutant: the federation is stored under the provider, not the affiliation.
FederationsAfterByProvider(l, consent) ==
  LET req == logins[l].req
  IN  IF CreatesFederation(req, HasFederation(req), consent)
      THEN [q \in Qualifiers \cup {req.sp} |->
              IF q = req.sp THEN Persistent(l) ELSE federations[q]]
      ELSE federations

\* The identity after lasso_saml20_login_process_federation.
FederationsAfter(l, consent) ==
  LET req == logins[l].req
  IN  [federations EXCEPT ![Key(req)] =
         IF CreatesFederation(req, HasFederation(req), consent) THEN Persistent(l) ELSE @]

\* The assertion of lasso_saml20_login_build_assertion: the NameID is the
\* federation's or a new transient one, and the SessionIndex, present "if
\* remote provider supports logout profile", is the assertion's ID.
BuildAssertion(l, feds) ==
  LET req == logins[l].req
  IN  [id   |-> l,
       nid  |-> IF UsesFederation(req) THEN feds[Key(req)] ELSE Transient(l),
       sidx |-> IF req.sp \in WithSlo THEN l ELSE NoSessionIndex]

\* The NameID is encrypted inside the assertion.
Encrypted(req) == req.sp \in EncryptsNameId \/ req.format = "encrypted"

\* Mutant: the assertion is stored only when it is encrypted.
SessionAfterEncryptedOnly(req, a) ==
  IF Encrypted(req) THEN AddAssertion(idpSession, req.sp, a) ELSE idpSession

\* An assertion whose NameID is encrypted enters the session before the
\* encryption, in build_assertion; another one when the response is built,
\* which lasso_saml20_login_build_response_msg does not do for PAOS.
SessionAfter(req, a) ==
  IF Encrypted(req) \/ ProtocolProfile(req) # "paos"
  THEN AddAssertion(idpSession, req.sp, a)
  ELSE idpSession

\* The request after the principal was asked: lasso_login_validate_request_msg,
\* build_assertion when it returned 0, and the response.  The principal may
\* fail to authenticate and may refuse; when must_authenticate said no, the
\* application takes the principal as authenticated if it knows who he is.
AnswerAuthnRequest(l, success, consent, method, signed) ==
  /\ Used(l) /\ logins[l].phase = "received"
  /\ LET req     == logins[l].req
         authenticated == IF logins[l].ask THEN success ELSE identityKnown
         verdict == FederationVerdict(req, HasFederation(req), consent)
         status  == ValidateStatus(req, authenticated, verdict)
         done    == status = "success"
         feds    == IF authenticated /\ ~ SignatureRefused(req)
                    THEN FederationsAfter(l, consent) ELSE federations
         a       == BuildAssertion(l, feds)
         built   == done /\ a.nid # NoNameID
     IN  /\ logins[l].ask \/ success
         /\ method \in IF ~ authenticated THEN {NoMethod}
                       ELSE IF logins[l].ask THEN Methods ELSE PastMethods
         /\ federations' = feds
         /\ identityKnown' = (identityKnown \/ authenticated)
         /\ idpSession' = IF built THEN SessionAfter(req, a) ELSE idpSession
         /\ logins' = [logins EXCEPT ![l] =
              [@ EXCEPT !.phase = IF done /\ ~ built THEN "failed" ELSE "answered",
                        !.status = status, !.authenticated = logins[l].ask /\ success,
                        !.method = method, !.signed = signed,
                        !.assertion = IF built THEN a ELSE NoAssertion]]
         /\ artifacts' = artifacts \cup
              IF ProtocolProfile(req) = "artifact" /\ (built \/ ~ done) THEN {l} ELSE {}
  /\ UNCHANGED <<requests, hint, resolving, spVars>>

-----------------------------------------------------------------------------
(* The service providers *)

\* A damaged copy: the damage is in the assertion or elsewhere in the message.
Damage == {"none", "message", "assertion"}

\* The response of login l as it arrives.  The response inside an artifact
\* answer has no signature of its own: the ArtifactResponse is signed.
Arriving(l, damage) ==
  [status       |-> logins[l].status,
   inResponseTo |-> logins[l].id,
   respSig      |-> IF ~ logins[l].signed THEN "not_found"
                    ELSE IF damage = "none" THEN "valid" ELSE "invalid",
   assertSig    |-> IF damage = "assertion" THEN "invalid" ELSE "valid"]

\* Mutant: the IDs in the session are not looked at.
IsReplayNever(sp, a) == FALSE

\* LASSO_LOGIN_ERROR_ASSERTION_REPLAY
IsReplay(sp, a) == a.id \in AssertionIdsOf(spSessions[sp], Idp)

IsPersistent(nid) == nid[1] = "persistent"

\* lasso_login_accept_sso, after a response was accepted by the login object
\* that sent request "from" (or by a fresh one).
AcceptSso(sp, from, l, damage) ==
  LET a == logins[l].assertion
  IN  IF IsReplay(sp, a)
      THEN UNCHANGED spVars
      ELSE /\ spSessions' = [spSessions EXCEPT ![sp] = AddAssertion(@, Idp, a)]
           /\ spFederation' = [spFederation EXCEPT ![sp] =
                                IF IsPersistent(a.nid) THEN a.nid ELSE @]
           /\ opened' = opened \cup
                {[sp |-> sp, login |-> l, intact |-> damage # "assertion",
                  own |-> from \in {NoRequest, logins[l].id},
                  again |-> \E o \in opened : o.sp = sp /\ o.login = l]}

\* The login objects a service provider may restore for a message: the dump
\* of one of its requests, or a fresh object.
RestoredFrom(sp) ==
  { r \in RequestIds : requests[r] # NoRequest /\ requests[r].sp = sp } \cup {NoRequest}

Carried(l, binding) == Answered(l) /\ ProtocolProfile(logins[l].req) = binding

Consume(sp, from, l, binding, damage) ==
  IF /\ ResponseAccepted(binding, hint, from, NoRequest, Arriving(l, damage))
     /\ logins[l].assertion # NoAssertion
  THEN AcceptSso(sp, from, l, damage)
  ELSE UNCHANGED spVars

\* lasso_login_process_authn_response_msg, process_paos_response_msg.
ReceiveResponse(l, from, damage) ==
  /\ \E binding \in {"post", "paos"} :
       /\ Carried(l, binding)
       /\ Consume(logins[l].req.sp, from, l, binding, damage)
  /\ UNCHANGED <<requests, idpVars, hint, resolving>>

\* lasso_login_init_request and build_request_msg: the artifact names the
\* identity provider, and the SOAP call begins.
ReceiveArtifact(l, from) ==
  /\ Carried(l, "artifact")
  /\ \A c \in resolving : c.sp # logins[l].req.sp
  /\ resolving' = resolving \cup
       {[sp |-> logins[l].req.sp, from |-> from, login |-> l, answer |-> "pending"]}
  /\ UNCHANGED <<requests, idpVars, hint, spVars>>

\* lasso_login_process_request_msg and build_response_msg.  The application
\* keeps the responses by artifact and gives each one once; "if no artifact is
\* present, it is a success anyway", with nothing inside.
ResolveArtifact(c) ==
  /\ c \in resolving /\ c.answer = "pending"
  /\ resolving' = (resolving \ {c}) \cup
       {[c EXCEPT !.answer = IF c.login \in artifacts THEN "response" ELSE "empty"]}
  /\ artifacts' = artifacts \ {c.login}
  /\ UNCHANGED <<requests, logins, federations, idpSession, identityKnown, hint, spVars>>

\* lasso_login_process_response_msg; an empty answer is
\* LASSO_PROFILE_ERROR_MISSING_RESPONSE.
ReceiveArtifactResponse(c, damage) ==
  /\ c \in resolving /\ c.answer # "pending"
  /\ resolving' = resolving \ {c}
  /\ IF c.answer = "response"
     THEN Consume(c.sp, c.from, c.login, "artifact", damage)
     ELSE UNCHANGED spVars
  /\ UNCHANGED <<requests, idpVars, hint>>

\* The SOAP call fails, before or after the identity provider served it.
LoseSoapCall(c) ==
  /\ c \in resolving
  /\ resolving' = resolving \ {c}
  /\ UNCHANGED <<requests, idpVars, hint, spVars>>

\* The service provider's login ends (lasso_session_remove_assertion).
EndLogin(sp) ==
  /\ \E o \in opened : o.sp = sp
  /\ spSessions' = [spSessions EXCEPT ![sp] = RemoveAssertion(@, Idp)]
  /\ opened' = { o \in opened : o.sp # sp }
  /\ UNCHANGED <<requests, idpVars, hint, resolving, spFederation>>

Next ==
  \/ \E wish \in Wishes, r \in RequestIds : SendAuthnRequest(wish, r)
  \/ \E r \in RequestIds, l \in LoginIds : ReceiveAuthnRequest(r, l)
  \/ \E sp \in Unsolicited, l \in LoginIds : InitIdpInitiated(sp, l)
  \/ \E l \in LoginIds, success, consent, signed \in BOOLEAN, m \in Methods \cup {NoMethod} :
       AnswerAuthnRequest(l, success, consent, m, signed)
  \/ \E l \in LoginIds, damage \in Damage :
       Answered(l) /\ \E from \in RestoredFrom(logins[l].req.sp) : ReceiveResponse(l, from, damage)
  \/ \E l \in LoginIds :
       Answered(l) /\ \E from \in RestoredFrom(logins[l].req.sp) : ReceiveArtifact(l, from)
  \/ \E c \in resolving : ResolveArtifact(c) \/ LoseSoapCall(c)
  \/ \E c \in resolving, damage \in Damage : ReceiveArtifactResponse(c, damage)
  \/ \E sp \in Sps : EndLogin(sp)

Spec == Init /\ [][Next]_vars

-----------------------------------------------------------------------------
(* Properties *)

\* Requests, login objects, federations and sessions keep their types.
TypeOK ==
  /\ requests \in [RequestIds -> Wishes \cup {NoRequest}]
  /\ logins \in [LoginIds -> Login \cup {NoLogin}]
  /\ artifacts \subseteq LoginIds
  /\ federations \in [Qualifiers -> NameIds \cup {NoNameID}]
  /\ idpSession \in Session
  /\ identityKnown \in BOOLEAN
  /\ hint \in VerifyHints
  /\ resolving \subseteq [sp : Sps, from : RequestIds \cup {NoRequest}, login : LoginIds,
                         answer : {"pending", "response", "empty"}]
  /\ spSessions \in [Sps -> Session]
  /\ spFederation \in [Sps -> NameIds \cup {NoNameID}]
  /\ opened \subseteq [sp : Sps, login : LoginIds, intact : BOOLEAN, own : BOOLEAN,
                      again : BOOLEAN]

\* A login object that sent a request opens a login only with an assertion
\* the identity provider built for that request, whatever other tabs of the
\* browser received (lasso_saml20_login_process_response_status_and_assertion).
AnswersOwnRequest ==
  \A o \in opened : o.own

\* An assertion that can be logged out opens its login once, however often
\* the browser delivers it (lasso_saml20_login_accept_sso, the replay check).
OpenedOnce ==
  \A o \in opened : o.sp \in WithSlo => ~ o.again

\* An assertion with a plain NameID that a client of the ECP profile carried.
PlainPaos(req) == ProtocolProfile(req) = "paos" /\ ~ Encrypted(req)

\* The identity provider can log out the logins of every service provider
\* that has a logout endpoint: its session lists the same NameID and
\* SessionIndex (lasso_login_build_assertion "stores it in profile session").
\* The one exception is a login by PAOS with a plain NameID, which no function
\* stores: lasso_saml20_login_build_response_msg lacks the call that
\* build_authn_response_msg and build_artifact_msg make for the others.
LogoutReachesLogins ==
  \A sp \in Sps : \A e \in spSessions[sp].nids[Idp] :
    e \in idpSession.nids[sp] \/ PlainPaos(logins[e.aid].req)

\* A service provider's federation is the one the identity provider keeps
\* under the provider's affiliation: providers of one affiliation know the
\* principal by the same name (lasso_saml20_login_process_federation).
FederationsAgree ==
  \A sp \in Sps : spFederation[sp] # NoNameID =>
    spFederation[sp] = federations[Qualifier[sp]]

\* Providers that are not of one affiliation never share a NameID: what they
\* log cannot be correlated through it.
NamesApart ==
  \A o, p \in opened :
    (Qualifier[o.sp] # Qualifier[p.sp]) =>
      logins[o.login].assertion.nid # logins[p.login].assertion.nid

\* Unless signatures are ignored, what enters a session is the assertion the
\* identity provider issued, not a damaged copy.
AssertionIntact ==
  \A o \in opened : hint # "ignore" => o.intact
=============================================================================
