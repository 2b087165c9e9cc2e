------------------------------ MODULE IdffLogin ------------------------------
(***************************************************************************)
(* ID-FF 1.2 web single sign-on (lasso/id-ff/login.c): one principal, one  *)
(* identity provider, several service providers, the Browser POST and      *)
(* Browser Artifact profiles.                                              *)
(*                                                                         *)
(* The browser may deliver a request, a response or an artifact late,      *)
(* again, in any order, to any login object of the provider, or never: all *)
(* messages are kept for ever.  An artifact is not answered with the       *)
(* response it was made for, as in SAML 2.0, but with what the principal's *)
(* session at the identity provider holds when the SOAP request comes.     *)
(***************************************************************************)
EXTENDS SessionOps

CONSTANTS
  Sps, Idp,       \* the providers
  Wishes,         \* the AuthnRequests the service providers may send
  WithSlo,        \* the service providers with a single logout endpoint
  Unverified,     \* those whose metadata say AuthnRequestsSigned = false
  Unsolicited,    \* those the identity provider may log in without a request
  Methods,        \* authentication methods
  NoMethod,       \* no RequestAuthnContext, no method
  AnyMethod,      \* a RequestAuthnContext without AuthnContextClassRef
  NoRequest,      \* no RequestID
  NoLogin,        \* an unused login object of the identity provider
  MaxRequests,    \* bound: AuthnRequests sent
  MaxLogins       \* bound: login objects of the identity provider

RequestIds == 1 .. MaxRequests
LoginIds   == 1 .. MaxLogins

\* A name is known by the login that created it, and the assertion of login l
\* has the ID l.
Federated(l) == <<"federated", l>>
OneTime(l)   == <<"onetime", l>>

-----------------------------------------------------------------------------
(* An AuthnRequest is a record: sp; profile, its ProtocolProfile ("post" or *)
(* "artifact", which is also the default); policy, its NameIDPolicy;        *)
(* consented, whether its consent attribute says the consent was obtained;  *)
(* force, passive; method, the AuthnContextClassRef, NoMethod or AnyMethod; *)
(* signed.                                                                  *)

Policies == {"none", "onetime", "federated", "any"}

AuthnRequest ==
  [sp : Sps, profile : {"post", "artifact"}, policy : Policies, consented : BOOLEAN,
   force : BOOLEAN, passive : BOOLEAN, method : Methods \cup {NoMethod, AnyMethod},
   signed : BOOLEAN]

\* LassoLogin at the identity provider, with the answer it sent.
Login ==
  [req : AuthnRequest, id : RequestIds \cup {NoRequest}, phase : {"received", "answered"},
   ask : BOOLEAN, success : BOOLEAN, consent : BOOLEAN, method : Methods \cup {NoMethod},
   assertion : Assertion \cup {NoAssertion}]

ASSUME IdffLoginConstants ==
  /\ MaxRequests \in Nat /\ MaxLogins \in Nat
  /\ Providers = Sps \cup {Idp} /\ Idp \notin Sps
  /\ AssertionIds = LoginIds /\ SessionIndexes = LoginIds
  /\ NameIds = {"federated", "onetime"} \X LoginIds
  /\ WithSlo \cup Unverified \cup Unsolicited \subseteq Sps
  /\ NoRequest \notin RequestIds
  /\ NoMethod \notin Methods /\ AnyMethod \notin Methods /\ AnyMethod # NoMethod
  /\ Wishes \subseteq AuthnRequest
  /\ NoRequest \notin AuthnRequest /\ NoLogin \notin Login /\ NoLogin \notin LoginIds

\* lasso_login_process_authn_request_msg returns 0.  The result of verifying
\* the signature is returned and, against the code's intention, is not kept in
\* signature_status: an application that went on would have it ignored.
RequestAccepted(req) == req.sp \in Unverified \/ req.signed

\* lasso_login_must_authenticate: a RequestAuthnContext without class is
\* matched by any session, an empty one included.
MustAuthenticate(req, session, methodOf) ==
  LET matched ==
        CASE req.method = AnyMethod -> TRUE
          [] req.method = NoMethod  -> CountAssertions(session) > 0
          [] OTHER -> \E p \in StoredProviders(session) :
                        methodOf[session.assertions[p].id] = req.method
  IN  ~ req.passive /\ (req.force \/ ~ matched)

\* lasso_login_must_ask_for_consent_private
MustAskForConsent(req, hasFederation) ==
  req.policy \in {"federated", "any"} /\ ~ hasFederation /\ ~ req.consented

\* Mutant: a principal who refuses gets a federated name all the same.
EffectivePolicyAny(req, hasFederation, consent) == req.policy

\* login->nameIDPolicy after lasso_login_process_federation: without consent
\* "any" proceeds "as if the value was 'onetime'".
EffectivePolicy(req, hasFederation, consent) ==
  IF MustAskForConsent(req, hasFederation) /\ ~ consent /\ req.policy = "any"
  THEN "onetime" ELSE req.policy

\* lasso_login_process_federation returns 0.
FederationOk(req, hasFederation, consent) ==
  LET policy == EffectivePolicy(req, hasFederation, consent)
  IN  \/ policy \in {"onetime", "any"}
      \/ policy = "none" /\ hasFederation
      \/ policy = "federated" /\ (MustAskForConsent(req, hasFederation) => consent)

CreatesFederation(req, hasFederation, consent) ==
  /\ FederationOk(req, hasFederation, consent)
  /\ EffectivePolicy(req, hasFederation, consent) \in {"federated", "any"}
  /\ ~ hasFederation

-----------------------------------------------------------------------------
VARIABLES
  requests,     \* the AuthnRequest sent under each RequestID, or NoRequest
  logins,       \* login objects of the identity provider, with their answers
  federations,  \* the identity at the identity provider: name by provider
  idpSession,   \* the session at the identity provider
  identityKnown,\* the identity provider has an identity for this browser
  resolving,    \* SOAP calls in progress: [sp, from, artifact, answered, login]
  spSessions,   \* the session at each service provider
  spFederation, \* remote name of the federation each service provider keeps
  opened,       \* history: the logins accepted
  ended         \* history: the logins answered before a logout of their provider

idpVars == <<logins, federations, idpSession, identityKnown, ended>>
spVars == <<spSessions, spFederation, opened>>
vars == <<requests, idpVars, resolving, spVars>>

Init ==
  /\ requests = [r \in RequestIds |-> NoRequest]
  /\ logins = [l \in LoginIds |-> NoLogin]
  /\ federations = [sp \in Sps |-> NoNameID]
  /\ idpSession = EmptySession
  /\ identityKnown = FALSE
  /\ resolving = {}
  /\ spSessions = [sp \in Sps |-> EmptySession]
  /\ spFederation = [sp \in Sps |-> NoNameID]
  /\ opened = {}
  /\ ended = {}

Used(l) == logins[l] # NoLogin
Answered(l) == Used(l) /\ logins[l].phase = "answered"
NextLogin(l) == ~ Used(l) /\ \A k \in LoginIds : k < l => Used(k)
MethodOf == [l \in LoginIds |-> IF Used(l) THEN logins[l].method ELSE NoMethod]
PastMethods == { MethodOf[l] : l \in { k \in LoginIds : Used(k) } } \ {NoMethod}

-----------------------------------------------------------------------------
(* The identity provider *)

\* lasso_login_init_authn_request and build_authn_request_msg, at the service
\* provider; the RequestID stays in the login object and in its dump.
SendAuthnRequest(wish, r) ==
  /\ requests[r] = NoRequest
  /\ \A k \in RequestIds : k < r => requests[k] # NoRequest
  /\ requests' = [requests EXCEPT ![r] = wish]
  /\ UNCHANGED <<idpVars, resolving, spVars>>

NewLogin(req, r) ==
  [req |-> req, id |-> r, phase |-> "received",
   ask |-> MustAuthenticate(req, idpSession, MethodOf),
   success |-> FALSE, consent |-> FALSE, method |-> NoMethod, assertion |-> NoAssertion]

\* lasso_login_process_authn_request_msg
ReceiveAuthnRequest(r, l) ==
  /\ requests[r] # NoRequest
  /\ NextLogin(l)
  /\ RequestAccepted(requests[r])
  /\ logins' = [logins EXCEPT ![l] = NewLogin(requests[r], r)]
  /\ UNCHANGED <<requests, federations, idpSession, identityKnown, ended, resolving, spVars>>

\* lasso_login_init_idp_initiated_authn_request: no RequestID, "or it would
\* be used in response assertion", and the policy any.  Without a
\* ProtocolProfile the answer is an artifact.
InitIdpInitiated(sp, l) ==
  /\ NextLogin(l)
  /\ logins' = [logins EXCEPT ![l] =
       NewLogin([sp |-> sp, profile |-> "artifact", policy |-> "any", consented |-> FALSE,
                 force |-> FALSE, passive |-> FALSE, method |-> NoMethod, signed |-> TRUE],
                NoRequest)]
  /\ UNCHANGED <<requests, federations, idpSession, identityKnown, ended, resolving, spVars>>

HasFederation(sp) == federations[sp] # NoNameID

\* Mutant: the SessionIndex is the ID of the request.
BuildAssertionOfRequest(l, policy, feds) ==
  [id |-> l, nid |-> OneTime(l), sidx |-> logins[l].id]

\* lasso_login_build_assertion.  The names of a renamed federation are the
\* subject of FederationLife.
BuildAssertion(l, policy, feds) ==
  LET sp == logins[l].req.sp
  IN  [id   |-> l,
       nid  |-> IF policy = "onetime" \/ feds[sp] = NoNameID THEN OneTime(l) ELSE feds[sp],
       sidx |-> IF sp \in WithSlo THEN l ELSE NoSessionIndex]

\* Mutant: a refused login takes what the session held with it.
SessionAfterForgets(req, done, a) ==
  IF done THEN AddAssertion(idpSession, req.sp, a)
  ELSE AddStatus(RemoveAssertion(idpSession, req.sp), req.sp)

\* The session after build_assertion, if the request was granted, and after
\* build_artifact_msg, for the artifact profile: a refusal is kept as status.
SessionAfter(req, done, a) ==
  LET built == IF done THEN AddAssertion(idpSession, req.sp, a) ELSE idpSession
  IN  IF req.profile = "post" THEN built
      ELSE IF done THEN RemoveStatus(built, req.sp)
      ELSE AddStatus(built, req.sp)

\* The request after the principal was asked: lasso_login_validate_request_msg,
\* build_assertion when it returned 0, and build_authn_response_msg or
\* build_artifact_msg.  When must_authenticate said no, the application takes
\* the principal as authenticated if it knows who he is.
AnswerAuthnRequest(l, success, consent, method) ==
  /\ Used(l) /\ logins[l].phase = "received"
  /\ LET req   == logins[l].req
         known == HasFederation(req.sp)
         authenticated == IF logins[l].ask THEN success ELSE identityKnown
         done  == authenticated /\ FederationOk(req, known, consent)
         feds  == [federations EXCEPT ![req.sp] =
                     IF authenticated /\ CreatesFederation(req, known, consent)
                     THEN Federated(l) ELSE @]
         a     == BuildAssertion(l, EffectivePolicy(req, known, consent), feds)
     IN  /\ logins[l].ask \/ success
         /\ method \in IF ~ authenticated THEN {NoMethod}
                       ELSE IF logins[l].ask THEN Methods ELSE PastMethods
         /\ federations' = feds
         /\ identityKnown' = (identityKnown \/ authenticated)
         /\ idpSession' = SessionAfter(req, done, a)
         /\ logins' = [logins EXCEPT ![l] =
              [@ EXCEPT !.phase = "answered", !.success = done, !.consent = consent,
                        !.method = method, !.assertion = IF done THEN a ELSE NoAssertion]]
  /\ UNCHANGED <<requests, ended, resolving, spVars>>

\* The identity provider logs the service provider out.  The answers it sent
\* before, and the assertions stored with their artifacts, stay in the world.
EndIdpLogin(sp) ==
  /\ RemoveAssertionOk(idpSession, sp)
  /\ idpSession' = RemoveAssertion(idpSession, sp)
  /\ ended' = ended \cup { l \in LoginIds : Answered(l) /\ logins[l].req.sp = sp }
  /\ UNCHANGED <<requests, logins, federations, identityKnown, resolving, spVars>>

-----------------------------------------------------------------------------
(* The service providers *)

\* A damaged copy: the damage is in the assertion or elsewhere in the message.
Damage == {"none", "message", "assertion"}

\* What verifying the two signatures of a response gives.  That of the message
\* covers all of it and may be missing; build_assertion signs every assertion.
Arriving(signed, damage) ==
  [messageSig   |-> IF ~ signed THEN "not_found"
                    ELSE IF damage = "none" THEN "valid" ELSE "invalid",
   assertionSig |-> IF damage = "assertion" THEN "invalid" ELSE "valid"]

\* Mutant: a message without signature leaves signature_status at 0.
SignatureAcceptedUnsigned(profile, m) ==
  \/ m.messageSig \in {"valid", "not_found"}
  \/ profile = "artifact" /\ m.assertionSig = "valid"

\* process_authn_response_msg returns when the message does not verify.
\* process_response_msg goes on, "we must wait the verification on the
\* assertion", which is looked at only when the message did not verify.
SignatureAccepted(profile, m) ==
  \/ m.messageSig = "valid"
  \/ profile = "artifact" /\ m.assertionSig = "valid"

\* Mutant: the InResponseTo is not compared.
ResponseAcceptedAnyRequest(profile, from, l, m) == SignatureAccepted(profile, m)

\* lasso_login_process_response_status_and_assertion, for an assertion of
\* login l; from is login->private_data->request_id.
ResponseAccepted(profile, from, l, m) ==
  /\ from # NoRequest => logins[l].id = from
  /\ SignatureAccepted(profile, m)

\* lasso_login_accept_sso: no look at the assertions accepted before.
AcceptSso(sp, from, l, damage) ==
  LET a == logins[l].assertion
  IN  /\ spSessions' = [spSessions EXCEPT ![sp] = AddAssertion(@, Idp, a)]
      /\ spFederation' = [spFederation EXCEPT ![sp] = IF a.nid[1] = "federated" THEN a.nid ELSE @]
      /\ opened' = opened \cup
           {[sp |-> sp, login |-> l, own |-> from \in {NoRequest, logins[l].id},
             intact |-> damage # "assertion",
             again |-> \E o \in opened : o.sp = sp /\ o.login = l]}

Consume(sp, profile, from, l, signed, damage) ==
  IF ResponseAccepted(profile, from, l, Arriving(signed, damage))
  THEN AcceptSso(sp, from, l, damage)
  ELSE UNCHANGED spVars

\* The login objects a service provider may restore for a message: the dump
\* of one of its requests, or a fresh object.
RestoredFrom(sp) ==
  { r \in RequestIds : requests[r] # NoRequest /\ requests[r].sp = sp } \cup {NoRequest}

\* lasso_login_process_authn_response_msg and accept_sso.
ReceiveResponse(l, from, signed, damage) ==
  /\ Answered(l) /\ logins[l].success /\ logins[l].req.profile = "post"
  /\ Consume(logins[l].req.sp, "post", from, l, signed, damage)
  /\ UNCHANGED <<requests, idpVars, resolving>>

\* lasso_login_init_request and build_request_msg: the SOAP call begins.
ReceiveArtifact(l, from) ==
  /\ Answered(l) /\ logins[l].req.profile = "artifact"
  /\ \A c \in resolving : c.sp # logins[l].req.sp
  /\ resolving' = resolving \cup
       {[sp |-> logins[l].req.sp, from |-> from, artifact |-> l, answered |-> FALSE, login |-> NoLogin]}
  /\ UNCHANGED <<requests, idpVars, spVars>>

\* The login whose assertion answers artifact l: none when a status is kept
\* for the provider, else the one the session holds for the provider, else
\* the one stored with the artifact.
ArtifactAnswer(sp, l) ==
  IF sp \in idpSession.status THEN NoLogin
  ELSE IF idpSession.assertions[sp] # NoAssertion THEN idpSession.assertions[sp].id
  ELSE IF logins[l].assertion # NoAssertion THEN l
  ELSE NoLogin

\* lasso_login_process_request_msg and build_response_msg.  A request whose
\* signature is not valid is denied and leaves the session alone.
ResolveArtifact(c, signed) ==
  /\ ~ c.answered
  /\ resolving' = (resolving \ {c}) \cup
       {[c EXCEPT !.answered = TRUE,
                   !.login = IF signed THEN ArtifactAnswer(c.sp, c.artifact) ELSE NoLogin]}
  /\ idpSession' = IF signed THEN RemoveStatus(idpSession, c.sp) ELSE idpSession
  /\ UNCHANGED <<requests, logins, federations, identityKnown, ended, spVars>>

\* lasso_login_process_response_msg and accept_sso.
ReceiveArtifactResponse(c, signed, damage) ==
  /\ c.answered
  /\ resolving' = resolving \ {c}
  /\ IF c.login # NoLogin
     THEN Consume(c.sp, "artifact", c.from, c.login, signed, damage)
     ELSE UNCHANGED spVars
  /\ UNCHANGED <<requests, idpVars>>

\* The SOAP call fails, before or after the identity provider served it.
LoseSoapCall(c) ==
  /\ resolving' = resolving \ {c}
  /\ UNCHANGED <<requests, idpVars, spVars>>

Next ==
  \/ \E wish \in Wishes, r \in RequestIds : SendAuthnRequest(wish, r)
  \/ \E r \in RequestIds, l \in LoginIds : ReceiveAuthnRequest(r, l)
  \/ \E sp \in Unsolicited, l \in LoginIds : InitIdpInitiated(sp, l)
  \/ \E l \in LoginIds, success, consent \in BOOLEAN, m \in Methods \cup {NoMethod} :
       AnswerAuthnRequest(l, success, consent, m)
  \/ \E sp \in Sps : EndIdpLogin(sp)
  \/ \E l \in LoginIds : Answered(l) /\ \E from \in RestoredFrom(logins[l].req.sp) :
       \/ ReceiveArtifact(l, from)
       \/ \E signed \in BOOLEAN, damage \in Damage : ReceiveResponse(l, from, signed, damage)
  \/ \E c \in resolving, signed \in BOOLEAN :
       \/ ResolveArtifact(c, signed)
       \/ \E damage \in Damage : ReceiveArtifactResponse(c, signed, damage)
  \/ \E c \in resolving : LoseSoapCall(c)

Spec == Init /\ [][Next]_vars

-----------------------------------------------------------------------------
(* Properties *)

\* Login objects, federations and sessions keep their types.
TypeOK ==
  /\ requests \in [RequestIds -> Wishes \cup {NoRequest}]
  /\ logins \in [LoginIds -> Login \cup {NoLogin}]
  /\ federations \in [Sps -> NameIds \cup {NoNameID}]
  /\ idpSession \in Session
  /\ identityKnown \in BOOLEAN
  /\ resolving \subseteq [sp : Sps, from : RequestIds \cup {NoRequest}, artifact : LoginIds,
                         answered : BOOLEAN, login : LoginIds \cup {NoLogin}]
  /\ spSessions \in [Sps -> Session]
  /\ spFederation \in [Sps -> NameIds \cup {NoNameID}]
  /\ opened \subseteq [sp : Sps, login : LoginIds, own : BOOLEAN, intact : BOOLEAN,
                      again : BOOLEAN]
  /\ ended \subseteq LoginIds

\* A login object that sent a request opens a login only with an assertion
\* built for that request, although an artifact is answered with whatever
\* assertion another tab put into the session meanwhile
\* (lasso_login_process_response_status_and_assertion, build_response_msg).
AnswersOwnRequest == \A o \in opened : o.own

\* The identity provider can log out a login: its session lists the
\* NameIdentifier and the SessionIndex, whatever other logins of the provider
\* were granted or refused meanwhile, and whether the assertion came by POST or
\* from the session.  The exception is a login answered before the identity
\* provider logged its provider out, even when the answer is delivered, or the
\* artifact resolved, after that (build_response_msg falls back on the
\* assertion stored with the artifact): the session knows it no more.
LogoutReachesLogins ==
  \A o \in opened :
    o.sp \in WithSlo =>
      EntryOf(logins[o.login].assertion) \in idpSession.nids[o.sp] \/ o.login \in ended

\* After a logout at the identity provider, an assertion from before it can
\* only come from the artifact it was stored with: no SOAP request of another
\* tab gets it from the session (lasso_login_build_response_msg, which looks at
\* the session first, against lasso_session_remove_assertion).
StoredForItself ==
  [][\A c \in resolving' \ resolving :
       c.answered /\ c.login \in ended => c.login = c.artifact]_vars

\* What enters a session is the assertion the identity provider issued, not a
\* damaged copy (process_authn_response_msg, process_response_msg).
AssertionIntact == \A o \in opened : o.intact

\* A service provider gets a name it can recognise later only if the
\* principal agreed, or the provider said so, in this or in an earlier login
\* (must_ask_for_consent_private, process_federation).
NamedByConsent ==
  \A l \in LoginIds :
    (Answered(l) /\ logins[l].success /\ logins[l].assertion.nid[1] = "federated") =>
      \E k \in LoginIds :
        /\ Answered(k) /\ logins[k].req.sp = logins[l].req.sp
        /\ logins[k].consent \/ logins[k].req.consented

\* An assertion opens one login, however often the browser delivers it: the
\* documentation of lasso_login_accept_sso promises
\* LASSO_LOGIN_ERROR_ASSERTION_REPLAY.
OpenedOnce == \A o \in opened : ~ o.again
=============================================================================
