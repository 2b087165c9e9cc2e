----------------------------- MODULE Saml2Logout -----------------------------
(***************************************************************************)
(* Single logout, SAML 2.0: lasso/saml-2.0/logout.c behind the public      *)
(* functions of lasso/id-ff/logout.c, on top of the request and response   *)
(* functions of lasso/saml-2.0/profile.c.                                  *)
(***************************************************************************)
EXTENDS LogoutProfile

CONSTANTS
  AppRemoves    \* "never" | "success" | "always": after which answers the
                \* application itself removes the provider's assertion

\* A request as the receiver sees it: its Issuer, NameID, SessionIndexes and
\* binding, and whether its signature could be verified.
LogoutRequest ==
  [from : Providers, nid : NameIds \cup {NoNameID}, sidxs : SUBSET SessionIndexes,
   method : Methods, sig : BOOLEAN]

\* Status of a response.  "Partial" is second-level PartialLogout under a
\* top-level Success, as lasso builds it; "FailPartial" is the same under a
\* top-level failure; "Unverified" is a Success without a valid signature.
Statuses ==
  {"Success", "Partial", "FailPartial", "RequestDenied", "UnknownPrincipal",
   "Failure", "Unverified"}

ASSUME Saml2LogoutInputs ==
  /\ Requests \subseteq LogoutRequest
  /\ Answers \subseteq Statuses
  /\ AppRemoves \in {"never", "success", "always"}

-----------------------------------------------------------------------------
(* The request *)

\* lasso_saml20_logout_process_request_msg.  On a bad signature it fails, and
\* the application answers without validating.
ProcessRequestMsg(r) ==
  /\ pc = "idle"
  /\ lo' = [lo EXCEPT !.remote = r.from, !.request = r.from,
                      !.method = r.method, !.imethod = r.method]
  /\ req' = r
  /\ pc' = IF r.sig THEN "validate" ELSE "respond"
  /\ UNCHANGED <<sess, cur, final, history>>

\* check_soap_support over the providers of the server.
AllSoap(s, from) ==
  \A p \in Providers \ {from} : HasSloSession(s, p) => p \in SoapSlo

\* The status lasso_saml20_logout_validate_request gives the response.
ValidationStatus(r, s) ==
  LET known == SessionIndexesOf(s, r.from, r.nid) IN
  CASE r.nid = NoNameID -> "FederationDoesNotExist"
    [] r.nid # NoNameID /\ known = {} -> "RequestDenied"
    [] known # {} /\ ~ (r.from \in IdPs /\ r.sidxs = {}) /\ r.sidxs \cap known = {}
         -> "RequestDenied"
    [] OTHER -> IF r.from \notin IdPs /\ r.method = "SOAP" /\ ~ AllSoap(s, r.from)
                THEN "UnsupportedProfile"
                ELSE "Success"

ValidateRequest ==
  /\ pc = "validate"
  /\ LET status    == ValidationStatus(req, sess)
         responded == [lo EXCEPT !.response = Response(Local, status)]
     IN  IF status = "Success"
         THEN /\ sess' = RemoveAssertion(sess, req.from)
              /\ lo' = IF req.from \notin IdPs /\ CountAssertions(sess') >= 1
                       THEN SaveInitial(responded)
                       ELSE responded
              /\ pc' = IF req.from \in IdPs THEN "respond" ELSE "traverse"
         ELSE /\ lo' = responded
              /\ pc' = "respond"
              /\ UNCHANGED sess
  /\ UNCHANGED <<req, cur, final, history>>

-----------------------------------------------------------------------------
(* The traversal *)

\* lasso_saml20_logout_init_request.  The request object is installed in the
\* profile before the binding and the NameID are found to be missing.
InitRequest(m) ==
  /\ pc = "ask"
  /\ lo' = [lo EXCEPT !.remote = cur, !.method = m, !.request = Local]
  /\ tried' = tried \cup {cur}
  /\ pc' = IF Accepts(cur, m) /\ sess.first[cur] # NoNameID
           THEN IF m = "SOAP" THEN "call" ELSE "redirect"
           ELSE "traverse"
  /\ UNCHANGED <<sess, req, cur, final, targets, redirected, confirmed, partly>>

\* Mutant: whether anything was put aside is not tested.
RestoreInitialStateUnguarded(l, s) == TransferInitial(l)

\* Mutant: the assertions that are left are not counted.
RestoreInitialStateFlagOnly(l, s) ==
  IF l.iremote = None
  THEN l
  ELSE LET t == TransferInitial(l) IN
       IF t.partial THEN [t EXCEPT !.partial = FALSE, !.response = Response(@.by, "Partial")] ELSE t

\* lasso_saml20_logout_restore_initial_state
RestoreInitialState(l, s) ==
  IF l.iremote = None
  THEN l
  ELSE LET t == TransferInitial(l) IN
       IF t.partial \/ CountAssertions(s) > 0
       THEN [t EXCEPT !.partial = FALSE, !.response = Response(@.by, "Partial")]
       ELSE t

\* What lasso_saml20_logout_process_response_msg returns.  The generic
\* response code turns a second-level RequestDenied into an error of its own
\* before the logout code looks for STATUS_NOT_SUCCESS.
ResponseRc(status) ==
  CASE status \in {"Success", "Partial"} -> "OK"
    [] status = "Unverified"             -> "CANNOT_VERIFY_SIGNATURE"
    [] status = "RequestDenied"          -> "PROFILE_REQUEST_DENIED"
    [] status = "FailPartial"            -> "PARTIAL_LOGOUT"
    [] status = "UnknownPrincipal"       -> "UNKNOWN_PRINCIPAL"
    [] OTHER                             -> "STATUS_NOT_SUCCESS"

\* The loop that sets the partial flag is entered only for STATUS_NOT_SUCCESS
\* as the generic code returns it.
MarksPartial(status) == status \in {"FailPartial", "UnknownPrincipal", "Failure"}

\* lasso_saml20_logout_process_response_msg.  No assertion is removed.
AfterResponse(l, s, p, status) ==
  LET read   == [l EXCEPT !.remote = p, !.response = Response(p, status)]
      marked == IF MarksPartial(status) THEN [read EXCEPT !.partial = TRUE] ELSE read
  IN  IF CountAssertions(s) = 0 THEN RestoreInitialState(marked, s) ELSE marked

ProcessResponseMsg(p, status) ==
  /\ CanAnswer(p)
  /\ lo' = AfterResponse(lo, sess, p, status)
  /\ cur' = p
  /\ confirmed' = IF ResponseRc(status) = "OK" THEN confirmed \cup {p} ELSE confirmed
  /\ partly' = IF status = "Partial" THEN partly \cup {p} ELSE partly
  /\ pc' = IF ResponseRc(status) = "OK" THEN "accepted" ELSE "failed"
  /\ UNCHANGED <<sess, req, final, targets, tried, redirected>>

\* The application goes on, and may remove the assertion of the provider that
\* answered with lasso_session_remove_assertion.
Continue ==
  /\ pc \in {"accepted", "failed"}
  /\ sess' = IF AppRemoves = "always" \/ (AppRemoves = "success" /\ pc = "accepted")
             THEN RemoveAssertion(sess, cur)
             ELSE sess
  /\ pc' = "traverse"
  /\ UNCHANGED <<lo, req, cur, final, history>>

-----------------------------------------------------------------------------
(* The response *)

\* Mutant: the binding is the one of the last request sent.
BuildResponseMsgLastMethod ==
  /\ pc = "respond"
  /\ LET restored == RestoreInitialState(lo, sess)
     IN  lo' = IF restored.response = None
               THEN [restored EXCEPT !.response = Response(Local, "RequestDenied")]
               ELSE restored
  /\ final' = [to |-> lo'.remote, by |-> lo'.response.by,
               status |-> lo'.response.status, method |-> lo'.method]
  /\ pc' = "done"
  /\ UNCHANGED <<sess, req, cur, history>>

\* lasso_saml20_logout_build_response_msg
BuildResponseMsg ==
  /\ pc = "respond"
  /\ LET restored == RestoreInitialState(lo, sess)
         denied   == IF req.sig THEN "RequestDenied" ELSE "InvalidSignature"
     IN  lo' = IF restored.response = None
               THEN [restored EXCEPT !.response = Response(Local, denied)]
               ELSE restored
  /\ final' = [to |-> lo'.remote, by |-> lo'.response.by,
               status |-> lo'.response.status, method |-> lo'.imethod]
  /\ pc' = "done"
  /\ UNCHANGED <<sess, req, cur, history>>

Next ==
  \/ \E r \in Requests : ProcessRequestMsg(r)
  \/ ValidateRequest
  \/ Refuse
  \/ StartLocally
  \/ ResetProviderIDIndex
  \/ GetNextProviderID
  \/ \E m \in AskMethods : InitRequest(m)
  \/ Redirect
  \/ NoAnswer
  \/ \E p \in Providers, status \in Answers : ProcessResponseMsg(p, status)
  \/ Continue
  \/ BuildResponseMsg
  \/ Done

\* The handler of the application runs to its end: each step that follows
\* from the previous one is taken, a SOAP call returns or fails, and a user
\* agent sent away comes back.
Fairness ==
  /\ WF_vars(ValidateRequest \/ Refuse)
  /\ WF_vars(GetNextProviderID)
  /\ WF_vars(\E m \in AskMethods : InitRequest(m))
  /\ WF_vars(Redirect)
  /\ WF_vars(NoAnswer \/ \E p \in Providers, status \in Answers : ProcessResponseMsg(p, status))
  /\ WF_vars(Continue)
  /\ WF_vars(BuildResponseMsg)

Spec == Init /\ [][Next]_vars /\ Fairness

-----------------------------------------------------------------------------
(***************************************************************************)
(* SuccessMeansLoggedOut: a plain Success tells a service provider that    *)
(* every other provider with an assertion has confirmed its own logout;    *)
(* otherwise "if some of the logout failed, set a partial logout status    *)
(* code" (saml-2.0/logout.c:287).  A provider that answers PartialLogout   *)
(* under a top-level Success has confirmed: what it could not reach is the *)
(* subject of PartialIsReported.                                           *)
(***************************************************************************)
SuccessMeansLoggedOut ==
  final # None /\ final.status = "Success" /\ req.from \notin IdPs =>
    targets \ {req.from} \subseteq confirmed

(***************************************************************************)
(* PartialIsReported: "Partial logout response now produces a specific     *)
(* error code when parsed by lasso_logout_process_response_msg()"          *)
(* (NEWS:229), so that a service provider that gets a plain Success knows  *)
(* that no provider asked on its behalf reported a partial logout.         *)
(***************************************************************************)
PartialIsReported ==
  final # None /\ final.status = "Success" /\ req.from \notin IdPs => partly = {}
=============================================================================
