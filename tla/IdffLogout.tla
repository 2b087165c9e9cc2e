----------------------------- MODULE IdffLogout -----------------------------
(***************************************************************************)
(* Single logout, Liberty ID-FF 1.2: the functions of                      *)
(* lasso/id-ff/logout.c on the path that is not SAML 2.0.  The library     *)
(* itself removes the assertion of a provider that has answered, and puts  *)
(* the initial request and response back when no assertion is left.        *)
(***************************************************************************)
EXTENDS LogoutProfile

CONSTANTS
  FederatedNames,   \* [Providers -> SUBSET NameIds]: the name identifiers of
                    \* the principal's federation with a provider
  Signatures        \* how a response may be signed

\* A request as the receiver sees it: its ProviderID, NameIdentifier, whether
\* that has the federated format, its binding, and whether it is well signed.
LogoutRequest ==
  [from : Providers, nid : NameIds, federated : BOOLEAN, method : Methods, sig : BOOLEAN]

Statuses ==
  {"Success", "RequestDenied", "FederationDoesNotExist", "UnsupportedProfile", "Failure"}

ASSUME IdffLogoutInputs ==
  /\ FederatedNames \in [Providers -> SUBSET NameIds]
  /\ Signatures \subseteq {"none", "valid", "bad"}
  /\ Requests \subseteq LogoutRequest
  /\ Answers \subseteq Statuses

-----------------------------------------------------------------------------
(* The request *)

\* lasso_logout_process_request_msg.  The signature status is kept for
\* validate_request, and only lasso_logout_init_request sets the initial
\* method.
ProcessRequestMsg(r) ==
  /\ pc = "idle"
  /\ lo' = [lo EXCEPT !.remote = r.from, !.request = r.from, !.method = r.method]
  /\ req' = r
  /\ pc' = "validate"
  /\ UNCHANGED <<sess, cur, final, history>>

\* check_soap_support over the providers of the server.
AllSoap(s, from) ==
  \A p \in Providers \ {from} : s.assertions[p] # NoAssertion => p \in SoapSlo

\* The status lasso_logout_validate_request gives the response.
ValidationStatus(r, s) ==
  CASE ~ r.sig -> "InvalidSignature"
    [] r.sig /\ s.assertions[r.from] = NoAssertion -> "RequestDenied"
    [] r.sig /\ s.assertions[r.from] # NoAssertion /\ r.federated
         /\ r.nid \notin FederatedNames[r.from] -> "FederationDoesNotExist"
    [] OTHER -> IF r.from \notin IdPs /\ r.method = "SOAP" /\ ~ AllSoap(s, r.from)
                THEN "UnsupportedProfile"
                ELSE "Success"

ValidateRequest ==
  /\ pc = "validate"
  /\ LET status    == ValidationStatus(req, sess)
         responded == [lo EXCEPT !.response = Response(Local, status)]
     IN  IF status = "Success"
         THEN /\ sess' = RemoveAssertion(sess, req.from)
              /\ lo' = IF req.from \notin IdPs /\ CountAssertions(sess') >= 1
                       THEN SaveInitial(responded)
                       ELSE responded
              /\ pc' = IF req.from \in IdPs THEN "respond" ELSE "traverse"
         ELSE /\ lo' = responded
              /\ pc' = "respond"
              /\ UNCHANGED sess
  /\ UNCHANGED <<req, cur, final, history>>

-----------------------------------------------------------------------------
(* The traversal *)

\* A provider that takes no logout at all is logged out on the spot, and the
\* response for the requester is made ready.
LastResort(l) ==
  IF l.iremote # None /\ l.irequest # None
  THEN [l EXCEPT !.remote = l.iremote, !.response = Response(Local, "Success")]
  ELSE l

\* lasso_logout_init_request.  "if logout request from a SP and if an HTTP
\* Redirect/GET method, then remove assertion".
InitRequest(m) ==
  LET asked == [lo EXCEPT !.remote = cur] IN
  /\ pc = "ask"
  /\ \/ /\ sess.first[cur] = NoNameID
        /\ lo' = asked
        /\ pc' = "traverse"
        /\ UNCHANGED sess
     \/ /\ sess.first[cur] # NoNameID /\ ~ Accepts(cur, m)
        /\ sess' = IF m = "REDIRECT" THEN RemoveAssertion(sess, cur) ELSE sess
        /\ lo' = IF m = "REDIRECT" THEN LastResort(asked) ELSE asked
        /\ pc' = "traverse"
     \/ /\ sess.first[cur] # NoNameID /\ Accepts(cur, m)
        /\ sess' = IF m = "REDIRECT" /\ cur \in IdPs THEN RemoveAssertion(sess, cur) ELSE sess
        /\ lo' = [asked EXCEPT !.imethod = m, !.request = Local]
        /\ pc' = IF m = "SOAP" THEN "call" ELSE "redirect"
  /\ tried' = tried \cup {cur}
  /\ UNCHANGED <<req, cur, final, targets, redirected, confirmed, partly>>

\* "verify signature": only a response without any signature is looked at.
Examined(sig) == sig = "none"

\* An identity provider that cannot take the request over SOAP gets it again
\* by HTTP-Redirect.
Rebuilt(p, status) ==
  status = "UnsupportedProfile" /\ p \in IdPs /\ lo.imethod = "SOAP"

\* The answers that say the principal is, or was already, logged out.
Settling == {"Success", "RequestDenied", "FederationDoesNotExist"}

\* The answers after which the assertion of p goes; "via" is the binding of
\* the response.
Removes(p, status, via) ==
  \/ status = "Success" /\ (via = "SOAP" \/ p \notin IdPs)
  \/ status \in {"RequestDenied", "FederationDoesNotExist"}
  \/ Rebuilt(p, status)

\* Mutants: the assertions are not counted, or one too many is waited for.
RestoresInitialEarly(l, s, p) == l.iremote # None /\ p \notin IdPs
RestoresInitialOffByOne(l, s, p) == l.iremote # None /\ CountAssertions(s) < 0 /\ p \notin IdPs

\* "If at IDP and if there is no more assertion, IDP has logged out every
\* SPs, return the initial response to initial SP."  The role that is tested
\* is the one of the provider that has just answered.
RestoresInitial(l, s, p) ==
  l.iremote # None /\ CountAssertions(s) <= 0 /\ p \notin IdPs

\* lasso_logout_process_response_msg
ProcessResponseMsg(p, status, sig) ==
  LET via  == IF pc = "call" THEN "SOAP" ELSE "REDIRECT"
      read == [lo EXCEPT !.remote = p, !.response = Response(p, status)]
  IN
  /\ CanAnswer(p)
  /\ sess' = IF Examined(sig) /\ Removes(p, status, via) THEN RemoveAssertion(sess, p) ELSE sess
  /\ lo' = IF Examined(sig) /\ status = "Success" /\ RestoresInitial(lo, sess', p)
           THEN TransferInitial(read)
           ELSE read
  /\ cur' = p
  /\ confirmed' = IF Examined(sig) /\ status \in Settling THEN confirmed \cup {p} ELSE confirmed
  /\ pc' = CASE Examined(sig) /\ Rebuilt(p, status) -> "redirect"
             [] sig = "valid" \/ (Examined(sig) /\ status = "Success") -> "accepted"
             [] OTHER -> "failed"
  /\ UNCHANGED <<req, final, targets, tried, redirected, partly>>

\* The application goes on with the next provider.
Continue ==
  /\ pc \in {"accepted", "failed"}
  /\ pc' = "traverse"
  /\ UNCHANGED <<sess, lo, req, cur, final, history>>

-----------------------------------------------------------------------------
(* The response *)

\* Mutant: a missing remote provider is not noticed.
BuildResponseMsgUnchecked ==
  /\ pc = "respond"
  /\ lo' = IF lo.response = None
           THEN [lo EXCEPT !.response = Response(Local, "RequestDenied")]
           ELSE lo
  /\ final' = [to |-> lo'.remote, by |-> lo'.response.by,
               status |-> lo'.response.status, method |-> lo'.method]
  /\ pc' = "done"
  /\ UNCHANGED <<sess, req, cur, history>>

\* lasso_logout_build_response_msg.  No message comes out when no provider is
\* set, and when there is neither a response nor a request to answer: the
\* response is then made from a NULL request.
BuildResponseMsg ==
  /\ pc = "respond"
  /\ lo' = IF lo.response = None /\ lo.request # None
           THEN [lo EXCEPT !.response = Response(Local, "RequestDenied")]
           ELSE lo
  /\ final' = IF lo'.remote = None \/ lo'.response = None
              THEN None
              ELSE [to |-> lo'.remote, by |-> lo'.response.by,
                    status |-> lo'.response.status, method |-> lo'.method]
  /\ pc' = "done"
  /\ UNCHANGED <<sess, req, cur, history>>

Next ==
  \/ \E r \in Requests : ProcessRequestMsg(r)
  \/ ValidateRequest
  \/ Refuse
  \/ StartLocally
  \/ ResetProviderIDIndex
  \/ GetNextProviderID
  \/ \E m \in AskMethods : InitRequest(m)
  \/ Redirect
  \/ NoAnswer
  \/ \E p \in Providers, status \in Answers, sig \in Signatures :
       ProcessResponseMsg(p, status, sig)
  \/ Continue
  \/ BuildResponseMsg
  \/ Done

Spec == Init /\ [][Next]_vars

-----------------------------------------------------------------------------
(***************************************************************************)
(* RestoredOnlyWhenDone: the initial response replaces the one of the      *)
(* provider that answered last only when "there is no more assertion"      *)
(* (lasso_logout_process_response_msg): at that moment no provider is left *)
(* in the session, and every one that was in it when the logout began has  *)
(* been tried.                                                             *)
(***************************************************************************)
RestoredOnlyWhenDone ==
  [][lo.iremote # None /\ lo'.iremote = None =>
       /\ SloProviders(sess') = {} /\ StoredProviders(sess') = {}
       /\ targets \ {req.from} \subseteq tried]_vars

(***************************************************************************)
(* SuccessMeansSettled: a Success of the local provider reaches the        *)
(* service provider that asked only after every other service provider has *)
(* confirmed the logout or denied that the principal was logged in.  (An   *)
(* identity provider is dropped from the session when it is asked.)        *)
(***************************************************************************)
SuccessMeansSettled ==
  /\ final # None /\ final.by = Local /\ final.status = "Success"
  /\ req.from \notin IdPs /\ final.to = req.from
  => targets \ (IdPs \cup {req.from}) \subseteq confirmed

(***************************************************************************)
(* AnsweredWhenEmpty: "if there is no more assertion, IDP has logged out   *)
(* every SPs, return the initial response to initial SP"                   *)
(* (id-ff/logout.c:861).  Whatever the other service providers answered,   *)
(* however it was signed and by whichever binding they were asked, a       *)
(* logout that ends with an empty session sends the local provider's       *)
(* answer to the requester, by the binding of the request.  One case is    *)
(* excepted because the code loses the answer in it: the last answer was   *)
(* RequestDenied or FederationDoesNotExist, which empties the session      *)
(* without restoring the initial response (:836).  An identity provider    *)
(* among the others is dropped when it is asked, and is left out.          *)
(***************************************************************************)
AnsweredWhenEmpty ==
  pc = "done" /\ req # None /\ CountAssertions(sess) = 0 /\ targets \cap IdPs = {} =>
    \/ /\ final # None
       /\ final.to = req.from /\ final.by = Local /\ final.method = req.method
    \/ lo.response.by # Local /\ lo.response.status \in {"RequestDenied", "FederationDoesNotExist"}

\* The contract as an ID-FF logout keeps it: an identity provider is not
\* waited for.
Promise == INSTANCE SloContract WITH waiting <- Waiting \ IdPs, phase <- Phase

(***************************************************************************)
(* KeepsPromise: for every kind of answer, signature and binding, the      *)
(* logout implements the safety part of SloContract: no Success while a    *)
(* service provider is still waited for, and at most one answer            *)
(* (lasso_logout_validate_request to lasso_logout_build_response_msg).     *)
(***************************************************************************)
KeepsPromise == Promise!Safety
=============================================================================
