---------------------------- MODULE LogoutProfile ----------------------------
(***************************************************************************)
(* The part of a single logout that the two protocols share: the public    *)
(* functions of lasso/id-ff/logout.c that do not look at the protocol, and *)
(* the application that drives a LassoLogout object the way the            *)
(* documentation of the class shows: process and validate the request,     *)
(* walk the session with lasso_logout_get_next_providerID, send a request  *)
(* to each provider and process its response, and at the end build the     *)
(* response.                                                               *)
(*                                                                         *)
(* The local provider is usually an identity provider that logs a          *)
(* principal out of every service provider of the session, because one of  *)
(* them asked for it or on its own.  A provider reached by SOAP answers in *)
(* the same HTTP request, or the call fails.  One reached by HTTP-Redirect *)
(* answers in a later request: the session and the logout object are       *)
(* dumped meanwhile, and the user agent may deliver an answer more than    *)
(* once, after answers to later requests, or never.                        *)
(***************************************************************************)
EXTENDS LogoutOps

CONSTANTS
  LoginOf,      \* [Providers -> Assertion]: what a login at a provider leaves
  Requests,     \* the logout requests that may arrive
  Answers,      \* the statuses the other providers may answer with
  AskMethods    \* the bindings the application asks the others with

\* What lasso_logout_build_response_msg sends: where to, and by which binding.
Messages ==
  [to : Providers, by : Providers \cup {Local}, status : StatusCodes, method : Methods]

ASSUME LogoutInputs ==
  /\ LoginOf \in [Providers -> Assertion]
  /\ \A r \in Requests : r.from \in Providers /\ r.method \in Methods
  /\ AskMethods \subseteq Methods
  /\ None \notin Requests /\ None \notin Messages

VARIABLES
  sess,       \* profile->session
  lo,         \* the LassoLogout object
  pc,         \* where the application is
  req,        \* the request being served, None when the logout is local
  cur,        \* the provider lasso_logout_get_next_providerID returned
  final,      \* the message lasso_logout_build_response_msg produced
  (* history *)
  targets,    \* the providers with an assertion when the logout began
  tried,      \* the ones a request was built or attempted for
  redirected, \* the ones the user agent was sent to with a request
  confirmed,  \* the ones that answered Success
  partly      \* the ones of them that called their own logout partial

vars == <<sess, lo, pc, req, cur, final, targets, tried, redirected, confirmed, partly>>
history == <<targets, tried, redirected, confirmed, partly>>

\* The session of a principal logged in at the providers of L, as restored
\* from the application's dump.
SessionWith(L) ==
  Restore([EmptySession EXCEPT
             !.assertions = [p \in Providers |-> IF p \in L THEN LoginOf[p] ELSE NoAssertion]])

Init ==
  /\ \E L \in SUBSET Providers :
       /\ sess = SessionWith(L)
       /\ targets = L
  /\ lo = NewLogout
  /\ pc = "idle"
  /\ req = None
  /\ cur = None
  /\ final = None
  /\ tried = {} /\ redirected = {} /\ confirmed = {} /\ partly = {}

-----------------------------------------------------------------------------
(* The request *)

\* The application does not accept the request ("if (request is accepted)").
Refuse ==
  /\ pc = "validate"
  /\ pc' = "respond"
  /\ UNCHANGED <<sess, lo, req, cur, final, history>>

\* A logout the local provider starts itself.
StartLocally ==
  /\ pc = "idle"
  /\ pc' = "traverse"
  /\ UNCHANGED <<sess, lo, req, cur, final, history>>

-----------------------------------------------------------------------------
(* The traversal *)

\* lasso_logout_reset_providerID_index, before the traversal.
ResetProviderIDIndex ==
  /\ pc \in {"validate", "traverse"}
  /\ lo.index = 0
  /\ sess' \in InitProviderIds(sess)
  /\ lo' = [lo EXCEPT !.index = 0]
  /\ UNCHANGED <<pc, req, cur, final, history>>

GetNextProviderID ==
  /\ pc = "traverse"
  /\ sess' \in AfterProviderIndex(sess)
  /\ cur' = NextProvider(lo, sess')
  /\ lo' = AfterNextProvider(lo, sess')
  /\ pc' = IF cur' # None THEN "ask" ELSE IF req = None THEN "done" ELSE "respond"
  /\ UNCHANGED <<req, final, history>>

\* The application saves both objects and redirects the user agent.
Redirect ==
  /\ pc = "redirect"
  /\ sess' = Restore(Dump(sess))
  /\ lo' = RestoreLogout(lo)
  /\ redirected' = redirected \cup {cur}
  /\ pc' = "away"
  /\ UNCHANGED <<req, cur, final, targets, tried, confirmed, partly>>

\* The SOAP call fails.
NoAnswer ==
  /\ pc = "call"
  /\ pc' = "traverse"
  /\ UNCHANGED <<sess, lo, req, cur, final, history>>

\* A response of p can reach the application: the one of the provider being
\* called, or one the user agent brings back.
CanAnswer(p) == (pc = "call" /\ p = cur) \/ (pc = "away" /\ p \in redirected)

Done == pc = "done" /\ UNCHANGED vars

-----------------------------------------------------------------------------
(* The contract this logout implements, seen by the requester *)

\* The requester itself is logged out when its request is validated.  A
\* provider that confirms its own logout is not waited for, even when it says
\* that it could not reach everybody behind it.
Waiting ==
  { p \in targets \ confirmed :
      ~ (req # None /\ p = req.from /\ ~ RemoveAssertionOk(sess, p)) }

\* The request of an identity provider is not propagated.
Phase ==
  IF req = None \/ (req # None /\ req.from \in IdPs) THEN "idle"
  ELSE IF final = None THEN "serving"
  ELSE IF final.status = "Success" /\ final.to = req.from THEN "success" ELSE "other"

Contract == INSTANCE SloContract WITH waiting <- Waiting, phase <- Phase

(***************************************************************************)
(* KeepsContract: the logout object, driven by the application, implements *)
(* SloContract for service providers: no Success while a provider is still *)
(* waited for, one answer, and always an answer                            *)
(* (lasso_logout_validate_request to lasso_logout_build_response_msg).     *)
(* Of an ID-FF logout only a part of it holds: see IdffLogout.             *)
(***************************************************************************)
KeepsContract == Contract!Spec

-----------------------------------------------------------------------------
Pcs == {"idle", "validate", "traverse", "ask", "call", "redirect", "away",
        "accepted", "failed", "respond", "done"}

(***************************************************************************)
(* TypeOK: the tables of the session, the fields of the logout object and  *)
(* the application's progress have the types of the C declarations.        *)
(***************************************************************************)
TypeOK ==
  /\ sess \in Session
  /\ lo \in Logout
  /\ pc \in Pcs
  /\ req \in Requests \cup {None}
  /\ cur \in Providers \cup {None}
  /\ final \in Messages \cup {None}
  /\ targets \subseteq Providers /\ tried \subseteq Providers
  /\ redirected \subseteq tried /\ confirmed \subseteq tried /\ partly \subseteq confirmed

(***************************************************************************)
(* AnswersTheRequester: whatever the other providers answered, in whatever *)
(* order and however often, the response goes to the provider that sent    *)
(* the request, is the local provider's own, and uses the binding of the   *)
(* request (lasso_saml20_logout_build_response_msg; an ID-FF logout has    *)
(* AnsweredWhenEmpty instead).                                             *)
(***************************************************************************)
AnswersTheRequester ==
  final # None => final.to = req.from /\ final.by = Local /\ final.method = req.method

(***************************************************************************)
(* WholeSessionTried: when the traversal is over every provider that is    *)
(* still in the session's logout table has been tried.  The cached list,   *)
(* the index into it, the skipped requester and the removals in between    *)
(* do not make lasso_logout_get_next_providerID miss one.                  *)
(***************************************************************************)
WholeSessionTried ==
  pc = "respond" /\ lo.index > 0 => SloProviders(sess) \subseteq tried

(***************************************************************************)
(* AskedOnce: lasso_logout_get_next_providerID returns no provider twice,  *)
(* nor, "with the exception of initial service provider ID", the           *)
(* requester, even from a list cached before its assertion was removed.    *)
(***************************************************************************)
AskedOnce ==
  pc = "ask" => cur \notin tried /\ (req # None => cur # req.from)

(***************************************************************************)
(* InitialKept: from the moment a service provider's request is validated  *)
(* until the response is built, its name and the local response are either *)
(* in the profile or put aside, whatever init_request and                  *)
(* process_response_msg overwrite.                                         *)
(***************************************************************************)
InitialKept ==
  req # None /\ pc \in {"traverse", "ask", "call", "redirect", "away", "accepted", "failed"} =>
    \/ lo.iremote = req.from /\ lo.iresponse = Response(Local, "Success")
    \/ lo.iremote = None /\ SloProviders(sess) = {}

(***************************************************************************)
(* LogoutEnds: a request that is being validated is eventually answered    *)
(* when the other providers are asked over SOAP: the traversal is finite.  *)
(***************************************************************************)
LogoutEnds == pc = "validate" ~> pc = "done"

(***************************************************************************)
(* AnsweredIsRemoved: lasso_logout_process_response_msg documents "If it   *)
(* is a SOAP method or, IDP type and http method is Redirect/GET, then     *)
(* removes assertion" (id-ff/logout.c:729).                                *)
(***************************************************************************)
AnsweredIsRemoved == pc = "accepted" => ~ RemoveAssertionOk(sess, cur)
=============================================================================
