------------------------------ MODULE LogoutOps ------------------------------
(***************************************************************************)
(* What the ID-FF 1.2 and the SAML 2.0 single logout have in common: the   *)
(* LassoLogout object (lasso/id-ff/logout.h, logout.c), the traversal of   *)
(* the session, the saving and restoring of the initial request and        *)
(* response, and the dump of the object.                                   *)
(***************************************************************************)
EXTENDS SessionOps

CONSTANTS
  IdPs,       \* the providers whose role is IDP; the others are SPs
  SoapSlo,    \* the providers whose metadata offer single logout over SOAP
  HttpSlo,    \* the ones that offer it over HTTP-Redirect
  None,       \* a NULL pointer
  Local       \* the issuer of the messages the local provider builds

Methods == {"SOAP", "REDIRECT"}

\* lasso_provider_accept_http_method for the single logout profile.
Accepts(p, m) == p \in (IF m = "SOAP" THEN SoapSlo ELSE HttpSlo)

\* The status of a response as one code, for either protocol: the
\* second-level code, which tells a "Partial" logout and the ways to fail
\* apart, or "Success"; "Unverified" is a Success without a valid signature.
StatusCodes ==
  {"Success", "Partial", "FailPartial", "RequestDenied", "UnknownPrincipal", "Failure",
   "Unverified", "FederationDoesNotExist", "UnsupportedProfile", "InvalidSignature"}

\* A logout response is reduced to the provider that issued it and its
\* (second-level) status.
Response(by, status) == [by |-> by, status |-> status]

Responses == [by : Providers \cup {Local}, status : StatusCodes]

ASSUME RolesAreTyped ==
  /\ IdPs \subseteq Providers
  /\ SoapSlo \subseteq Providers
  /\ HttpSlo \subseteq Providers
  /\ None \notin Providers /\ Local \notin Providers /\ None # Local
  /\ None \notin Responses

\* lasso_logout_new.  "remote", "request", "response" and "method" are the
\* remote_providerID, request, response and http_request_method of the
\* profile; "i..." are the initial_... fields; a request is reduced to the
\* provider that issued it.
NewLogout ==
  [remote    |-> None,
   request   |-> None,
   response  |-> None,
   method    |-> None,
   iremote   |-> None,
   irequest  |-> None,
   iresponse |-> None,
   imethod   |-> None,
   index     |-> 0,
   partial   |-> FALSE]

Logout ==
  [remote    : Providers \cup {None},
   request   : Providers \cup {Local, None},
   response  : Responses \cup {None},
   method    : Methods \cup {None},
   iremote   : Providers \cup {None},
   irequest  : Providers \cup {Local, None},
   iresponse : Responses \cup {None},
   imethod   : Methods \cup {None},
   index     : Nat,
   partial   : BOOLEAN]

\* Mutant: the response is not put aside.
SaveInitialForgets(lo) ==
  [lo EXCEPT !.iremote = lo.remote, !.irequest = lo.request,
             !.remote  = None,      !.request  = None,       !.response = None]

\* The requester's name, request and response are put aside while the other
\* service providers are logged out ...
SaveInitial(lo) ==
  [lo EXCEPT !.iremote  = lo.remote,  !.irequest  = lo.request,  !.iresponse = lo.response,
             !.remote   = None,       !.request   = None,        !.response  = None]

\* ... and taken back.
TransferInitial(lo) ==
  [lo EXCEPT !.remote   = lo.iremote, !.request   = lo.irequest, !.response  = lo.iresponse,
             !.iremote  = None,       !.irequest  = None,        !.iresponse = None]

-----------------------------------------------------------------------------
(* lasso_logout_get_next_providerID, in the session s that               *)
(* lasso_session_get_provider_index leaves behind: the provider at the    *)
(* index, or the one after it when that is the requester itself.          *)

Skips(lo, s) ==
  lo.iremote # None /\ ProviderIndex(s, lo.index, None) = lo.iremote

\* Mutant: the requester is not skipped.
NextProviderNoSkip(lo, s) == ProviderIndex(s, lo.index, None)

NextProvider(lo, s) ==
  ProviderIndex(s, IF Skips(lo, s) THEN lo.index + 1 ELSE lo.index, None)

\* Mutants: the index moves too far, or not at all.
AfterNextProviderTwice(lo, s) == [lo EXCEPT !.index = @ + 2]
AfterNextProviderStuck(lo, s) == lo

AfterNextProvider(lo, s) ==
  [lo EXCEPT !.index = IF Skips(lo, s) THEN @ + 2 ELSE @ + 1]

-----------------------------------------------------------------------------
(* lasso_logout_dump and lasso_logout_new_from_dump: the index is left out *)
(* on purpose; the partial flag is written as "PartialLogout" and read     *)
(* back as "PartiaLogout", so it never survives.                           *)
RestoreLogout(lo) == [lo EXCEPT !.index = 0, !.partial = FALSE]
=============================================================================
