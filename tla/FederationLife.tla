---------------------------- MODULE FederationLife ----------------------------
(***************************************************************************)
(* The life of one federation between a service provider and an identity   *)
(* provider: logins create it or hand it over, name registration renames   *)
(* it and federation termination ends it, started by either side.  The     *)
(* two providers run the handlers of Saml2NameId or those of IdffNameId.   *)
(*                                                                         *)
(* Each handler runs in one HTTP request, loads the identity and the       *)
(* session and saves them when they are dirty.  Between the two providers  *)
(* messages travel through the browser or by SOAP: a request may arrive    *)
(* late, again or never, and so may an answer, to whichever object waits   *)
(* for one.  Requests and answers are therefore kept for ever.             *)
(***************************************************************************)
EXTENDS Saml2NameId, IdffNameId

CONSTANTS
  Protocols,      \* protocols the providers may speak
  NoExchange,     \* an unused exchange
  MaxLogins,      \* bound: assertions the identity provider issues
  MaxExchanges    \* bound: renames and terminations started

Exchanges == 1 .. MaxExchanges
Kinds == {"rename", "terminate"}

\* A request as its requester keeps it, with how it stands: served, an answer
\* was sent while it waited; fresh (history), nothing the receiver confirmed
\* was overtaken by a login.
Exchange ==
  [from : Parties, kind : Kinds, nid : Name \cup {NoName},
   new : Contents \cup {NoContent}, state : {"waiting", "done", "failed"},
   served : BOOLEAN, fresh : BOOLEAN]

ASSUME FederationConstants ==
  /\ Protocols \subseteq {"saml2", "idff"}
  /\ MaxLogins \in Nat /\ MaxExchanges \in Nat
  /\ Contents = 1 .. MaxLogins + MaxExchanges
  /\ NoExchange \notin Exchange

\* Every name is new: login l gives the name l, exchange e the name after them.
NameOf(e) == MaxLogins + e

VARIABLES
  protocol,    \* the protocol of this federation
  feds,        \* each provider's federation with the other
  inSession,   \* NameID of the assertion each keeps in its session
  logins,      \* number of assertions issued
  flight,      \* assertions on their way to the service provider
  exchanges,   \* the requests sent, and how they stand at the requester
  answers,     \* the answers sent, each with the exchange it belongs to
  agreed,      \* history: the names the last completed operation settled on
  disturbed    \* history: an operation returned an error, was repeated or met another

stores == <<feds, inSession>>
vars == <<protocol, stores, logins, flight, exchanges, answers, agreed, disturbed>>

Used(e) == exchanges[e] # NoExchange
Waiting(e) == Used(e) /\ exchanges[e].state = "waiting"

NoNames == [idp |-> NoContent, sp |-> NoContent]

\* The two histories of NamesAgree: once an operation went wrong, no names
\* are agreed on until a login starts with nothing under way.
Judge(bad, names) ==
  /\ disturbed' = bad
  /\ agreed' = IF bad THEN NoNames ELSE names

\* No operation is under way.
Quiet == flight = {} /\ \A e \in Exchanges : ~ Waiting(e)

Init ==
  /\ protocol \in Protocols
  /\ feds = [x \in Parties |-> NoFederation]
  /\ inSession = [x \in Parties |-> NoName]
  /\ logins = 0
  /\ flight = {}
  /\ exchanges = [e \in Exchanges |-> NoExchange]
  /\ answers = {}
  /\ agreed = NoNames
  /\ disturbed = FALSE

-----------------------------------------------------------------------------
(* Logins for a federated name *)

\* The names an assertion carries: the subject's NameID and, for ID-FF, the
\* IDPProvidedNameIdentifier that accompanies a name of the service provider
\* (lasso_lib_authentication_statement_new_full).
Subject(fed, l) ==
  IF protocol = "idff" /\ fed.remote # NoName
  THEN [login |-> l, nid |-> fed.remote, idp |-> fed.local]
  ELSE [login |-> l, nid |-> fed.local, idp |-> NoName]

\* The names the two providers share, as federation f of provider x has them:
\* that of the identity provider, and the one the service provider gave.
Shared(x, f) ==
  LET content(n) == IF n = NoName THEN NoContent ELSE n.content
  IN  IF f = NoFederation THEN NoNames
      ELSE IF protocol = "saml2" THEN [idp |-> content(f.local), sp |-> f.local.sp]
      ELSE IF x = "idp" THEN [idp |-> content(f.local), sp |-> content(f.remote)]
      ELSE [idp |-> content(f.remote), sp |-> content(f.local)]

\* History: what provider y confirmed earlier says nothing of the federation
\* a login has made or handed over since.
LoggedIn(y) ==
  /\ answers' = { [a EXCEPT !.fresh = @ /\ exchanges[a.of].from = y] : a \in answers }
  /\ exchanges' = [e \in Exchanges |->
       IF Used(e) /\ exchanges[e].from # y THEN [exchanges[e] EXCEPT !.fresh = FALSE]
       ELSE exchanges[e]]

\* lasso_login_process_federation and build_assertion, for either protocol.
IssueAssertion ==
  /\ logins < MaxLogins
  /\ logins' = logins + 1
  /\ LET fed == IF feds["idp"] = NoFederation THEN NewFederation(logins') ELSE feds["idp"]
         a   == Subject(fed, logins')
     IN  /\ feds' = [feds EXCEPT !["idp"] = fed]
         /\ inSession' = [inSession EXCEPT !["idp"] = a.nid]
         /\ flight' = flight \cup {a}
         /\ Judge(~ Quiet, Shared("idp", fed))    \* a login settles what went wrong before
  /\ LoggedIn("idp")
  /\ UNCHANGED protocol

\* Mutant: the name of the service provider is not handed over.
AcceptedFederationBare(a) ==
  IF protocol = "saml2" THEN [local |-> a.nid, remote |-> NoName]
  ELSE [local |-> NoName, remote |-> a.nid]

\* lasso_login_accept_sso replaces the federation of the service provider.
AcceptedFederation(a) ==
  IF protocol = "saml2"    THEN [local |-> a.nid, remote |-> NoName]
  ELSE IF a.idp # NoName   THEN [local |-> a.nid, remote |-> a.idp]
  ELSE [local |-> NoName, remote |-> a.nid]

AcceptAssertion(a) ==
  /\ feds' = [feds EXCEPT !["sp"] = AcceptedFederation(a)]
  /\ inSession' = [inSession EXCEPT !["sp"] = a.nid]
  /\ flight' = flight \ {a}
  /\ LoggedIn("sp")
  /\ UNCHANGED <<protocol, logins, agreed, disturbed>>

LoseAssertion(a) ==
  /\ flight' = flight \ {a}
  /\ Judge(TRUE, agreed)
  /\ UNCHANGED <<protocol, stores, logins, exchanges, answers>>

\* A logout: the session forgets the assertion.
EndSession(x) ==
  /\ inSession[x] # NoName
  /\ inSession' = [inSession EXCEPT ![x] = NoName]
  /\ UNCHANGED <<protocol, feds, logins, flight, exchanges, answers, agreed, disturbed>>

-----------------------------------------------------------------------------
(* Renames and terminations *)

\* The federation and the session of x after a handler.
Saved(x, r) ==
  /\ feds' = [feds EXCEPT ![x] = r.fed]
  /\ inSession' = [inSession EXCEPT ![x] = r.inSession]

RequestName(x, kind) ==
  IF protocol = "saml2" THEN Saml2Name(x, kind, feds[x], inSession[x])
  ELSE IdffName(x, kind, feds[x], inSession[x])

\* The requester's first handler.  ID-FF refuses to start without a federation
\* and a name, and a registration by the identity provider needs a local one.
Start(x, kind, e) ==
  /\ ~ Used(e) /\ \A k \in Exchanges : k < e => Used(k)
  /\ LET nid == RequestName(x, kind)
         r   == IF protocol = "saml2" THEN Saml2Init(x, kind, feds[x], inSession[x])
                ELSE IdffInit(x, kind, feds[x], inSession[x])
     IN  /\ protocol = "idff" => nid # NoName
         /\ Saved(x, r)
         /\ exchanges' = [exchanges EXCEPT ![e] =
              [from |-> x, kind |-> kind, nid |-> nid,
               new |-> IF kind = "rename" THEN NameOf(e) ELSE NoContent,
               state |-> "waiting", served |-> FALSE, fresh |-> FALSE]]
  /\ Judge(disturbed \/ ~ Quiet, agreed)
  /\ UNCHANGED <<protocol, logins, flight, answers>>

\* What a completed operation settles: a name replaces the requester's, and
\* with SAML 2.0 a new content comes without SPProvidedID.
Settled(req) ==
  IF req.kind = "terminate" THEN NoNames
  ELSE IF req.from = "sp"   THEN [agreed EXCEPT !.sp = req.new]
  ELSE IF protocol = "saml2" THEN [idp |-> req.new, sp |-> NoContent]
  ELSE [agreed EXCEPT !.idp = req.new]

OneWay(req) == protocol = "idff" /\ req.kind = "terminate"

\* The exchange as its requester leaves it.
Ended(req, ok, fresh) ==
  [req EXCEPT !.state = IF ok THEN "done" ELSE "failed", !.served = FALSE,
              !.fresh = ok /\ fresh]

\* The receiver's handlers.  A notification is complete when it was served.
Serve(e, verified, fate) ==
  /\ Used(e)
  /\ fate # "kept" => protocol = "saml2" /\ exchanges[e].kind = "rename"
  /\ LET req == exchanges[e]
         y   == Peer(req.from)
         r   == IF protocol = "saml2"
                THEN Saml2Validate(req, feds[y], inSession[y], verified, fate)
                ELSE IdffValidate(req, feds[y], inSession[y], verified)
         done == OneWay(req) /\ r.rc = "ok"
     IN  /\ Saved(y, r)
         /\ answers' = IF r.answer = "none" THEN answers
                       ELSE answers \cup {[of |-> e, status |-> r.answer,
                                          fresh |-> req.kind = "terminate"]}
         /\ exchanges' = [exchanges EXCEPT ![e] =
              IF ~ Waiting(e) THEN @
              ELSE IF OneWay(req) THEN Ended(@, done, TRUE)
              ELSE [@ EXCEPT !.served = TRUE]]
         /\ Judge(disturbed \/ r.rc # "ok" \/ req.served \/ req.state # "waiting",
                  IF done THEN Settled(req) ELSE agreed)
  /\ UNCHANGED <<protocol, logins, flight>>

\* The requester takes an answer sent to it, of this exchange or of another.
TakeAnswer(e, a, verified) ==
  /\ Waiting(e) /\ ~ OneWay(exchanges[e])
  /\ exchanges[a.of].from = exchanges[e].from
  /\ LET req == exchanges[e]
         x   == req.from
         r   == IF protocol = "saml2"
                THEN Saml2Process(req, feds[x], inSession[x], a.status, verified)
                ELSE IdffProcess(req, feds[x], inSession[x], a.status, verified)
         ok  == r.rc = "ok" /\ a.of = e
     IN  /\ Saved(x, r)
         /\ exchanges' = [exchanges EXCEPT ![e] = Ended(@, ok, a.fresh)]
         /\ Judge(disturbed \/ ~ ok, IF ok THEN Settled(req) ELSE agreed)
  /\ UNCHANGED <<protocol, logins, flight, answers>>

\* The requester hears nothing; the request may still arrive.
GiveUp(e) ==
  /\ Waiting(e)
  /\ exchanges' = [exchanges EXCEPT ![e] = Ended(@, FALSE, FALSE)]
  /\ Judge(TRUE, agreed)
  /\ UNCHANGED <<protocol, stores, logins, flight, answers>>

Next ==
  \/ IssueAssertion
  \/ \E a \in flight : AcceptAssertion(a) \/ LoseAssertion(a)
  \/ \E x \in Parties : EndSession(x)
  \/ \E x \in Parties, kind \in Kinds, e \in Exchanges : Start(x, kind, e)
  \/ \E e \in Exchanges, verified \in BOOLEAN, fate \in Fates : Serve(e, verified, fate)
  \/ \E e \in Exchanges, a \in answers, verified \in BOOLEAN : TakeAnswer(e, a, verified)
  \/ \E e \in Exchanges : GiveUp(e)

Spec == Init /\ [][Next]_vars

-----------------------------------------------------------------------------
(* Properties *)

\* Federations, requests, answers and sessions keep their types.
TypeOK ==
  /\ protocol \in Protocols
  /\ feds \in [Parties -> Federation \cup {NoFederation}]
  /\ inSession \in [Parties -> Name \cup {NoName}]
  /\ logins \in 0 .. MaxLogins
  /\ flight \subseteq [login : 1 .. MaxLogins, nid : Name, idp : Name \cup {NoName}]
  /\ exchanges \in [Exchanges -> Exchange \cup {NoExchange}]
  /\ answers \subseteq [of : Exchanges, status : {"success", "refused"}, fresh : BOOLEAN]
  /\ agreed \in [idp : Contents \cup {NoContent}, sp : Contents \cup {NoContent}]
  /\ disturbed \in BOOLEAN

\* Provider x confirmed the SAML 2.0 rename that brought a name agreed on, and
\* lost its federation by it (lasso_identity_add_federation, see AddedAgain).
Freed(x) ==
  /\ protocol = "saml2" /\ feds[x] = NoFederation
  /\ \E e \in Exchanges :
       /\ Used(e) /\ exchanges[e].kind = "rename" /\ exchanges[e].from = Peer(x)
       /\ exchanges[e].state = "done" /\ exchanges[e].new \in {agreed.idp, agreed.sp}

\* The two providers know the principal by the names the last operation
\* settled on, once nothing is under way and unless an operation since the
\* last login returned an error to an application, was given up, repeated or
\* crossed another one: names never come to differ unnoticed.  A login after
\* such a failure makes them agree again (name_id_management.c,
\* name_registration.c, defederation.c: each side changes its own federation,
\* at its own time).  The exception is the provider that answered a SAML 2.0
\* rename with Success: it may be left with no federation, never with another
\* name, until the next login or rename.
NamesAgree ==
  (Quiet /\ ~ disturbed) =>
    \A x \in Parties : Shared(x, feds[x]) = agreed \/ Freed(x)

\* A termination that was confirmed stays: the other provider has no
\* federation left, whatever crosses or repeats the exchange, until it takes
\* part in another login.
TerminationHolds ==
  \A e \in Exchanges :
    (Used(e) /\ exchanges[e].kind = "terminate" /\ exchanges[e].fresh) =>
      feds[Peer(exchanges[e].from)] = NoFederation

\* Only a login makes a federation: a late answer or a repeated request never
\* brings back one that was terminated.
OnlyLoginFederates ==
  [][\A x \in Parties :
       (feds[x] = NoFederation /\ feds'[x] # NoFederation) => flight' # flight]_vars
=============================================================================
