-------------------------- MODULE Saml2LogoutProofs --------------------------
(***************************************************************************)
(* Proofs about the SAML 2.0 single logout, for any number of providers    *)
(* and any logins, requests and answers.                                   *)
(*                                                                         *)
(* Answering follows the requester's name and the response for it from the *)
(* profile to the initial_... fields and back.  Accounting says why an     *)
(* empty session stands for a complete logout: a provider that has not     *)
(* confirmed is still counted.                                             *)
(***************************************************************************)
EXTENDS Saml2Logout, LogoutProofs

\* The response for the requester is put aside or ready.
Answering ==
  /\ req # None => lo.imethod = req.method
  /\ req # None /\ pc \in Traversing \cup {"respond"} =>
       \/ lo.iremote = req.from /\ lo.iresponse = Response(Local, "Success")
       \/ /\ lo.iremote = None /\ lo.remote = req.from
          /\ lo.response # None => lo.response.by = Local
  /\ AnswersTheRequester

ServiceInv == CommonInv /\ Answering

\* Applications that remove an assertion only when its provider confirmed.
Accountable == Countable /\ AppRemoves # "always"

\* Who has not confirmed is counted; a Success is ready only when nobody is.
Accounting ==
  /\ Waiting \subseteq Counted(sess)
  /\ pc = "idle" => targets = Counted(sess) /\ confirmed = {}
  /\ pc = "accepted" /\ AppRemoves = "success" => cur \in confirmed
  /\ req # None /\ req.from \notin IdPs /\ lo.iremote = None
       /\ lo.response = Response(Local, "Success") => Counted(sess) = {}
  /\ final # None /\ final.status = "Success" /\ req.from \notin IdPs => Counted(sess) = {}

-----------------------------------------------------------------------------
(* The initial state of the logout comes back whole *)

LEMMA RestoreInitialFacts ==
  ASSUME NEW l \in Logout, NEW s, Sound(s),
         l.iremote = None \/ l.iresponse = Response(Local, "Success"),
         NEW r, r = RestoreInitialState(l, s)
  PROVE  /\ r \in Logout /\ r.index = l.index /\ r.imethod = l.imethod /\ r.iremote = None
         /\ l.iremote = None => r = l
         /\ l.iremote # None =>
              /\ r.remote = l.iremote
              /\ r.response \in {Response(Local, "Success"), Response(Local, "Partial")}
              /\ r.response = Response(Local, "Success") => Counted(s) = {}
<1>1. CASE l.iremote = None
  BY <1>1 DEF RestoreInitialState
<1>2. CASE l.iremote # None
  <2> DEFINE t == TransferInitial(l)
             ok == Response(Local, "Success")
  <2>1. l.iresponse = ok
    BY <1>2
  <2>2. /\ t \in Logout /\ t.index = l.index /\ t.imethod = l.imethod /\ t.iremote = None
        /\ t.remote = l.iremote /\ t.response = ok /\ t.partial \in BOOLEAN
    BY <2>1 DEF TransferInitial, Logout
  <2>3. r = IF t.partial \/ CountAssertions(s) > 0
            THEN [t EXCEPT !.partial = FALSE, !.response = Response(@.by, "Partial")] ELSE t
    BY <1>2 DEF RestoreInitialState
  <2> HIDE DEF t
  <2>4. CASE t.partial \/ CountAssertions(s) > 0
    <3>1. r = [t EXCEPT !.partial = FALSE, !.response = Response(Local, "Partial")]
      BY <2>2, <2>3, <2>4 DEF Response, Logout
    <3>2. Response(Local, "Partial") \in Responses
          /\ Response(Local, "Partial") # Response(Local, "Success")
      BY DEF Response, Responses, StatusCodes
    <3>3. /\ r \in Logout /\ r.index = t.index /\ r.imethod = t.imethod /\ r.iremote = t.iremote
          /\ r.remote = t.remote /\ r.response = Response(Local, "Partial")
      BY <2>2, <3>1, <3>2 DEF Logout
    <3> QED BY <1>2, <2>2, <3>2, <3>3
  <2>5. CASE ~ (t.partial \/ CountAssertions(s) > 0)
    <3>1. CountAssertions(s) = 0
      BY <2>5, CountZero
    <3> QED BY <1>2, <2>2, <2>3, <2>5, <3>1, CountZero
  <2> QED BY <2>4, <2>5
<1> QED BY <1>1, <1>2

\* A response of another provider leaves the initial state where it is, or
\* brings it back when nobody is left.
LEMMA AfterResponseFacts ==
  ASSUME NEW l \in Logout, NEW s, Sound(s), NEW p \in Providers, NEW status \in Statuses,
         l.iremote = None \/ l.iresponse = Response(Local, "Success"),
         NEW r, r = AfterResponse(l, s, p, status)
  PROVE  /\ r \in Logout /\ r.index = l.index /\ r.imethod = l.imethod
         /\ \/ /\ r.iremote = l.iremote /\ r.iresponse = l.iresponse
               /\ r.response = Response(p, status)
            \/ /\ Counted(s) = {} /\ l.iremote # None /\ r.iremote = None /\ r.remote = l.iremote
               /\ r.response \in {Response(Local, "Success"), Response(Local, "Partial")}
<1> DEFINE read == [l EXCEPT !.remote = p, !.response = Response(p, status)]
           marked == IF MarksPartial(status) THEN [read EXCEPT !.partial = TRUE] ELSE read
<1>1. Response(p, status) \in Responses
  BY DEF Response, Responses, Statuses, StatusCodes
<1>2. /\ read \in Logout /\ read.index = l.index /\ read.imethod = l.imethod
      /\ read.iremote = l.iremote /\ read.iresponse = l.iresponse /\ read.response = Response(p, status)
  BY <1>1 DEF Logout
<1> HIDE DEF read
<1>3. /\ marked \in Logout /\ marked.index = l.index /\ marked.imethod = l.imethod
      /\ marked.iremote = l.iremote /\ marked.iresponse = l.iresponse
      /\ marked.response = Response(p, status)
  <2>1. CASE MarksPartial(status)
    BY <1>2, <2>1 DEF Logout
  <2>2. CASE ~ MarksPartial(status)
    BY <1>2, <2>2
  <2> QED BY <2>1, <2>2
<1>4. r = IF CountAssertions(s) = 0 THEN RestoreInitialState(marked, s) ELSE marked
  BY DEF AfterResponse, read
<1> HIDE DEF marked
<1>5. CASE CountAssertions(s) = 0
  <2>1. r = RestoreInitialState(marked, s) /\ Counted(s) = {}
    BY <1>4, <1>5, CountZero
  <2> QED BY <1>3, <2>1, RestoreInitialFacts
<1>6. CASE CountAssertions(s) # 0
  BY <1>3, <1>4, <1>6
<1> QED BY <1>5, <1>6

-----------------------------------------------------------------------------
(* The steps of the protocol keep what is common, and the answer *)

LEMMA RequestTyped ==
  ASSUME TypeOK, req # None
  PROVE  req \in LogoutRequest /\ req.from \in Providers /\ req.method \in Methods
BY Saml2LogoutInputs DEF TypeOK, LogoutRequest

LEMMA ProcessRequestStep ==
  ASSUME ServiceInv, NEW r \in Requests, ProcessRequestMsg(r)
  PROVE  ServiceInv'
<1>1. /\ pc = "idle" /\ req' = r /\ pc' \in {"validate", "respond"}
      /\ lo' = [lo EXCEPT !.remote = r.from, !.request = r.from,
                          !.method = r.method, !.imethod = r.method]
      /\ UNCHANGED <<sess, cur, final, targets, tried, redirected, confirmed, partly>>
  BY DEF ProcessRequestMsg, history
<1>2. /\ r.from \in Providers /\ r.method \in Methods /\ r # None
  BY Saml2LogoutInputs, LogoutInputs DEF LogoutRequest
<1>3. /\ lo' \in Logout /\ lo'.remote = r.from /\ lo'.imethod = r.method
      /\ lo'.index = lo.index /\ lo'.iremote = lo.iremote /\ lo'.response = lo.response
  BY <1>1, <1>2 DEF ServiceInv, CommonInv, TypeOK, Logout
<1>4. /\ lo.index = 0 /\ lo.iremote = None /\ lo.response = None /\ final = None /\ tried = {}
  BY <1>1 DEF ServiceInv, CommonInv, Flow
<1>5. TypeOK' /\ SessionInv'
  BY <1>1, <1>3 DEF ServiceInv, CommonInv, TypeOK, SessionInv, Pcs
<1>6. Flow' /\ Gone' /\ InitialKept'
  BY <1>1, <1>2, <1>3, <1>4 DEF Flow, Gone, InitialKept, Traversing
<1>7. Listing' /\ WholeSessionTried'
  BY <1>1, <1>3, <1>4 DEF ServiceInv, CommonInv, Listing, WholeSessionTried
<1>8. Answering'
  BY <1>1, <1>3, <1>4 DEF Answering, AnswersTheRequester
<1> QED BY <1>5, <1>6, <1>7, <1>8 DEF ServiceInv, CommonInv

LEMMA ValidateStep ==
  ASSUME ServiceInv, ValidateRequest
  PROVE  /\ ServiceInv' /\ req # None /\ req.from \in Providers
         /\ \/ sess' = sess /\ lo'.response # Response(Local, "Success")
            \/ /\ sess' = RemoveAssertion(sess, req.from)
               /\ req.from \notin IdPs /\ lo'.iremote = None => Counted(sess') = {}
<1> DEFINE status == ValidationStatus(req, sess)
           responded == [lo EXCEPT !.response = Response(Local, status)]
<1>1. /\ pc = "validate" /\ UNCHANGED <<req, cur, final, targets, tried, redirected, confirmed, partly>>
  BY DEF ValidateRequest, history
<1>2. /\ lo.index = 0 /\ lo.iremote = None /\ lo.remote = req.from /\ lo.response = None
      /\ final = None /\ tried = {} /\ req # None
  BY <1>1 DEF ServiceInv, CommonInv, Flow
<1>3. req \in LogoutRequest /\ req.from \in Providers /\ req.method \in Methods
  BY <1>2, RequestTyped DEF ServiceInv, CommonInv
<1>4. Response(Local, status) \in Responses
  BY DEF Response, Responses, ValidationStatus, StatusCodes
<1>5. /\ responded \in Logout /\ responded.index = 0 /\ responded.imethod = lo.imethod
      /\ responded.iremote = None /\ responded.remote = req.from
      /\ responded.response = Response(Local, status) /\ responded.response.by = Local
  <2> HIDE DEF status
  <2> QED BY <1>2, <1>4 DEF ServiceInv, CommonInv, TypeOK, Logout, Response
<1>6. CASE status # "Success"
  <2>1. lo' = responded /\ pc' = "respond" /\ sess' = sess
    BY <1>6 DEF ValidateRequest
  <2> HIDE DEF responded, status
  <2>2. TypeOK' /\ SessionInv'
    BY <1>1, <1>5, <2>1 DEF ServiceInv, CommonInv, TypeOK, SessionInv, Pcs
  <2>3. Flow' /\ Gone' /\ InitialKept' /\ WholeSessionTried'
    BY <1>1, <1>2, <1>5, <2>1 DEF Flow, Gone, InitialKept, Traversing, WholeSessionTried
  <2>4. Listing'
    BY <1>1, <1>2, <1>5, <2>1 DEF ServiceInv, CommonInv, Listing
  <2>5. Answering'
    BY <1>1, <1>2, <1>5, <2>1 DEF ServiceInv, Answering, AnswersTheRequester, Traversing
  <2>6. lo'.response # Response(Local, "Success")
    BY <1>5, <1>6, <2>1 DEF Response
  <2> QED BY <1>2, <1>3, <2>1, <2>2, <2>3, <2>4, <2>5, <2>6 DEF ServiceInv, CommonInv
<1>7. CASE status = "Success"
  <2>1. /\ sess' = RemoveAssertion(sess, req.from)
        /\ lo' = IF req.from \notin IdPs /\ CountAssertions(sess') >= 1
                 THEN SaveInitial(responded) ELSE responded
        /\ pc' = IF req.from \in IdPs THEN "respond" ELSE "traverse"
    BY <1>7 DEF ValidateRequest
  <2>2. /\ SaveInitial(responded) \in Logout /\ SaveInitial(responded).index = 0
        /\ SaveInitial(responded).imethod = lo.imethod
        /\ SaveInitial(responded).iremote = req.from
        /\ SaveInitial(responded).iresponse = Response(Local, "Success")
    <3>1. responded.response = Response(Local, "Success")
      BY <1>5, <1>7
    <3>2. PICK t : t = responded
      OBVIOUS
    <3>3. /\ t \in Logout /\ t.index = 0 /\ t.imethod = lo.imethod /\ t.remote = req.from
          /\ t.response = Response(Local, "Success")
      BY <1>5, <3>1, <3>2
    <3> HIDE DEF responded
    <3>4. /\ SaveInitial(t) \in Logout /\ SaveInitial(t).index = 0
          /\ SaveInitial(t).imethod = lo.imethod /\ SaveInitial(t).iremote = req.from
          /\ SaveInitial(t).iresponse = Response(Local, "Success")
      BY <3>3 DEF SaveInitial, Logout
    <3> QED BY <3>2, <3>4
  <2> HIDE DEF responded, status
  <2>3. /\ lo' \in Logout /\ lo'.index = 0 /\ lo'.imethod = lo.imethod
        /\ \/ lo'.iremote = req.from /\ lo'.iresponse = Response(Local, "Success")
           \/ /\ lo'.iremote = None /\ lo'.remote = req.from /\ lo'.response.by = Local
              /\ req.from \notin IdPs => CountAssertions(sess') < 1
        /\ req.from \in IdPs => lo'.iremote = None
    <3>1. CASE req.from \notin IdPs /\ CountAssertions(sess') >= 1
      BY <2>1, <2>2, <3>1
    <3>2. CASE ~ (req.from \notin IdPs /\ CountAssertions(sess') >= 1)
      <4>1. CountAssertions(sess') \in Nat
        BY <1>3, <2>1, CountZero, RemoveAssertionSound DEF ServiceInv, CommonInv, SessionInv
      <4> QED BY <1>5, <2>1, <3>2, <4>1
    <3> QED BY <3>1, <3>2
  <2>4. Sound(sess') /\ ~ RemoveAssertionOk(sess', req.from)
    BY <1>3, <2>1, RemoveAssertionSound, RemoveAssertionOut DEF ServiceInv, CommonInv, SessionInv
  <2>5. CountAssertions(sess') < 1 => SloProviders(sess') = {} /\ Counted(sess') = {}
    BY <2>4, CountZero
  <2>6. SessionInv' /\ Listing'
    BY <1>1, <1>2, <1>3, <2>1, <2>3, RemovalKeepsListing DEF ServiceInv, CommonInv
  <2>7. TypeOK'
    BY <1>1, <2>1, <2>3, <2>4 DEF ServiceInv, CommonInv, TypeOK, Pcs, Sound, StoredSound
  <2>8. InitialKept'
    BY <1>1, <2>1, <2>3, <2>5 DEF InitialKept
  <2>9. Flow' /\ Gone' /\ WholeSessionTried'
    BY <1>1, <1>2, <2>1, <2>3, <2>4 DEF Flow, Gone, Traversing, WholeSessionTried
  <2>10. Answering'
    BY <1>1, <1>2, <2>1, <2>3 DEF ServiceInv, Answering, AnswersTheRequester, Traversing
  <2>11. req.from \notin IdPs /\ lo'.iremote = None => Counted(sess') = {}
    BY <1>3, <2>3, <2>5, RolesAreTyped
  <2> QED BY <1>2, <1>3, <2>1, <2>6, <2>7, <2>8, <2>9, <2>10, <2>11 DEF ServiceInv, CommonInv
<1> QED BY <1>6, <1>7

LEMMA InitRequestStep ==
  ASSUME ServiceInv, NEW m \in AskMethods, InitRequest(m)
  PROVE  ServiceInv'
<1>1. /\ pc = "ask" /\ lo' = [lo EXCEPT !.remote = cur, !.method = m, !.request = Local]
      /\ tried' = tried \cup {cur} /\ pc' \in {"call", "redirect", "traverse"}
      /\ UNCHANGED <<sess, req, cur, final, targets, redirected, confirmed, partly>>
  BY DEF InitRequest
<1>2. cur \in Providers /\ m \in Methods /\ final = None
  BY <1>1, LogoutInputs DEF ServiceInv, CommonInv, Flow
<1>3. /\ lo' \in Logout /\ lo'.index = lo.index /\ lo'.imethod = lo.imethod
      /\ lo'.iremote = lo.iremote /\ lo'.iresponse = lo.iresponse
  BY <1>1, <1>2 DEF ServiceInv, CommonInv, TypeOK, Logout
<1>4. req # None => lo.iremote = req.from
  BY <1>1 DEF ServiceInv, CommonInv, Flow
<1>5. req # None => lo.iresponse = Response(Local, "Success")
  <2>1. req # None => req.from \in Providers
    BY RequestTyped DEF ServiceInv, CommonInv
  <2> QED BY <1>1, <1>4, <2>1, RolesAreTyped DEF ServiceInv, CommonInv, InitialKept
<1>6. TypeOK' /\ SessionInv'
  BY <1>1, <1>2, <1>3 DEF ServiceInv, CommonInv, TypeOK, SessionInv, Pcs
<1>7. Flow' /\ Gone'
  BY <1>1, <1>2, <1>3, <1>4 DEF ServiceInv, CommonInv, Flow, Gone, Traversing
<1>8. InitialKept' /\ Answering'
  BY <1>1, <1>2, <1>3, <1>4, <1>5 DEF ServiceInv, InitialKept, Answering, AnswersTheRequester, Traversing
<1>9. Listing' /\ WholeSessionTried'
  BY <1>1, <1>3 DEF ServiceInv, CommonInv, Listing, WholeSessionTried
<1> QED BY <1>6, <1>7, <1>8, <1>9 DEF ServiceInv, CommonInv

LEMMA ResponseStep ==
  ASSUME ServiceInv, NEW p \in Providers, NEW status \in Answers, ProcessResponseMsg(p, status)
  PROVE  /\ ServiceInv' /\ p \in tried /\ lo'.index = lo.index
         /\ \/ lo'.iremote = lo.iremote /\ lo'.response = Response(p, status)
            \/ Counted(sess) = {} /\ lo.iremote # None
<1>1. /\ CanAnswer(p) /\ lo' = AfterResponse(lo, sess, p, status) /\ cur' = p
      /\ confirmed' \in {confirmed, confirmed \cup {p}} /\ partly' \subseteq confirmed'
      /\ pc' \in {"accepted", "failed"}
      /\ UNCHANGED <<sess, req, final, targets, tried, redirected>>
  BY DEF ProcessResponseMsg, ResponseRc, ServiceInv, CommonInv, TypeOK
<1>2. pc \in {"call", "away"} /\ p \in tried /\ final = None
  BY <1>1 DEF CanAnswer, ServiceInv, CommonInv, Flow, TypeOK
<1>3. req # None => req.from \in Providers /\ lo.iremote = req.from /\ lo.iresponse = Response(Local, "Success")
  <2>1. req # None => req.from \in Providers /\ lo.iremote = req.from
    BY <1>2, RequestTyped DEF ServiceInv, CommonInv, Flow
  <2> QED BY <1>2, <2>1, RolesAreTyped DEF ServiceInv, CommonInv, InitialKept
<1>4. lo.iremote = None \/ lo.iresponse = Response(Local, "Success")
  BY <1>3 DEF ServiceInv, CommonInv, Flow
<1>5. /\ lo' \in Logout /\ lo'.index = lo.index /\ lo'.imethod = lo.imethod
      /\ \/ lo'.iremote = lo.iremote /\ lo'.iresponse = lo.iresponse /\ lo'.response = Response(p, status)
         \/ /\ Counted(sess) = {} /\ lo.iremote # None /\ lo'.iremote = None /\ lo'.remote = lo.iremote
            /\ lo'.response \in {Response(Local, "Success"), Response(Local, "Partial")}
  <2>1. lo \in Logout /\ Sound(sess) /\ status \in Statuses
    BY Saml2LogoutInputs DEF ServiceInv, CommonInv, TypeOK, SessionInv
  <2> QED BY <1>1, <1>4, <2>1, AfterResponseFacts
<1>6. TypeOK' /\ SessionInv'
  BY <1>1, <1>2, <1>5 DEF ServiceInv, CommonInv, TypeOK, SessionInv, Pcs
<1>7. Flow' /\ Gone'
  BY <1>1, <1>2, <1>5 DEF ServiceInv, CommonInv, Flow, Gone, Traversing
<1>8. Counted(sess) = {} => SloProviders(sess) = {}
  BY CountZero DEF ServiceInv, CommonInv, SessionInv
<1>9. InitialKept'
  BY <1>1, <1>3, <1>5, <1>8 DEF InitialKept
<1>10. Answering'
  <2>1. Response(Local, "Success").by = Local /\ Response(Local, "Partial").by = Local
    BY DEF Response
  <2> QED BY <1>1, <1>2, <1>3, <1>5, <2>1 DEF ServiceInv, Answering, AnswersTheRequester, Traversing
<1>11. Listing' /\ WholeSessionTried'
  BY <1>1, <1>2, <1>5 DEF ServiceInv, CommonInv, Listing, WholeSessionTried
<1> QED BY <1>2, <1>5, <1>6, <1>7, <1>9, <1>10, <1>11 DEF ServiceInv, CommonInv

LEMMA ContinueStep ==
  ASSUME ServiceInv, Continue
  PROVE  ServiceInv'
<1>1. /\ pc \in {"accepted", "failed"} /\ pc' = "traverse"
      /\ sess' = sess \/ sess' = RemoveAssertion(sess, cur)
      /\ UNCHANGED <<lo, req, cur, final, targets, tried, redirected, confirmed, partly>>
  BY DEF Continue, history
<1>2. cur \in Providers /\ final = None
  BY <1>1 DEF ServiceInv, CommonInv, Flow, TypeOK
<1>3. /\ SessionInv' /\ Listing' /\ SloProviders(sess') \subseteq SloProviders(sess)
      /\ \A q \in Providers : RemoveAssertionOk(sess', q) => RemoveAssertionOk(sess, q)
  <2>1. CASE sess' = sess
    BY <1>1, <2>1 DEF ServiceInv, CommonInv, SessionInv, Listing
  <2>2. CASE sess' = RemoveAssertion(sess, cur)
    BY <1>1, <1>2, <2>2, RemovalKeepsListing, RemoveAssertionOut DEF ServiceInv, CommonInv, SessionInv
  <2> QED BY <1>1, <2>1, <2>2
<1>4. TypeOK'
  BY <1>1, <1>3 DEF ServiceInv, CommonInv, TypeOK, Pcs, SessionInv, Sound, StoredSound
<1>5. req # None => req.from \in Providers
  BY RequestTyped DEF ServiceInv, CommonInv
<1>6. Flow' /\ Gone'
  BY <1>1, <1>2, <1>3, <1>5 DEF ServiceInv, CommonInv, Flow, Gone, Traversing
<1>7. InitialKept' /\ WholeSessionTried'
  BY <1>1, <1>3 DEF ServiceInv, CommonInv, InitialKept, WholeSessionTried
<1>8. Answering'
  BY <1>1, <1>2 DEF ServiceInv, Answering, AnswersTheRequester, Traversing
<1> QED BY <1>3, <1>4, <1>6, <1>7, <1>8 DEF ServiceInv, CommonInv

LEMMA BuildStep ==
  ASSUME ServiceInv, BuildResponseMsg
  PROVE  /\ ServiceInv' /\ final' # None /\ req # None /\ final'.status = lo'.response.status
         /\ lo'.index = lo.index
         /\ final'.status = "Success" =>
              \/ lo.iremote # None /\ Counted(sess) = {}
              \/ lo.iremote = None /\ lo.response = Response(Local, "Success")
<1> DEFINE restored == RestoreInitialState(lo, sess)
           denied   == IF req.sig THEN "RequestDenied" ELSE "InvalidSignature"
<1>1. /\ pc = "respond" /\ pc' = "done"
      /\ lo' = IF restored.response = None
               THEN [restored EXCEPT !.response = Response(Local, denied)] ELSE restored
      /\ final' = [to |-> lo'.remote, by |-> lo'.response.by,
                   status |-> lo'.response.status, method |-> lo'.imethod]
      /\ UNCHANGED <<sess, req, cur, targets, tried, redirected, confirmed, partly>>
  BY DEF BuildResponseMsg, history
<1>2. req # None /\ final = None
  BY <1>1 DEF ServiceInv, CommonInv, Flow
<1>3. req \in LogoutRequest /\ req.from \in Providers /\ req.method \in Methods
  BY <1>2, RequestTyped DEF ServiceInv, CommonInv
<1>4. /\ lo.imethod = req.method
      /\ \/ lo.iremote = req.from /\ lo.iresponse = Response(Local, "Success")
         \/ /\ lo.iremote = None /\ lo.remote = req.from
            /\ lo.response # None => lo.response.by = Local
  BY <1>1, <1>2 DEF ServiceInv, Answering
<1>5. /\ restored \in Logout /\ restored.index = lo.index /\ restored.imethod = lo.imethod
      /\ restored.iremote = None
      /\ lo.iremote = None => restored = lo
      /\ lo.iremote # None =>
           /\ restored.remote = lo.iremote
           /\ restored.response \in {Response(Local, "Success"), Response(Local, "Partial")}
           /\ restored.response = Response(Local, "Success") => Counted(sess) = {}
  BY <1>4, RestoreInitialFacts DEF ServiceInv, CommonInv, TypeOK, SessionInv
<1> HIDE DEF restored
<1>6. /\ Response(Local, denied) \in Responses
      /\ Response(Local, denied).status # "Success"
      /\ Response(Local, "Success").by = Local /\ Response(Local, "Partial").by = Local
      /\ Response(Local, "Partial").status = "Partial"
      /\ \A s : Response(Local, s).by = Local
  BY DEF Response, Responses, StatusCodes
<1>7. req.from # None /\ Response(Local, "Success") # None /\ Response(Local, "Partial") # None
      /\ Response(Local, denied) # None
  BY <1>3, <1>6, RolesAreTyped DEF Response, Responses, StatusCodes
<1> HIDE DEF denied
<1>8. /\ lo' \in Logout /\ lo'.index = lo.index /\ lo'.imethod = lo.imethod /\ lo'.iremote = None
      /\ lo'.remote = restored.remote /\ lo'.response # None
      /\ lo'.response = IF restored.response = None THEN Response(Local, denied) ELSE restored.response
  BY <1>1, <1>5, <1>6, <1>7 DEF Logout
<1>9. lo'.remote = req.from /\ lo'.response.by = Local /\ lo'.response.status \in StatusCodes
  <2>1. lo'.remote = req.from
    BY <1>4, <1>5, <1>7, <1>8
  <2>2. lo'.response.by = Local
    BY <1>4, <1>5, <1>6, <1>7, <1>8
  <2>3. lo'.response \in Responses
    BY <1>8 DEF Logout
  <2> QED BY <2>1, <2>2, <2>3 DEF Responses
<1>10. /\ final'.to = req.from /\ final'.by = Local /\ final'.method = req.method
       /\ final'.status = lo'.response.status
       /\ final' \in Messages
  BY <1>1, <1>3, <1>4, <1>8, <1>9 DEF Messages
<1>11. TypeOK' /\ SessionInv'
  BY <1>1, <1>8, <1>10 DEF ServiceInv, CommonInv, TypeOK, SessionInv, Pcs
<1>12. Flow' /\ Gone' /\ InitialKept' /\ WholeSessionTried' /\ Answering'
  BY <1>1, <1>2, <1>4, <1>8, <1>10
     DEF Flow, Gone, InitialKept, WholeSessionTried, Answering, AnswersTheRequester, Traversing
<1>13. Listing'
  BY <1>1, <1>8 DEF ServiceInv, CommonInv, Listing
<1>14. ASSUME final'.status = "Success"
       PROVE  \/ lo.iremote # None /\ Counted(sess) = {}
              \/ lo.iremote = None /\ lo.response = Response(Local, "Success")
  <2>1. restored.response # None /\ lo'.response = restored.response /\ restored.response.status = "Success"
    BY <1>6, <1>8, <1>10, <1>14
  <2>2. CASE lo.iremote # None
    BY <1>5, <1>6, <2>1, <2>2
  <2>3. CASE lo.iremote = None
    <3>1. lo.response.status = "Success" /\ lo.response.by = Local /\ lo.response # None
      BY <1>4, <1>5, <2>1, <2>3, <1>7
    <3>2. lo.response \in Responses
      BY <3>1 DEF ServiceInv, CommonInv, TypeOK, Logout
    <3> QED BY <2>3, <3>1, <3>2 DEF Response, Responses
  <2> QED BY <2>2, <2>3
<1>15. final' # None
  BY <1>10, LogoutInputs
<1> QED BY <1>2, <1>8, <1>10, <1>11, <1>12, <1>13, <1>14, <1>15 DEF ServiceInv, CommonInv
-----------------------------------------------------------------------------
(* The invariant of the service *)

\* The steps that do not depend on the protocol leave the answer alone.
LEMMA SharedKeepsAnswering ==
  ASSUME ServiceInv, req' = req, final' = final,
         /\ lo'.imethod = lo.imethod /\ lo'.iremote = lo.iremote /\ lo'.iresponse = lo.iresponse
         /\ lo'.remote = lo.remote /\ lo'.response = lo.response,
         pc' \in Traversing \cup {"respond"} => pc # "done"
  PROVE  Answering'
<1>1. pc' \in Traversing \cup {"respond"} => pc \in Traversing \cup {"respond", "idle", "validate"}
  BY DEF ServiceInv, CommonInv, TypeOK, Pcs, Traversing
<1>2. pc \in {"idle", "validate"} =>
        /\ lo.iremote = None /\ lo.response = None
        /\ req # None => lo.remote = req.from
  BY DEF ServiceInv, CommonInv, Flow
<1> QED BY <1>1, <1>2 DEF ServiceInv, Answering, AnswersTheRequester

LEMMA SharedStep ==
  ASSUME ServiceInv,
         \/ ResetProviderIDIndex \/ GetNextProviderID \/ Redirect
         \/ Refuse \/ StartLocally \/ NoAnswer \/ UNCHANGED vars
  PROVE  ServiceInv'
<1>1. CASE ResetProviderIDIndex
  <2>1. CommonInv' /\ req' = req /\ final' = final /\ lo' = lo /\ pc' = pc /\ pc # "done"
    BY <1>1, ResetStep DEF ServiceInv, ResetProviderIDIndex, CommonInv, TypeOK, Logout
  <2> QED BY <2>1, SharedKeepsAnswering DEF ServiceInv
<1>2. CASE GetNextProviderID
  <2>1. CommonInv' /\ req' = req /\ final' = final /\ pc # "done" /\ lo \in Logout
        /\ lo' = [lo EXCEPT !.index = lo'.index]
    BY <1>2, NextStep DEF ServiceInv, GetNextProviderID, CommonInv, TypeOK
  <2>2. /\ lo'.imethod = lo.imethod /\ lo'.iremote = lo.iremote /\ lo'.iresponse = lo.iresponse
        /\ lo'.remote = lo.remote /\ lo'.response = lo.response
    BY <2>1 DEF Logout
  <2> QED BY <2>1, <2>2, SharedKeepsAnswering DEF ServiceInv
<1>3. CASE Redirect
  <2>1. CommonInv' /\ req' = req /\ final' = final /\ pc # "done" /\ lo \in Logout
        /\ lo' = RestoreLogout(lo)
    BY <1>3, RedirectStep DEF ServiceInv, Redirect, CommonInv, TypeOK
  <2>2. /\ lo'.imethod = lo.imethod /\ lo'.iremote = lo.iremote /\ lo'.iresponse = lo.iresponse
        /\ lo'.remote = lo.remote /\ lo'.response = lo.response
    BY <2>1 DEF Logout, RestoreLogout
  <2> QED BY <2>1, <2>2, SharedKeepsAnswering DEF ServiceInv
<1>4. CASE Refuse \/ StartLocally \/ NoAnswer \/ UNCHANGED vars
  <2>1. CommonInv'
    BY <1>4, WaitStep DEF ServiceInv
  <2>2. req' = req /\ final' = final /\ lo' = lo /\ (pc # "done" \/ pc' = pc)
    BY <1>4 DEF Refuse, StartLocally, NoAnswer, vars
  <2>3. pc' \in Traversing \cup {"respond"} => pc # "done"
    BY <2>2 DEF Traversing
  <2> QED BY <2>1, <2>2, <2>3, SharedKeepsAnswering DEF ServiceInv
<1> QED BY <1>1, <1>2, <1>3, <1>4

LEMMA ServiceStep == ServiceInv /\ [Next]_vars => ServiceInv'
<1> SUFFICES ASSUME ServiceInv, [Next]_vars PROVE ServiceInv'
  OBVIOUS
<1>1. CASE \E r \in Requests : ProcessRequestMsg(r)
  BY <1>1, ProcessRequestStep
<1>2. CASE ValidateRequest
  BY <1>2, ValidateStep
<1>3. CASE \E m \in AskMethods : InitRequest(m)
  BY <1>3, InitRequestStep
<1>4. CASE \E p \in Providers, status \in Answers : ProcessResponseMsg(p, status)
  BY <1>4, ResponseStep
<1>5. CASE Continue
  BY <1>5, ContinueStep
<1>6. CASE BuildResponseMsg
  BY <1>6, BuildStep
<1>7. CASE \/ ResetProviderIDIndex \/ GetNextProviderID \/ Redirect
           \/ Refuse \/ StartLocally \/ NoAnswer \/ UNCHANGED vars
  BY <1>7, SharedStep
<1> QED BY <1>1, <1>2, <1>3, <1>4, <1>5, <1>6, <1>7 DEF Next, Done

LEMMA InitService == Init => ServiceInv
<1> SUFFICES ASSUME Init PROVE ServiceInv
  OBVIOUS
<1>1. CommonInv
  BY InitCommon
<1>2. Answering
  BY DEF Init, Answering, AnswersTheRequester
<1> QED BY <1>1, <1>2 DEF ServiceInv

(***************************************************************************)
(* Invariance: the inductive invariant of the SAML 2.0 logout              *)
(* (lasso_saml20_logout_... behind lasso_logout_...) holds always.         *)
(***************************************************************************)
THEOREM Invariance == Spec => []ServiceInv
BY InitService, ServiceStep, PTL DEF Spec

(***************************************************************************)
(* TypeCorrect: the session, the logout object and the message have their  *)
(* types whatever requests and answers arrive.                             *)
(***************************************************************************)
THEOREM TypeCorrect == Spec => []TypeOK
<1>1. ServiceInv => TypeOK
  BY DEF ServiceInv, CommonInv
<1> QED BY <1>1, Invariance, PTL

(***************************************************************************)
(* RequesterAnswered: for any number of providers, bindings, answers and   *)
(* removals, the message lasso_saml20_logout_build_response_msg sends goes *)
(* to the requester, from the local provider, by the binding of the        *)
(* request.                                                                *)
(***************************************************************************)
THEOREM RequesterAnswered == Spec => []AnswersTheRequester
<1>1. ServiceInv => AnswersTheRequester
  BY DEF ServiceInv, Answering
<1> QED BY <1>1, Invariance, PTL

(***************************************************************************)
(* InitialStateKept: no call of init_request or process_response_msg loses *)
(* the initial request and response that                                   *)
(* lasso_saml20_logout_validate_request put aside.                         *)
(***************************************************************************)
THEOREM InitialStateKept == Spec => []InitialKept
<1>1. ServiceInv => InitialKept
  BY DEF ServiceInv, CommonInv
<1> QED BY <1>1, Invariance, PTL

(***************************************************************************)
(* SessionCovered: lasso_logout_get_next_providerID misses no provider of  *)
(* the session, over any number of removals, skipped requesters and dumps  *)
(* in between.                                                             *)
(***************************************************************************)
THEOREM SessionCovered == Spec => []WholeSessionTried
<1>1. ServiceInv => WholeSessionTried
  BY DEF ServiceInv, CommonInv
<1> QED BY <1>1, Invariance, PTL

-----------------------------------------------------------------------------
(* Who has not confirmed is counted *)

\* Steps that leave the assertions, the confirmations and the answer alone.
LEMMA AccountsKept ==
  ASSUME Accounting, UNCHANGED <<req, final, targets, confirmed>>,
         Counted(sess') = Counted(sess),
         req # None => (RemoveAssertionOk(sess', req.from) <=> RemoveAssertionOk(sess, req.from)),
         lo'.iremote = lo.iremote, lo'.response = lo.response,
         pc' = pc \/ pc' \notin {"idle", "accepted"},
         cur' = cur \/ pc' # "accepted"
  PROVE  Accounting'
<1>1. Waiting' = Waiting
  BY DEF Waiting
<1> QED BY <1>1 DEF Accounting

LEMMA AccountingStep ==
  ASSUME Accountable, ServiceInv, Accounting, [Next]_vars
  PROVE  Accounting'
<1>1. ASSUME NEW r \in Requests, ProcessRequestMsg(r) PROVE Accounting'
  <2>1. /\ pc = "idle" /\ UNCHANGED <<sess, final, targets, confirmed>>
        /\ pc' \in {"validate", "respond"}
        /\ lo' = [lo EXCEPT !.remote = r.from, !.request = r.from,
                            !.method = r.method, !.imethod = r.method]
    BY <1>1 DEF ProcessRequestMsg, history
  <2>2. lo'.response = None /\ final = None /\ targets = Counted(sess)
    BY <2>1 DEF ServiceInv, CommonInv, Flow, TypeOK, Logout, Accounting
  <2>3. Response(Local, "Success") # None
    BY RolesAreTyped DEF Response, Responses, StatusCodes
  <2> QED BY <2>1, <2>2, <2>3 DEF Accounting, Waiting
<1>2. CASE ValidateRequest
  <2>1. /\ req # None /\ req.from \in Providers
        /\ \/ sess' = sess /\ lo'.response # Response(Local, "Success")
           \/ /\ sess' = RemoveAssertion(sess, req.from)
              /\ req.from \notin IdPs /\ lo'.iremote = None => Counted(sess') = {}
    BY <1>2, ValidateStep
  <2>2. /\ UNCHANGED <<req, final, targets, confirmed>> /\ pc' \in {"respond", "traverse"}
        /\ final = None
    BY <1>2 DEF ValidateRequest, history, ServiceInv, CommonInv, Flow
  <2>3. CASE sess' = sess /\ lo'.response # Response(Local, "Success")
    BY <2>2, <2>3 DEF Accounting, Waiting
  <2>4. CASE /\ sess' = RemoveAssertion(sess, req.from)
             /\ req.from \notin IdPs /\ lo'.iremote = None => Counted(sess') = {}
    <3>1. /\ Counted(sess') = Counted(sess) \ {req.from}
          /\ ~ RemoveAssertionOk(sess', req.from)
      BY <2>1, <2>4, RemoveAssertionOut DEF ServiceInv, CommonInv, SessionInv
    <3>2. Waiting' \subseteq Waiting \ {req.from}
      BY <2>1, <2>2, <3>1 DEF Waiting
    <3> QED BY <2>2, <2>4, <3>1, <3>2 DEF Accounting
  <2> QED BY <2>1, <2>3, <2>4
<1>3. ASSUME NEW m \in AskMethods, InitRequest(m) PROVE Accounting'
  <2>1. /\ UNCHANGED <<sess, req, final, targets, confirmed>>
        /\ pc' \in {"call", "redirect", "traverse"}
        /\ lo' = [lo EXCEPT !.remote = cur, !.method = m, !.request = Local]
    BY <1>3 DEF InitRequest
  <2>2. lo'.iremote = lo.iremote /\ lo'.response = lo.response
    BY <2>1 DEF ServiceInv, CommonInv, TypeOK, Logout
  <2> QED BY <2>1, <2>2, AccountsKept
<1>4. ASSUME NEW p \in Providers, NEW status \in Answers, ProcessResponseMsg(p, status)
      PROVE  Accounting'
  <2>1. /\ UNCHANGED <<sess, req, final, targets>> /\ cur' = p
        /\ confirmed' = IF ResponseRc(status) = "OK" THEN confirmed \cup {p} ELSE confirmed
        /\ pc' = IF ResponseRc(status) = "OK" THEN "accepted" ELSE "failed"
    BY <1>4 DEF ProcessResponseMsg
  <2>2. \/ lo'.iremote = lo.iremote /\ lo'.response = Response(p, status)
        \/ Counted(sess) = {} /\ lo.iremote # None
    BY <1>4, ResponseStep
  <2>3. Response(p, status) # Response(Local, "Success")
    BY RolesAreTyped DEF Response
  <2>5. Waiting' \subseteq Waiting
    BY <2>1 DEF Waiting
  <2>6. pc' # "idle"
    BY <2>1
  <2>7. pc' = "accepted" /\ AppRemoves = "success" => cur' \in confirmed'
    BY <2>1
  <2> QED BY <2>1, <2>2, <2>3, <2>5, <2>6, <2>7 DEF Accounting
<1>5. CASE Continue
  <2>1. /\ pc \in {"accepted", "failed"} /\ pc' = "traverse"
        /\ sess' = IF AppRemoves = "success" /\ pc = "accepted"
                   THEN RemoveAssertion(sess, cur) ELSE sess
        /\ UNCHANGED <<lo, req, cur, final, targets, confirmed>>
    BY <1>5 DEF Continue, history, Accountable
  <2>2. CASE sess' = sess
    BY <2>1, <2>2, AccountsKept
  <2>3. CASE sess' = RemoveAssertion(sess, cur) /\ cur \in confirmed
    <3>1. cur \in Providers /\ (req # None => req.from \in Providers)
      BY <2>1, RequestTyped DEF ServiceInv, CommonInv, Flow, TypeOK
    <3>2. /\ Counted(sess') = Counted(sess) \ {cur}
          /\ \A q \in Providers : RemoveAssertionOk(sess', q) <=> q # cur /\ RemoveAssertionOk(sess, q)
      BY <2>3, <3>1, RemoveAssertionOut DEF ServiceInv, CommonInv, SessionInv
    <3>3. Waiting' \subseteq Waiting \ {cur}
      BY <2>1, <2>3, <3>1, <3>2 DEF Waiting
    <3> QED BY <2>1, <3>2, <3>3 DEF Accounting
  <2> QED BY <2>1, <2>2, <2>3 DEF Accounting
<1>6. CASE BuildResponseMsg
  <2>1. /\ final' # None /\ req # None /\ final'.status = lo'.response.status
        /\ final'.status = "Success" =>
             \/ lo.iremote # None /\ Counted(sess) = {}
             \/ lo.iremote = None /\ lo.response = Response(Local, "Success")
    BY <1>6, BuildStep
  <2>2. UNCHANGED <<sess, req, cur, targets, confirmed>> /\ pc' = "done"
    BY <1>6 DEF BuildResponseMsg, history
  <2>3. Response(Local, "Success").status = "Success"
    BY DEF Response
  <2>4. Waiting' = Waiting
    BY <2>2 DEF Waiting
  <2> QED BY <2>1, <2>2, <2>3, <2>4 DEF Accounting
<1>7. CASE ResetProviderIDIndex \/ GetNextProviderID
  <2>1. /\ sess'.assertions = sess.assertions /\ sess'.nids = sess.nids
        /\ lo'.iremote = lo.iremote /\ lo'.response = lo.response
    <3>1. CASE ResetProviderIDIndex
      <4>1. sess' \in InitProviderIds(sess) /\ lo' = lo
        BY <3>1 DEF ResetProviderIDIndex, ServiceInv, CommonInv, TypeOK, Logout
      <4> QED BY <4>1, InitProviderIdsList DEF ServiceInv, CommonInv, SessionInv
    <3>2. CASE GetNextProviderID
      <4>1. /\ sess'.assertions = sess.assertions /\ sess'.nids = sess.nids
            /\ lo' = [lo EXCEPT !.index = lo'.index] /\ lo \in Logout
        BY <3>2, NextStep DEF ServiceInv, CommonInv, TypeOK
      <4> QED BY <4>1 DEF Logout
    <3> QED BY <1>7, <3>1, <3>2
  <2>2. /\ Counted(sess') = Counted(sess)
        /\ \A q : RemoveAssertionOk(sess', q) <=> RemoveAssertionOk(sess, q)
    BY <2>1, SameTablesSame
  <2>3. UNCHANGED <<req, final, targets, confirmed>>
    BY <1>7 DEF ResetProviderIDIndex, GetNextProviderID, history
  <2>4. (pc' = pc /\ cur' = cur) \/ pc' \in {"ask", "respond", "done"}
    BY <1>7 DEF ResetProviderIDIndex, GetNextProviderID
  <2> QED BY <2>1, <2>2, <2>3, <2>4, AccountsKept
<1>8. CASE Redirect
  <2>1. /\ sess' = Restore(Dump(sess)) /\ lo' = RestoreLogout(lo) /\ pc' = "away"
        /\ UNCHANGED <<req, cur, final, targets, confirmed>>
    BY <1>8 DEF Redirect
  <2>2. lo'.iremote = lo.iremote /\ lo'.response = lo.response
    BY <2>1 DEF ServiceInv, CommonInv, TypeOK, Logout, RestoreLogout
  <2>3. /\ Counted(sess') = Counted(sess)
        /\ \A q \in Providers : RemoveAssertionOk(sess', q) <=> RemoveAssertionOk(sess, q)
    BY <2>1, RestoreDumpSame DEF ServiceInv, CommonInv, SessionInv
  <2>4. req # None => req.from \in Providers
    BY RequestTyped DEF ServiceInv, CommonInv
  <2> QED BY <2>1, <2>2, <2>3, <2>4, AccountsKept
<1>9. CASE Refuse \/ StartLocally \/ NoAnswer \/ UNCHANGED vars
  <2>1. /\ UNCHANGED <<sess, lo, req, cur, final, targets, confirmed>>
        /\ pc' = pc \/ pc' \in {"respond", "traverse"}
    BY <1>9 DEF Refuse, StartLocally, NoAnswer, vars, history
  <2> QED BY <2>1, AccountsKept
<1> QED BY <1>1, <1>2, <1>3, <1>4, <1>5, <1>6, <1>7, <1>8, <1>9 DEF Next, Done

LEMMA InitAccounting ==
  ASSUME Accountable, Init
  PROVE  Accounting
<1>1. PICK L \in SUBSET Providers : sess = SessionWith(L) /\ targets = L
  BY DEF Init
<1>2. Counted(sess) = targets
  BY <1>1, SessionWithFacts DEF Accountable
<1>3. req = None /\ final = None /\ pc = "idle" /\ confirmed = {}
  BY DEF Init
<1> QED BY <1>2, <1>3 DEF Accounting, Waiting

LEMMA AccountingSettles ==
  ASSUME ServiceInv, Accounting
  PROVE  SuccessMeansLoggedOut
<1> SUFFICES ASSUME final # None, final.status = "Success", req.from \notin IdPs,
                    NEW p \in targets \ {req.from}
             PROVE  p \in confirmed
  BY DEF SuccessMeansLoggedOut
<1>1. Waiting = {}
  BY DEF Accounting
<1> QED BY <1>1 DEF Waiting

(***************************************************************************)
(* CompleteSuccess: when the application removes an assertion only for a   *)
(* provider that confirmed, and thin sessions hold only logins they can    *)
(* count, a Success of lasso_saml20_logout_build_response_msg means that   *)
(* every other provider confirmed its own logout, for any number of        *)
(* providers and any answers, PartialLogout included.                      *)
(***************************************************************************)
THEOREM CompleteSuccess ==
  ASSUME Accountable
  PROVE  Spec => []SuccessMeansLoggedOut
<1>1. Init => Accounting
  BY InitAccounting
<1>2. ServiceInv /\ Accounting /\ [Next]_vars => Accounting'
  BY AccountingStep
<1>3. ServiceInv /\ Accounting => SuccessMeansLoggedOut
  BY AccountingSettles
<1> QED BY <1>1, <1>2, <1>3, Invariance, PTL DEF Spec

-----------------------------------------------------------------------------
(* Nobody is asked twice *)

LEMMA AdvancingStep == ServiceInv /\ Advancing /\ [Next]_vars => Advancing'
<1> SUFFICES ASSUME ServiceInv, Advancing, [Next]_vars PROVE Advancing'
  OBVIOUS
<1>1. CommonInv
  BY DEF ServiceInv
<1>2. CASE (\E r \in Requests : ProcessRequestMsg(r)) \/ ValidateRequest
  <2>1. /\ pc \in {"idle", "validate"} /\ UNCHANGED <<tried, redirected>>
        /\ pc' \in {"validate", "respond", "traverse"}
    BY <1>2 DEF ProcessRequestMsg, ValidateRequest, history
  <2>2. tried = {}
    BY <1>1, <2>1 DEF CommonInv, Flow
  <2> QED BY <2>1, <2>2, AdvancingKept
<1>3. ASSUME NEW m \in AskMethods, InitRequest(m) PROVE Advancing'
  <2>1. /\ pc = "ask" /\ pc' # "ask" /\ tried' = tried \cup {cur} /\ sess' = sess
        /\ lo' = [lo EXCEPT !.remote = cur, !.method = m, !.request = Local]
        /\ UNCHANGED <<req, redirected>>
    BY <1>3 DEF InitRequest
  <2>2. lo'.index = lo.index
    BY <1>1, <2>1 DEF CommonInv, TypeOK, Logout
  <2> QED BY <1>1, <2>1, <2>2, AdvancingAsks
<1>4. ASSUME NEW p \in Providers, NEW status \in Answers, ProcessResponseMsg(p, status)
      PROVE  Advancing'
  <2>1. /\ pc # "ask" /\ pc' # "ask" /\ sess' = sess /\ UNCHANGED <<req, tried, redirected>>
    BY <1>4 DEF ProcessResponseMsg, CanAnswer
  <2>2. lo'.index = lo.index
    BY <1>4, ResponseStep
  <2> QED BY <2>1, <2>2, AdvancingKept
<1>5. CASE Continue
  <2>1. /\ pc \in {"accepted", "failed"} /\ pc' = "traverse" /\ lo' = lo
        /\ UNCHANGED <<req, tried, redirected>>
        /\ sess' = sess \/ sess' = RemoveAssertion(sess, cur)
    BY <1>5 DEF Continue, history
  <2>2. cur \in Providers
    BY <1>1, <2>1 DEF CommonInv, Flow, TypeOK
  <2>3. sess'.providerIDs = sess.providerIDs
    BY <1>1, <2>1, <2>2, RemoveAssertionOut DEF CommonInv, SessionInv
  <2> QED BY <2>1, <2>3, AdvancingKept
<1>6. CASE BuildResponseMsg
  <2>1. pc = "respond" /\ pc' = "done" /\ sess' = sess /\ UNCHANGED <<req, tried, redirected>>
    BY <1>6 DEF BuildResponseMsg, history
  <2>2. lo'.index = lo.index
    BY <1>6, BuildStep
  <2> QED BY <2>1, <2>2, AdvancingKept
<1>7. CASE \/ ResetProviderIDIndex \/ GetNextProviderID \/ Redirect
           \/ Refuse \/ StartLocally \/ NoAnswer \/ UNCHANGED vars
  BY <1>1, <1>7, AdvancingShared
<1> QED BY <1>2, <1>3, <1>4, <1>5, <1>6, <1>7 DEF Next, Done

(***************************************************************************)
(* RequesterSpared: lasso_logout_get_next_providerID never returns the     *)
(* provider that asked for the logout, over any binding, although every    *)
(* dump restarts its index.                                                *)
(***************************************************************************)
THEOREM RequesterSpared == Spec => []Spared
<1>1. Advancing => Spared
  BY DEF Advancing
<1> QED BY <1>1, InitAdvancing, AdvancingStep, Invariance, PTL DEF Spec

(***************************************************************************)
(* AskedOnceUntilRedirect: until the user agent is first sent away,        *)
(* lasso_logout_get_next_providerID returns no provider twice, whatever    *)
(* bindings were tried and failed.  The dump that comes with a redirect    *)
(* resets the index.                                                       *)
(***************************************************************************)
THEOREM AskedOnceUntilRedirect == Spec => [](redirected = {} => AskedOnce)
<1>1. ServiceInv /\ Advancing => (redirected = {} => AskedOnce)
  BY AdvancingAsksOnce DEF ServiceInv
<1> QED BY <1>1, InitAdvancing, AdvancingStep, Invariance, PTL DEF Spec

(***************************************************************************)
(* NobodyAskedTwice: while the others are asked over SOAP,                 *)
(* lasso_logout_get_next_providerID returns no provider twice and never    *)
(* the requester.                                                          *)
(***************************************************************************)
THEOREM NobodyAskedTwice ==
  ASSUME AskMethods = {"SOAP"}
  PROVE  Spec => []AskedOnce
<1> DEFINE Stays == pc # "redirect" /\ redirected = {}
<1>1. Init => Stays
  BY DEF Init
<1>2. Stays /\ [Next]_vars => Stays'
  BY DEF Next, vars, history, ProcessRequestMsg, ValidateRequest, Refuse, StartLocally,
         ResetProviderIDIndex, GetNextProviderID, InitRequest, Redirect, NoAnswer,
         ProcessResponseMsg, Continue, BuildResponseMsg, Done
<1>3. Stays /\ (redirected = {} => AskedOnce) => AskedOnce
  OBVIOUS
<1> HIDE DEF Stays
<1> QED BY <1>1, <1>2, <1>3, AskedOnceUntilRedirect, PTL DEF Spec

-----------------------------------------------------------------------------
(* The contract *)

\* Steps in which nobody confirms and no message is sent are invisible.
LEMMA ContractStutters ==
  ASSUME UNCHANGED <<req, final, targets, confirmed>>,
         req # None => (RemoveAssertionOk(sess', req.from) <=> RemoveAssertionOk(sess, req.from))
  PROVE  UNCHANGED Contract!vars
<1>1. Waiting' = Waiting
  BY DEF Waiting
<1>2. Phase' = Phase
  BY DEF Phase
<1> QED BY <1>1, <1>2 DEF Contract!vars

LEMMA ContractStep ==
  ASSUME Accountable, ServiceInv, Accounting, [Next]_vars
  PROVE  [Contract!Next]_(Contract!vars)
<1>0. /\ ServiceInv' /\ Accounting'
      /\ req # None => req.from \in Providers
  BY ServiceStep, AccountingStep, RequestTyped DEF ServiceInv, CommonInv
<1>1. ASSUME NEW r \in Requests, ProcessRequestMsg(r) PROVE [Contract!Next]_(Contract!vars)
  <2>1. /\ pc = "idle" /\ req' = r /\ r # None
        /\ UNCHANGED <<sess, final, targets, confirmed>>
    BY <1>1, LogoutInputs DEF ProcessRequestMsg, history
  <2>2. req = None /\ final = None /\ targets = Counted(sess) /\ confirmed = {}
    BY <2>1 DEF ServiceInv, CommonInv, Flow, Accounting
  <2>3. Waiting' = Waiting
    BY <2>1, <2>2, CountedRemovable DEF Waiting
  <2>4. Phase = "idle" /\ Phase' \in {"idle", "serving"}
    BY <2>1, <2>2 DEF Phase
  <2> QED BY <2>3, <2>4 DEF Contract!Next, Contract!Ask, Contract!vars
<1>2. CASE ValidateRequest
  <2>1. /\ req # None /\ req.from \in Providers
        /\ sess' = sess \/ sess' = RemoveAssertion(sess, req.from)
    BY <1>2, ValidateStep
  <2>2. UNCHANGED <<req, final, targets, confirmed>> /\ final = None
    BY <1>2 DEF ValidateRequest, history, ServiceInv, CommonInv, Flow
  <2>3. Phase' = Phase /\ Phase \in {"idle", "serving"}
    BY <2>2 DEF Phase
  <2>4. CASE sess' = sess
    BY <2>2, <2>4, ContractStutters
  <2>5. CASE sess' = RemoveAssertion(sess, req.from)
    <3>1. ~ RemoveAssertionOk(sess', req.from)
      BY <2>1, <2>5, RemoveAssertionOut DEF ServiceInv, CommonInv, SessionInv
    <3>2. Waiting' = Waiting \ {req.from}
      BY <2>1, <2>2, <3>1 DEF Waiting
    <3> QED BY <2>1, <2>3, <3>2 DEF Contract!Next, Contract!Confirm, Contract!vars
  <2> QED BY <2>1, <2>4, <2>5
<1>3. ASSUME NEW p \in Providers, NEW status \in Answers, ProcessResponseMsg(p, status)
      PROVE  [Contract!Next]_(Contract!vars)
  <2>1. /\ UNCHANGED <<sess, req, final, targets>> /\ final = None
        /\ confirmed' = IF ResponseRc(status) = "OK" THEN confirmed \cup {p} ELSE confirmed
    BY <1>3 DEF ProcessResponseMsg, CanAnswer, ServiceInv, CommonInv, Flow
  <2>2. Phase' = Phase /\ Phase \in {"idle", "serving"}
    BY <2>1 DEF Phase
  <2>3. Waiting' = Waiting \/ Waiting' = Waiting \ {p}
    BY <2>1 DEF Waiting
  <2> QED BY <2>2, <2>3 DEF Contract!Next, Contract!Confirm, Contract!vars
<1>4. CASE Continue
  <2>1. /\ pc \in Traversing
        /\ sess' = sess \/ sess' = RemoveAssertion(sess, cur)
        /\ UNCHANGED <<req, final, targets, confirmed>> /\ cur \in Providers
    BY <1>4 DEF Continue, history, ServiceInv, CommonInv, Flow, TypeOK, Traversing
  <2>2. req # None => (RemoveAssertionOk(sess', req.from) <=> RemoveAssertionOk(sess, req.from))
    <3>1. req # None => ~ RemoveAssertionOk(sess, req.from)
      BY <2>1 DEF ServiceInv, CommonInv, Gone
    <3>2. CASE sess' = RemoveAssertion(sess, cur)
      BY <1>0, <2>1, <3>1, <3>2, RemoveAssertionOut DEF ServiceInv, CommonInv, SessionInv
    <3> QED BY <2>1, <3>2
  <2> QED BY <2>1, <2>2, ContractStutters
<1>5. CASE BuildResponseMsg
  <2>1. final' # None /\ req # None
    BY <1>5, BuildStep
  <2>2. /\ UNCHANGED <<sess, req, targets, confirmed>> /\ final = None
    BY <1>5 DEF BuildResponseMsg, history, ServiceInv, CommonInv, Flow
  <2>3. Waiting' = Waiting
    BY <2>2 DEF Waiting
  <2>4. CASE req.from \in IdPs
    <3>1. Phase' = Phase
      BY <2>1, <2>2, <2>4 DEF Phase
    <3> QED BY <2>3, <3>1 DEF Contract!vars
  <2>5. CASE req.from \notin IdPs
    <3>1. Phase = "serving" /\ Phase' \in {"success", "other"}
      BY <2>1, <2>2, <2>5 DEF Phase
    <3>2. Phase' = "success" => Waiting = {}
      BY <1>0, <2>1, <2>2, <2>3, <2>5 DEF Phase, Accounting
    <3> QED BY <2>3, <3>1, <3>2 DEF Contract!Next, Contract!Answer
  <2> QED BY <2>4, <2>5
<1>6. CASE ResetProviderIDIndex \/ GetNextProviderID
  <2>1. sess'.assertions = sess.assertions /\ sess'.nids = sess.nids
    BY <1>6, NextStep, InitProviderIdsList DEF ResetProviderIDIndex, ServiceInv, CommonInv, SessionInv
  <2>2. UNCHANGED <<req, final, targets, confirmed>>
    BY <1>6 DEF ResetProviderIDIndex, GetNextProviderID, history
  <2> QED BY <2>1, <2>2, SameTablesSame, ContractStutters
<1>7. CASE Redirect
  <2>1. sess' = Restore(Dump(sess)) /\ UNCHANGED <<req, final, targets, confirmed>>
    BY <1>7 DEF Redirect
  <2>2. \A q \in Providers : RemoveAssertionOk(sess', q) <=> RemoveAssertionOk(sess, q)
    BY <2>1, RestoreDumpSame DEF ServiceInv, CommonInv, SessionInv
  <2> QED BY <1>0, <2>1, <2>2, ContractStutters
<1>8. CASE \/ \E m \in AskMethods : InitRequest(m)
           \/ Refuse \/ StartLocally \/ NoAnswer \/ UNCHANGED vars
  <2>1. UNCHANGED <<sess, req, final, targets, confirmed>>
    BY <1>8 DEF InitRequest, Refuse, StartLocally, NoAnswer, vars, history
  <2> QED BY <2>1, ContractStutters
<1> QED BY <1>1, <1>2, <1>3, <1>4, <1>5, <1>6, <1>7, <1>8 DEF Next, Done

(***************************************************************************)
(* ImplementsContract: the safety part of KeepsContract.  Whatever the     *)
(* bindings, the answers and their order, each step of the logout is a     *)
(* step of SloContract or invisible to the requester: a Success is sent    *)
(* only when nobody is waited for, and the answer is given once            *)
(* (lasso_saml20_logout_build_response_msg).                               *)
(***************************************************************************)
THEOREM ImplementsContract ==
  ASSUME Accountable
  PROVE  Spec => Contract!Safety
<1>1. Init => Accounting /\ Contract!Init
  <2> SUFFICES ASSUME Init PROVE Accounting /\ Contract!Init
    OBVIOUS
  <2>1. Accounting
    BY InitAccounting
  <2>2. Waiting \subseteq Providers /\ Phase = "idle"
    BY DEF Init, Waiting, Phase
  <2> QED BY <2>1, <2>2 DEF Contract!Init
<1>2. ServiceInv /\ Accounting /\ [Next]_vars => Accounting' /\ [Contract!Next]_(Contract!vars)
  BY AccountingStep, ContractStep
<1> QED BY <1>1, <1>2, Invariance, PTL DEF Spec, Contract!Safety
=============================================================================
