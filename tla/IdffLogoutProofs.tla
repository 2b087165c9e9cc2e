-------------------------- MODULE IdffLogoutProofs --------------------------
(***************************************************************************)
(* Proofs about the ID-FF 1.2 single logout, for any number of providers   *)
(* and any logins, requests, answers and signatures.                       *)
(*                                                                         *)
(* The library removes assertions itself here, when it asks and when it is *)
(* answered.  Tracking says that a provider that was not tried is still    *)
(* counted, Settlement that one that has not settled is: so an empty       *)
(* session, the only thing the code looks at, stands for a finished        *)
(* logout.                                                                 *)
(***************************************************************************)
EXTENDS IdffLogout, LogoutProofs

\* The binding of the request is kept for the response.
ServiceInv ==
  /\ CommonInv
  /\ req # None => lo.method = req.method

\* Every provider takes a request by HTTP-Redirect, if that is ever used: one
\* that takes none is dropped from the session without being asked.
Reachable == "REDIRECT" \in AskMethods => HttpSlo = Providers

\* Who was not tried is counted.
Tracking ==
  /\ pc \in {"idle", "validate"} => targets = Counted(sess)
  /\ req # None => targets \ (tried \cup {req.from}) \subseteq Counted(sess)

\* Who has not settled is counted; a Success is ready only when nobody is.
Settlement ==
  /\ req # None => targets \ (confirmed \cup IdPs \cup {req.from}) \subseteq Counted(sess)
  /\ req # None /\ req.from \notin IdPs /\ lo.response = Response(Local, "Success") =>
       Counted(sess) = {}
  /\ final # None /\ final.by = Local /\ final.status = "Success" /\ req.from \notin IdPs =>
       Counted(sess) = {}

\* The requester is not asked, and a message for it is the local provider's:
\* while its name is put aside, the profile names a provider that was tried.
Standing ==
  /\ req # None => req.from \notin tried
  /\ pc = "ask" /\ req # None => cur # req.from
  /\ req # None /\ pc \in Traversing \cup {"respond"} =>
       \/ /\ lo.iremote = req.from /\ lo.iresponse = Response(Local, "Success")
          /\ lo.remote \in tried \cup {None}
       \/ /\ lo.iremote = None /\ lo.remote = req.from
          /\ lo.response # None => lo.response.by = Local
  /\ final # None /\ final.to = req.from => final.by = Local

\* What the requester receives is the local provider's own answer, by the
\* binding of the request, wherever else a message may be sent.
OwnAnswer ==
  final # None => final.method = req.method /\ (final.to = req.from => final.by = Local)

\* A provider has denied that the principal is logged in.
Denied(r) ==
  \E p \in Providers : r \in {Response(p, "RequestDenied"), Response(p, "FederationDoesNotExist")}

\* When the session held service providers only, none of them leaves it
\* without having answered: a request under way means that somebody is
\* counted, and an empty session that the initial response is back or that
\* the last answer was a denial.
Owing ==
  targets \cap IdPs = {} =>
    /\ Counted(sess) \cap IdPs = {} /\ tried \cap IdPs = {}
    /\ FirstOf(sess.providerIDs, Len(sess.providerIDs)) \cap IdPs = {}
    /\ pc = "ask" => cur \notin IdPs
    /\ pc \in {"ask", "call", "redirect", "away"} => Counted(sess) # {}
    /\ req # None /\ lo.iremote # None /\ Counted(sess) = {} => Denied(lo.response)
    /\ req # None /\ pc # "done" /\ lo.iremote = None => lo.response # None \/ lo.request # None
    /\ AnsweredWhenEmpty

-----------------------------------------------------------------------------
(* The steps of the protocol keep what is common *)

LEMMA RequestTyped ==
  ASSUME TypeOK, req # None
  PROVE  req \in LogoutRequest /\ req.from \in Providers /\ req.method \in Methods
BY IdffLogoutInputs DEF TypeOK, LogoutRequest

LEMMA ProcessRequestStep ==
  ASSUME ServiceInv, NEW r \in Requests, ProcessRequestMsg(r)
  PROVE  ServiceInv' /\ lo'.response = None /\ lo'.iremote = None /\ lo'.remote = r.from
<1>1. /\ pc = "idle" /\ req' = r /\ pc' = "validate"
      /\ lo' = [lo EXCEPT !.remote = r.from, !.request = r.from, !.method = r.method]
      /\ UNCHANGED <<sess, cur, final, targets, tried, redirected, confirmed, partly>>
  BY DEF ProcessRequestMsg, history
<1>2. /\ r.from \in Providers /\ r.method \in Methods /\ r # None
  BY IdffLogoutInputs, LogoutInputs DEF LogoutRequest
<1>3. /\ lo' \in Logout /\ lo'.remote = r.from /\ lo'.method = r.method
      /\ lo'.index = lo.index /\ lo'.iremote = lo.iremote /\ lo'.response = lo.response
  BY <1>1, <1>2 DEF ServiceInv, CommonInv, TypeOK, Logout
<1>4. /\ lo.index = 0 /\ lo.iremote = None /\ lo.response = None /\ final = None /\ tried = {}
  BY <1>1 DEF ServiceInv, CommonInv, Flow
<1>5. TypeOK' /\ SessionInv'
  BY <1>1, <1>3 DEF ServiceInv, CommonInv, TypeOK, SessionInv, Pcs
<1>6. Flow' /\ Gone' /\ InitialKept'
  BY <1>1, <1>2, <1>3, <1>4 DEF Flow, Gone, InitialKept, Traversing
<1>7. Listing' /\ WholeSessionTried'
  BY <1>1, <1>3, <1>4 DEF ServiceInv, CommonInv, Listing, WholeSessionTried
<1> QED BY <1>2, <1>3, <1>4, <1>5, <1>6, <1>7, <1>1 DEF ServiceInv, CommonInv

LEMMA ValidateStep ==
  ASSUME ServiceInv, ValidateRequest
  PROVE  /\ ServiceInv' /\ req # None /\ req.from \in Providers
         /\ \/ sess' = sess /\ lo'.response # Response(Local, "Success")
            \/ /\ sess' = RemoveAssertion(sess, req.from)
               /\ req.from \notin IdPs /\ lo'.response # None => Counted(sess') = {}
         /\ \/ /\ lo'.iremote = req.from /\ lo'.iresponse = Response(Local, "Success")
               /\ lo'.remote = None /\ Counted(sess') # {}
            \/ lo'.iremote = None /\ lo'.remote = req.from /\ lo'.response.by = Local
<1> DEFINE status == ValidationStatus(req, sess)
           responded == [lo EXCEPT !.response = Response(Local, status)]
<1>1. /\ pc = "validate" /\ UNCHANGED <<req, cur, final, targets, tried, redirected, confirmed, partly>>
  BY DEF ValidateRequest, history
<1>2. /\ lo.index = 0 /\ lo.iremote = None /\ lo.remote = req.from /\ lo.response = None
      /\ final = None /\ tried = {} /\ req # None
  BY <1>1 DEF ServiceInv, CommonInv, Flow
<1>3. req \in LogoutRequest /\ req.from \in Providers /\ req.method \in Methods
  BY <1>2, RequestTyped DEF ServiceInv, CommonInv
<1>4. Response(Local, status) \in Responses
  BY DEF Response, Responses, ValidationStatus, StatusCodes
<1>5. /\ responded \in Logout /\ responded.index = 0 /\ responded.method = lo.method
      /\ responded.iremote = None /\ responded.remote = req.from
      /\ responded.response = Response(Local, status) /\ responded.response.by = Local
  <2> HIDE DEF status
  <2> QED BY <1>2, <1>4 DEF ServiceInv, CommonInv, TypeOK, Logout, Response
<1>6. CASE status # "Success"
  <2>1. lo' = responded /\ pc' = "respond" /\ sess' = sess
    BY <1>6 DEF ValidateRequest
  <2> HIDE DEF responded, status
  <2>2. TypeOK' /\ SessionInv'
    BY <1>1, <1>5, <2>1 DEF ServiceInv, CommonInv, TypeOK, SessionInv, Pcs
  <2>3. Flow' /\ Gone' /\ InitialKept' /\ WholeSessionTried'
    BY <1>1, <1>2, <1>5, <2>1 DEF Flow, Gone, InitialKept, Traversing, WholeSessionTried
  <2>4. Listing'
    BY <1>1, <1>2, <1>5, <2>1 DEF ServiceInv, CommonInv, Listing
  <2>5. /\ lo'.method = lo.method /\ lo'.iremote = None /\ lo'.remote = req.from
        /\ lo'.response.by = Local
    BY <1>5, <2>1
  <2>6. lo'.response # Response(Local, "Success")
    BY <1>5, <1>6, <2>1 DEF Response
  <2> QED BY <1>1, <1>2, <1>3, <2>1, <2>2, <2>3, <2>4, <2>5, <2>6 DEF ServiceInv, CommonInv
<1>7. CASE status = "Success"
  <2>1. /\ sess' = RemoveAssertion(sess, req.from)
        /\ lo' = IF req.from \notin IdPs /\ CountAssertions(sess') >= 1
                 THEN SaveInitial(responded) ELSE responded
        /\ pc' = IF req.from \in IdPs THEN "respond" ELSE "traverse"
    BY <1>7 DEF ValidateRequest
  <2>2. /\ SaveInitial(responded) \in Logout /\ SaveInitial(responded).index = 0
        /\ SaveInitial(responded).method = lo.method
        /\ SaveInitial(responded).iremote = req.from
        /\ SaveInitial(responded).iresponse = Response(Local, "Success")
        /\ SaveInitial(responded).response = None /\ SaveInitial(responded).remote = None
    <3>1. responded.response = Response(Local, "Success")
      BY <1>5, <1>7
    <3>2. PICK t : t = responded
      OBVIOUS
    <3>3. /\ t \in Logout /\ t.index = 0 /\ t.method = lo.method /\ t.remote = req.from
          /\ t.response = Response(Local, "Success")
      BY <1>5, <3>1, <3>2
    <3> HIDE DEF responded
    <3>4. /\ SaveInitial(t) \in Logout /\ SaveInitial(t).index = 0
          /\ SaveInitial(t).method = lo.method /\ SaveInitial(t).iremote = req.from
          /\ SaveInitial(t).iresponse = Response(Local, "Success")
          /\ SaveInitial(t).response = None /\ SaveInitial(t).remote = None
      BY <3>3, ZenonT(30) DEF SaveInitial, Logout
    <3> QED BY <3>2, <3>4
  <2> HIDE DEF responded, status
  <2>3. /\ lo' \in Logout /\ lo'.index = 0 /\ lo'.method = lo.method
        /\ \/ /\ lo'.iremote = req.from /\ lo'.iresponse = Response(Local, "Success")
              /\ lo'.response = None /\ lo'.remote = None /\ CountAssertions(sess') >= 1
           \/ /\ lo'.iremote = None /\ lo'.remote = req.from /\ lo'.response.by = Local
              /\ req.from \notin IdPs => CountAssertions(sess') < 1
        /\ req.from \in IdPs => lo'.iremote = None
    <3>1. CASE req.from \notin IdPs /\ CountAssertions(sess') >= 1
      BY <2>1, <2>2, <3>1
    <3>2. CASE ~ (req.from \notin IdPs /\ CountAssertions(sess') >= 1)
      <4>1. CountAssertions(sess') \in Nat
        BY <1>3, <2>1, CountZero, RemoveAssertionSound DEF ServiceInv, CommonInv, SessionInv
      <4> QED BY <1>5, <2>1, <3>2, <4>1
    <3> QED BY <3>1, <3>2
  <2>4. Sound(sess') /\ ~ RemoveAssertionOk(sess', req.from)
    BY <1>3, <2>1, RemoveAssertionSound, RemoveAssertionOut DEF ServiceInv, CommonInv, SessionInv
  <2>5. /\ CountAssertions(sess') < 1 => SloProviders(sess') = {} /\ Counted(sess') = {}
        /\ CountAssertions(sess') >= 1 => Counted(sess') # {}
    BY <2>4, CountZero
  <2>6. SessionInv' /\ Listing'
    BY <1>1, <1>2, <1>3, <2>1, <2>3, RemovalKeepsListing DEF ServiceInv, CommonInv
  <2>7. TypeOK'
    BY <1>1, <2>1, <2>3, <2>4 DEF ServiceInv, CommonInv, TypeOK, Pcs, Sound, StoredSound
  <2>8. InitialKept'
    BY <1>1, <2>1, <2>3, <2>5 DEF InitialKept
  <2>9. Flow' /\ Gone' /\ WholeSessionTried'
    BY <1>1, <1>2, <2>1, <2>3, <2>4 DEF Flow, Gone, Traversing, WholeSessionTried
  <2>10. req.from \notin IdPs /\ lo'.response # None => Counted(sess') = {}
    BY <1>3, <2>3, <2>5, RolesAreTyped
  <2> QED BY <1>1, <1>2, <1>3, <2>1, <2>3, <2>5, <2>6, <2>7, <2>8, <2>9, <2>10 DEF ServiceInv, CommonInv
<1> QED BY <1>6, <1>7

\* Asking removes the assertion of the provider at most, and makes a response
\* ready only where no provider takes the request.
LEMMA InitRequestStep ==
  ASSUME ServiceInv, NEW m \in AskMethods, InitRequest(m)
  PROVE  /\ ServiceInv' /\ cur \in Providers
         /\ lo'.iremote = lo.iremote /\ lo'.iresponse = lo.iresponse
         /\ (lo'.response = lo.response /\ lo'.remote = cur) \/ (m = "REDIRECT" /\ cur \notin HttpSlo)
         /\ \/ sess' = sess
            \/ /\ sess' = RemoveAssertion(sess, cur)
               /\ m = "REDIRECT" /\ cur \notin HttpSlo \cap (Providers \ IdPs)
<1> DEFINE asked == [lo EXCEPT !.remote = cur]
<1>1. /\ pc = "ask" /\ tried' = tried \cup {cur} /\ pc' \in {"call", "redirect", "traverse"}
      /\ UNCHANGED <<req, cur, final, targets, redirected, confirmed, partly>>
  BY DEF InitRequest
<1>2. cur \in Providers /\ m \in Methods /\ final = None /\ lo \in Logout
  BY <1>1, LogoutInputs DEF ServiceInv, CommonInv, Flow, TypeOK
<1>3. /\ asked \in Logout /\ asked.index = lo.index /\ asked.method = lo.method
      /\ asked.iremote = lo.iremote /\ asked.iresponse = lo.iresponse /\ asked.response = lo.response
      /\ asked.remote = cur
  BY <1>2 DEF Logout
<1>4. /\ \/ lo' = asked
         \/ lo' = LastResort(asked) /\ m = "REDIRECT" /\ ~ Accepts(cur, m)
         \/ lo' = [asked EXCEPT !.imethod = m, !.request = Local]
      /\ \/ sess' = sess
         \/ /\ sess' = RemoveAssertion(sess, cur) /\ m = "REDIRECT"
            /\ ~ Accepts(cur, m) \/ cur \in IdPs
  BY DEF InitRequest
<1> HIDE DEF asked
<1>5. /\ lo' \in Logout /\ lo'.index = lo.index /\ lo'.method = lo.method
      /\ lo'.iremote = lo.iremote /\ lo'.iresponse = lo.iresponse
      /\ (lo'.response = lo.response /\ lo'.remote = cur) \/ (m = "REDIRECT" /\ cur \notin HttpSlo)
  <2>1. CASE lo' = asked
    BY <1>3, <2>1
  <2>2. CASE lo' = LastResort(asked) /\ m = "REDIRECT" /\ ~ Accepts(cur, m)
    <3>1. Response(Local, "Success") \in Responses
      BY DEF Response, Responses, StatusCodes
    <3>2. lo' = asked \/ lo' = [asked EXCEPT !.remote = asked.iremote, !.response = Response(Local, "Success")]
      BY <2>2 DEF LastResort
    <3> QED BY <1>3, <2>2, <3>1, <3>2 DEF Logout, Accepts
  <2>3. CASE lo' = [asked EXCEPT !.imethod = m, !.request = Local]
    BY <1>2, <1>3, <2>3 DEF Logout
  <2> QED BY <1>4, <2>1, <2>2, <2>3
<1>6. /\ SessionInv' /\ Listing' /\ SloProviders(sess') \subseteq SloProviders(sess)
      /\ \A q \in Providers : RemoveAssertionOk(sess', q) => RemoveAssertionOk(sess, q)
  <2>1. CASE sess' = sess
    BY <1>1, <1>5, <2>1 DEF ServiceInv, CommonInv, SessionInv, Listing
  <2>2. CASE sess' = RemoveAssertion(sess, cur)
    BY <1>1, <1>2, <1>5, <2>2, RemovalKeepsListing, RemoveAssertionOut
       DEF ServiceInv, CommonInv, SessionInv
  <2> QED BY <1>4, <2>1, <2>2
<1>7. TypeOK'
  BY <1>1, <1>2, <1>5, <1>6 DEF ServiceInv, CommonInv, TypeOK, Pcs, SessionInv, Sound, StoredSound
<1>8. req # None => req.from \in Providers /\ lo.iremote = req.from
  BY <1>1, RequestTyped DEF ServiceInv, CommonInv, Flow
<1>9. Flow' /\ Gone'
  BY <1>1, <1>2, <1>5, <1>6, <1>8 DEF ServiceInv, CommonInv, Flow, Gone, Traversing
<1>10. InitialKept' /\ WholeSessionTried'
  BY <1>1, <1>5, <1>8, RolesAreTyped DEF ServiceInv, CommonInv, InitialKept, WholeSessionTried
<1>11. ServiceInv'
  BY <1>1, <1>5, <1>6, <1>7, <1>9, <1>10 DEF ServiceInv, CommonInv
<1> QED BY <1>2, <1>4, <1>5, <1>11 DEF Accepts

\* A response removes the assertion of the provider that settled, and brings
\* the initial response back only to an empty session.
LEMMA ResponseStep ==
  ASSUME ServiceInv, NEW p \in Providers, NEW status \in Answers, NEW sig \in Signatures,
         ProcessResponseMsg(p, status, sig)
  PROVE  /\ ServiceInv' /\ p \in tried /\ lo'.index = lo.index
         /\ sess' = sess \/ (sess' = RemoveAssertion(sess, p) /\ p \in confirmed' \cup IdPs)
         /\ confirmed \subseteq confirmed'
         /\ \/ /\ lo'.iremote = lo.iremote /\ lo'.iresponse = lo.iresponse
               /\ lo'.response = Response(p, status) /\ lo'.remote = p
            \/ /\ Counted(sess') = {} /\ lo.iremote # None /\ lo'.iremote = None
               /\ lo'.response = lo.iresponse /\ lo'.remote = lo.iremote
<1> DEFINE read == [lo EXCEPT !.remote = p, !.response = Response(p, status)]
           via == IF pc = "call" THEN "SOAP" ELSE "REDIRECT"
<1>1. /\ CanAnswer(p) /\ cur' = p
      /\ sess' = IF Examined(sig) /\ Removes(p, status, via) THEN RemoveAssertion(sess, p) ELSE sess
      /\ lo' = IF Examined(sig) /\ status = "Success" /\ RestoresInitial(lo, sess', p)
               THEN TransferInitial(read) ELSE read
      /\ confirmed' = IF Examined(sig) /\ status \in Settling THEN confirmed \cup {p} ELSE confirmed
      /\ UNCHANGED <<req, final, targets, tried, redirected, partly>>
      /\ pc' \in {"redirect", "accepted", "failed"}
      /\ pc' = "redirect" => status = "UnsupportedProfile"
  BY DEF ProcessResponseMsg, Rebuilt
<1>2. pc \in {"call", "away"} /\ p \in tried /\ final = None /\ lo \in Logout
  BY <1>1 DEF CanAnswer, ServiceInv, CommonInv, Flow, TypeOK
<1>3. Response(p, status) \in Responses
  BY IdffLogoutInputs DEF Response, Responses, Statuses, StatusCodes
<1>4. PICK t : t = read
  OBVIOUS
<1>5. /\ t \in Logout /\ t.index = lo.index /\ t.method = lo.method
      /\ t.iremote = lo.iremote /\ t.iresponse = lo.iresponse /\ t.response = Response(p, status)
      /\ t.remote = p
  BY <1>2, <1>3, <1>4 DEF Logout
<1>6. /\ TransferInitial(t) \in Logout /\ TransferInitial(t).index = lo.index
      /\ TransferInitial(t).method = lo.method /\ TransferInitial(t).iremote = None
      /\ TransferInitial(t).response = lo.iresponse /\ TransferInitial(t).remote = lo.iremote
  BY <1>5 DEF TransferInitial, Logout
<1>7. lo' = IF Examined(sig) /\ status = "Success" /\ RestoresInitial(lo, sess', p)
            THEN TransferInitial(t) ELSE t
  BY <1>1, <1>4
<1> HIDE DEF read
<1>8. sess' = sess \/ (sess' = RemoveAssertion(sess, p) /\ p \in confirmed' \cup IdPs)
  BY <1>1 DEF Removes, Rebuilt, Settling
<1>9. /\ SessionInv' /\ SloProviders(sess') \subseteq SloProviders(sess)
      /\ \A q \in Providers : RemoveAssertionOk(sess', q) => RemoveAssertionOk(sess, q)
      /\ sess'.providerIDs = sess.providerIDs
  BY <1>8, RemoveAssertionOut, RemoveAssertionSound DEF ServiceInv, CommonInv, SessionInv
<1>10. /\ lo' \in Logout /\ lo'.index = lo.index /\ lo'.method = lo.method
       /\ \/ /\ lo'.iremote = lo.iremote /\ lo'.iresponse = lo.iresponse
             /\ lo'.response = Response(p, status) /\ lo'.remote = p
          \/ /\ Counted(sess') = {} /\ lo.iremote # None /\ lo'.iremote = None
             /\ lo'.response = lo.iresponse /\ lo'.remote = lo.iremote /\ status = "Success"
  <2>1. CASE Examined(sig) /\ status = "Success" /\ RestoresInitial(lo, sess', p)
    <3>1. lo.iremote # None /\ CountAssertions(sess') <= 0
      BY <2>1 DEF RestoresInitial
    <3>2. Counted(sess') = {}
      BY <1>9, <3>1, CountZero DEF SessionInv
    <3> QED BY <1>6, <1>7, <2>1, <3>1, <3>2
  <2>2. CASE ~ (Examined(sig) /\ status = "Success" /\ RestoresInitial(lo, sess', p))
    BY <1>5, <1>7, <2>2
  <2> QED BY <2>1, <2>2
<1>11. TypeOK'
  BY <1>1, <1>2, <1>9, <1>10 DEF ServiceInv, CommonInv, TypeOK, Pcs, SessionInv, Sound, StoredSound
<1>12. req # None => req.from \in Providers /\ lo.iremote = req.from /\ lo.iresponse = Response(Local, "Success")
  <2>1. req # None => req.from \in Providers /\ lo.iremote = req.from
    BY <1>2, RequestTyped DEF ServiceInv, CommonInv, Flow
  <2> QED BY <1>2, <2>1, RolesAreTyped DEF ServiceInv, CommonInv, InitialKept
<1>13. Flow' /\ Gone'
  BY <1>1, <1>2, <1>9, <1>10, <1>12 DEF ServiceInv, CommonInv, Flow, Gone, Traversing
<1>14. Counted(sess') = {} => SloProviders(sess') = {}
  BY <1>9, CountZero DEF SessionInv
<1>15. InitialKept' /\ WholeSessionTried'
  BY <1>1, <1>10, <1>12, <1>14 DEF InitialKept, WholeSessionTried
<1>16. Listing'
  BY <1>1, <1>2, <1>9, <1>10 DEF ServiceInv, CommonInv, Listing
<1>17. ServiceInv'
  BY <1>1, <1>9, <1>10, <1>11, <1>13, <1>15, <1>16 DEF ServiceInv, CommonInv
<1> QED BY <1>1, <1>2, <1>8, <1>10, <1>17

LEMMA BuildStep ==
  ASSUME ServiceInv, BuildResponseMsg
  PROVE  /\ ServiceInv' /\ req # None /\ lo'.iremote = lo.iremote
         /\ lo'.response = lo.response \/ lo'.response = Response(Local, "RequestDenied")
         /\ final' # None => /\ lo'.response \in Responses /\ lo.remote # None
                             /\ final'.to = lo.remote /\ final'.method = lo.method
                             /\ final'.by = lo'.response.by /\ final'.status = lo'.response.status
<1>1. /\ pc = "respond" /\ pc' = "done"
      /\ \/ lo' = [lo EXCEPT !.response = Response(Local, "RequestDenied")]
         \/ lo' = lo
      /\ final' = IF lo'.remote = None \/ lo'.response = None THEN None
                  ELSE [to |-> lo'.remote, by |-> lo'.response.by,
                        status |-> lo'.response.status, method |-> lo'.method]
      /\ UNCHANGED <<sess, req, cur, targets, tried, redirected, confirmed, partly>>
  BY DEF BuildResponseMsg, history
<1>2. req # None /\ lo.method \in Methods /\ lo \in Logout
  BY <1>1, RequestTyped DEF ServiceInv, CommonInv, Flow, TypeOK
<1>3. Response(Local, "RequestDenied") \in Responses
  BY DEF Response, Responses, StatusCodes
<1>4. /\ lo' \in Logout /\ lo'.index = lo.index /\ lo'.method = lo.method /\ lo'.iremote = lo.iremote
      /\ lo'.remote = lo.remote
      /\ lo'.response = lo.response \/ lo'.response = Response(Local, "RequestDenied")
  BY <1>1, <1>2, <1>3 DEF Logout
<1>5. /\ final' # None => /\ lo'.response \in Responses /\ lo.remote # None
                          /\ final'.to = lo.remote /\ final'.method = lo.method
                          /\ final'.by = lo'.response.by /\ final'.status = lo'.response.status
      /\ final' \in Messages \cup {None}
  <2>1. CASE final' # None
    <3>1. lo'.remote \in Providers /\ lo'.response \in Responses
      BY <1>1, <1>4, <2>1 DEF Logout
    <3>2. lo'.response.by \in Providers \cup {Local} /\ lo'.response.status \in StatusCodes
      BY <3>1 DEF Responses
    <3> QED BY <1>1, <1>2, <1>4, <2>1, <3>1, <3>2 DEF Messages
  <2> QED BY <2>1
<1>6. TypeOK' /\ SessionInv'
  BY <1>1, <1>4, <1>5 DEF ServiceInv, CommonInv, TypeOK, SessionInv, Pcs
<1>7. Flow' /\ Gone' /\ InitialKept' /\ WholeSessionTried'
  BY <1>1, <1>2, <1>4 DEF Flow, Gone, InitialKept, WholeSessionTried, Traversing
<1>8. Listing'
  BY <1>1, <1>4 DEF ServiceInv, CommonInv, Listing
<1> QED BY <1>1, <1>2, <1>4, <1>5, <1>6, <1>7, <1>8 DEF ServiceInv, CommonInv

LEMMA ContinueStep ==
  ASSUME ServiceInv, Continue
  PROVE  ServiceInv'
<1>1. /\ pc \in {"accepted", "failed"} /\ pc' = "traverse"
      /\ UNCHANGED <<sess, lo, req, cur, final, targets, tried, redirected, confirmed, partly>>
  BY DEF Continue, history
<1>2. TypeOK' /\ SessionInv' /\ Listing' /\ WholeSessionTried'
  BY <1>1 DEF ServiceInv, CommonInv, TypeOK, SessionInv, Pcs, Listing, WholeSessionTried
<1>3. Flow' /\ Gone' /\ InitialKept'
  BY <1>1 DEF ServiceInv, CommonInv, Flow, Gone, InitialKept, Traversing
<1> QED BY <1>1, <1>2, <1>3 DEF ServiceInv, CommonInv

\* The steps that do not depend on the protocol leave the answer and the
\* count alone.
LEMMA SharedStep ==
  ASSUME ServiceInv,
         \/ ResetProviderIDIndex \/ GetNextProviderID \/ Redirect
         \/ Refuse \/ StartLocally \/ NoAnswer \/ UNCHANGED vars
  PROVE  /\ ServiceInv' /\ UNCHANGED <<req, final, targets, tried, confirmed>>
         /\ lo'.iremote = lo.iremote /\ lo'.iresponse = lo.iresponse
         /\ lo'.remote = lo.remote /\ lo'.response = lo.response
         /\ Counted(sess') = Counted(sess)
         /\ pc' \in {"idle", "validate"} => pc' = pc
<1>1. CASE ResetProviderIDIndex
  <2>1. /\ CommonInv' /\ lo' = lo /\ UNCHANGED <<req, final, targets, tried, confirmed, pc>>
        /\ sess' \in InitProviderIds(sess)
    BY <1>1, ResetStep DEF ServiceInv, ResetProviderIDIndex, CommonInv, TypeOK, Logout, history
  <2>2. Counted(sess') = Counted(sess)
    BY <2>1, InitProviderIdsList, SameTablesSame DEF ServiceInv, CommonInv, SessionInv
  <2> QED BY <2>1, <2>2 DEF ServiceInv
<1>2. CASE GetNextProviderID
  <2>1. /\ CommonInv' /\ UNCHANGED <<req, final, targets, tried, confirmed>> /\ lo \in Logout
        /\ lo' = [lo EXCEPT !.index = lo'.index] /\ pc' \in {"ask", "done", "respond"}
        /\ sess'.assertions = sess.assertions /\ sess'.nids = sess.nids
    BY <1>2, NextStep DEF ServiceInv, GetNextProviderID, CommonInv, TypeOK, history
  <2>2. /\ lo'.iremote = lo.iremote /\ lo'.iresponse = lo.iresponse /\ lo'.method = lo.method
        /\ lo'.remote = lo.remote /\ lo'.response = lo.response
    BY <2>1 DEF Logout
  <2> QED BY <2>1, <2>2, SameTablesSame DEF ServiceInv
<1>3. CASE Redirect
  <2>1. /\ CommonInv' /\ UNCHANGED <<req, final, targets, tried, confirmed>> /\ lo \in Logout
        /\ lo' = RestoreLogout(lo) /\ sess' = Restore(Dump(sess)) /\ pc' = "away"
    BY <1>3, RedirectStep DEF ServiceInv, Redirect, CommonInv, TypeOK
  <2>2. /\ lo'.iremote = lo.iremote /\ lo'.iresponse = lo.iresponse /\ lo'.method = lo.method
        /\ lo'.remote = lo.remote /\ lo'.response = lo.response
    BY <2>1 DEF Logout, RestoreLogout
  <2> QED BY <2>1, <2>2, RestoreDumpSame DEF ServiceInv, CommonInv, SessionInv
<1>4. CASE Refuse \/ StartLocally \/ NoAnswer \/ UNCHANGED vars
  <2>1. CommonInv'
    BY <1>4, WaitStep DEF ServiceInv
  <2>2. /\ UNCHANGED <<sess, lo, req, final, targets, tried, confirmed>>
        /\ pc' = pc \/ pc' \in {"respond", "traverse"}
    BY <1>4 DEF Refuse, StartLocally, NoAnswer, vars, history
  <2> QED BY <2>1, <2>2 DEF ServiceInv
<1> QED BY <1>1, <1>2, <1>3, <1>4

LEMMA ServiceStep == ServiceInv /\ [Next]_vars => ServiceInv'
<1> SUFFICES ASSUME ServiceInv, [Next]_vars PROVE ServiceInv'
  OBVIOUS
<1>1. CASE \E r \in Requests : ProcessRequestMsg(r)
  BY <1>1, ProcessRequestStep
<1>2. CASE ValidateRequest
  BY <1>2, ValidateStep
<1>3. CASE \E m \in AskMethods : InitRequest(m)
  BY <1>3, InitRequestStep
<1>4. CASE \E p \in Providers, status \in Answers, sig \in Signatures :
             ProcessResponseMsg(p, status, sig)
  BY <1>4, ResponseStep
<1>5. CASE Continue
  BY <1>5, ContinueStep
<1>6. CASE BuildResponseMsg
  BY <1>6, BuildStep
<1>7. CASE \/ ResetProviderIDIndex \/ GetNextProviderID \/ Redirect
           \/ Refuse \/ StartLocally \/ NoAnswer \/ UNCHANGED vars
  BY <1>7, SharedStep
<1> QED BY <1>1, <1>2, <1>3, <1>4, <1>5, <1>6, <1>7 DEF Next, Done

(***************************************************************************)
(* Invariance: the inductive invariant of the ID-FF logout (lasso_logout_  *)
(* functions of id-ff/logout.c) holds always.                              *)
(***************************************************************************)
THEOREM Invariance == Spec => []ServiceInv
<1>1. Init => ServiceInv
  BY InitCommon DEF ServiceInv, Init
<1> QED BY <1>1, ServiceStep, PTL DEF Spec

(***************************************************************************)
(* TypeCorrect: the session, the logout object and the message of the ID-  *)
(* FF logout have their types whatever requests and answers arrive.        *)
(***************************************************************************)
THEOREM TypeCorrect == Spec => []TypeOK
<1>1. ServiceInv => TypeOK
  BY DEF ServiceInv, CommonInv
<1> QED BY <1>1, Invariance, PTL

(***************************************************************************)
(* InitialStateKept: no call of lasso_logout_init_request or               *)
(* lasso_logout_process_response_msg loses the initial request and         *)
(* response that lasso_logout_validate_request put aside.                  *)
(***************************************************************************)
THEOREM InitialStateKept == Spec => []InitialKept
<1>1. ServiceInv => InitialKept
  BY DEF ServiceInv, CommonInv
<1> QED BY <1>1, Invariance, PTL

(***************************************************************************)
(* SessionCovered: lasso_logout_get_next_providerID misses no provider of  *)
(* the session, although lasso_logout_init_request and                     *)
(* lasso_logout_process_response_msg remove assertions behind the cached   *)
(* list.                                                                   *)
(***************************************************************************)
THEOREM SessionCovered == Spec => []WholeSessionTried
<1>1. ServiceInv => WholeSessionTried
  BY DEF ServiceInv, CommonInv
<1> QED BY <1>1, Invariance, PTL

-----------------------------------------------------------------------------
(* Nobody is asked twice *)

LEMMA AdvancingStep == ServiceInv /\ Advancing /\ [Next]_vars => Advancing'
<1> SUFFICES ASSUME ServiceInv, Advancing, [Next]_vars PROVE Advancing'
  OBVIOUS
<1>1. CommonInv
  BY DEF ServiceInv
<1>2. CASE (\E r \in Requests : ProcessRequestMsg(r)) \/ ValidateRequest
  <2>1. /\ pc \in {"idle", "validate"} /\ UNCHANGED <<tried, redirected>>
        /\ pc' \in {"validate", "respond", "traverse"}
    BY <1>2 DEF ProcessRequestMsg, ValidateRequest, history
  <2>2. tried = {}
    BY <1>1, <2>1 DEF CommonInv, Flow
  <2> QED BY <2>1, <2>2, AdvancingKept
<1>3. ASSUME NEW m \in AskMethods, InitRequest(m) PROVE Advancing'
  <2>1. /\ pc = "ask" /\ pc' # "ask" /\ tried' = tried \cup {cur}
        /\ UNCHANGED <<req, redirected>>
    BY <1>3 DEF InitRequest
  <2>2. lo'.index = lo.index
    BY <1>1, <1>3 DEF InitRequest, LastResort, CommonInv, TypeOK, Logout
  <2>3. cur \in Providers /\ (sess' = sess \/ sess' = RemoveAssertion(sess, cur))
    BY <1>3, InitRequestStep
  <2>4. sess'.providerIDs = sess.providerIDs
    BY <1>1, <2>3, RemoveAssertionOut DEF CommonInv, SessionInv
  <2> QED BY <1>1, <2>1, <2>2, <2>4, AdvancingAsks
<1>4. ASSUME NEW p \in Providers, NEW status \in Answers, NEW sig \in Signatures,
             ProcessResponseMsg(p, status, sig)
      PROVE  Advancing'
  <2>1. /\ pc # "ask" /\ pc' # "ask" /\ UNCHANGED <<req, tried, redirected>>
    BY <1>4 DEF ProcessResponseMsg, CanAnswer
  <2>2. lo'.index = lo.index /\ (sess' = sess \/ sess' = RemoveAssertion(sess, p))
    BY <1>4, ResponseStep
  <2>3. sess'.providerIDs = sess.providerIDs
    BY <1>1, <2>2, RemoveAssertionOut DEF CommonInv, SessionInv
  <2> QED BY <2>1, <2>2, <2>3, AdvancingKept
<1>5. CASE Continue
  <2>1. /\ pc # "ask" /\ pc' # "ask" /\ UNCHANGED <<sess, lo, req, tried, redirected>>
    BY <1>5 DEF Continue, history
  <2> QED BY <2>1, AdvancingKept
<1>6. CASE BuildResponseMsg
  <2>1. pc = "respond" /\ pc' = "done" /\ sess' = sess /\ UNCHANGED <<req, tried, redirected>>
    BY <1>6 DEF BuildResponseMsg, history
  <2>2. lo'.index = lo.index
    BY <1>1, <1>6 DEF BuildResponseMsg, CommonInv, TypeOK, Logout
  <2> QED BY <2>1, <2>2, AdvancingKept
<1>7. CASE \/ ResetProviderIDIndex \/ GetNextProviderID \/ Redirect
           \/ Refuse \/ StartLocally \/ NoAnswer \/ UNCHANGED vars
  BY <1>1, <1>7, AdvancingShared
<1> QED BY <1>2, <1>3, <1>4, <1>5, <1>6, <1>7 DEF Next, Done

(***************************************************************************)
(* RequesterSpared: lasso_logout_get_next_providerID never returns the     *)
(* provider that asked for the logout, although every dump restarts its    *)
(* index and lasso_logout_process_response_msg removes assertions.         *)
(***************************************************************************)
THEOREM RequesterSpared == Spec => []Spared
<1>1. Advancing => Spared
  BY DEF Advancing
<1> QED BY <1>1, InitAdvancing, AdvancingStep, Invariance, PTL DEF Spec

(***************************************************************************)
(* AskedOnceUntilRedirect: until the user agent is first sent away,        *)
(* lasso_logout_get_next_providerID returns no provider twice, although    *)
(* lasso_logout_init_request and lasso_logout_process_response_msg remove  *)
(* assertions behind its index.                                            *)
(***************************************************************************)
THEOREM AskedOnceUntilRedirect == Spec => [](redirected = {} => AskedOnce)
<1>1. ServiceInv /\ Advancing => (redirected = {} => AskedOnce)
  BY AdvancingAsksOnce DEF ServiceInv
<1> QED BY <1>1, InitAdvancing, AdvancingStep, Invariance, PTL DEF Spec

-----------------------------------------------------------------------------
(* Who was not tried, or has not settled, is counted *)

LEMMA TrackingStep ==
  ASSUME ServiceInv, Tracking, [Next]_vars
  PROVE  Tracking'
<1>1. ASSUME NEW r \in Requests, ProcessRequestMsg(r) PROVE Tracking'
  BY <1>1 DEF ProcessRequestMsg, history, Tracking
<1>2. CASE ValidateRequest
  <2>1. /\ UNCHANGED <<req, targets, tried>> /\ pc' \in {"respond", "traverse"}
        /\ req # None /\ req.from \in Providers
        /\ sess' = sess \/ sess' = RemoveAssertion(sess, req.from)
    BY <1>2, ValidateStep DEF ValidateRequest, history
  <2>2. Counted(sess) \subseteq Counted(sess') \cup {req.from}
    BY <2>1, RemoveAssertionOut DEF ServiceInv, CommonInv, SessionInv
  <2> QED BY <2>1, <2>2 DEF Tracking
<1>3. ASSUME NEW m \in AskMethods, InitRequest(m) PROVE Tracking'
  <2>1. /\ UNCHANGED <<req, targets>> /\ tried' = tried \cup {cur}
        /\ pc' \in {"call", "redirect", "traverse"}
    BY <1>3 DEF InitRequest
  <2>2. cur \in Providers /\ (sess' = sess \/ sess' = RemoveAssertion(sess, cur))
    BY <1>3, InitRequestStep
  <2>3. Counted(sess) \subseteq Counted(sess') \cup {cur}
    BY <2>2, RemoveAssertionOut DEF ServiceInv, CommonInv, SessionInv
  <2> QED BY <2>1, <2>3 DEF Tracking
<1>4. ASSUME NEW p \in Providers, NEW status \in Answers, NEW sig \in Signatures,
             ProcessResponseMsg(p, status, sig)
      PROVE  Tracking'
  <2>1. UNCHANGED <<req, targets, tried>> /\ pc' \in {"redirect", "accepted", "failed"}
    BY <1>4 DEF ProcessResponseMsg
  <2>2. p \in tried /\ (sess' = sess \/ sess' = RemoveAssertion(sess, p))
    BY <1>4, ResponseStep
  <2>3. Counted(sess) \subseteq Counted(sess') \cup {p}
    BY <2>2, RemoveAssertionOut DEF ServiceInv, CommonInv, SessionInv
  <2> QED BY <2>1, <2>2, <2>3 DEF Tracking
<1>5. CASE Continue \/ BuildResponseMsg
  <2>1. UNCHANGED <<sess, req, targets, tried>> /\ pc' \in {"traverse", "done"}
    BY <1>5 DEF Continue, BuildResponseMsg, history
  <2> QED BY <2>1 DEF Tracking
<1>6. CASE \/ ResetProviderIDIndex \/ GetNextProviderID \/ Redirect
           \/ Refuse \/ StartLocally \/ NoAnswer \/ UNCHANGED vars
  BY <1>6, SharedStep DEF Tracking
<1> QED BY <1>1, <1>2, <1>3, <1>4, <1>5, <1>6 DEF Next, Done

LEMMA SettlementStep ==
  ASSUME Reachable, ServiceInv, Tracking, Settlement, [Next]_vars
  PROVE  Settlement'
<1> DEFINE ok == Response(Local, "Success")
<1>0. ok # None /\ ok.by = Local /\ ok.status = "Success" /\ Response(Local, "RequestDenied") # ok
  BY RolesAreTyped DEF Response, Responses, StatusCodes
<1>1. ASSUME NEW r \in Requests, ProcessRequestMsg(r) PROVE Settlement'
  <2>1. UNCHANGED <<sess, final, targets, confirmed>> /\ pc = "idle"
    BY <1>1 DEF ProcessRequestMsg, history
  <2>2. lo'.response = None /\ final = None
    BY <1>1, <2>1, ProcessRequestStep DEF ServiceInv, CommonInv, Flow
  <2> QED BY <1>0, <2>1, <2>2 DEF Settlement, Tracking
<1>2. CASE ValidateRequest
  <2>1. /\ UNCHANGED <<req, targets, confirmed, final>> /\ final = None
        /\ req # None /\ req.from \in Providers
        /\ \/ sess' = sess /\ lo'.response # ok
           \/ /\ sess' = RemoveAssertion(sess, req.from)
              /\ req.from \notin IdPs /\ lo'.response # None => Counted(sess') = {}
    BY <1>2, ValidateStep DEF ValidateRequest, history, ServiceInv, CommonInv, Flow
  <2>2. Counted(sess) \subseteq Counted(sess') \cup {req.from}
    BY <2>1, RemoveAssertionOut DEF ServiceInv, CommonInv, SessionInv
  <2> QED BY <1>0, <2>1, <2>2 DEF Settlement
<1>3. ASSUME NEW m \in AskMethods, InitRequest(m) PROVE Settlement'
  <2>1. UNCHANGED <<req, targets, confirmed, final>>
    BY <1>3 DEF InitRequest
  <2>2. /\ cur \in Providers /\ (m = "REDIRECT" => cur \in HttpSlo) /\ lo'.response = lo.response
        /\ sess' = sess \/ (sess' = RemoveAssertion(sess, cur) /\ cur \in IdPs)
    BY <1>3, InitRequestStep DEF Reachable
  <2>3. Counted(sess) \subseteq Counted(sess') \cup IdPs /\ Counted(sess') \subseteq Counted(sess)
    BY <2>2, RemoveAssertionOut DEF ServiceInv, CommonInv, SessionInv
  <2> QED BY <2>1, <2>2, <2>3 DEF Settlement
<1>4. ASSUME NEW p \in Providers, NEW status \in Answers, NEW sig \in Signatures,
             ProcessResponseMsg(p, status, sig)
      PROVE  Settlement'
  <2>1. UNCHANGED <<req, targets, final>>
    BY <1>4 DEF ProcessResponseMsg
  <2>2. /\ sess' = sess \/ (sess' = RemoveAssertion(sess, p) /\ p \in confirmed' \cup IdPs)
        /\ confirmed \subseteq confirmed'
        /\ lo'.response = Response(p, status) \/ Counted(sess') = {}
    BY <1>4, ResponseStep
  <2>3. /\ Counted(sess) \subseteq Counted(sess') \cup (confirmed' \cup IdPs)
        /\ Counted(sess') \subseteq Counted(sess)
    BY <2>2, RemoveAssertionOut DEF ServiceInv, CommonInv, SessionInv
  <2>4. Response(p, status) # ok
    BY RolesAreTyped DEF Response
  <2> QED BY <2>1, <2>2, <2>3, <2>4 DEF Settlement
<1>5. CASE Continue
  BY <1>5 DEF Continue, history, Settlement
<1>6. CASE BuildResponseMsg
  <2>1. UNCHANGED <<sess, req, targets, confirmed>>
    BY <1>6 DEF BuildResponseMsg, history
  <2>2. /\ lo'.response = lo.response \/ lo'.response = Response(Local, "RequestDenied")
        /\ final' # None => /\ lo'.response \in Responses
                            /\ final'.by = lo'.response.by /\ final'.status = lo'.response.status
        /\ req # None
    BY <1>6, BuildStep
  <2>3. final' # None /\ final'.by = Local /\ final'.status = "Success" => lo'.response = ok
    BY <2>2 DEF Response, Responses
  <2> QED BY <1>0, <2>1, <2>2, <2>3 DEF Settlement
<1>7. CASE \/ ResetProviderIDIndex \/ GetNextProviderID \/ Redirect
           \/ Refuse \/ StartLocally \/ NoAnswer \/ UNCHANGED vars
  BY <1>7, SharedStep DEF Settlement
<1> QED BY <1>1, <1>2, <1>3, <1>4, <1>5, <1>6, <1>7 DEF Next, Done

LEMMA InitTracking ==
  ASSUME Countable, Init
  PROVE  Tracking /\ Settlement
<1>1. PICK L \in SUBSET Providers : sess = SessionWith(L) /\ targets = L
  BY DEF Init
<1>2. Counted(sess) = targets
  BY <1>1, SessionWithFacts
<1> QED BY <1>2 DEF Init, Tracking, Settlement

\* The initial response comes back in lasso_logout_process_response_msg only.
LEMMA RestoreStep ==
  ASSUME ServiceInv, Tracking, [Next]_vars, lo.iremote # None, lo'.iremote = None
  PROVE  /\ SloProviders(sess') = {} /\ StoredProviders(sess') = {}
         /\ targets \ {req.from} \subseteq tried
<1>0. ServiceInv' /\ Tracking'
  BY ServiceStep, TrackingStep
<1>1. req # None
  BY DEF ServiceInv, CommonInv, Flow
<1>2. PICK p \in Providers, status \in Answers, sig \in Signatures :
        ProcessResponseMsg(p, status, sig)
  <2>1. ~ \E r \in Requests : ProcessRequestMsg(r)
    BY DEF ProcessRequestMsg, ServiceInv, CommonInv, Flow
  <2>2. ~ ValidateRequest
    BY DEF ValidateRequest, ServiceInv, CommonInv, Flow
  <2>3. ~ \E m \in AskMethods : InitRequest(m)
    BY InitRequestStep
  <2>4. ~ Continue
    BY DEF Continue
  <2>5. ~ BuildResponseMsg
    BY BuildStep
  <2>6. ~ (\/ ResetProviderIDIndex \/ GetNextProviderID \/ Redirect
           \/ Refuse \/ StartLocally \/ NoAnswer \/ UNCHANGED vars)
    BY SharedStep
  <2> QED BY <2>1, <2>2, <2>3, <2>4, <2>5, <2>6 DEF Next, Done
<1>3. Counted(sess') = {}
  BY <1>2, ResponseStep
<1>4. UNCHANGED <<req, targets, tried>>
  BY <1>2 DEF ProcessResponseMsg
<1>5. targets \ {req.from} \subseteq tried
  BY <1>0, <1>1, <1>3, <1>4 DEF Tracking
<1>6. SloProviders(sess') = {} /\ StoredProviders(sess') = {}
  BY <1>0, <1>3, CountZero DEF ServiceInv, CommonInv, SessionInv, Bare, Counted
<1> QED BY <1>5, <1>6

(***************************************************************************)
(* NoEarlyReturn: for any number of providers, answers and bindings,       *)
(* lasso_logout_process_response_msg returns to the initial request only   *)
(* when the session is empty and every provider that was in it has been    *)
(* tried.                                                                  *)
(***************************************************************************)
THEOREM NoEarlyReturn ==
  ASSUME Countable
  PROVE  Spec => RestoredOnlyWhenDone
<1>1. Init => Tracking
  BY InitTracking
<1>2. ServiceInv /\ Tracking /\ [Next]_vars => Tracking'
  BY TrackingStep
<1>3. ServiceInv /\ Tracking /\ [Next]_vars =>
        [lo.iremote # None /\ lo'.iremote = None =>
           /\ SloProviders(sess') = {} /\ StoredProviders(sess') = {}
           /\ targets \ {req.from} \subseteq tried]_vars
  BY RestoreStep
<1> QED BY <1>1, <1>2, <1>3, Invariance, PTL DEF Spec, RestoredOnlyWhenDone

(***************************************************************************)
(* SuccessIsSettled: when every provider takes a request by HTTP-Redirect  *)
(* (or that binding is not used), a Success of                             *)
(* lasso_logout_build_response_msg means that every other service provider *)
(* has settled, for any number of them and any answers, signatures and     *)
(* orders.                                                                 *)
(***************************************************************************)
THEOREM SuccessIsSettled ==
  ASSUME Countable, Reachable
  PROVE  Spec => []SuccessMeansSettled
<1>1. Init => Tracking /\ Settlement
  BY InitTracking
<1>2. ServiceInv /\ Tracking /\ Settlement /\ [Next]_vars => Tracking' /\ Settlement'
  BY TrackingStep, SettlementStep
<1>3. ServiceInv /\ Settlement => SuccessMeansSettled
  <2> SUFFICES ASSUME ServiceInv, Settlement, final # None, final.by = Local,
                      final.status = "Success", req.from \notin IdPs,
                      NEW p \in targets \ (IdPs \cup {req.from})
               PROVE  p \in confirmed
    BY DEF SuccessMeansSettled
  <2>1. req # None /\ Counted(sess) = {}
    BY DEF ServiceInv, CommonInv, Flow, Settlement
  <2> QED BY <2>1 DEF Settlement
<1> QED BY <1>1, <1>2, <1>3, Invariance, PTL DEF Spec

-----------------------------------------------------------------------------
(* The contract *)

LEMMA StandingStep ==
  ASSUME Reachable, ServiceInv, Standing, [Next]_vars
  PROVE  Standing'
<1> DEFINE ok == Response(Local, "Success")
<1>0. /\ ok.by = Local /\ Response(Local, "RequestDenied").by = Local
      /\ req # None => req.from \in Providers
  BY RequestTyped DEF Response, ServiceInv, CommonInv
<1>1. ASSUME NEW r \in Requests, ProcessRequestMsg(r) PROVE Standing'
  <2>1. /\ pc = "idle" /\ req' = r /\ pc' = "validate" /\ tried' = tried /\ final' = final
    BY <1>1 DEF ProcessRequestMsg, history
  <2>2. tried = {} /\ final = None
    BY <2>1 DEF ServiceInv, CommonInv, Flow
  <2> QED BY <2>1, <2>2 DEF Standing, Traversing
<1>2. CASE ValidateRequest
  <2>1. /\ UNCHANGED <<req, tried, final>> /\ pc' \in {"respond", "traverse"}
    BY <1>2 DEF ValidateRequest, history
  <2>2. \/ lo'.iremote = req.from /\ lo'.iresponse = ok /\ lo'.remote = None
        \/ lo'.iremote = None /\ lo'.remote = req.from /\ lo'.response.by = Local
    BY <1>2, ValidateStep
  <2> QED BY <2>1, <2>2 DEF Standing
<1>3. ASSUME NEW m \in AskMethods, InitRequest(m) PROVE Standing'
  <2>1. /\ UNCHANGED <<req, final>> /\ pc = "ask" /\ tried' = tried \cup {cur}
        /\ pc' \in {"call", "redirect", "traverse"}
    BY <1>3 DEF InitRequest
  <2>2. /\ lo'.iremote = lo.iremote /\ lo'.iresponse = lo.iresponse /\ lo'.remote = cur
    BY <1>3, InitRequestStep DEF Reachable
  <2>3. req # None => lo.iremote = req.from /\ lo.iresponse = ok
    <3>1. req # None => lo.iremote = req.from
      BY <2>1 DEF ServiceInv, CommonInv, Flow
    <3> QED BY <1>0, <2>1, <3>1, RolesAreTyped DEF Standing, Traversing
  <2> QED BY <2>1, <2>2, <2>3 DEF Standing
<1>4. ASSUME NEW p \in Providers, NEW status \in Answers, NEW sig \in Signatures,
             ProcessResponseMsg(p, status, sig)
      PROVE  Standing'
  <2>1. /\ UNCHANGED <<req, tried, final>> /\ pc \in {"call", "away"}
        /\ pc' \in {"redirect", "accepted", "failed"}
    BY <1>4 DEF ProcessResponseMsg, CanAnswer
  <2>2. /\ p \in tried
        /\ \/ lo'.iremote = lo.iremote /\ lo'.iresponse = lo.iresponse /\ lo'.remote = p
           \/ lo'.iremote = None /\ lo'.response = lo.iresponse /\ lo'.remote = lo.iremote
    BY <1>4, ResponseStep
  <2>3. req # None => lo.iremote = req.from /\ lo.iresponse = ok
    <3>1. req # None => lo.iremote = req.from
      BY <2>1 DEF ServiceInv, CommonInv, Flow
    <3> QED BY <1>0, <2>1, <3>1, RolesAreTyped DEF Standing, Traversing
  <2> QED BY <1>0, <2>1, <2>2, <2>3 DEF Standing
<1>5. CASE Continue
  BY <1>5 DEF Continue, history, Standing, Traversing
<1>6. CASE BuildResponseMsg
  <2>1. /\ UNCHANGED <<req, tried>> /\ pc = "respond" /\ pc' = "done"
    BY <1>6 DEF BuildResponseMsg, history
  <2>2. /\ req # None
        /\ lo'.response = lo.response \/ lo'.response = Response(Local, "RequestDenied")
        /\ final' # None => /\ lo'.response \in Responses /\ lo.remote # None
                            /\ final'.to = lo.remote /\ final'.by = lo'.response.by
    BY <1>6, BuildStep
  <2>3. ASSUME final' # None, final'.to = req.from PROVE final'.by = Local
    <3>1. lo.remote = req.from /\ lo.remote \notin tried \cup {None}
      BY <2>2, <2>3 DEF Standing
    <3>2. lo.response # None => lo.response.by = Local
      BY <2>1, <2>2, <3>1 DEF Standing
    <3>3. lo'.response # None
      BY <2>2, <2>3, RolesAreTyped
    <3> QED BY <1>0, <2>2, <2>3, <3>2, <3>3
  <2> QED BY <2>1, <2>3 DEF Standing, Traversing
<1>7. CASE \/ ResetProviderIDIndex \/ GetNextProviderID \/ Redirect
           \/ Refuse \/ StartLocally \/ NoAnswer \/ UNCHANGED vars
  <2>1. /\ UNCHANGED <<req, final, tried>>
        /\ lo'.iremote = lo.iremote /\ lo'.iresponse = lo.iresponse
        /\ lo'.remote = lo.remote /\ lo'.response = lo.response
    BY <1>7, SharedStep
  <2>2. pc' = "ask" => (pc = "ask" /\ cur' = cur) \/ (req # None => cur' # req.from)
    <3>1. CASE GetNextProviderID
      BY <3>1, NextStep DEF ServiceInv
    <3>2. CASE ~ GetNextProviderID
      BY <1>7, <3>2 DEF ResetProviderIDIndex, Redirect, Refuse, StartLocally, NoAnswer, vars
    <3> QED BY <3>1, <3>2
  <2>3. pc' \in Traversing \cup {"respond"} => pc \in Traversing \cup {"respond", "idle", "validate"}
    BY <1>7 DEF ResetProviderIDIndex, GetNextProviderID, Redirect, Refuse, StartLocally, NoAnswer,
                vars, Traversing
  <2>4. pc \in {"idle", "validate"} =>
          /\ lo.iremote = None /\ lo.response = None
          /\ req # None => lo.remote = req.from
    BY DEF ServiceInv, CommonInv, Flow
  <2> QED BY <2>1, <2>2, <2>3, <2>4 DEF Standing
<1> QED BY <1>1, <1>2, <1>3, <1>4, <1>5, <1>6, <1>7 DEF Next, Done

LEMMA OwnAnswerStep ==
  ASSUME Reachable, ServiceInv, Standing, OwnAnswer, [Next]_vars
  PROVE  OwnAnswer'
<1>1. Standing'
  BY StandingStep
<1>2. final' # None => final'.method = req'.method
  <2>1. CASE BuildResponseMsg
    <3>1. req' = req /\ req # None /\ (final' # None => final'.method = lo.method)
      BY <2>1, BuildStep DEF BuildResponseMsg
    <3> QED BY <3>1 DEF ServiceInv
  <2>2. CASE \E r \in Requests : ProcessRequestMsg(r)
    <3>1. pc = "idle" /\ final' = final
      BY <2>2 DEF ProcessRequestMsg
    <3> QED BY <3>1 DEF ServiceInv, CommonInv, Flow
  <2>3. CASE ~ BuildResponseMsg /\ ~ \E r \in Requests : ProcessRequestMsg(r)
    <3>1. final' = final /\ req' = req
      BY <2>3 DEF Next, vars, ValidateRequest, Refuse, StartLocally, ResetProviderIDIndex,
                  GetNextProviderID, InitRequest, Redirect, NoAnswer, ProcessResponseMsg,
                  Continue, Done
    <3> QED BY <3>1 DEF OwnAnswer
  <2> QED BY <2>1, <2>2, <2>3
<1> QED BY <1>1, <1>2 DEF OwnAnswer, Standing

(***************************************************************************)
(* AnswerIsOwn: whatever the others answered and however it was signed,    *)
(* the requester is never handed another provider's response, and what it  *)
(* gets comes by the binding of its request (lasso_logout_build_response_  *)
(* msg after lasso_logout_process_response_msg has overwritten remote      *)
(* provider and response).  Whether it gets any is EmptyMeansAnswered.     *)
(***************************************************************************)
THEOREM AnswerIsOwn ==
  ASSUME Reachable
  PROVE  Spec => []OwnAnswer
<1>1. Init => Standing /\ OwnAnswer
  BY DEF Init, Standing, OwnAnswer
<1>2. ServiceInv /\ Standing /\ OwnAnswer /\ [Next]_vars => Standing' /\ OwnAnswer'
  BY StandingStep, OwnAnswerStep
<1> QED BY <1>1, <1>2, Invariance, PTL DEF Spec

\* Steps in which nobody confirms and no message is sent are invisible.
LEMMA ContractStutters ==
  ASSUME UNCHANGED <<req, final, targets, confirmed>>,
         req # None => (RemoveAssertionOk(sess', req.from) <=> RemoveAssertionOk(sess, req.from))
  PROVE  UNCHANGED Promise!vars
<1>1. Waiting' = Waiting
  BY DEF Waiting
<1>2. Phase' = Phase
  BY DEF Phase
<1> QED BY <1>1, <1>2 DEF Promise!vars

LEMMA ContractStep ==
  ASSUME Reachable, ServiceInv, Tracking, Settlement, Standing, [Next]_vars
  PROVE  [Promise!Next]_(Promise!vars)
<1>0. /\ ServiceInv' /\ Settlement' /\ Standing'
      /\ req # None => req.from \in Providers
  BY ServiceStep, SettlementStep, StandingStep, RequestTyped DEF ServiceInv, CommonInv
<1>1. ASSUME NEW r \in Requests, ProcessRequestMsg(r) PROVE [Promise!Next]_(Promise!vars)
  <2>1. /\ pc = "idle" /\ req' = r /\ r # None
        /\ UNCHANGED <<sess, final, targets, confirmed>>
    BY <1>1, LogoutInputs DEF ProcessRequestMsg, history
  <2>2. req = None /\ final = None /\ targets = Counted(sess)
    BY <2>1 DEF ServiceInv, CommonInv, Flow, Tracking
  <2>3. Waiting' = Waiting
    BY <2>1, <2>2, CountedRemovable DEF Waiting
  <2>4. Phase = "idle" /\ Phase' \in {"idle", "serving"}
    BY <2>1, <2>2 DEF Phase
  <2> QED BY <2>3, <2>4 DEF Promise!Next, Promise!Ask, Promise!vars
<1>2. CASE ValidateRequest
  <2>1. /\ req # None /\ req.from \in Providers
        /\ sess' = sess \/ sess' = RemoveAssertion(sess, req.from)
    BY <1>2, ValidateStep
  <2>2. UNCHANGED <<req, final, targets, confirmed>> /\ final = None
    BY <1>2 DEF ValidateRequest, history, ServiceInv, CommonInv, Flow
  <2>3. Phase' = Phase /\ Phase \in {"idle", "serving"}
    BY <2>2 DEF Phase
  <2>4. CASE sess' = sess
    BY <2>2, <2>4, ContractStutters
  <2>5. CASE sess' = RemoveAssertion(sess, req.from)
    <3>1. ~ RemoveAssertionOk(sess', req.from)
      BY <2>1, <2>5, RemoveAssertionOut DEF ServiceInv, CommonInv, SessionInv
    <3>2. Waiting' = Waiting \ {req.from}
      BY <2>1, <2>2, <3>1 DEF Waiting
    <3> QED BY <2>1, <2>3, <3>2 DEF Promise!Next, Promise!Confirm, Promise!vars
  <2> QED BY <2>1, <2>4, <2>5
<1>3. ASSUME NEW m \in AskMethods, InitRequest(m) PROVE [Promise!Next]_(Promise!vars)
  <2>1. /\ pc = "ask" /\ UNCHANGED <<req, final, targets, confirmed>>
        /\ pc' \in Traversing
    BY <1>3 DEF InitRequest, Traversing
  <2>2. req # None => ~ RemoveAssertionOk(sess, req.from) /\ ~ RemoveAssertionOk(sess', req.from)
    BY <1>0, <2>1 DEF ServiceInv, CommonInv, Gone, Traversing
  <2> QED BY <2>1, <2>2, ContractStutters
<1>4. ASSUME NEW p \in Providers, NEW status \in Answers, NEW sig \in Signatures,
             ProcessResponseMsg(p, status, sig)
      PROVE  [Promise!Next]_(Promise!vars)
  <2>1. /\ UNCHANGED <<req, final, targets>> /\ final = None
        /\ confirmed' = confirmed \/ confirmed' = confirmed \cup {p}
        /\ pc \in Traversing /\ pc' \in Traversing
    BY <1>4 DEF ProcessResponseMsg, CanAnswer, ServiceInv, CommonInv, Flow, Traversing
  <2>2. req # None => ~ RemoveAssertionOk(sess, req.from) /\ ~ RemoveAssertionOk(sess', req.from)
    BY <1>0, <2>1 DEF ServiceInv, CommonInv, Gone
  <2>3. Phase' = Phase /\ Phase \in {"idle", "serving"}
    BY <2>1 DEF Phase
  <2>4. Waiting' = Waiting \/ Waiting' = Waiting \ {p}
    BY <2>1, <2>2 DEF Waiting
  <2> QED BY <2>3, <2>4 DEF Promise!Next, Promise!Confirm, Promise!vars
<1>5. CASE BuildResponseMsg
  <2>1. /\ UNCHANGED <<sess, req, targets, confirmed>> /\ final = None /\ req # None
    BY <1>5 DEF BuildResponseMsg, history, ServiceInv, CommonInv, Flow
  <2>2. Waiting' = Waiting
    BY <2>1 DEF Waiting
  <2>3. CASE final' = None
    BY <2>1, <2>3, ContractStutters
  <2>4. CASE req.from \in IdPs
    <3>1. Phase' = Phase
      BY <2>1, <2>4 DEF Phase
    <3> QED BY <2>2, <3>1 DEF Promise!vars
  <2>5. CASE final' # None /\ req.from \notin IdPs
    <3>1. Phase = "serving" /\ Phase' \in {"success", "other"}
      BY <2>1, <2>5 DEF Phase
    <3>2. ASSUME Phase' = "success" PROVE Waiting \ IdPs = {}
      <4>1. final'.status = "Success" /\ final'.to = req.from
        BY <2>1, <2>5, <3>2 DEF Phase
      <4>2. final'.by = Local
        BY <1>0, <2>1, <2>5, <4>1 DEF Standing
      <4>3. Counted(sess) = {} /\ targets \ (confirmed \cup IdPs \cup {req.from}) \subseteq Counted(sess)
        BY <1>0, <2>1, <2>5, <4>1, <4>2 DEF Settlement
      <4>4. ~ RemoveAssertionOk(sess, req.from)
        BY <1>0, <2>1, <4>3, NobodyRemovable DEF ServiceInv, CommonInv, SessionInv
      <4> QED BY <2>1, <4>3, <4>4 DEF Waiting
    <3> QED BY <2>2, <3>1, <3>2 DEF Promise!Next, Promise!Answer
  <2> QED BY <2>3, <2>4, <2>5
<1>6. CASE ResetProviderIDIndex \/ GetNextProviderID
  <2>1. sess'.assertions = sess.assertions /\ sess'.nids = sess.nids
    BY <1>6, NextStep, InitProviderIdsList DEF ResetProviderIDIndex, ServiceInv, CommonInv, SessionInv
  <2>2. UNCHANGED <<req, final, targets, confirmed>>
    BY <1>6 DEF ResetProviderIDIndex, GetNextProviderID, history
  <2> QED BY <2>1, <2>2, SameTablesSame, ContractStutters
<1>7. CASE Redirect
  <2>1. sess' = Restore(Dump(sess)) /\ UNCHANGED <<req, final, targets, confirmed>>
    BY <1>7 DEF Redirect
  <2>2. \A q \in Providers : RemoveAssertionOk(sess', q) <=> RemoveAssertionOk(sess, q)
    BY <2>1, RestoreDumpSame DEF ServiceInv, CommonInv, SessionInv
  <2> QED BY <1>0, <2>1, <2>2, ContractStutters
<1>8. CASE Continue \/ Refuse \/ StartLocally \/ NoAnswer \/ UNCHANGED vars
  <2>1. UNCHANGED <<sess, req, final, targets, confirmed>>
    BY <1>8 DEF Continue, Refuse, StartLocally, NoAnswer, vars, history
  <2> QED BY <2>1, ContractStutters
<1> QED BY <1>1, <1>2, <1>3, <1>4, <1>5, <1>6, <1>7, <1>8 DEF Next, Done

(***************************************************************************)
(* ImplementsContract: when every provider takes a request by              *)
(* HTTP-Redirect (or that binding is not used), each step of the ID-FF     *)
(* logout is a step of SloContract, with identity providers not waited     *)
(* for, or invisible to the requester, whatever the others answer, sign or *)
(* fail to answer (lasso_logout_validate_request to                        *)
(* lasso_logout_build_response_msg).                                       *)
(***************************************************************************)
THEOREM ImplementsContract ==
  ASSUME Countable, Reachable
  PROVE  Spec => KeepsPromise
<1>1. Init => Tracking /\ Settlement /\ Standing /\ Promise!Init
  <2> SUFFICES ASSUME Init PROVE Tracking /\ Settlement /\ Standing /\ Promise!Init
    OBVIOUS
  <2>1. Tracking /\ Settlement
    BY InitTracking
  <2>2. Standing
    BY DEF Init, Standing
  <2>3. Waiting \subseteq Providers /\ Phase = "idle"
    BY DEF Init, Waiting, Phase
  <2> QED BY <2>1, <2>2, <2>3 DEF Promise!Init
<1>2. ServiceInv /\ Tracking /\ Settlement /\ Standing /\ [Next]_vars =>
        Tracking' /\ Settlement' /\ Standing' /\ [Promise!Next]_(Promise!vars)
  BY TrackingStep, SettlementStep, StandingStep, ContractStep
<1> QED BY <1>1, <1>2, Invariance, PTL DEF Spec, KeepsPromise, Promise!Safety

-----------------------------------------------------------------------------
(* An empty session means that the requester is answered *)

\* The answer that is sent when nobody is left.
LEMMA OwingBuild ==
  ASSUME ServiceInv, Standing, Owing, BuildResponseMsg, targets \cap IdPs = {}
  PROVE  /\ AnsweredWhenEmpty'
         /\ req' # None /\ lo'.iremote # None /\ Counted(sess') = {} => Denied(lo'.response)
<1>1. /\ pc = "respond" /\ pc' = "done" /\ UNCHANGED <<sess, req>>
      /\ lo' = IF lo.response = None /\ lo.request # None
               THEN [lo EXCEPT !.response = Response(Local, "RequestDenied")] ELSE lo
      /\ final' = IF lo'.remote = None \/ lo'.response = None THEN None
                  ELSE [to |-> lo'.remote, by |-> lo'.response.by,
                        status |-> lo'.response.status, method |-> lo'.method]
  BY DEF BuildResponseMsg
<1>2. /\ lo \in Logout /\ req # None /\ req.from \in Providers /\ lo.method = req.method
      /\ CountAssertions(sess) = 0 <=> Counted(sess) = {}
  BY <1>1, RequestTyped, CountZero DEF ServiceInv, CommonInv, TypeOK, Flow, SessionInv
<1>3. lo'.remote = lo.remote /\ lo'.method = lo.method /\ lo'.iremote = lo.iremote
  BY <1>1, <1>2 DEF Logout
<1>4. Response(Local, "RequestDenied") # None /\ Response(Local, "RequestDenied").by = Local
  BY RolesAreTyped DEF Response, Responses, StatusCodes
<1>5. None \notin Providers /\ Local \notin Providers /\ None \notin Responses
  BY RolesAreTyped
<1>6. ASSUME Counted(sess) = {}, lo.iremote # None
      PROVE  lo' = lo /\ Denied(lo.response) /\ lo.response.by # Local
             /\ lo.response.status \in {"RequestDenied", "FederationDoesNotExist"}
  <2>1. Denied(lo.response)
    BY <1>2, <1>6 DEF Owing
  <2>2. PICK p \in Providers :
          lo.response \in {Response(p, "RequestDenied"), Response(p, "FederationDoesNotExist")}
    BY <2>1 DEF Denied
  <2>3. /\ lo.response.by = p /\ lo.response.status \in {"RequestDenied", "FederationDoesNotExist"}
        /\ lo.response # None
    BY <1>5, <2>2 DEF Response, Responses, StatusCodes
  <2> QED BY <1>1, <1>5, <2>1, <2>3
<1>7. ASSUME lo.iremote = None
      PROVE  /\ final' # None
             /\ final'.to = req.from /\ final'.by = Local /\ final'.method = req.method
  <2>1. lo.remote = req.from /\ (lo.response # None => lo.response.by = Local)
    BY <1>1, <1>2, <1>5, <1>7 DEF Standing
  <2>2. lo.response # None \/ lo.request # None
    BY <1>1, <1>2, <1>7 DEF Owing
  <2>3. lo'.response # None /\ lo'.response.by = Local
    <3>1. CASE lo.response = None
      <4>1. lo'.response = Response(Local, "RequestDenied")
        BY <1>1, <1>2, <2>2, <3>1 DEF Logout
      <4> QED BY <1>4, <4>1
    <3>2. CASE lo.response # None
      BY <1>1, <2>1, <3>2
    <3> QED BY <3>1, <3>2
  <2>4. lo'.remote # None
    BY <1>2, <1>3, <1>5, <2>1
  <2>5. final' = [to |-> req.from, by |-> Local, status |-> lo'.response.status, method |-> req.method]
    BY <1>1, <1>2, <1>3, <2>1, <2>3, <2>4
  <2>6. final' \in Messages \cup {None}
    BY ServiceStep DEF Next, ServiceInv, CommonInv, TypeOK
  <2>7. final' # None
    <3>1. lo'.response \in Responses
      BY <1>1, <2>3, ServiceStep DEF Next, ServiceInv, CommonInv, TypeOK, Logout
    <3>2. lo'.response.status \in StatusCodes
      BY <3>1 DEF Responses
    <3>3. req.method \in Methods
      BY <1>2, RequestTyped DEF ServiceInv, CommonInv
    <3>4. final' \in Messages
      BY <1>2, <2>5, <3>2, <3>3 DEF Messages
    <3> QED BY <3>4, LogoutInputs
  <2> QED BY <2>5, <2>7
<1>8. AnsweredWhenEmpty'
  <2> SUFFICES ASSUME CountAssertions(sess)' = 0
               PROVE  \/ /\ final' # None
                         /\ final'.to = req.from /\ final'.by = Local /\ final'.method = req.method
                      \/ /\ lo'.response.by # Local
                         /\ lo'.response.status \in {"RequestDenied", "FederationDoesNotExist"}
    BY <1>1 DEF AnsweredWhenEmpty
  <2>1. Counted(sess) = {}
    BY <1>1, <1>2
  <2> QED BY <1>6, <1>7, <2>1
<1> QED BY <1>1, <1>2, <1>3, <1>6, <1>8

\* The list is made from providers that are counted.
LEMMA OwingNext ==
  ASSUME ServiceInv, Owing, GetNextProviderID, targets \cap IdPs = {}
  PROVE  /\ FirstOf(sess'.providerIDs, Len(sess'.providerIDs)) \cap IdPs = {}
         /\ pc' = "ask" => cur' \notin IdPs /\ Counted(sess') # {}
<1> DEFINE list == sess'.providerIDs
<1>1. /\ sess' \in AfterProviderIndex(sess) /\ cur' = NextProvider(lo, sess')
      /\ lo' = AfterNextProvider(lo, sess')
      /\ pc' = IF cur' # None THEN "ask" ELSE IF req = None THEN "done" ELSE "respond"
  BY DEF GetNextProviderID
<1>2. /\ Sound(sess') /\ SloProviders(sess') = SloProviders(sess)
      /\ IsOrder(list, FirstOf(list, Len(list)))
  BY <1>1, AfterProviderIndexFacts DEF ServiceInv, CommonInv
<1>3. SloProviders(sess) \subseteq Counted(sess) /\ SloProviders(sess') \subseteq Counted(sess')
  BY <1>2, CountZero DEF ServiceInv, CommonInv, SessionInv
<1>4. FirstOf(list, Len(list)) \cap IdPs = {}
  <2>1. CASE sess' = sess
    BY <2>1 DEF Owing
  <2>2. CASE sess' \in InitProviderIds(sess)
    <3>1. IsOrder(list, SloProviders(sess))
      BY <2>2, InitProviderIdsList DEF ServiceInv, CommonInv, SessionInv
    <3>2. FirstOf(list, Len(list)) = SloProviders(sess)
      BY <3>1, OrderCovers
    <3> QED BY <1>3, <3>2 DEF Owing
  <2> QED BY <1>1, <2>1, <2>2 DEF AfterProviderIndex
<1>5. ASSUME pc' = "ask" PROVE cur' \notin IdPs /\ Counted(sess') # {}
  <2>1. lo \in Logout /\ sess' \in Session /\ list \in Seq(Providers) /\ cur' # None
    BY <1>1, <1>2, <1>5 DEF ServiceInv, CommonInv, TypeOK, Sound, StoredSound, Session
  <2>2. lo'.index \in 1 .. Len(list) /\ cur' = list[lo'.index]
    BY <1>5, NextStep DEF ServiceInv
  <2>3. SloProviders(sess') # {}
    BY <1>1, <1>2, <2>1, NextProviderFacts
  <2>4. cur' \in FirstOf(list, Len(list))
    <3>1. Len(list) \in Nat
      BY <2>1
    <3> HIDE DEF list
    <3> QED BY <2>2, <3>1 DEF FirstOf
  <2> QED BY <1>3, <1>4, <2>3, <2>4
<1> QED BY <1>4, <1>5

LEMMA OwingStep ==
  ASSUME Reachable, ServiceInv, Tracking, Standing, Owing, [Next]_vars
  PROVE  Owing'
<1>0. targets' = targets
  BY DEF Next, vars, history, ProcessRequestMsg, ValidateRequest, Refuse, StartLocally,
         ResetProviderIDIndex, GetNextProviderID, InitRequest, Redirect, NoAnswer,
         ProcessResponseMsg, Continue, BuildResponseMsg, Done
<1> SUFFICES ASSUME targets \cap IdPs = {} PROVE Owing'
  BY <1>0 DEF Owing
<1> USE <1>0
<1>a. /\ lo \in Logout /\ Sound(sess) /\ None \notin Providers /\ None \notin Responses
      /\ req # None => req.from \in Providers
  BY RequestTyped, RolesAreTyped DEF ServiceInv, CommonInv, TypeOK, SessionInv
<1>1. ASSUME NEW r \in Requests, ProcessRequestMsg(r) PROVE Owing'
  <2>1. /\ pc = "idle" /\ pc' = "validate" /\ UNCHANGED <<sess, tried>>
        /\ lo' = [lo EXCEPT !.remote = r.from, !.request = r.from, !.method = r.method]
    BY <1>1 DEF ProcessRequestMsg, history
  <2>2. lo'.iremote = None /\ lo'.request = r.from /\ r.from # None
    BY <1>a, <2>1, LogoutInputs DEF ServiceInv, CommonInv, Flow, Logout
  <2> QED BY <2>1, <2>2 DEF Owing, AnsweredWhenEmpty
<1>2. CASE ValidateRequest
  <2>1. /\ UNCHANGED <<req, tried>> /\ pc' \in {"respond", "traverse"}
    BY <1>2 DEF ValidateRequest, history
  <2>2. /\ req.from \in Providers
        /\ sess' = sess \/ sess' = RemoveAssertion(sess, req.from)
        /\ \/ lo'.iremote = req.from /\ Counted(sess') # {}
           \/ lo'.iremote = None
    BY <1>2, ValidateStep
  <2>3. lo'.iremote = None => lo'.response # None
    <3> DEFINE status == ValidationStatus(req, sess)
    <3>1. Response(Local, status) \in Responses
      BY DEF ValidationStatus, Response, Responses, StatusCodes
    <3>2. PICK t : t = [lo EXCEPT !.response = Response(Local, status)]
      OBVIOUS
    <3>3. t.response # None /\ t.remote = req.from /\ DOMAIN t = DOMAIN lo
      BY <1>2, <1>a, <3>1, <3>2 DEF ValidateRequest, ServiceInv, CommonInv, Flow, Logout
    <3>4. lo' = t \/ lo' = SaveInitial(t)
      BY <1>2, <3>2 DEF ValidateRequest
    <3>5. SaveInitial(t).iremote = req.from
      BY <1>a, <3>3 DEF SaveInitial, Logout
    <3> QED BY <1>a, <2>2, <3>3, <3>4, <3>5
  <2>4. Counted(sess') \subseteq Counted(sess) /\ sess'.providerIDs = sess.providerIDs
    BY <1>a, <2>2, RemoveAssertionOut
  <2> QED BY <2>1, <2>2, <2>3, <2>4 DEF Owing, AnsweredWhenEmpty
<1>3. ASSUME NEW m \in AskMethods, InitRequest(m) PROVE Owing'
  <2>1. /\ pc = "ask" /\ UNCHANGED req /\ tried' = tried \cup {cur}
        /\ pc' \in {"call", "redirect", "traverse"}
    BY <1>3 DEF InitRequest
  <2>2. cur \notin IdPs /\ Counted(sess) # {}
    BY <2>1 DEF Owing
  <2>3. sess' = sess /\ lo'.iremote = lo.iremote
    BY <1>3, <2>2, InitRequestStep DEF Reachable
  <2>4. req # None => lo.iremote # None
    BY <1>a, <2>1 DEF ServiceInv, CommonInv, Flow
  <2> QED BY <2>1, <2>2, <2>3, <2>4 DEF Owing, AnsweredWhenEmpty
<1>4. ASSUME NEW p \in Providers, NEW status \in Answers, NEW sig \in Signatures,
             ProcessResponseMsg(p, status, sig)
      PROVE  Owing'
  <2> DEFINE via == IF pc = "call" THEN "SOAP" ELSE "REDIRECT"
  <2>1. /\ UNCHANGED <<req, tried>> /\ pc \in {"call", "away"}
        /\ sess' = IF Examined(sig) /\ Removes(p, status, via) THEN RemoveAssertion(sess, p) ELSE sess
        /\ pc' \in {"accepted", "failed"} \/ Rebuilt(p, status)
        /\ pc' # "ask"
    BY <1>4 DEF ProcessResponseMsg, CanAnswer
  <2>2. p \notin IdPs /\ Counted(sess) # {}
    <3>1. p \in tried
      BY <1>4, ResponseStep
    <3> QED BY <2>1, <3>1 DEF Owing
  <2>3. pc' \in {"accepted", "failed"}
    BY <2>1, <2>2 DEF Rebuilt
  <2>4. Counted(sess') \subseteq Counted(sess) /\ sess'.providerIDs = sess.providerIDs /\ Sound(sess')
    BY <1>a, <2>1, RemoveAssertionOut, RemoveAssertionSound
  <2>5. /\ Response(p, status) \in Responses /\ Response(Local, "Success") \in Responses
    BY IdffLogoutInputs DEF Response, Responses, Statuses, StatusCodes
  <2>6. \/ lo'.iremote = lo.iremote /\ lo'.response = Response(p, status)
        \/ lo'.iremote = None /\ lo'.response = lo.iresponse
    BY <1>4, ResponseStep
  <2>7. req # None => lo.iremote = req.from /\ lo.iresponse = Response(Local, "Success")
    <3>1. req # None => lo.iremote = req.from
      BY <2>1 DEF ServiceInv, CommonInv, Flow
    <3> QED BY <1>a, <2>1, <3>1 DEF Standing, Traversing
  <2>8. ASSUME req # None, lo'.iremote # None, Counted(sess') = {}
        PROVE  Denied(lo'.response)
    <3>1. Examined(sig) /\ Removes(p, status, via)
      BY <2>1, <2>2, <2>8
    <3>2. CASE status = "Success"
      <4>1. CountAssertions(sess') <= 0
        BY <2>4, <2>8, CountZero
      <4>2. RestoresInitial(lo, sess', p)
        BY <1>a, <2>2, <2>7, <2>8, <4>1 DEF RestoresInitial
      <4>3. lo' = TransferInitial([lo EXCEPT !.remote = p, !.response = Response(p, status)])
        BY <1>4, <3>1, <3>2, <4>2 DEF ProcessResponseMsg
      <4>4. PICK t : t = [lo EXCEPT !.remote = p, !.response = Response(p, status)]
        OBVIOUS
      <4>5. DOMAIN t = DOMAIN lo /\ lo' = TransferInitial(t)
        BY <1>a, <4>3, <4>4 DEF Logout
      <4>6. lo'.iremote = None
        BY <1>a, <4>5 DEF TransferInitial, Logout
      <4> QED BY <2>8, <4>6
    <3>3. CASE status # "Success"
      <4>1. status \in {"RequestDenied", "FederationDoesNotExist"}
        BY <2>2, <3>1, <3>3 DEF Removes, Rebuilt
      <4>2. lo'.response = Response(p, status)
        BY <2>6, <2>8
      <4> QED BY <4>1, <4>2 DEF Denied
    <3> QED BY <3>2, <3>3
  <2>9. req # None => lo'.response # None
    BY <1>a, <2>5, <2>6, <2>7
  <2> QED BY <2>1, <2>3, <2>4, <2>8, <2>9 DEF Owing, AnsweredWhenEmpty
<1>5. CASE Continue
  BY <1>5 DEF Continue, history, Owing, AnsweredWhenEmpty
<1>6. CASE BuildResponseMsg
  <2>1. /\ UNCHANGED <<sess, req, tried>> /\ pc' = "done"
    BY <1>6 DEF BuildResponseMsg, history
  <2> QED BY <1>6, <2>1, OwingBuild DEF Owing
<1>7. CASE \/ ResetProviderIDIndex \/ GetNextProviderID \/ Redirect
           \/ Refuse \/ StartLocally \/ NoAnswer
  <2>1. /\ UNCHANGED <<req, tried>> /\ lo'.iremote = lo.iremote /\ lo'.response = lo.response
        /\ Counted(sess') = Counted(sess)
    BY <1>7, SharedStep
  <2>2. lo'.request = lo.request
    <3>1. CASE ResetProviderIDIndex \/ Redirect
      BY <1>a, <3>1 DEF ResetProviderIDIndex, Redirect, RestoreLogout, Logout
    <3>2. CASE GetNextProviderID
      BY <1>a, <3>2 DEF GetNextProviderID, AfterNextProvider, Logout
    <3>3. CASE Refuse \/ StartLocally \/ NoAnswer
      BY <3>3 DEF Refuse, StartLocally, NoAnswer
    <3> QED BY <1>7, <3>1, <3>2, <3>3
  <2>3. /\ FirstOf(sess'.providerIDs, Len(sess'.providerIDs)) \cap IdPs = {}
        /\ pc' = "ask" => cur' \notin IdPs
        /\ pc' \in {"ask", "call", "redirect", "away"} => Counted(sess') # {}
    <3>1. CASE ResetProviderIDIndex
      <4>1. /\ sess' \in InitProviderIds(sess) /\ UNCHANGED <<pc, cur>>
        BY <3>1 DEF ResetProviderIDIndex
      <4>2. FirstOf(sess'.providerIDs, Len(sess'.providerIDs)) = SloProviders(sess)
        BY <1>a, <4>1, InitProviderIdsList, OrderCovers
      <4>3. SloProviders(sess) \subseteq Counted(sess)
        BY <1>a, CountZero
      <4> QED BY <2>1, <4>1, <4>2, <4>3 DEF Owing
    <3>2. CASE GetNextProviderID
      <4>1. pc' \in {"ask", "done", "respond"}
        BY <3>2 DEF GetNextProviderID
      <4> QED BY <3>2, <4>1, OwingNext
    <3>3. CASE Redirect
      <4>1. sess' = Restore(Dump(sess)) /\ pc = "redirect" /\ pc' = "away"
        BY <3>3 DEF Redirect
      <4>2. sess'.providerIDs = <<>>
        BY <4>1, RestoreDumpSame DEF ServiceInv, CommonInv, SessionInv
      <4> QED BY <2>1, <4>1, <4>2, EmptyList DEF Owing
    <3>4. CASE Refuse \/ StartLocally \/ NoAnswer
      BY <3>4 DEF Refuse, StartLocally, NoAnswer, Owing
    <3> QED BY <1>7, <3>1, <3>2, <3>3, <3>4
  <2>4. pc # "done" /\ (pc' = "done" => req = None)
    BY <1>7 DEF ResetProviderIDIndex, GetNextProviderID, Redirect, Refuse, StartLocally, NoAnswer
  <2> QED BY <2>1, <2>2, <2>3, <2>4 DEF Owing, AnsweredWhenEmpty
<1>8. CASE UNCHANGED vars
  BY <1>8 DEF vars, Owing, AnsweredWhenEmpty
<1> QED BY <1>1, <1>2, <1>3, <1>4, <1>5, <1>6, <1>7, <1>8 DEF Next, Done

(***************************************************************************)
(* EmptyMeansAnswered: for any providers, answers, signatures, bindings    *)
(* and orders, when thin sessions hold only logins they can count and      *)
(* every provider takes a request by HTTP-Redirect (or that binding is not *)
(* used), a logout that empties a session of service providers sends the   *)
(* requester the local provider's answer, unless the last of them answered *)
(* with a denial (lasso_logout_process_response_msg).                      *)
(***************************************************************************)
THEOREM EmptyMeansAnswered ==
  ASSUME Countable, Reachable
  PROVE  Spec => []AnsweredWhenEmpty
<1>1. Init => Tracking /\ Standing /\ Owing
  <2> SUFFICES ASSUME Init PROVE Tracking /\ Standing /\ Owing
    OBVIOUS
  <2>1. PICK L \in SUBSET Providers : sess = SessionWith(L) /\ targets = L
    BY DEF Init
  <2>2. Counted(sess) = targets /\ sess.providerIDs = <<>>
    BY <2>1, SessionWithFacts
  <2>3. FirstOf(sess.providerIDs, Len(sess.providerIDs)) = {}
    BY <2>2, EmptyList
  <2>4. pc = "idle" /\ req = None /\ final = None /\ tried = {}
    BY DEF Init
  <2> QED BY <2>2, <2>3, <2>4, InitTracking DEF Standing, Owing, AnsweredWhenEmpty
<1>2. ServiceInv /\ Tracking /\ Standing /\ Owing /\ [Next]_vars => Tracking' /\ Standing' /\ Owing'
  BY TrackingStep, StandingStep, OwingStep
<1>3. Owing => AnsweredWhenEmpty
  BY DEF Owing, AnsweredWhenEmpty
<1> QED BY <1>1, <1>2, <1>3, Invariance, PTL DEF Spec
=============================================================================
