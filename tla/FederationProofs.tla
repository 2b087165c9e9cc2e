--------------------------- MODULE FederationProofs ---------------------------
(***************************************************************************)
(* Proofs about the life of a federation, for any number of logins,        *)
(* renames and terminations, in either protocol.                           *)
(*                                                                         *)
(* Three things have to be carried along.  Shapes: which names a           *)
(* federation always has, without which neither a login nor a rename could *)
(* be built.  AnswersHold: an answer that waits in the browser is as true  *)
(* as the day it was sent, until a login intervenes.  PhaseInv: what one   *)
(* undisturbed operation leaves on either side while it is under way, a    *)
(* federation that a SAML 2.0 rename freed included.                       *)
(***************************************************************************)
EXTENDS FederationLife, TLAPS

\* The names federation f of provider x cannot do without.
Shaped(x, f) ==
  f # NoFederation =>
    /\ f \in Federation
    /\ protocol = "saml2" => f.local \in Name /\ f.remote = NoName
    /\ protocol = "idff" => IF x = "idp" THEN f.local \in Name ELSE f.remote \in Name

Shapes == \A x \in Parties : Shaped(x, feds[x])

\* Assertions carry the number of a login that was.
Numbered == \A a \in flight : a.login <= logins

\* Renames have a new name; answers belong to requests; a request that is
\* answered while it waits was served.
Exchanged ==
  /\ \A e \in Exchanges :
       (Used(e) /\ exchanges[e].kind = "rename") => exchanges[e].new \in Contents
  /\ \A a \in answers : Used(a.of) /\ (Waiting(a.of) => exchanges[a.of].served)

\* A termination confirmed by an answer holds at its receiver.
AnswersHold ==
  \A a \in answers :
    (a.fresh /\ a.status = "success") => feds[Peer(exchanges[a.of].from)] = NoFederation

\* The receiver y of the rename req freed its federation while it served it.
Emptied(y, req) ==
  protocol = "saml2" /\ req.kind = "rename" /\ feds[y] = NoFederation

\* What the undisturbed exchange e, the only operation under way, has done.
PhaseOf(e) ==
  LET req == exchanges[e]
      x   == req.from
      y   == Peer(x)
  IN  /\ \/ Shared(x, feds[x]) = agreed
         \/ req.kind = "terminate" /\ feds[x] = NoFederation
         \/ Freed(x)
      /\ OneWay(req) => ~ req.served /\ feds[x] = NoFederation
      /\ ~ req.served => Shared(y, feds[y]) = agreed \/ Freed(y)
      /\ req.served => Shared(y, feds[y]) = Settled(req) \/ Emptied(y, req)
      /\ (req.served /\ protocol = "saml2" /\ req.kind = "rename") =>
           req.nid # NoName /\ [idp |-> Renamed(req).content, sp |-> Renamed(req).sp] = Settled(req)

AtRest ==
  /\ flight = {} /\ \A e \in Exchanges : ~ Waiting(e)
  /\ \A x \in Parties : Shared(x, feds[x]) = agreed \/ Freed(x)

LoggingIn ==
  /\ \A e \in Exchanges : ~ Waiting(e)
  /\ Shared("idp", feds["idp"]) = agreed
  /\ \E a \in flight : flight = {a} /\ Shared("sp", AcceptedFederation(a)) = agreed

Exchanging ==
  /\ flight = {}
  /\ \E e \in Exchanges :
       Waiting(e) /\ (\A k \in Exchanges : Waiting(k) => k = e) /\ PhaseOf(e)

PhaseInv == ~ disturbed => AtRest \/ LoggingIn \/ Exchanging

BasicInv == TypeOK /\ Shapes /\ Numbered /\ Exchanged

-----------------------------------------------------------------------------
(* The handlers *)

\* What the handler of each of the three steps of an exchange returns.
StartResult(x, kind) ==
  IF protocol = "saml2" THEN Saml2Init(x, kind, feds[x], inSession[x])
  ELSE IdffInit(x, kind, feds[x], inSession[x])

ServeResult(req, verified, fate) ==
  LET y == Peer(req.from)
  IN  IF protocol = "saml2" THEN Saml2Validate(req, feds[y], inSession[y], verified, fate)
      ELSE IdffValidate(req, feds[y], inSession[y], verified)

TakeResult(req, status, verified) ==
  IF protocol = "saml2" THEN Saml2Process(req, feds[req.from], inSession[req.from], status, verified)
  ELSE IdffProcess(req, feds[req.from], inSession[req.from], status, verified)

\* A handler's result that provider x can save: well formed, and without a
\* federation when there was none.
Safe(x, r) ==
  /\ r.fed \in Federation \cup {NoFederation}
  /\ r.inSession \in Name \cup {NoName}
  /\ Shaped(x, r.fed)
  /\ feds[x] = NoFederation => r.fed = NoFederation

\* There are two protocols and two parties.
LEMMA TwoOfEach ==
  /\ TypeOK => protocol \in {"saml2", "idff"}
  /\ \A x \in Parties : Peer(x) \in Parties /\ Peer(Peer(x)) = x /\ Peer(x) # x
BY FederationConstants DEF TypeOK, Parties, Peer

LEMMA StartSafe ==
  ASSUME TypeOK, Shapes, NEW x \in Parties, NEW kind \in Kinds
  PROVE  Safe(x, StartResult(x, kind))
BY TwoOfEach DEF TypeOK, Shapes, Shaped, Safe, StartResult, Saml2Init, IdffInit, Result

\* The names a rename brings.
LEMMA RenamedTyped ==
  ASSUME NEW req \in Exchange, req.new \in Contents, req.nid \in Name
  PROVE  Renamed(req) \in Name /\ NewName(req.new) \in Name
BY DEF Renamed, NewName, Name, Exchange

LEMMA SafeResult ==
  ASSUME NEW x, NEW f \in Federation, NEW s \in Name \cup {NoName}, NEW rc, NEW answer,
         Shaped(x, f), feds[x] # NoFederation
  PROVE  Safe(x, Result(f, s, rc, answer)) /\ Result(f, s, rc, answer).answer = answer
BY DEF Safe, Result

LEMMA ServeSafe ==
  ASSUME TypeOK, Shapes, NEW req \in Exchange, NEW verified \in BOOLEAN, NEW fate \in Fates,
         req.kind = "rename" => req.new \in Contents
  PROVE  /\ Safe(Peer(req.from), ServeResult(req, verified, fate))
         /\ ServeResult(req, verified, fate).answer \in {"none", "success", "refused"}
<1> DEFINE y == Peer(req.from)
           r == ServeResult(req, verified, fate)
<1>1. /\ y \in Parties /\ feds[y] \in Federation \cup {NoFederation}
      /\ inSession[y] \in Name \cup {NoName} /\ Shaped(y, feds[y])
  BY TwoOfEach DEF TypeOK, Shapes, Exchange
<1>2. CASE protocol = "saml2"
  <2>1. r = Saml2Validate(req, feds[y], inSession[y], verified, fate)
    BY <1>2 DEF ServeResult
  <2>2. CASE /\ verified /\ feds[y] # NoFederation /\ req.nid # NoName
             /\ VerifyNameIdentifier(feds[y], req.nid) /\ req.kind # "terminate"
    <3>1. r = AddedAgain(feds[y], [feds[y] EXCEPT !.local = Renamed(req)], inSession[y], fate)
      BY <2>1, <2>2 DEF Saml2Validate
    <3>2. Renamed(req) \in Name
      BY <2>2, RenamedTyped DEF Exchange, Kinds
    <3>3. /\ [feds[y] EXCEPT !.local = Renamed(req)] \in Federation
          /\ Shaped(y, [feds[y] EXCEPT !.local = Renamed(req)])
      BY <1>1, <1>2, <2>2, <3>2, NullIsNoValue DEF Shaped, Federation
    <3>4. CASE fate = "kept"
      <4>1. r = Result([feds[y] EXCEPT !.local = Renamed(req)], inSession[y], "ok", "success")
        BY <3>1, <3>4 DEF AddedAgain
      <4>2. ASSUME NEW g \in Federation, Shaped(y, g) PROVE Safe(y, Result(g, inSession[y], "ok", "success"))
        BY <1>1, <2>2, <4>2, SafeResult
      <4>3. Safe(y, r)
        BY <3>3, <4>1, <4>2
      <4>4. r.answer = "success"
        BY <4>1 DEF Result
      <4> QED BY <4>3, <4>4
    <3>5. CASE fate = "lost"
      BY <1>1, <3>1, <3>5 DEF AddedAgain, Result, Safe, Shaped
    <3>6. CASE fate = "crash"
      BY <1>1, <3>1, <3>6 DEF AddedAgain, Result, Safe
    <3> QED BY <3>4, <3>5, <3>6 DEF Fates
  <2>3. CASE ~ (/\ verified /\ feds[y] # NoFederation /\ req.nid # NoName
                /\ VerifyNameIdentifier(feds[y], req.nid) /\ req.kind # "terminate")
    BY <1>1, <2>1, <2>3 DEF Saml2Validate, Result, Safe, Shaped
  <2> QED BY <2>2, <2>3
<1>3. CASE protocol # "saml2"
  <2>1. r = IdffValidate(req, feds[y], inSession[y], verified)
    BY <1>3 DEF ServeResult
  <2>2. CASE req.kind = "terminate"
    BY <1>1, <2>1, <2>2 DEF IdffValidate, ValidateNotification, Result, Safe, Shaped
  <2>3. CASE req.kind # "terminate"
    <3>1. NewName(req.new) \in Name
      BY <2>3 DEF Exchange, Kinds, NewName, Name
    <3>2. feds[y] # NoFederation =>
            /\ [feds[y] EXCEPT !.remote = NewName(req.new)] \in Federation
            /\ Shaped(y, [feds[y] EXCEPT !.remote = NewName(req.new)])
      BY <1>1, <1>3, <3>1 DEF Shaped, Federation
    <3> QED BY <1>1, <2>1, <2>3, <3>2 DEF IdffValidate, ValidateRegistration, Result, Safe
  <2> QED BY <2>2, <2>3
<1> QED BY <1>2, <1>3

LEMMA TakeSafe ==
  ASSUME TypeOK, Shapes, NEW req \in Exchange, NEW status, NEW verified \in BOOLEAN,
         req.kind = "rename" => req.new \in Contents,
         ~ OneWay(req)
  PROVE  Safe(req.from, TakeResult(req, status, verified))
<1> DEFINE x == req.from
           r == TakeResult(req, status, verified)
<1>1. /\ x \in Parties /\ feds[x] \in Federation \cup {NoFederation}
      /\ inSession[x] \in Name \cup {NoName} /\ Shaped(x, feds[x])
  BY DEF TypeOK, Shapes, Exchange
<1>2. CASE protocol = "saml2"
  <2>1. r = Saml2Process(req, feds[x], inSession[x], status, verified)
    BY <1>2 DEF TakeResult
  <2>2. CASE req.kind # "terminate" /\ req.nid # NoName /\ feds[x] # NoFederation
    <3>1. Renamed(req) \in Name
      BY <2>2, RenamedTyped DEF Exchange, Kinds
    <3>2. /\ [feds[x] EXCEPT !.local = Renamed(req)] \in Federation
          /\ Shaped(x, [feds[x] EXCEPT !.local = Renamed(req)])
      BY <1>1, <1>2, <2>2, <3>1 DEF Shaped, Federation
    <3> QED BY <1>1, <2>1, <2>2, <3>2 DEF Saml2Process, Result, Safe
  <2>3. CASE ~ (req.kind # "terminate" /\ req.nid # NoName /\ feds[x] # NoFederation)
    BY <1>1, <2>1, <2>3 DEF Saml2Process, Result, Safe, Shaped
  <2> QED BY <2>2, <2>3
<1>3. CASE protocol # "saml2"
  <2>1. r = IdffProcess(req, feds[x], inSession[x], status, verified)
    BY <1>3 DEF TakeResult
  <2>2. NewName(req.new) \in Name
    BY <1>3, TwoOfEach DEF OneWay, Exchange, Kinds, NewName, Name
  <2>3. feds[x] # NoFederation =>
          /\ [feds[x] EXCEPT !.local = NewName(req.new)] \in Federation
          /\ Shaped(x, [feds[x] EXCEPT !.local = NewName(req.new)])
    BY <1>1, <1>3, <2>2 DEF Shaped, Federation
  <2> QED BY <1>1, <2>1, <2>3 DEF IdffProcess, Result, Safe
<1> QED BY <1>2, <1>3

-----------------------------------------------------------------------------
(* Types and shapes *)

Answer == [of : Exchanges, status : {"success", "refused"}, fresh : BOOLEAN]

\* The histories of a login leave everything else of the exchanges alone.
LEMMA LoggedInKeeps ==
  ASSUME TypeOK, NEW y \in Parties, LoggedIn(y)
  PROVE  /\ exchanges' \in [Exchanges -> Exchange \cup {NoExchange}]
         /\ answers' \subseteq Answer
         /\ \A e \in Exchanges :
              /\ exchanges'[e] = NoExchange <=> exchanges[e] = NoExchange
              /\ exchanges[e] # NoExchange =>
                   /\ exchanges'[e].from = exchanges[e].from
                   /\ exchanges'[e].kind = exchanges[e].kind
                   /\ exchanges'[e].nid = exchanges[e].nid
                   /\ exchanges'[e].new = exchanges[e].new
                   /\ exchanges'[e].state = exchanges[e].state
                   /\ exchanges'[e].served = exchanges[e].served
                   /\ exchanges'[e].fresh => exchanges[e].fresh /\ exchanges[e].from = y
         /\ \A b \in answers' : \E a \in answers :
              /\ b.of = a.of /\ b.status = a.status
              /\ b.fresh => a.fresh /\ exchanges[a.of].from = y
<1>1. /\ exchanges \in [Exchanges -> Exchange \cup {NoExchange}]
      /\ answers \subseteq Answer
  BY DEF TypeOK, Answer
<1>2. exchanges' = [e \in Exchanges |->
        IF exchanges[e] # NoExchange /\ exchanges[e].from # y
        THEN [exchanges[e] EXCEPT !.fresh = FALSE] ELSE exchanges[e]]
  BY DEF LoggedIn, Used
<1>3. ASSUME NEW e \in Exchanges
      PROVE  /\ exchanges'[e] \in Exchange \cup {NoExchange}
             /\ exchanges'[e] = NoExchange <=> exchanges[e] = NoExchange
             /\ exchanges[e] # NoExchange =>
                   /\ exchanges'[e].from = exchanges[e].from
                   /\ exchanges'[e].kind = exchanges[e].kind
                   /\ exchanges'[e].nid = exchanges[e].nid
                   /\ exchanges'[e].new = exchanges[e].new
                   /\ exchanges'[e].state = exchanges[e].state
                   /\ exchanges'[e].served = exchanges[e].served
                   /\ exchanges'[e].fresh => exchanges[e].fresh /\ exchanges[e].from = y
  <2>1. exchanges'[e] = IF exchanges[e] # NoExchange /\ exchanges[e].from # y
                        THEN [exchanges[e] EXCEPT !.fresh = FALSE] ELSE exchanges[e]
    BY <1>2
  <2>2. CASE exchanges[e] # NoExchange /\ exchanges[e].from # y
    <3>1. exchanges[e] \in Exchange
      BY <1>1, <2>2
    <3>2. exchanges'[e] = [exchanges[e] EXCEPT !.fresh = FALSE]
      BY <2>1, <2>2
    <3>3. exchanges'[e] \in Exchange
      BY <3>1, <3>2 DEF Exchange
    <3> QED BY <2>2, <3>1, <3>2, <3>3, FederationConstants DEF Exchange
  <2>3. CASE ~ (exchanges[e] # NoExchange /\ exchanges[e].from # y)
    BY <1>1, <2>1, <2>3
  <2> QED BY <2>2, <2>3
<1>4. ASSUME NEW b \in answers'
      PROVE  b \in Answer /\ \E a \in answers :
              /\ b.of = a.of /\ b.status = a.status
              /\ b.fresh => a.fresh /\ exchanges[a.of].from = y
  <2>1. PICK a \in answers : b = [a EXCEPT !.fresh = @ /\ exchanges[a.of].from = y]
    BY DEF LoggedIn
  <2>2. a \in Answer
    BY <1>1
  <2> QED BY <2>1, <2>2 DEF Answer
<1>5. exchanges' \in [Exchanges -> Exchange \cup {NoExchange}]
  BY <1>2, <1>3
<1> QED BY <1>3, <1>4, <1>5

\* The assertion issued, and the federation it is issued for.
LEMMA IssueTyped ==
  ASSUME TypeOK, Shapes, IssueAssertion
  PROVE  \E fed \in Federation :
           /\ feds["idp"] # NoFederation => fed = feds["idp"]
           /\ Shaped("idp", fed)
           /\ fed.local \in Name
           /\ Subject(fed, logins') \in [login : {logins'}, nid : Name, idp : Name \cup {NoName}]
           /\ feds' = [feds EXCEPT !["idp"] = fed]
           /\ inSession' = [inSession EXCEPT !["idp"] = Subject(fed, logins').nid]
           /\ flight' = flight \cup {Subject(fed, logins')}
           /\ Judge(~ Quiet, Shared("idp", fed))
<1> DEFINE fed == IF feds["idp"] = NoFederation THEN NewFederation(logins') ELSE feds["idp"]
<1>1. logins' \in Contents /\ logins' = logins + 1
  BY FederationConstants DEF IssueAssertion, TypeOK
<1>2. NewFederation(logins') \in Federation /\ NewFederation(logins').local \in Name
      /\ NewFederation(logins').remote = NoName
  BY <1>1 DEF NewFederation, NewName, Federation, Name
<1>3. "idp" \in Parties
  BY DEF Parties
<1>4. fed \in Federation /\ Shaped("idp", fed) /\ fed.local \in Name
  <2>1. CASE feds["idp"] = NoFederation
    BY <1>2, <2>1 DEF Shaped
  <2>2. CASE feds["idp"] # NoFederation
    BY <1>3, <2>2, TwoOfEach DEF Shapes, Shaped, TypeOK
  <2> QED BY <2>1, <2>2
<1>5. Subject(fed, logins') \in [login : {logins'}, nid : Name, idp : Name \cup {NoName}]
  <2> HIDE DEF fed
  <2> QED BY <1>4 DEF Subject, Federation
<1>6. /\ feds' = [feds EXCEPT !["idp"] = fed]
      /\ inSession' = [inSession EXCEPT !["idp"] = Subject(fed, logins').nid]
      /\ flight' = flight \cup {Subject(fed, logins')}
      /\ Judge(~ Quiet, Shared("idp", fed))
  BY DEF IssueAssertion
<1>7. feds["idp"] # NoFederation => fed = feds["idp"]
  OBVIOUS
<1> HIDE DEF fed
<1> QED BY <1>4, <1>5, <1>6, <1>7

Names == [idp : Contents \cup {NoContent}, sp : Contents \cup {NoContent}]

LEMMA SharedTyped ==
  ASSUME TypeOK, NEW x, NEW f \in Federation \cup {NoFederation}, Shaped(x, f)
  PROVE  Shared(x, f) \in Names
<1>1. CASE f = NoFederation
  BY <1>1 DEF Shared, NoNames, Names
<1>2. CASE f # NoFederation
  BY <1>2, TwoOfEach, NullIsNoValue DEF Shared, Shaped, Names, Federation, Name
<1> QED BY <1>1, <1>2

LEMMA SettledTyped ==
  ASSUME TypeOK, NEW req \in Exchange, req.kind = "rename" => req.new \in Contents
  PROVE  Settled(req) \in Names
BY DEF Settled, TypeOK, NoNames, Names, Exchange, Kinds

LEMMA JudgeTyped ==
  ASSUME NEW bad \in BOOLEAN, NEW names \in Names, Judge(bad, names)
  PROVE  agreed' \in Names /\ disturbed' \in BOOLEAN
BY DEF Judge, NoNames, Names

\* A provider saves what a safe handler returned.
LEMMA SavedTyped ==
  ASSUME TypeOK, Shapes, NEW x \in Parties, NEW r, Safe(x, r), Saved(x, r), protocol' = protocol
  PROVE  /\ feds' \in [Parties -> Federation \cup {NoFederation}]
         /\ inSession' \in [Parties -> Name \cup {NoName}]
         /\ Shapes'
         /\ \A z \in Parties : feds[z] = NoFederation => feds'[z] = NoFederation
         /\ \A z \in Parties : z # x => feds'[z] = feds[z]
         /\ feds'[x] = r.fed
<1>1. /\ feds' = [feds EXCEPT ![x] = r.fed]
      /\ inSession' = [inSession EXCEPT ![x] = r.inSession]
  BY DEF Saved
<1>2. /\ feds' \in [Parties -> Federation \cup {NoFederation}]
      /\ inSession' \in [Parties -> Name \cup {NoName}]
      /\ feds'[x] = r.fed
      /\ \A z \in Parties : z # x => feds'[z] = feds[z]
  BY <1>1 DEF TypeOK, Safe
<1>3. Shapes'
  <2> SUFFICES ASSUME NEW z \in Parties PROVE Shaped(z, feds[z])'
    BY DEF Shapes
  <2>1. Shaped(z, feds'[z])
    BY <1>2 DEF Shapes, Safe
  <2> QED BY <2>1 DEF Shaped
<1> QED BY <1>2, <1>3 DEF Safe

LEMMA RequestNameTyped ==
  ASSUME TypeOK, NEW x \in Parties, NEW kind \in Kinds
  PROVE  RequestName(x, kind) \in Name \cup {NoName}
<1>1. /\ feds[x] \in Federation \cup {NoFederation}
      /\ inSession[x] \in Name \cup {NoName}
  BY DEF TypeOK
<1> QED BY <1>1 DEF RequestName, Saml2Name, IdffName, OldName, NameToSend, Federation

\* Every action keeps the types, the shapes and the bookkeeping of exchanges.
LEMMA BasicStep == BasicInv /\ [Next]_vars => BasicInv'
<1> SUFFICES ASSUME BasicInv, [Next]_vars PROVE BasicInv'
  OBVIOUS
<1> USE DEF BasicInv
<1>t. /\ protocol \in Protocols
      /\ feds \in [Parties -> Federation \cup {NoFederation}]
      /\ inSession \in [Parties -> Name \cup {NoName}]
      /\ logins \in 0 .. MaxLogins
      /\ flight \subseteq [login : 1 .. MaxLogins, nid : Name, idp : Name \cup {NoName}]
      /\ exchanges \in [Exchanges -> Exchange \cup {NoExchange}]
      /\ answers \subseteq Answer
      /\ agreed \in Names
      /\ disturbed \in BOOLEAN
  BY DEF TypeOK, Answer, Names
<1>u. ASSUME NEW e \in Exchanges, Used(e)
      PROVE  /\ exchanges[e] \in Exchange
             /\ exchanges[e].kind = "rename" => exchanges[e].new \in Contents
  BY <1>t, <1>u DEF Used, Exchanged
<1>p. "sp" \in Parties /\ "idp" \in Parties
  BY DEF Parties
<1>1. CASE IssueAssertion
  <2>1. PICK fed \in Federation :
           /\ Shaped("idp", fed)
           /\ Subject(fed, logins') \in [login : {logins'}, nid : Name, idp : Name \cup {NoName}]
           /\ feds' = [feds EXCEPT !["idp"] = fed]
           /\ inSession' = [inSession EXCEPT !["idp"] = Subject(fed, logins').nid]
           /\ flight' = flight \cup {Subject(fed, logins')}
           /\ Judge(~ Quiet, Shared("idp", fed))
    BY <1>1, IssueTyped
  <2>2. protocol' = protocol /\ logins' = logins + 1 /\ logins' \in 1 .. MaxLogins /\ LoggedIn("idp")
    BY <1>1, <1>t, FederationConstants DEF IssueAssertion
  <2>3. Shared("idp", fed) \in Names
    BY <2>1, SharedTyped
  <2>4. agreed' \in Names /\ disturbed' \in BOOLEAN
    BY <2>1, <2>3, JudgeTyped
  <2>5. /\ feds' \in [Parties -> Federation \cup {NoFederation}]
        /\ inSession' \in [Parties -> Name \cup {NoName}]
    BY <1>t, <2>1
  <2>6. flight' \subseteq [login : 1 .. MaxLogins, nid : Name, idp : Name \cup {NoName}]
    BY <1>t, <2>1, <2>2
  <2>7. /\ exchanges' \in [Exchanges -> Exchange \cup {NoExchange}]
        /\ answers' \subseteq Answer
    BY <2>2, <1>p, LoggedInKeeps
  <2>8. TypeOK'
    BY <1>t, <2>2, <2>4, <2>5, <2>6, <2>7, FederationConstants DEF TypeOK, Answer, Names
  <2>9. Shapes'
    <3>1. \A z \in Parties : Shaped(z, feds'[z])
      BY <1>t, <1>p, <2>1 DEF Shapes
    <3> QED BY <3>1, <2>2 DEF Shapes, Shaped
  <2>10. Numbered'
    <3>1. \A a \in flight' : a.login <= logins'
      BY <1>t, <2>1, <2>2, FederationConstants DEF Numbered
    <3> QED BY <3>1 DEF Numbered
  <2>11. Exchanged'
    <3>1. \A b \in answers' : b.of \in Exchanges
      BY <2>7 DEF Answer
    <3> QED BY <2>2, <1>p, <1>t, <3>1, LoggedInKeeps DEF Exchanged, Used, Waiting, Answer
  <2> QED BY <2>8, <2>9, <2>10, <2>11
<1>2. ASSUME NEW a \in flight, AcceptAssertion(a)
      PROVE  BasicInv'
  <2>1. a \in [login : 1 .. MaxLogins, nid : Name, idp : Name \cup {NoName}]
    BY <1>t
  <2>2. AcceptedFederation(a) \in Federation /\ Shaped("sp", AcceptedFederation(a))
    BY <2>1, TwoOfEach DEF AcceptedFederation, Federation, Shaped
  <2>3. /\ protocol' = protocol /\ logins' = logins /\ flight' = flight \ {a} /\ LoggedIn("sp")
        /\ agreed' = agreed /\ disturbed' = disturbed
        /\ feds' = [feds EXCEPT !["sp"] = AcceptedFederation(a)]
        /\ inSession' = [inSession EXCEPT !["sp"] = a.nid]
    BY <1>2 DEF AcceptAssertion
  <2>4. /\ feds' \in [Parties -> Federation \cup {NoFederation}]
        /\ inSession' \in [Parties -> Name \cup {NoName}]
    BY <1>t, <2>1, <2>2, <2>3
  <2>5. /\ exchanges' \in [Exchanges -> Exchange \cup {NoExchange}]
        /\ answers' \subseteq Answer
    BY <2>3, <1>p, LoggedInKeeps
  <2>6. TypeOK'
    BY <1>t, <2>3, <2>4, <2>5 DEF TypeOK, Answer, Names
  <2>7. Shapes'
    <3>1. \A z \in Parties : Shaped(z, feds'[z])
      BY <1>t, <1>p, <2>2, <2>3 DEF Shapes
    <3> QED BY <3>1, <2>3 DEF Shapes, Shaped
  <2>8. Numbered'
    BY <2>3 DEF Numbered
  <2>9. Exchanged'
    <3>1. \A b \in answers' : b.of \in Exchanges
      BY <2>5 DEF Answer
    <3> QED BY <2>3, <1>p, <1>t, <3>1, LoggedInKeeps DEF Exchanged, Used, Waiting, Answer
  <2> QED BY <2>6, <2>7, <2>8, <2>9
<1>3. ASSUME NEW a \in flight, LoseAssertion(a)
      PROVE  BasicInv'
  <2>1. /\ protocol' = protocol /\ logins' = logins /\ flight' = flight \ {a}
        /\ feds' = feds /\ inSession' = inSession /\ exchanges' = exchanges /\ answers' = answers
        /\ Judge(TRUE, agreed)
    BY <1>3 DEF LoseAssertion, stores
  <2>2. agreed' \in Names /\ disturbed' \in BOOLEAN
    BY <1>t, <2>1, JudgeTyped
  <2>3. TypeOK'
    BY <1>t, <2>1, <2>2 DEF TypeOK, Answer, Names
  <2> QED BY <2>1, <2>3 DEF Shapes, Shaped, Numbered, Exchanged, Used, Waiting
<1>4. ASSUME NEW x \in Parties, EndSession(x)
      PROVE  BasicInv'
  <2>1. TypeOK'
    BY <1>4, <1>t DEF EndSession, TypeOK, Answer, Names
  <2> QED BY <1>4, <2>1 DEF EndSession, Shapes, Shaped, Numbered, Exchanged, Used, Waiting
<1>5. ASSUME NEW x \in Parties, NEW kind \in Kinds, NEW e \in Exchanges, Start(x, kind, e)
      PROVE  BasicInv'
  <2> DEFINE q == [from |-> x, kind |-> kind, nid |-> RequestName(x, kind),
                   new |-> IF kind = "rename" THEN NameOf(e) ELSE NoContent,
                   state |-> "waiting", served |-> FALSE, fresh |-> FALSE]
  <2>1. /\ protocol' = protocol /\ logins' = logins /\ flight' = flight /\ answers' = answers
        /\ ~ Used(e) /\ Saved(x, StartResult(x, kind))
        /\ exchanges' = [exchanges EXCEPT ![e] = q]
        /\ Judge(disturbed \/ ~ Quiet, agreed)
    BY <1>5 DEF Start, StartResult
  <2>2. NameOf(e) \in Contents
    BY FederationConstants DEF NameOf, Exchanges
  <2>3. q \in Exchange /\ (kind = "rename" => q.new \in Contents)
    BY <2>2, RequestNameTyped DEF Exchange
  <2>4. agreed' \in Names /\ disturbed' \in BOOLEAN
    BY <1>t, <2>1, JudgeTyped
  <2>5. /\ feds' \in [Parties -> Federation \cup {NoFederation}]
        /\ inSession' \in [Parties -> Name \cup {NoName}]
        /\ Shapes'
    BY <2>1, StartSafe, SavedTyped
  <2>6. exchanges' \in [Exchanges -> Exchange \cup {NoExchange}]
    BY <1>t, <2>1, <2>3
  <2>7. TypeOK'
    BY <1>t, <2>1, <2>4, <2>5, <2>6 DEF TypeOK, Answer, Names
  <2>8. Exchanged'
    <3>1. \A k \in Exchanges : k # e => exchanges'[k] = exchanges[k]
      BY <1>t, <2>1
    <3>2. exchanges'[e] = q
      BY <1>t, <2>1
    <3>3. \A a \in answers : a.of \in Exchanges /\ a.of # e
      BY <1>t, <2>1 DEF Answer, Exchanged
    <3> QED BY <2>1, <2>3, <3>1, <3>2, <3>3, FederationConstants DEF Exchanged, Used, Waiting
  <2> QED BY <2>1, <2>5, <2>7, <2>8 DEF Numbered
<1>6. ASSUME NEW e \in Exchanges, NEW verified \in BOOLEAN, NEW fate \in Fates, Serve(e, verified, fate)
      PROVE  BasicInv'
  <2> DEFINE req == exchanges[e]
             r == ServeResult(req, verified, fate)
             done == OneWay(req) /\ r.rc = "ok"
             q == IF ~ Waiting(e) THEN req
                  ELSE IF OneWay(req) THEN Ended(req, done, TRUE)
                  ELSE [req EXCEPT !.served = TRUE]
             b == [of |-> e, status |-> r.answer, fresh |-> req.kind = "terminate"]
  <2>1. /\ protocol' = protocol /\ logins' = logins /\ flight' = flight
        /\ Used(e) /\ Saved(Peer(req.from), r)
        /\ answers' = IF r.answer = "none" THEN answers ELSE answers \cup {b}
        /\ exchanges' = [exchanges EXCEPT ![e] = q]
        /\ Judge(disturbed \/ r.rc # "ok" \/ req.served \/ req.state # "waiting",
                 IF done THEN Settled(req) ELSE agreed)
    BY <1>6 DEF Serve, ServeResult
  <2>2. req \in Exchange /\ (req.kind = "rename" => req.new \in Contents)
    BY <2>1, <1>u
  <2>3. Safe(Peer(req.from), r) /\ r.answer \in {"none", "success", "refused"}
    BY <2>2, ServeSafe
  <2>4. /\ q \in Exchange /\ q.kind = req.kind /\ q.new = req.new
        /\ (q.state = "waiting" => req.state = "waiting" /\ q.served)
           \/ (q = req /\ ~ Waiting(e))
    BY <2>2 DEF Exchange, Ended
  <2> HIDE DEF q
  <2>5. Peer(req.from) \in Parties
    BY <2>2, TwoOfEach DEF Exchange
  <2>6. /\ feds' \in [Parties -> Federation \cup {NoFederation}]
        /\ inSession' \in [Parties -> Name \cup {NoName}]
        /\ Shapes'
    <3> HIDE DEF r
    <3> QED BY <2>1, <2>3, <2>5, SavedTyped
  <2>7. agreed' \in Names /\ disturbed' \in BOOLEAN
    <3>1. (IF done THEN Settled(req) ELSE agreed) \in Names
      BY <1>t, <2>2, SettledTyped
    <3> QED BY <2>1, <3>1, JudgeTyped
  <2>8. exchanges' \in [Exchanges -> Exchange \cup {NoExchange}]
    BY <1>t, <2>1, <2>4
  <2>9. answers' \subseteq Answer
    <3>1. r.answer # "none" => b \in Answer
      BY <2>3 DEF Answer
    <3> HIDE DEF r, b
    <3> QED BY <1>t, <2>1, <3>1
  <2>10. TypeOK'
    BY <1>t, <2>1, <2>6, <2>7, <2>8, <2>9 DEF TypeOK, Answer, Names
  <2>11. Exchanged'
    <3>1. \A k \in Exchanges : k # e => exchanges'[k] = exchanges[k]
      BY <1>t, <2>1
    <3>2. exchanges'[e] = q
      BY <1>t, <2>1
    <3>3. \A a \in answers' : a.of \in Exchanges /\ (a \in answers \/ a.of = e)
      <4> HIDE DEF r
      <4> QED BY <2>1, <2>9 DEF Answer
    <3>4. q # NoExchange
      BY <2>4, FederationConstants
    <3>5. ASSUME q.state = "waiting" PROVE q.served
      BY <2>1, <2>4, <3>5 DEF Waiting, Used
    <3>6. \A a \in answers' : Used(a.of)' /\ (Waiting(a.of)' => exchanges'[a.of].served)
      BY <3>1, <3>2, <3>3, <3>4, <3>5 DEF Exchanged, Used, Waiting
    <3>7. \A k \in Exchanges :
            (Used(k)' /\ exchanges'[k].kind = "rename") => exchanges'[k].new \in Contents
      BY <2>2, <2>4, <3>1, <3>2 DEF Exchanged, Used
    <3> QED BY <3>6, <3>7 DEF Exchanged
  <2> QED BY <2>1, <2>6, <2>10, <2>11 DEF Numbered
<1>7. ASSUME NEW e \in Exchanges, NEW a \in answers, NEW verified \in BOOLEAN, TakeAnswer(e, a, verified)
      PROVE  BasicInv'
  <2> DEFINE req == exchanges[e]
             r == TakeResult(req, a.status, verified)
             ok == r.rc = "ok" /\ a.of = e
             q == Ended(req, ok, a.fresh)
  <2>1. /\ protocol' = protocol /\ logins' = logins /\ flight' = flight /\ answers' = answers
        /\ Waiting(e) /\ ~ OneWay(req) /\ Saved(req.from, r)
        /\ exchanges' = [exchanges EXCEPT ![e] = q]
        /\ Judge(disturbed \/ ~ ok, IF ok THEN Settled(req) ELSE agreed)
    BY <1>7 DEF TakeAnswer, TakeResult
  <2>2. req \in Exchange /\ (req.kind = "rename" => req.new \in Contents) /\ Used(e) /\ req.from \in Parties
    BY <2>1, <1>u DEF Waiting, Exchange
  <2>3. Safe(req.from, r)
    BY <2>1, <2>2, TakeSafe
  <2>4. /\ q \in Exchange /\ q.kind = req.kind /\ q.new = req.new /\ q.state # "waiting"
    BY <1>t, <2>2 DEF Exchange, Ended, Answer
  <2> HIDE DEF q
  <2>5. /\ feds' \in [Parties -> Federation \cup {NoFederation}]
        /\ inSession' \in [Parties -> Name \cup {NoName}]
        /\ Shapes'
    <3> HIDE DEF r
    <3> QED BY <2>1, <2>2, <2>3, SavedTyped
  <2>6. agreed' \in Names /\ disturbed' \in BOOLEAN
    <3>1. (IF ok THEN Settled(req) ELSE agreed) \in Names
      BY <1>t, <2>2, SettledTyped
    <3> QED BY <1>t, <2>1, <3>1, JudgeTyped
  <2>7. TypeOK'
    BY <1>t, <2>1, <2>4, <2>5, <2>6 DEF TypeOK, Answer, Names
  <2>8. Exchanged'
    <3>1. \A k \in Exchanges : k # e => exchanges'[k] = exchanges[k]
      BY <1>t, <2>1
    <3>2. exchanges'[e] = q /\ q # NoExchange
      BY <1>t, <2>1, <2>4, FederationConstants
    <3>3. \A b \in answers : b.of \in Exchanges
      BY <1>t DEF Answer
    <3> QED BY <2>1, <2>2, <2>4, <3>1, <3>2, <3>3 DEF Exchanged, Used, Waiting
  <2> QED BY <2>1, <2>5, <2>7, <2>8 DEF Numbered
<1>8. ASSUME NEW e \in Exchanges, GiveUp(e)
      PROVE  BasicInv'
  <2> DEFINE q == Ended(exchanges[e], FALSE, FALSE)
  <2>1. /\ protocol' = protocol /\ logins' = logins /\ flight' = flight /\ answers' = answers
        /\ feds' = feds /\ inSession' = inSession
        /\ Waiting(e) /\ exchanges' = [exchanges EXCEPT ![e] = q]
        /\ Judge(TRUE, agreed)
    BY <1>8 DEF GiveUp, stores
  <2>2. Used(e) /\ exchanges[e] \in Exchange
    BY <2>1, <1>u DEF Waiting
  <2>3. /\ q \in Exchange /\ q.kind = exchanges[e].kind /\ q.new = exchanges[e].new
        /\ q.state # "waiting"
    BY <2>2 DEF Exchange, Ended
  <2> HIDE DEF q
  <2>4. agreed' \in Names /\ disturbed' \in BOOLEAN
    BY <1>t, <2>1, JudgeTyped
  <2>5. TypeOK'
    BY <1>t, <2>1, <2>3, <2>4 DEF TypeOK, Answer, Names
  <2>6. Exchanged'
    <3>1. \A k \in Exchanges : k # e => exchanges'[k] = exchanges[k]
      BY <1>t, <2>1
    <3>2. exchanges'[e] = q /\ q # NoExchange
      BY <1>t, <2>1, <2>3, FederationConstants
    <3>3. \A b \in answers : b.of \in Exchanges
      BY <1>t DEF Answer
    <3> QED BY <2>1, <2>2, <2>3, <3>1, <3>2, <3>3 DEF Exchanged, Used, Waiting
  <2> QED BY <2>1, <2>5, <2>6 DEF Shapes, Shaped, Numbered
<1>9. CASE UNCHANGED vars
  BY <1>9 DEF vars, stores, TypeOK, Shapes, Shaped, Numbered, Exchanged, Used, Waiting
<1> QED BY <1>1, <1>2, <1>3, <1>4, <1>5, <1>6, <1>7, <1>8, <1>9 DEF Next

LEMMA InitBasic == Init => BasicInv
<1> SUFFICES ASSUME Init PROVE BasicInv
  OBVIOUS
<1>1. TypeOK
  <2>1. logins \in 0 .. MaxLogins
    BY FederationConstants DEF Init
  <2>2. agreed \in Names
    BY DEF Init, NoNames, Names
  <2>3. disturbed \in BOOLEAN
    BY DEF Init
  <2> QED BY <2>1, <2>2, <2>3 DEF Init, TypeOK, Names
<1>2. Shapes /\ Numbered /\ Exchanged
  BY DEF Init, Shapes, Shaped, Numbered, Exchanged, Used
<1> QED BY <1>1, <1>2 DEF BasicInv

\* TypeOK: the handlers of either protocol return well-formed federations,
\* names and answers in every order of logins, renames and terminations
\* (name_id_management.c, name_registration.c, defederation.c).
THEOREM TypeCorrect == Spec => []TypeOK
<1>1. BasicInv => TypeOK
  BY DEF BasicInv
<1> QED BY <1>1, InitBasic, BasicStep, PTL DEF Spec

-----------------------------------------------------------------------------
(* Terminations *)

\* A confirmed termination leaves the receiver without federation.
LEMMA TerminationServed ==
  ASSUME NEW req, NEW verified, NEW fate, req.kind = "terminate",
         \/ ServeResult(req, verified, fate).answer = "success"
         \/ OneWay(req) /\ ServeResult(req, verified, fate).rc = "ok"
  PROVE  ServeResult(req, verified, fate).fed = NoFederation
<1>1. CASE protocol = "saml2"
  BY <1>1 DEF ServeResult, Saml2Validate, Result, OneWay
<1>2. CASE protocol # "saml2"
  BY <1>2 DEF ServeResult, IdffValidate, ValidateNotification, Result
<1> QED BY <1>1, <1>2

\* The requester takes no other answer than Success.
LEMMA SuccessTaken ==
  ASSUME NEW req, NEW status, NEW verified, TakeResult(req, status, verified).rc = "ok"
  PROVE  status = "success"
<1>1. CASE protocol = "saml2"
  BY <1>1 DEF TakeResult, Saml2Process, Result
<1>2. CASE protocol # "saml2"
  BY <1>2 DEF TakeResult, IdffProcess, Result
<1> QED BY <1>1, <1>2

\* A login of provider y: what others confirmed about y is no longer fresh.
LEMMA LoginHolds ==
  ASSUME BasicInv, AnswersHold, TerminationHolds, NEW y \in Parties, LoggedIn(y),
         \A z \in Parties : z # y => feds'[z] = feds[z]
  PROVE  AnswersHold' /\ TerminationHolds'
<1>1. TypeOK /\ answers \subseteq Answer /\ answers' \subseteq Answer
  BY LoggedInKeeps DEF BasicInv, TypeOK, Answer
<1>2. ASSUME NEW e \in Exchanges, exchanges[e] # NoExchange, exchanges[e].from = y
      PROVE  feds'[Peer(exchanges[e].from)] = feds[Peer(exchanges[e].from)]
  BY <1>2, TwoOfEach
<1>3. AnswersHold'
  <2> SUFFICES ASSUME NEW b \in answers', b.fresh, b.status = "success"
               PROVE  feds'[Peer(exchanges'[b.of].from)] = NoFederation
    BY DEF AnswersHold
  <2>1. PICK a \in answers : /\ b.of = a.of /\ b.status = a.status
                             /\ b.fresh => a.fresh /\ exchanges[a.of].from = y
    BY <1>1, LoggedInKeeps
  <2>2. a.of \in Exchanges /\ exchanges[a.of] # NoExchange
    BY <1>1 DEF BasicInv, Exchanged, Used, Answer
  <2>3. exchanges'[a.of].from = exchanges[a.of].from
    BY <1>1, <2>2, LoggedInKeeps
  <2> QED BY <1>2, <2>1, <2>2, <2>3 DEF AnswersHold
<1>4. TerminationHolds'
  <2> SUFFICES ASSUME NEW e \in Exchanges, exchanges'[e] # NoExchange,
                      exchanges'[e].kind = "terminate", exchanges'[e].fresh
               PROVE  feds'[Peer(exchanges'[e].from)] = NoFederation
    BY DEF TerminationHolds, Used
  <2>1. /\ exchanges[e] # NoExchange /\ exchanges[e].kind = "terminate"
        /\ exchanges[e].fresh /\ exchanges[e].from = y
        /\ exchanges'[e].from = exchanges[e].from
    BY <1>1, LoggedInKeeps
  <2> QED BY <1>2, <2>1 DEF TerminationHolds, Used
<1> QED BY <1>3, <1>4

\* No other step brings a federation back; answers are sent and taken truly.
LEMMA HoldStep == BasicInv /\ AnswersHold /\ TerminationHolds /\ [Next]_vars
                  => AnswersHold' /\ TerminationHolds'
<1> SUFFICES ASSUME BasicInv, AnswersHold, TerminationHolds, [Next]_vars
             PROVE  AnswersHold' /\ TerminationHolds'
  OBVIOUS
<1>t. /\ TypeOK /\ Shapes /\ Exchanged
      /\ feds \in [Parties -> Federation \cup {NoFederation}]
      /\ exchanges \in [Exchanges -> Exchange \cup {NoExchange}]
      /\ answers \subseteq Answer
  BY DEF BasicInv, TypeOK, Answer
<1>u. ASSUME NEW e \in Exchanges, Used(e)
      PROVE  /\ exchanges[e] \in Exchange /\ exchanges[e].from \in Parties
             /\ Peer(exchanges[e].from) \in Parties
             /\ exchanges[e].kind = "rename" => exchanges[e].new \in Contents
  BY <1>t, <1>u, TwoOfEach DEF Used, Exchanged, Exchange
<1>o. \A a \in answers : a.of \in Exchanges /\ Used(a.of)
  BY <1>t DEF Answer, Exchanged
<1>p. "sp" \in Parties /\ "idp" \in Parties
  BY DEF Parties
<1>1. CASE IssueAssertion
  <2>1. LoggedIn("idp") /\ \A z \in Parties : z # "idp" => feds'[z] = feds[z]
    BY <1>1, <1>t, IssueTyped DEF IssueAssertion
  <2> QED BY <2>1, <1>p, LoginHolds
<1>2. ASSUME NEW a \in flight, AcceptAssertion(a)
      PROVE  AnswersHold' /\ TerminationHolds'
  <2>1. LoggedIn("sp") /\ \A z \in Parties : z # "sp" => feds'[z] = feds[z]
    BY <1>2, <1>t DEF AcceptAssertion
  <2> QED BY <2>1, <1>p, LoginHolds
<1>3. ASSUME NEW a \in flight, LoseAssertion(a)
      PROVE  AnswersHold' /\ TerminationHolds'
  BY <1>3 DEF LoseAssertion, stores, AnswersHold, TerminationHolds, Used
<1>4. ASSUME NEW x \in Parties, EndSession(x)
      PROVE  AnswersHold' /\ TerminationHolds'
  BY <1>4 DEF EndSession, AnswersHold, TerminationHolds, Used
<1>5. ASSUME NEW x \in Parties, NEW kind \in Kinds, NEW e \in Exchanges, Start(x, kind, e)
      PROVE  AnswersHold' /\ TerminationHolds'
  <2>1. /\ protocol' = protocol /\ answers' = answers /\ ~ Used(e) /\ Saved(x, StartResult(x, kind))
        /\ exchanges' = [exchanges EXCEPT ![e] =
             [from |-> x, kind |-> kind, nid |-> RequestName(x, kind),
              new |-> IF kind = "rename" THEN NameOf(e) ELSE NoContent,
              state |-> "waiting", served |-> FALSE, fresh |-> FALSE]]
    BY <1>5 DEF Start, StartResult
  <2>2. \A z \in Parties : feds[z] = NoFederation => feds'[z] = NoFederation
    BY <1>t, <2>1, StartSafe, SavedTyped
  <2>3. \A k \in Exchanges : k # e => exchanges'[k] = exchanges[k]
    BY <1>t, <2>1
  <2>4. exchanges'[e].fresh = FALSE
    BY <1>t, <2>1
  <2>5. AnswersHold'
    BY <1>o, <1>u, <2>1, <2>2, <2>3 DEF AnswersHold
  <2>6. TerminationHolds'
    BY <1>u, <2>2, <2>3, <2>4 DEF TerminationHolds, Used
  <2> QED BY <2>5, <2>6
<1>6. ASSUME NEW e \in Exchanges, NEW verified \in BOOLEAN, NEW fate \in Fates, Serve(e, verified, fate)
      PROVE  AnswersHold' /\ TerminationHolds'
  <2> DEFINE req == exchanges[e]
             y == Peer(req.from)
             r == ServeResult(req, verified, fate)
             done == OneWay(req) /\ r.rc = "ok"
             q == IF ~ Waiting(e) THEN req
                  ELSE IF OneWay(req) THEN Ended(req, done, TRUE)
                  ELSE [req EXCEPT !.served = TRUE]
             b == [of |-> e, status |-> r.answer, fresh |-> req.kind = "terminate"]
  <2>1. /\ protocol' = protocol /\ Used(e) /\ Saved(y, r)
        /\ answers' = IF r.answer = "none" THEN answers ELSE answers \cup {b}
        /\ exchanges' = [exchanges EXCEPT ![e] = q]
    BY <1>6 DEF Serve, ServeResult
  <2>2. req \in Exchange /\ y \in Parties /\ (req.kind = "rename" => req.new \in Contents)
    BY <2>1, <1>u
  <2>3. /\ \A z \in Parties : feds[z] = NoFederation => feds'[z] = NoFederation
        /\ feds'[y] = r.fed
    <3>1. Safe(y, r)
      BY <1>t, <2>2, ServeSafe
    <3> HIDE DEF r, y
    <3> QED BY <1>t, <2>1, <2>2, <3>1, SavedTyped
  <2>4. q.from = req.from /\ q.kind = req.kind /\ (q.fresh => req.fresh \/ done)
    BY <2>2 DEF Exchange, Ended
  <2>5. \A k \in Exchanges : k # e => exchanges'[k] = exchanges[k]
    BY <1>t, <2>1
  <2>6. exchanges'[e] = q
    BY <1>t, <2>1
  <2>7. req.kind = "terminate" /\ (r.answer = "success" \/ done) => feds'[y] = NoFederation
    BY <2>3, TerminationServed
  <2> HIDE DEF q, r, done
  <2>8. AnswersHold'
    <3> SUFFICES ASSUME NEW a \in answers', a.fresh, a.status = "success"
                 PROVE  feds'[Peer(exchanges'[a.of].from)] = NoFederation
      BY DEF AnswersHold
    <3>1. CASE a \in answers
      <4>1. feds[Peer(exchanges[a.of].from)] = NoFederation
        BY <3>1 DEF AnswersHold
      <4>2. exchanges'[a.of].from = exchanges[a.of].from
        BY <1>o, <2>4, <2>5, <2>6, <3>1
      <4> QED BY <1>o, <1>u, <2>3, <3>1, <4>1, <4>2
    <3>2. CASE a \notin answers
      <4>1. a = b
        BY <2>1, <3>2
      <4>2. a.of = e /\ a.status = r.answer /\ req.kind = "terminate"
        BY <4>1
      <4> QED BY <2>4, <2>6, <2>7, <4>2
    <3> QED BY <3>1, <3>2
  <2>9. TerminationHolds'
    <3> SUFFICES ASSUME NEW k \in Exchanges, exchanges'[k] # NoExchange,
                        exchanges'[k].kind = "terminate", exchanges'[k].fresh
                 PROVE  feds'[Peer(exchanges'[k].from)] = NoFederation
      BY DEF TerminationHolds, Used
    <3>1. CASE k # e
      BY <1>u, <2>3, <2>5, <3>1 DEF TerminationHolds, Used
    <3>2. CASE k = e
      BY <2>1, <2>2, <2>3, <2>4, <2>6, <2>7, <3>2 DEF TerminationHolds
    <3> QED BY <3>1, <3>2
  <2> QED BY <2>8, <2>9
<1>7. ASSUME NEW e \in Exchanges, NEW a \in answers, NEW verified \in BOOLEAN, TakeAnswer(e, a, verified)
      PROVE  AnswersHold' /\ TerminationHolds'
  <2> DEFINE req == exchanges[e]
             r == TakeResult(req, a.status, verified)
             ok == r.rc = "ok" /\ a.of = e
             q == Ended(req, ok, a.fresh)
  <2>1. /\ protocol' = protocol /\ answers' = answers
        /\ Waiting(e) /\ ~ OneWay(req) /\ Saved(req.from, r)
        /\ exchanges' = [exchanges EXCEPT ![e] = q]
    BY <1>7 DEF TakeAnswer, TakeResult
  <2>2. req \in Exchange /\ req.from \in Parties /\ (req.kind = "rename" => req.new \in Contents) /\ Used(e)
    BY <2>1, <1>u DEF Waiting
  <2>3. \A z \in Parties : feds[z] = NoFederation => feds'[z] = NoFederation
    <3>1. Safe(req.from, r)
      BY <1>t, <2>1, <2>2, TakeSafe
    <3> HIDE DEF r
    <3> QED BY <1>t, <2>1, <2>2, <3>1, SavedTyped
  <2>4. q.from = req.from /\ q.kind = req.kind /\ (q.fresh => ok /\ a.fresh)
    BY <2>2 DEF Exchange, Ended
  <2>5. ok => a.status = "success" /\ a.of = e
    BY SuccessTaken
  <2>6. \A k \in Exchanges : k # e => exchanges'[k] = exchanges[k]
    BY <1>t, <2>1
  <2>7. exchanges'[e] = q
    BY <1>t, <2>1
  <2> HIDE DEF q, r, ok
  <2>8. \A b \in answers : exchanges'[b.of].from = exchanges[b.of].from
    BY <1>o, <2>4, <2>6, <2>7
  <2>9. AnswersHold'
    BY <1>o, <1>u, <2>1, <2>3, <2>8 DEF AnswersHold
  <2>10. TerminationHolds'
    <3> SUFFICES ASSUME NEW k \in Exchanges, exchanges'[k] # NoExchange,
                        exchanges'[k].kind = "terminate", exchanges'[k].fresh
                 PROVE  feds'[Peer(exchanges'[k].from)] = NoFederation
      BY DEF TerminationHolds, Used
    <3>1. CASE k # e
      BY <1>u, <2>3, <2>6, <3>1 DEF TerminationHolds, Used
    <3>2. CASE k = e
      BY <1>u, <2>2, <2>3, <2>4, <2>5, <2>7, <3>2 DEF AnswersHold
    <3> QED BY <3>1, <3>2
  <2> QED BY <2>9, <2>10
<1>8. ASSUME NEW e \in Exchanges, GiveUp(e)
      PROVE  AnswersHold' /\ TerminationHolds'
  <2> DEFINE q == Ended(exchanges[e], FALSE, FALSE)
  <2>1. /\ answers' = answers /\ feds' = feds /\ Used(e) /\ exchanges' = [exchanges EXCEPT ![e] = q]
    BY <1>8 DEF GiveUp, stores, Waiting
  <2>2. q.from = exchanges[e].from /\ ~ q.fresh
    BY <1>u, <2>1 DEF Exchange, Ended
  <2> HIDE DEF q
  <2>3. \A k \in Exchanges : k # e => exchanges'[k] = exchanges[k]
    BY <1>t, <2>1
  <2>4. exchanges'[e] = q
    BY <1>t, <2>1
  <2> QED BY <1>o, <2>1, <2>2, <2>3, <2>4 DEF AnswersHold, TerminationHolds, Used
<1>9. CASE UNCHANGED vars
  BY <1>9 DEF vars, stores, AnswersHold, TerminationHolds, Used
<1> QED BY <1>1, <1>2, <1>3, <1>4, <1>5, <1>6, <1>7, <1>8, <1>9 DEF Next

\* TerminationHolds: a confirmed termination stays, whatever message crosses
\* or repeats the exchange, until the other provider takes part in a login.
THEOREM TerminationsHold == Spec => []TerminationHolds
<1>1. Init => BasicInv /\ AnswersHold /\ TerminationHolds
  BY InitBasic DEF Init, AnswersHold, TerminationHolds, Used
<1> QED BY <1>1, BasicStep, HoldStep, PTL DEF Spec

\* OnlyLoginFederates: no late answer and no repeated request brings back a
\* federation; where one appears an assertion was issued or accepted.
THEOREM OnlyLoginsFederate == Spec => OnlyLoginFederates
<1>1. BasicInv /\ [Next]_vars =>
        [\A x \in Parties :
           (feds[x] = NoFederation /\ feds'[x] # NoFederation) => flight' # flight]_vars
  <2> SUFFICES ASSUME BasicInv, [Next]_vars, NEW x \in Parties,
                      feds[x] = NoFederation, feds'[x] # NoFederation
               PROVE  flight' # flight
    OBVIOUS
  <2>t. /\ TypeOK /\ Shapes /\ Exchanged
        /\ exchanges \in [Exchanges -> Exchange \cup {NoExchange}]
    BY DEF BasicInv, TypeOK
  <2>u. ASSUME NEW e \in Exchanges, Used(e)
        PROVE  /\ exchanges[e] \in Exchange /\ exchanges[e].from \in Parties
               /\ Peer(exchanges[e].from) \in Parties
               /\ exchanges[e].kind = "rename" => exchanges[e].new \in Contents
    BY <2>t, <2>u, TwoOfEach DEF Used, Exchanged, Exchange
  <2>1. CASE IssueAssertion
    <3>1. PICK fed \in Federation :
            /\ Subject(fed, logins') \in [login : {logins'}, nid : Name, idp : Name \cup {NoName}]
            /\ flight' = flight \cup {Subject(fed, logins')}
      BY <2>1, <2>t, IssueTyped
    <3>2. Subject(fed, logins').login > logins
      BY <2>1, <3>1 DEF IssueAssertion, BasicInv, TypeOK
    <3>3. \A a \in flight : a.login <= logins /\ a.login \in Nat /\ logins \in Nat
      BY DEF BasicInv, TypeOK, Numbered
    <3>4. Subject(fed, logins') \notin flight
      <4> HIDE DEF Subject
      <4>1. logins' \in Nat
        BY <2>1 DEF IssueAssertion, BasicInv, TypeOK
      <4> QED BY <3>1, <3>2, <3>3, <4>1
    <3> QED BY <3>1, <3>4
  <2>2. ASSUME NEW a \in flight, AcceptAssertion(a) \/ LoseAssertion(a) PROVE flight' # flight
    BY <2>2 DEF AcceptAssertion, LoseAssertion
  <2>3. ASSUME NEW z \in Parties, EndSession(z) PROVE FALSE
    BY <2>3 DEF EndSession
  <2>4. ASSUME NEW z \in Parties, NEW kind \in Kinds, NEW e \in Exchanges, Start(z, kind, e) PROVE FALSE
    <3>1. Saved(z, StartResult(z, kind)) /\ protocol' = protocol
      BY <2>4 DEF Start, StartResult
    <3> QED BY <2>t, <3>1, StartSafe, SavedTyped
  <2>5. ASSUME NEW e \in Exchanges, NEW verified \in BOOLEAN, NEW fate \in Fates, Serve(e, verified, fate)
        PROVE  FALSE
    <3> DEFINE y == Peer(exchanges[e].from)
               r == ServeResult(exchanges[e], verified, fate)
    <3>1. Saved(y, r) /\ protocol' = protocol /\ Used(e)
      BY <2>5 DEF Serve, ServeResult
    <3>2. Safe(y, r) /\ y \in Parties
      BY <2>t, <2>u, <3>1, ServeSafe
    <3> HIDE DEF y, r
    <3> QED BY <2>t, <3>1, <3>2, SavedTyped
  <2>6. ASSUME NEW e \in Exchanges, NEW a \in answers, NEW verified \in BOOLEAN, TakeAnswer(e, a, verified)
        PROVE  FALSE
    <3> DEFINE z == exchanges[e].from
               r == TakeResult(exchanges[e], a.status, verified)
    <3>1. Saved(z, r) /\ protocol' = protocol /\ Used(e) /\ ~ OneWay(exchanges[e])
      BY <2>6 DEF TakeAnswer, TakeResult, Waiting
    <3>2. Safe(z, r) /\ z \in Parties
      BY <2>t, <2>u, <3>1, TakeSafe
    <3> HIDE DEF z, r
    <3> QED BY <2>t, <3>1, <3>2, SavedTyped
  <2>7. ASSUME NEW e \in Exchanges, GiveUp(e) PROVE FALSE
    BY <2>7 DEF GiveUp, stores
  <2>8. CASE UNCHANGED vars
    BY <2>8 DEF vars, stores
  <2> QED BY <2>1, <2>2, <2>3, <2>4, <2>5, <2>6, <2>7, <2>8 DEF Next
<1> QED BY <1>1, InitBasic, BasicStep, PTL DEF Spec, OnlyLoginFederates

-----------------------------------------------------------------------------
(* The names both sides know *)

\* An accepted assertion tells the service provider the names of the
\* federation it was issued for.
LEMMA SubjectShared ==
  ASSUME TypeOK, NEW fed \in Federation, Shaped("idp", fed), fed.local \in Name, NEW l
  PROVE  Shared("sp", AcceptedFederation(Subject(fed, l))) = Shared("idp", fed)
<1>1. fed # NoFederation /\ fed.local # NoName /\ NoFederation \notin Federation
  BY NullIsNoValue
<1>2. CASE protocol = "saml2"
  <2>1. AcceptedFederation(Subject(fed, l)) = [local |-> fed.local, remote |-> NoName]
    BY <1>2 DEF AcceptedFederation, Subject
  <2>2. [local |-> fed.local, remote |-> NoName] \in Federation
    BY DEF Federation
  <2> QED BY <1>1, <1>2, <2>1, <2>2 DEF Shared
<1>3. CASE protocol = "idff" /\ fed.remote # NoName
  <2>1. AcceptedFederation(Subject(fed, l)) = [local |-> fed.remote, remote |-> fed.local]
    BY <1>1, <1>3 DEF AcceptedFederation, Subject
  <2>2. [local |-> fed.remote, remote |-> fed.local] \in Federation
    BY DEF Federation
  <2> QED BY <1>1, <1>3, <2>1, <2>2 DEF Shared
<1>4. CASE protocol = "idff" /\ fed.remote = NoName
  <2>1. AcceptedFederation(Subject(fed, l)) = [local |-> NoName, remote |-> fed.local]
    BY <1>1, <1>4 DEF AcceptedFederation, Subject
  <2>2. [local |-> NoName, remote |-> fed.local] \in Federation
    BY DEF Federation
  <2> QED BY <1>1, <1>4, <2>1, <2>2 DEF Shared
<1> QED BY <1>2, <1>3, <1>4, TwoOfEach

\* A rename that returned 0 was served as it should be, or freed the
\* federation; with SAML 2.0 there was one.
LEMMA ServedOrFreed ==
  ASSUME NEW req, NEW verified \in BOOLEAN, NEW fate \in Fates,
         ServeResult(req, verified, fate).rc = "ok"
  PROVE  /\ ServeResult(req, verified, "kept").rc = "ok"
         /\ \/ ServeResult(req, verified, fate) = ServeResult(req, verified, "kept")
            \/ /\ protocol = "saml2" /\ req.kind # "terminate"
               /\ ServeResult(req, verified, fate).fed = NoFederation
         /\ protocol = "saml2" => feds[Peer(req.from)] # NoFederation
<1> DEFINE y == Peer(req.from)
           f == feds[y]
<1>1. CASE protocol # "saml2"
  BY <1>1 DEF ServeResult
<1>2. CASE protocol = "saml2"
  <2>1. \A g : ServeResult(req, verified, g) = Saml2Validate(req, f, inSession[y], verified, g)
    BY <1>2 DEF ServeResult
  <2>2. verified /\ f # NoFederation /\ req.nid # NoName /\ VerifyNameIdentifier(f, req.nid)
    BY <2>1 DEF Saml2Validate, Result
  <2>3. CASE req.kind = "terminate"
    BY <1>2, <2>1, <2>2, <2>3 DEF Saml2Validate
  <2>4. CASE req.kind # "terminate"
    <3>1. \A g : ServeResult(req, verified, g) =
            AddedAgain(f, [f EXCEPT !.local = Renamed(req)], inSession[y], g)
      BY <2>1, <2>2, <2>4 DEF Saml2Validate
    <3>2. ServeResult(req, verified, "kept").rc = "ok"
      BY <3>1 DEF AddedAgain, Result
    <3>3. CASE fate = "kept"
      BY <2>2, <3>2, <3>3
    <3>4. CASE fate = "lost"
      <4>1. ServeResult(req, verified, fate).fed = NoFederation
        BY <3>1, <3>4 DEF AddedAgain, Result
      <4> QED BY <1>2, <2>2, <2>4, <3>2, <4>1
    <3>5. CASE fate = "crash"
      BY <3>1, <3>5 DEF AddedAgain, Result
    <3> QED BY <3>3, <3>4, <3>5 DEF Fates
  <2> QED BY <2>3, <2>4
<1> QED BY <1>1, <1>2

\* Serving an undisturbed request gives the receiver the settled names.
LEMMA ServeSettles ==
  ASSUME TypeOK, Shapes, NEW req \in Exchange, NEW verified \in BOOLEAN,
         req.kind = "rename" => req.new \in Contents,
         ServeResult(req, verified, "kept").rc = "ok",
         Shared(Peer(req.from), feds[Peer(req.from)]) = agreed
  PROVE  /\ Shared(Peer(req.from), ServeResult(req, verified, "kept").fed) = Settled(req)
         /\ protocol = "saml2" /\ req.kind = "rename" =>
              /\ req.nid # NoName
              /\ [idp |-> Renamed(req).content, sp |-> Renamed(req).sp] = Settled(req)
<1> DEFINE y == Peer(req.from)
           r == ServeResult(req, verified, "kept")
           f == feds[y]
<1>1. /\ y \in Parties /\ f \in Federation \cup {NoFederation}
      /\ Shaped(y, f) /\ req.from \in Parties /\ req.kind \in Kinds
      /\ agreed \in Names /\ NoFederation \notin Federation /\ NoName \notin Name
      /\ (y = "idp" <=> req.from = "sp")
  BY TwoOfEach, NullIsNoValue DEF TypeOK, Shapes, Exchange, Names, Parties, Peer
<1>2. CASE protocol = "saml2"
  <2>1. r = Saml2Validate(req, f, inSession[y], verified, "kept")
    BY <1>2 DEF ServeResult
  <2>2. /\ verified /\ f # NoFederation /\ req.nid # NoName /\ VerifyNameIdentifier(f, req.nid)
    BY <2>1 DEF Saml2Validate, Result
  <2>3. CASE req.kind = "terminate"
    <3>1. r = Result(NoFederation, inSession[y], "ok", "success")
      BY <2>1, <2>2, <2>3 DEF Saml2Validate
    <3>2. r.fed = NoFederation
      BY <3>1 DEF Result
    <3> QED BY <2>3, <3>2 DEF Shared, Settled
  <2>4. CASE req.kind = "rename"
    <3>1. r = Result([f EXCEPT !.local = Renamed(req)], inSession[y], "ok", "success")
      BY <2>1, <2>2, <2>4 DEF Saml2Validate, AddedAgain
    <3>2. f \in Federation /\ f.local \in Name /\ f.remote = NoName
      BY <1>1, <1>2, <2>2 DEF Shaped
    <3>3. r.fed \in Federation /\ r.fed.local = Renamed(req)
      <4>1. Renamed(req) \in Name
        BY <2>2, <2>4, RenamedTyped DEF Exchange
      <4>2. r.fed = [f EXCEPT !.local = Renamed(req)]
        BY <3>1 DEF Result
      <4> HIDE DEF f, r
      <4> QED BY <3>2, <4>1, <4>2 DEF Federation
    <3>4. f.local.content = req.nid.content
      BY <2>2, <3>2 DEF VerifyNameIdentifier
    <3>5. agreed = [idp |-> f.local.content, sp |-> f.local.sp]
      BY <1>1, <1>2, <3>2 DEF Shared
    <3>6. [idp |-> Renamed(req).content, sp |-> Renamed(req).sp] = Settled(req)
      <4>1. CASE req.from = "sp"
        <5>1. Settled(req) = [agreed EXCEPT !.sp = req.new]
          BY <2>4, <4>1 DEF Settled
        <5>2. Renamed(req) = [content |-> req.nid.content, sp |-> req.new]
          BY <4>1 DEF Renamed
        <5> QED BY <3>4, <3>5, <5>1, <5>2
      <4>2. CASE req.from # "sp"
        BY <1>2, <2>4, <4>2 DEF Settled, Renamed, NewName
      <4> QED BY <4>1, <4>2
    <3>7. Shared(y, r.fed) = [idp |-> Renamed(req).content, sp |-> Renamed(req).sp]
      <4>1. Renamed(req) # NoName /\ r.fed # NoFederation
        BY <1>1, <2>2, <2>4, <3>3, RenamedTyped DEF Exchange
      <4> HIDE DEF r
      <4> QED BY <1>2, <3>3, <4>1 DEF Shared
    <3> QED BY <2>2, <3>6, <3>7
  <2> QED BY <1>1, <2>3, <2>4 DEF Kinds
<1>3. CASE protocol # "saml2"
  <2>1. r = IdffValidate(req, f, inSession[y], verified)
    BY <1>3 DEF ServeResult
  <2>2. CASE req.kind = "terminate"
    <3>1. r.fed = NoFederation
      BY <2>1, <2>2 DEF IdffValidate, ValidateNotification, Result
    <3> QED BY <1>3, <2>2, <3>1 DEF Shared, Settled
  <2>3. CASE req.kind = "rename"
    <3>1. r = ValidateRegistration(req, f, inSession[y], verified)
      BY <2>1, <2>3 DEF IdffValidate
    <3>2. f # NoFederation /\ r = Result([f EXCEPT !.remote = NewName(req.new)], inSession[y], "ok", "success")
      BY <3>1 DEF ValidateRegistration, Result
    <3>3. NewName(req.new) \in Name /\ NewName(req.new).content = req.new
      BY <2>3 DEF NewName, Name
    <3>4. f \in Federation
      BY <1>1, <3>2
    <3>5. r.fed \in Federation /\ r.fed.local = f.local /\ r.fed.remote = NewName(req.new)
      <4>1. r.fed = [f EXCEPT !.remote = NewName(req.new)]
        BY <3>2 DEF Result
      <4> HIDE DEF f, r
      <4> QED BY <3>3, <3>4, <4>1 DEF Federation
    <3>6. r.fed # NoFederation /\ NewName(req.new) # NoName
      BY <1>1, <3>3, <3>5
    <3> HIDE DEF r, f
    <3>7. CASE y = "idp"
      <4>1. Settled(req) = [agreed EXCEPT !.sp = req.new]
        BY <1>1, <2>3, <3>7 DEF Settled
      <4>2. agreed = [idp |-> IF f.local = NoName THEN NoContent ELSE f.local.content,
                      sp |-> IF f.remote = NoName THEN NoContent ELSE f.remote.content]
        BY <1>3, <3>2, <3>7 DEF Shared, f
      <4>3. Shared(y, r.fed) = [idp |-> IF f.local = NoName THEN NoContent ELSE f.local.content,
                                sp |-> req.new]
        BY <1>3, <3>3, <3>5, <3>6, <3>7 DEF Shared
      <4> QED BY <1>3, <4>1, <4>2, <4>3 DEF r
    <3>8. CASE y # "idp"
      <4>1. Settled(req) = [agreed EXCEPT !.idp = req.new]
        BY <1>1, <1>3, <2>3, <3>8 DEF Settled
      <4>2. agreed = [idp |-> IF f.remote = NoName THEN NoContent ELSE f.remote.content,
                      sp |-> IF f.local = NoName THEN NoContent ELSE f.local.content]
        BY <1>3, <3>2, <3>8 DEF Shared, f
      <4>3. Shared(y, r.fed) = [idp |-> req.new,
                                sp |-> IF f.local = NoName THEN NoContent ELSE f.local.content]
        BY <1>3, <3>3, <3>5, <3>6, <3>8 DEF Shared
      <4> QED BY <1>3, <4>1, <4>2, <4>3 DEF r
    <3> QED BY <3>7, <3>8
  <2> QED BY <1>1, <2>2, <2>3 DEF Kinds
<1> QED BY <1>2, <1>3

\* Taking the answer of an undisturbed exchange gives them to the requester.
LEMMA TakeSettles ==
  ASSUME TypeOK, Shapes, NEW e \in Exchanges, NEW status, NEW verified \in BOOLEAN,
         exchanges[e] \in Exchange, ~ OneWay(exchanges[e]), exchanges[e].served, PhaseOf(e),
         exchanges[e].kind = "rename" => exchanges[e].new \in Contents,
         TakeResult(exchanges[e], status, verified).rc = "ok"
  PROVE  Shared(exchanges[e].from, TakeResult(exchanges[e], status, verified).fed)
           = Settled(exchanges[e])
<1> DEFINE req == exchanges[e]
           x == req.from
           r == TakeResult(req, status, verified)
           f == feds[x]
<1>1. /\ x \in Parties /\ f \in Federation \cup {NoFederation}
      /\ Shaped(x, f) /\ req.kind \in Kinds
      /\ agreed \in Names /\ NoFederation \notin Federation /\ NoName \notin Name
  BY NullIsNoValue DEF TypeOK, Shapes, Exchange, Names
<1>2. CASE protocol = "saml2"
  <2>1. r = Saml2Process(req, f, inSession[x], status, verified)
    BY <1>2 DEF TakeResult
  <2>2. status = "success" /\ verified
    BY <2>1 DEF Saml2Process, Result
  <2>3. CASE req.kind = "terminate"
    <3>1. r = Result(NoFederation, inSession[x], "ok", "none")
      BY <2>1, <2>2, <2>3 DEF Saml2Process
    <3>2. r.fed = NoFederation
      BY <3>1 DEF Result
    <3> QED BY <2>3, <3>2 DEF Shared, Settled
  <2>4. CASE req.kind = "rename"
    <3>1. /\ req.nid # NoName /\ f # NoFederation
          /\ r = Result([f EXCEPT !.local = Renamed(req)], inSession[x], "ok", "none")
      BY <2>1, <2>2, <2>4 DEF Saml2Process, Result
    <3>2. Renamed(req) \in Name
      BY <2>4, <3>1, RenamedTyped DEF Exchange
    <3>3. r.fed \in Federation /\ r.fed.local = Renamed(req)
      <4>1. r.fed = [f EXCEPT !.local = Renamed(req)] /\ f \in Federation
        BY <1>1, <3>1 DEF Result
      <4> HIDE DEF f, r
      <4> QED BY <3>2, <4>1 DEF Federation
    <3>4. Renamed(req) # NoName /\ r.fed # NoFederation
      BY <1>1, <3>2, <3>3
    <3>5. Shared(x, r.fed) = [idp |-> Renamed(req).content, sp |-> Renamed(req).sp]
      <4> HIDE DEF r
      <4> QED BY <1>2, <3>3, <3>4 DEF Shared
    <3>6. [idp |-> Renamed(req).content, sp |-> Renamed(req).sp] = Settled(req)
      BY <1>2, <2>4 DEF PhaseOf
    <3> QED BY <3>5, <3>6
  <2> QED BY <1>1, <2>3, <2>4 DEF Kinds
<1>3. CASE protocol # "saml2"
  <2>1. r = IdffProcess(req, f, inSession[x], status, verified) /\ protocol = "idff"
    BY <1>3, TwoOfEach DEF TakeResult
  <2>2. req.kind = "rename"
    BY <1>1, <2>1 DEF OneWay, Kinds
  <2>3. f # NoFederation /\ r = Result([f EXCEPT !.local = NewName(req.new)], inSession[x], "ok", "none")
    BY <2>1 DEF IdffProcess, Result
  <2>4. NewName(req.new) \in Name /\ NewName(req.new).content = req.new
    BY <2>2 DEF NewName, Name
  <2>5. r.fed \in Federation /\ r.fed.remote = f.remote /\ r.fed.local = NewName(req.new)
    <3>1. r.fed = [f EXCEPT !.local = NewName(req.new)] /\ f \in Federation
      BY <1>1, <2>3 DEF Result
    <3> HIDE DEF f, r
    <3> QED BY <2>4, <3>1 DEF Federation
  <2>6. r.fed # NoFederation /\ NewName(req.new) # NoName
    BY <1>1, <2>4, <2>5
  <2>7. Shared(x, f) = agreed
    BY <1>3, <2>2 DEF PhaseOf, Freed
  <2> HIDE DEF r, f
  <2>8. CASE x = "idp"
    <3>1. Settled(req) = [agreed EXCEPT !.idp = req.new]
      BY <1>3, <2>2, <2>8 DEF Settled
    <3>2. agreed = [idp |-> IF f.local = NoName THEN NoContent ELSE f.local.content,
                    sp |-> IF f.remote = NoName THEN NoContent ELSE f.remote.content]
      BY <1>3, <2>3, <2>7, <2>8 DEF Shared
    <3>3. Shared(x, r.fed) = [idp |-> req.new,
                              sp |-> IF f.remote = NoName THEN NoContent ELSE f.remote.content]
      BY <1>3, <2>4, <2>5, <2>6, <2>8 DEF Shared
    <3> QED BY <3>1, <3>2, <3>3 DEF r
  <2>9. CASE x # "idp"
    <3>1. Settled(req) = [agreed EXCEPT !.sp = req.new]
      BY <1>1, <2>2, <2>9 DEF Settled, Parties
    <3>2. agreed = [idp |-> IF f.remote = NoName THEN NoContent ELSE f.remote.content,
                    sp |-> IF f.local = NoName THEN NoContent ELSE f.local.content]
      BY <1>3, <2>3, <2>7, <2>9 DEF Shared
    <3>3. Shared(x, r.fed) = [idp |-> IF f.remote = NoName THEN NoContent ELSE f.remote.content,
                              sp |-> req.new]
      BY <1>3, <2>4, <2>5, <2>6, <2>9 DEF Shared
    <3> QED BY <3>1, <3>2, <3>3 DEF r
  <2> QED BY <2>8, <2>9
<1> QED BY <1>2, <1>3

\* What an operation says of the new state, when the protocol stays.
LEMMA SharedKept ==
  ASSUME protocol' = protocol
  PROVE  /\ \A x : Shared(x, feds[x])' = Shared(x, feds'[x])
         /\ \A a : Shared("sp", AcceptedFederation(a))' = Shared("sp", AcceptedFederation(a))
         /\ \A e : OneWay(exchanges[e])' = OneWay(exchanges'[e])
BY DEF Shared, AcceptedFederation, OneWay

LEMMA SettledKept ==
  ASSUME protocol' = protocol, agreed' = agreed, NEW e
  PROVE  Settled(exchanges[e])' = Settled(exchanges'[e])
BY DEF Settled

LEMMA FreedKept ==
  ASSUME protocol' = protocol, agreed' = agreed, NEW x, feds'[x] = feds[x],
         \A k \in Exchanges : Used(k) /\ exchanges[k].state = "done" =>
           exchanges'[k] = exchanges[k],
         Freed(x)
  PROVE  Freed(x)'
BY DEF Freed, Used

LEMMA PhaseKept ==
  ASSUME UNCHANGED <<protocol, feds, flight, exchanges, agreed, disturbed>>, PhaseInv
  PROVE  PhaseInv'
<1>1. \A x : Shared(x, feds[x])' = Shared(x, feds[x])
  BY SharedKept
<1>2. \A e : Waiting(e)' <=> Waiting(e)
  BY DEF Waiting, Used
<1>3. ASSUME NEW e, PhaseOf(e) PROVE PhaseOf(e)'
  <2> DEFINE req == exchanges[e]
  <2>1. /\ Settled(req)' = Settled(req) /\ (OneWay(req)' <=> OneWay(req))
        /\ Renamed(req)' = Renamed(req) /\ req' = req
    BY SettledKept, SharedKept DEF Renamed
  <2>2. /\ Shared(req.from, feds[req.from])' = Shared(req.from, feds[req.from])
        /\ Shared(Peer(req.from), feds[Peer(req.from)])' = Shared(Peer(req.from), feds[Peer(req.from)])
    BY DEF Shared
  <2>3. /\ Freed(req.from) => Freed(req.from)'
        /\ Freed(Peer(req.from)) => Freed(Peer(req.from))'
    BY FreedKept
  <2>4. Emptied(Peer(req.from), req)' <=> Emptied(Peer(req.from), req)
    BY DEF Emptied
  <2> QED BY <1>3, <2>1, <2>2, <2>3, <2>4 DEF PhaseOf
<1>4. AtRest => AtRest'
  <2>1. \A x : Freed(x) => Freed(x)'
    BY FreedKept
  <2> QED BY <1>1, <1>2, <2>1 DEF AtRest
<1>5. LoggingIn => LoggingIn'
  BY <1>1, <1>2, SharedKept DEF LoggingIn
<1>6. Exchanging => Exchanging'
  BY <1>2, <1>3 DEF Exchanging
<1> QED BY <1>4, <1>5, <1>6 DEF PhaseInv

\* An undisturbed operation takes the providers from rest to rest, through
\* the states LoggingIn or Exchanging.
LEMMA PhaseStep == BasicInv /\ PhaseInv /\ [Next]_vars => PhaseInv'
<1> SUFFICES ASSUME BasicInv, PhaseInv, [Next]_vars, ~ disturbed'
             PROVE  AtRest' \/ LoggingIn' \/ Exchanging'
  BY DEF PhaseInv
<1>t. /\ TypeOK /\ Shapes /\ Exchanged
      /\ feds \in [Parties -> Federation \cup {NoFederation}]
      /\ exchanges \in [Exchanges -> Exchange \cup {NoExchange}]
      /\ answers \subseteq Answer
      /\ disturbed \in BOOLEAN
  BY DEF BasicInv, TypeOK, Answer
<1>u. ASSUME NEW e \in Exchanges, Used(e)
      PROVE  /\ exchanges[e] \in Exchange /\ exchanges[e].from \in Parties
             /\ Peer(exchanges[e].from) \in Parties /\ Peer(exchanges[e].from) # exchanges[e].from
             /\ exchanges[e].kind = "rename" => exchanges[e].new \in Contents
  BY <1>t, <1>u, TwoOfEach DEF Used, Exchanged, Exchange
<1>p. "sp" \in Parties /\ "idp" \in Parties /\ Parties = {"sp", "idp"}
  BY DEF Parties
<1>l. ASSUME NEW y \in Parties, LoggedIn(y), NEW e \in Exchanges
      PROVE  Waiting(e)' <=> Waiting(e)
  BY <1>t, <1>l, LoggedInKeeps DEF Waiting, Used
<1>1. CASE IssueAssertion
  <2>1. PICK fed \in Federation :
          /\ Shaped("idp", fed) /\ fed.local \in Name
          /\ feds' = [feds EXCEPT !["idp"] = fed]
          /\ flight' = flight \cup {Subject(fed, logins')}
          /\ Judge(~ Quiet, Shared("idp", fed))
    BY <1>1, <1>t, IssueTyped
  <2>2. Quiet /\ agreed' = Shared("idp", fed)
    BY <2>1 DEF Judge
  <2>3. PICK a : a = Subject(fed, logins')
    OBVIOUS
  <2>4. flight' = {a} /\ protocol' = protocol /\ LoggedIn("idp")
    BY <1>1, <2>1, <2>2, <2>3 DEF Quiet, IssueAssertion
  <2>5. Shared("sp", AcceptedFederation(a)) = Shared("idp", fed)
    BY <1>t, <2>1, <2>3, SubjectShared
  <2>6. Shared("idp", feds["idp"])' = agreed'
    BY <1>t, <1>p, <2>1, <2>2, <2>4, SharedKept
  <2>7. Shared("sp", AcceptedFederation(a))' = agreed'
    BY <2>2, <2>4, <2>5, SharedKept
  <2>8. \A e \in Exchanges : ~ Waiting(e)'
    BY <1>l, <1>p, <2>2, <2>4 DEF Quiet
  <2> QED BY <2>4, <2>6, <2>7, <2>8 DEF LoggingIn
<1>2. ASSUME NEW a \in flight, AcceptAssertion(a)
      PROVE  AtRest'
  <2>1. /\ ~ disturbed /\ agreed' = agreed /\ protocol' = protocol /\ LoggedIn("sp")
        /\ feds' = [feds EXCEPT !["sp"] = AcceptedFederation(a)]
        /\ flight' = flight \ {a}
    BY <1>2 DEF AcceptAssertion
  <2>2. LoggingIn
    BY <2>1 DEF PhaseInv, AtRest, Exchanging
  <2>3. flight = {a} /\ Shared("sp", AcceptedFederation(a)) = agreed
    BY <2>2 DEF LoggingIn
  <2>4. Shared("sp", feds["sp"])' = agreed'
    BY <1>t, <1>p, <2>1, <2>3, SharedKept
  <2>5. Shared("idp", feds["idp"])' = agreed'
    BY <1>t, <1>p, <2>1, <2>2, SharedKept DEF LoggingIn
  <2>6. \A e \in Exchanges : ~ Waiting(e)'
    BY <1>l, <1>p, <2>1, <2>2 DEF LoggingIn
  <2> QED BY <1>p, <2>1, <2>3, <2>4, <2>5, <2>6 DEF AtRest
<1>3. ASSUME NEW a \in flight, LoseAssertion(a)
      PROVE  FALSE
  BY <1>3 DEF LoseAssertion, Judge
<1>4. ASSUME NEW x \in Parties, EndSession(x)
      PROVE  AtRest' \/ LoggingIn' \/ Exchanging'
  <2>1. UNCHANGED <<protocol, feds, flight, exchanges, agreed, disturbed>>
    BY <1>4 DEF EndSession
  <2> QED BY <2>1, PhaseKept DEF PhaseInv
<1>5. ASSUME NEW x \in Parties, NEW kind \in Kinds, NEW e \in Exchanges, Start(x, kind, e)
      PROVE  Exchanging'
  <2> DEFINE q == [from |-> x, kind |-> kind, nid |-> RequestName(x, kind),
                   new |-> IF kind = "rename" THEN NameOf(e) ELSE NoContent,
                   state |-> "waiting", served |-> FALSE, fresh |-> FALSE]
             r == StartResult(x, kind)
             y == Peer(x)
  <2>1. /\ protocol' = protocol /\ flight' = flight /\ ~ Used(e) /\ Saved(x, r)
        /\ exchanges' = [exchanges EXCEPT ![e] = q]
        /\ Judge(disturbed \/ ~ Quiet, agreed)
    BY <1>5 DEF Start, StartResult
  <2>2. ~ disturbed /\ Quiet /\ agreed' = agreed
    BY <1>t, <2>1 DEF Judge
  <2>3. AtRest
    BY <2>2 DEF PhaseInv, AtRest, Quiet, LoggingIn, Exchanging
  <2>4. y \in Parties /\ y # x /\ feds'[y] = feds[y] /\ feds'[x] = r.fed
    BY <1>t, <2>1, StartSafe, SavedTyped, TwoOfEach
  <2>5. \/ r.fed = feds[x] /\ ~ (protocol = "idff" /\ kind = "terminate")
        \/ r.fed = NoFederation /\ kind = "terminate"
    BY DEF StartResult, Saml2Init, IdffInit, Result
  <2>6. exchanges'[e] = q /\ \A k \in Exchanges : k # e => exchanges'[k] = exchanges[k]
    BY <1>t, <2>1
  <2>7. q \in Exchange
    BY <1>t, RequestNameTyped, FederationConstants DEF Exchange, Kinds, NameOf, Exchanges
  <2>8. Waiting(e)' /\ \A k \in Exchanges : Waiting(k)' => k = e
    <3>1. q # NoExchange
      BY <2>7, FederationConstants
    <3>2. Waiting(e)'
      BY <2>6, <3>1 DEF Waiting, Used
    <3>3. ASSUME NEW k \in Exchanges, k # e PROVE ~ Waiting(k)'
      BY <2>2, <2>6, <3>3 DEF Quiet, Waiting, Used
    <3> QED BY <3>2, <3>3
  <2>9. q.from = x /\ q.kind = kind /\ ~ q.served
    OBVIOUS
  <2>10. PhaseOf(e)'
    <3>0. \A p : feds'[p] = feds[p] /\ Freed(p) => Freed(p)'
      BY <2>1, <2>2, <2>6, FreedKept
    <3>1. Shared(y, feds[y])' = agreed' \/ Freed(y)'
      BY <2>1, <2>2, <2>3, <2>4, <3>0, SharedKept DEF AtRest
    <3>2. \/ Shared(x, feds[x])' = agreed' \/ Freed(x)'
          \/ kind = "terminate" /\ feds'[x] = NoFederation
      BY <2>1, <2>2, <2>3, <2>4, <2>5, <3>0, SharedKept DEF AtRest
    <3>3. OneWay(exchanges[e])' => feds'[x] = NoFederation
      <4> HIDE DEF q, r
      <4> QED BY <2>1, <2>4, <2>5, <2>6, <2>9 DEF OneWay
    <3> HIDE DEF q, r
    <3> QED BY <2>6, <2>9, <3>1, <3>2, <3>3 DEF PhaseOf
  <2> QED BY <2>1, <2>2, <2>8, <2>10 DEF Exchanging, Quiet
<1>6. ASSUME NEW e \in Exchanges, NEW verified \in BOOLEAN, NEW fate \in Fates, Serve(e, verified, fate)
      PROVE  AtRest' \/ Exchanging'
  <2>x. Used(e) /\ exchanges[e].from \in Parties
    BY <1>6, <1>u DEF Serve
  <2>y. PICK x \in Parties : x = exchanges[e].from
    BY <2>x
  <2> DEFINE req == exchanges[e]
             y == Peer(x)
             r == ServeResult(req, verified, fate)
             done == OneWay(req) /\ r.rc = "ok"
             q == IF OneWay(req) THEN Ended(req, done, TRUE)
                  ELSE [req EXCEPT !.served = TRUE]
  <2>1. /\ protocol' = protocol /\ flight' = flight /\ Used(e) /\ Saved(y, r)
        /\ exchanges' = [exchanges EXCEPT ![e] = IF ~ Waiting(e) THEN req ELSE q]
        /\ Judge(disturbed \/ r.rc # "ok" \/ req.served \/ req.state # "waiting",
                 IF done THEN Settled(req) ELSE agreed)
    BY <1>6, <2>y DEF Serve, ServeResult
  <2>2. /\ req \in Exchange /\ req.from = x /\ y \in Parties /\ y # x
        /\ req.kind = "rename" => req.new \in Contents
    BY <2>1, <2>y, <1>u
  <2>3. /\ ~ disturbed /\ r.rc = "ok" /\ ~ req.served /\ req.state = "waiting"
        /\ agreed' = IF done THEN Settled(req) ELSE agreed
    <3> HIDE DEF r, done
    <3> QED BY <1>t, <2>1, <2>2 DEF Judge, Exchange
  <2>4. Waiting(e) /\ flight = {} /\ (\A k \in Exchanges : Waiting(k) => k = e) /\ PhaseOf(e)
    BY <2>1, <2>3 DEF PhaseInv, AtRest, LoggingIn, Exchanging, Waiting
  <2>s. /\ ServeResult(req, verified, "kept").rc = "ok"
        /\ \/ r = ServeResult(req, verified, "kept")
           \/ protocol = "saml2" /\ req.kind # "terminate" /\ r.fed = NoFederation
        /\ protocol = "saml2" => feds[y] # NoFederation
    BY <2>2, <2>3, ServedOrFreed
  <2>5. Shared(y, feds[y]) = agreed
    BY <2>2, <2>3, <2>4, <2>s DEF PhaseOf, Freed
  <2>6. /\ \/ Shared(y, r.fed) = Settled(req)
           \/ protocol = "saml2" /\ req.kind = "rename" /\ r.fed = NoFederation
        /\ protocol = "saml2" /\ req.kind = "rename" =>
             /\ req.nid # NoName
             /\ [idp |-> Renamed(req).content, sp |-> Renamed(req).sp] = Settled(req)
    <3>1. /\ Shared(y, ServeResult(req, verified, "kept").fed) = Settled(req)
          /\ protocol = "saml2" /\ req.kind = "rename" =>
               /\ req.nid # NoName
               /\ [idp |-> Renamed(req).content, sp |-> Renamed(req).sp] = Settled(req)
      BY <1>t, <2>2, <2>s, <2>5, ServeSettles
    <3>2. req.kind \in {"rename", "terminate"}
      BY <2>2 DEF Exchange, Kinds
    <3> HIDE DEF r
    <3> QED BY <2>s, <3>1, <3>2
  <2>7. feds'[y] = r.fed /\ feds'[x] = feds[x]
    <3>1. Safe(y, r)
      BY <1>t, <2>2, ServeSafe
    <3> HIDE DEF r, y
    <3> QED BY <1>t, <2>1, <2>2, <3>1, SavedTyped
  <2>8. exchanges'[e] = q /\ \A k \in Exchanges : k # e => exchanges'[k] = exchanges[k]
    <3> HIDE DEF q
    <3> QED BY <1>t, <2>1, <2>4
  <2>9. \A k \in Exchanges : k # e => ~ Waiting(k)'
    BY <2>4, <2>8 DEF Waiting, Used
  <2>10. CASE OneWay(req)
    <3>1. q.state = "done"
      BY <2>2, <2>3, <2>10 DEF Ended, Exchange
    <3>2. Settled(req) = NoNames /\ feds'[x] = NoFederation /\ agreed' = Settled(req)
      BY <2>2, <2>3, <2>4, <2>7, <2>10 DEF OneWay, Settled, PhaseOf
    <3> HIDE DEF q, r
    <3>3. ~ Waiting(e)'
      BY <2>8, <3>1 DEF Waiting
    <3>4. Shared(x, feds[x])' = agreed'
      BY <2>1, <3>2, SharedKept DEF Shared
    <3>5. Shared(y, feds[y])' = agreed'
      BY <2>1, <2>6, <2>7, <2>10, <3>2, SharedKept DEF OneWay
    <3> QED BY <1>p, <2>1, <2>2, <2>4, <2>9, <3>3, <3>4, <3>5 DEF AtRest
  <2>11. CASE ~ OneWay(req)
    <3>1. q = [req EXCEPT !.served = TRUE] /\ agreed' = agreed
      BY <2>3, <2>11
    <3>2. /\ q \in Exchange /\ q.from = x /\ q.kind = req.kind /\ q.nid = req.nid
          /\ q.new = req.new /\ q.state = "waiting" /\ q.served /\ q # NoExchange
      <4> HIDE DEF q
      <4> QED BY <2>2, <2>3, <3>1, FederationConstants DEF Exchange
    <3>3. Settled(q) = Settled(req) /\ ~ OneWay(q) /\ Renamed(q) = Renamed(req)
      <4> HIDE DEF q, req
      <4>1. Settled(q) = Settled(req)
        BY <2>2, <3>2 DEF Settled
      <4>2. ~ OneWay(q)
        BY <2>11, <3>2 DEF OneWay
      <4>3. Renamed(q) = Renamed(req)
        BY <2>2, <3>2 DEF Renamed
      <4> QED BY <4>1, <4>2, <4>3
    <3> HIDE DEF q, r
    <3>4. Waiting(e)'
      BY <2>8, <3>2 DEF Waiting, Used
    <3>5. Settled(exchanges[e])' = Settled(req) /\ ~ OneWay(exchanges[e])'
      BY <2>1, <2>8, <2>11, <3>1, <3>3, SharedKept, SettledKept
    <3>f. Freed(x) => Freed(x)'
      BY <2>1, <2>3, <2>7, <2>8, <3>1, FreedKept
    <3>6. \/ Shared(x, feds[x])' = agreed' \/ Freed(x)'
          \/ req.kind = "terminate" /\ feds'[x] = NoFederation
      BY <2>1, <2>2, <2>4, <2>7, <3>1, <3>f, SharedKept DEF PhaseOf
    <3>7. \/ Shared(y, feds[y])' = Settled(req)
          \/ Emptied(y, exchanges[e])'
      <4>1. CASE Shared(y, r.fed) = Settled(req)
        BY <2>1, <2>7, <4>1, SharedKept
      <4>2. CASE protocol = "saml2" /\ req.kind = "rename" /\ r.fed = NoFederation
        BY <2>1, <2>7, <2>8, <3>2, <4>2 DEF Emptied
      <4> QED BY <2>6, <4>1, <4>2
    <3>8. PhaseOf(e)'
      BY <2>1, <2>6, <2>8, <3>2, <3>3, <3>5, <3>6, <3>7 DEF PhaseOf
    <3> QED BY <2>1, <2>4, <2>9, <3>4, <3>8 DEF Exchanging
  <2> QED BY <2>10, <2>11
<1>7. ASSUME NEW e \in Exchanges, NEW a \in answers, NEW verified \in BOOLEAN, TakeAnswer(e, a, verified)
      PROVE  AtRest'
  <2>x. Used(e) /\ exchanges[e].from \in Parties
    BY <1>7, <1>u DEF TakeAnswer, Waiting
  <2>y. PICK x \in Parties : x = exchanges[e].from
    BY <2>x
  <2> DEFINE req == exchanges[e]
             y == Peer(x)
             r == TakeResult(req, a.status, verified)
             ok == r.rc = "ok" /\ a.of = e
             q == Ended(req, ok, a.fresh)
  <2>1. /\ protocol' = protocol /\ flight' = flight
        /\ Waiting(e) /\ Used(e) /\ ~ OneWay(req) /\ Saved(x, r)
        /\ exchanges' = [exchanges EXCEPT ![e] = q]
        /\ Judge(disturbed \/ ~ ok, IF ok THEN Settled(req) ELSE agreed)
    BY <1>7, <2>y DEF TakeAnswer, TakeResult, Waiting
  <2>2. /\ req \in Exchange /\ req.from = x /\ y \in Parties /\ y # x
        /\ req.kind = "rename" => req.new \in Contents
    BY <2>1, <2>y, <1>u
  <2>3. ~ disturbed /\ ok /\ agreed' = Settled(req)
    <3> HIDE DEF ok
    <3> QED BY <1>t, <2>1 DEF Judge
  <2>4. req.served
    BY <1>t, <2>1, <2>3 DEF Exchanged
  <2>5. flight = {} /\ (\A k \in Exchanges : Waiting(k) => k = e) /\ PhaseOf(e)
    BY <2>1, <2>3 DEF PhaseInv, AtRest, LoggingIn, Exchanging
  <2>6. Shared(x, r.fed) = Settled(req)
    BY <1>t, <2>1, <2>2, <2>3, <2>4, <2>5, TakeSettles
  <2>7. Shared(y, feds[y]) = Settled(req) \/ Emptied(y, req)
    BY <2>2, <2>4, <2>5 DEF PhaseOf
  <2>8. feds'[x] = r.fed /\ feds'[y] = feds[y]
    <3>1. Safe(x, r)
      BY <1>t, <2>1, <2>2, TakeSafe
    <3> HIDE DEF r, y
    <3> QED BY <1>t, <2>1, <2>2, <3>1, SavedTyped
  <2>9. /\ q.state = "done" /\ q.kind = req.kind /\ q.from = x /\ q.new = req.new
        /\ q \in Exchange
    <3>1. q = [req EXCEPT !.state = "done", !.served = FALSE, !.fresh = ok /\ a.fresh]
      BY <2>3 DEF Ended
    <3>2. a.fresh \in BOOLEAN
      BY <1>t DEF Answer
    <3>3. (ok /\ a.fresh) \in BOOLEAN
      OBVIOUS
    <3> HIDE DEF ok, q
    <3> QED BY <2>2, <3>1, <3>3 DEF Exchange
  <2> HIDE DEF q, r
  <2>10. \A k \in Exchanges : ~ Waiting(k)'
    BY <1>t, <2>1, <2>5, <2>9 DEF Waiting, Used
  <2>f. ASSUME Emptied(y, req) PROVE Freed(y)'
    <3>1. exchanges'[e] = q /\ q # NoExchange
      BY <1>t, <2>1, <2>9, FederationConstants
    <3>2. Settled(req).idp = req.new \/ Settled(req).sp = req.new
      <4>1. agreed \in Names
        BY <1>t DEF TypeOK, Names
      <4> QED BY <2>f, <4>1 DEF Emptied, Settled, Names
    <3>3. req.new \in {agreed'.idp, agreed'.sp}
      BY <2>3, <3>2
    <3>4. Peer(y) = x
      BY TwoOfEach
    <3> QED BY <2>1, <2>8, <2>9, <2>f, <3>1, <3>3, <3>4 DEF Freed, Emptied, Used
  <2>11. Shared(x, feds[x])' = agreed' /\ (Shared(y, feds[y])' = agreed' \/ Freed(y)')
    BY <2>1, <2>3, <2>6, <2>7, <2>8, <2>f, SharedKept
  <2> QED BY <1>p, <2>1, <2>2, <2>5, <2>10, <2>11 DEF AtRest
<1>8. ASSUME NEW e \in Exchanges, GiveUp(e)
      PROVE  FALSE
  BY <1>8 DEF GiveUp, Judge
<1>9. CASE UNCHANGED vars
  <2>1. UNCHANGED <<protocol, feds, flight, exchanges, agreed, disturbed>>
    BY <1>9 DEF vars, stores
  <2> QED BY <2>1, PhaseKept DEF PhaseInv
<1> QED BY <1>1, <1>2, <1>3, <1>4, <1>5, <1>6, <1>7, <1>8, <1>9 DEF Next

\* NamesAgree: whenever nothing is under way and no operation returned an
\* error, was given up, repeated or crossed since the last login, both
\* providers know the principal by the names the last completed operation
\* settled on, but for the provider that a SAML 2.0 rename left without
\* federation (name_id_management.c, name_registration.c, defederation.c,
\* lasso_identity_add_federation and the federations of the logins).
THEOREM AgreedNames == Spec => []NamesAgree
<1>1. Init => BasicInv /\ PhaseInv
  BY InitBasic DEF Init, PhaseInv, AtRest, Waiting, Used, Shared
<1>2. PhaseInv => NamesAgree
  BY DEF PhaseInv, NamesAgree, AtRest, LoggingIn, Exchanging, Quiet
<1> QED BY <1>1, <1>2, BasicStep, PhaseStep, PTL DEF Spec
=============================================================================
