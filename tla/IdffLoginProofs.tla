---------------------------- MODULE IdffLoginProofs ----------------------------
(***************************************************************************)
(* Proofs about IdffLogin for any providers, wishes and numbers of         *)
(* requests and logins.                                                    *)
(*                                                                         *)
(* An artifact is answered with the assertion the session holds, so the    *)
(* inductive invariant says which logins the session's two tables speak of *)
(* (IdpStored, IdpListing), that no issued assertion is missing from it    *)
(* until its login is logged out (Filing), and what a SOAP call carries    *)
(* back (Calls).  Naming keeps for each federation the login that created  *)
(* it and on whose word, and Retired keeps what a logout ended out of the  *)
(* session.                                                                *)
(***************************************************************************)
EXTENDS IdffLogin, SessionLemmas

Issued(l) == l \in LoginIds /\ Used(l) /\ logins[l].assertion # NoAssertion

\* Somebody allowed the name: the principal when asked, or the request.
Allowed(l) == logins[l].consent \/ logins[l].req.consented

\* What an assertion says, for as long as it may be delivered.
Issuing ==
  \A l \in LoginIds :
    /\ Used(l) /\ logins[l].success => Issued(l)
    /\ Issued(l) =>
         /\ logins[l].phase = "answered"
         /\ logins[l].assertion.id = l
         /\ \/ logins[l].assertion.nid = OneTime(l)
            \/ /\ logins[l].assertion.nid = federations[logins[l].req.sp]
               /\ federations[logins[l].req.sp] # NoNameID
         /\ logins[l].assertion.sidx = IF logins[l].req.sp \in WithSlo THEN l ELSE NoSessionIndex

\* The name of a federation was created by a login of the provider, with leave.
Naming ==
  \A sp \in Sps : federations[sp] # NoNameID =>
    \E k \in LoginIds :
      /\ federations[sp] = Federated(k)
      /\ Answered(k) /\ logins[k].req.sp = sp /\ Allowed(k)

\* Login l issued an assertion for the provider.
IssuedTo(l, sp) == Issued(l) /\ logins[l].req.sp = sp

IdpStored ==
  \A sp \in Sps : idpSession.assertions[sp] # NoAssertion =>
    IssuedTo(idpSession.assertions[sp].id, sp)

IdpListing ==
  \A sp \in Sps : \A e \in idpSession.nids[sp] :
    IssuedTo(e.aid, sp) /\ e = EntryOf(logins[e.aid].assertion)

Filing ==
  \A l \in LoginIds :
    Issued(l) /\ logins[l].req.sp \in WithSlo /\ l \notin ended =>
      EntryOf(logins[l].assertion) \in idpSession.nids[logins[l].req.sp]

\* The logins that a logout of their provider ended: answered, and not the
\* ones whose assertion the session still holds.
Retired ==
  /\ \A l \in ended : Answered(l)
  /\ \A sp \in Sps : idpSession.assertions[sp] # NoAssertion =>
       idpSession.assertions[sp].id \notin ended

Calls ==
  \A c \in resolving :
    /\ Answered(c.artifact) /\ logins[c.artifact].req.sp = c.sp
    /\ c.login # NoLogin => IssuedTo(c.login, c.sp)

Openings ==
  \A o \in opened : IssuedTo(o.login, o.sp) /\ o.own /\ o.intact

LoginInv ==
  /\ TypeOK
  /\ Issuing /\ Naming
  /\ IdpStored /\ IdpListing /\ Filing /\ Retired
  /\ Calls /\ Openings

-----------------------------------------------------------------------------
(* Facts about the constants and about issued assertions *)

LEMMA ProvidersTyped == Sps \subseteq Providers /\ Idp \in Providers
BY IdffLoginConstants

\* The names a login may create.
LEMMA NamesTyped ==
  ASSUME NEW l \in LoginIds
  PROVE  /\ Federated(l) \in NameIds /\ OneTime(l) \in NameIds
         /\ Federated(l) # NoNameID /\ OneTime(l) # NoNameID
         /\ OneTime(l)[1] # "federated"
<1>1. Federated(l) \in NameIds /\ OneTime(l) \in NameIds
  BY IdffLoginConstants DEF Federated, OneTime
<1>2. OneTime(l)[1] # "federated"
  BY DEF OneTime
<1> QED BY <1>1, <1>2, NullsAreApart

\* A used login object is a record of Login.
LEMMA UsedTyped ==
  ASSUME TypeOK, NEW l \in LoginIds
  PROVE  /\ Used(l) => logins[l] \in Login /\ logins[l].req \in AuthnRequest
                       /\ logins[l].req.sp \in Sps
         /\ Issued(l) => logins[l].assertion \in Assertion
<1>1. Used(l) => logins[l] \in Login
  BY DEF TypeOK, Used
<1>2. Used(l) => logins[l].req \in AuthnRequest /\ logins[l].assertion \in Assertion \cup {NoAssertion}
  BY <1>1 DEF Login
<1>3. Used(l) => logins[l].req.sp \in Sps
  BY <1>2 DEF AuthnRequest
<1> QED BY <1>1, <1>2, <1>3 DEF Issued

\* As long as issued assertions stay, what speaks of them stays true.
LEMMA IssuedStays ==
  ASSUME \A k \in LoginIds : Issued(k) => Used(k)' /\ logins'[k] = logins[k],
         NEW l, NEW sp, IssuedTo(l, sp)
  PROVE  IssuedTo(l, sp)' /\ logins'[l] = logins[l]
BY DEF IssuedTo, Issued

-----------------------------------------------------------------------------
(* The steps of the identity provider *)

LEMMA InitLogin == Init => LoginInv
<1> SUFFICES ASSUME Init PROVE LoginInv
  OBVIOUS
<1>1. EmptySession \in Session
  BY EmptySound DEF StoredSound
<1>2. \A l \in LoginIds : ~ Used(l)
  BY DEF Init, Used
<1>3. \A p \in Providers : EmptySession.nids[p] = {} /\ EmptySession.assertions[p] = NoAssertion
  BY DEF EmptySession
<1>4. TypeOK
  BY <1>1 DEF Init, TypeOK
<1>5. IdpListing /\ IdpStored /\ Retired
  BY <1>3, ProvidersTyped DEF Init, IdpListing, IdpStored, Retired
<1>6. Issuing /\ Naming /\ Filing /\ Calls /\ Openings
  BY <1>2 DEF Init, Issuing, Issued, Naming, Filing, Calls, Openings
<1> QED BY <1>4, <1>5, <1>6 DEF LoginInv

\* A request arrives or is invented: a new login object, nothing issued.
LEMMA NewLoginStep ==
  ASSUME LoginInv, NEW l \in LoginIds, ~ Used(l), NEW req \in AuthnRequest,
         NEW r \in RequestIds \cup {NoRequest},
         logins' = [logins EXCEPT ![l] = NewLogin(req, r)],
         UNCHANGED <<requests, federations, idpSession, identityKnown, ended,
                     resolving, spVars>>
  PROVE  LoginInv'
<1> DEFINE new == NewLogin(req, r)
<1>1. MustAuthenticate(req, idpSession, MethodOf) \in BOOLEAN
  BY DEF MustAuthenticate
<1>2. new \in Login /\ new.assertion = NoAssertion /\ ~ new.success
  BY <1>1 DEF NewLogin, Login
<1>3. new # NoLogin
  BY <1>2, IdffLoginConstants
<1> HIDE DEF new
<1>4. logins' \in [LoginIds -> Login \cup {NoLogin}]
  BY <1>2 DEF LoginInv, TypeOK, new
<1>5. \A k \in LoginIds : logins'[k] = IF k = l THEN new ELSE logins[k]
  BY DEF LoginInv, TypeOK, new
<1>6. \A k \in LoginIds : (Used(k) => Used(k)' /\ k # l /\ logins'[k] = logins[k])
                          /\ (Issued(k)' <=> Issued(k))
  BY <1>2, <1>3, <1>5 DEF Used, Issued
<1>7. TypeOK'
  BY <1>4 DEF LoginInv, TypeOK, spVars
<1>8. \A k \in LoginIds : Issued(k)' => Issued(k) /\ logins'[k] = logins[k]
  BY <1>6 DEF Issued
<1>9. Issuing'
  <2> SUFFICES ASSUME NEW k \in LoginIds
               PROVE  /\ Used(k)' /\ logins'[k].success => Issued(k)'
                      /\ Issued(k)' =>
                           /\ logins'[k].phase = "answered"
                           /\ logins'[k].assertion.id = k
                           /\ \/ logins'[k].assertion.nid = OneTime(k)
                              \/ /\ logins'[k].assertion.nid = federations[logins'[k].req.sp]
                                 /\ federations[logins'[k].req.sp] # NoNameID
                           /\ logins'[k].assertion.sidx =
                                IF logins'[k].req.sp \in WithSlo THEN k ELSE NoSessionIndex
    BY DEF Issuing
  <2>1. CASE k = l
    BY <2>1, <1>2, <1>5, <1>6 DEF Issued
  <2>2. CASE k # l
    BY <2>2, <1>5, <1>6 DEF LoginInv, Issuing, Used
  <2> QED BY <2>1, <2>2
<1>10. Filing'
  BY <1>8 DEF LoginInv, Filing
<1>11. Naming'
  BY <1>6 DEF LoginInv, Naming, Answered, Allowed
<1>12. \A k, sp : IssuedTo(k, sp) => IssuedTo(k, sp)' /\ logins'[k] = logins[k]
  BY <1>6, IssuedStays DEF Issued
<1>13. IdpStored' /\ IdpListing'
  BY <1>12 DEF LoginInv, IdpStored, IdpListing
<1>14. Calls'
  <2> SUFFICES ASSUME NEW c \in resolving
               PROVE  /\ Answered(c.artifact)' /\ logins'[c.artifact].req.sp = c.sp
                      /\ c.login # NoLogin => IssuedTo(c.login, c.sp)'
    BY DEF Calls
  <2>1. c.artifact \in LoginIds /\ Answered(c.artifact) /\ logins[c.artifact].req.sp = c.sp
    BY DEF LoginInv, TypeOK, Calls
  <2> QED BY <2>1, <1>6, <1>12 DEF LoginInv, Calls, Answered
<1>15. Openings'
  BY <1>12 DEF LoginInv, Openings, spVars
<1>16. Retired'
  BY <1>6 DEF LoginInv, TypeOK, Retired, Answered
<1> QED BY <1>7, <1>9, <1>10, <1>11, <1>13, <1>14, <1>15, <1>16 DEF LoginInv

\* Whoever creates a federation was allowed to.
LEMMA CreatedWithLeave ==
  ASSUME NEW req \in AuthnRequest, NEW known \in BOOLEAN, NEW consent \in BOOLEAN,
         CreatesFederation(req, known, consent)
  PROVE  ~ known /\ (consent \/ req.consented)
<1>1. req.policy \in Policies /\ req.consented \in BOOLEAN
  BY DEF AuthnRequest
<1> QED BY <1>1 DEF CreatesFederation, FederationOk, EffectivePolicy, MustAskForConsent, Policies

\* lasso_login_build_assertion
LEMMA AssertionBuilt ==
  ASSUME NEW l \in LoginIds, NEW policy, NEW feds \in [Sps -> NameIds \cup {NoNameID}],
         logins[l].req.sp \in Sps
  PROVE  /\ BuildAssertion(l, policy, feds) \in Assertion
         /\ BuildAssertion(l, policy, feds).id = l
         /\ \/ BuildAssertion(l, policy, feds).nid = OneTime(l)
            \/ /\ BuildAssertion(l, policy, feds).nid = feds[logins[l].req.sp]
               /\ feds[logins[l].req.sp] # NoNameID
         /\ BuildAssertion(l, policy, feds).sidx =
              IF logins[l].req.sp \in WithSlo THEN l ELSE NoSessionIndex
<1>1. feds[logins[l].req.sp] \in NameIds \cup {NoNameID} /\ OneTime(l) \in NameIds
  BY NamesTyped
<1>2. l \in AssertionIds /\ l \in SessionIndexes
  BY IdffLoginConstants
<1> QED BY <1>1, <1>2 DEF BuildAssertion, Assertion

\* The session r that answering a request leaves: the tables of the requesting
\* provider hold the new assertion when the answer carries one.
FiledAs(r, req, done, a) ==
  /\ r \in Session
  /\ r.assertions[req.sp] \in
       IF done THEN {idpSession.assertions[req.sp], a} ELSE {idpSession.assertions[req.sp]}
  /\ r.nids[req.sp] =
       IF done /\ req.sp \in WithSlo THEN idpSession.nids[req.sp] \cup {EntryOf(a)}
       ELSE idpSession.nids[req.sp]
  /\ \A sp \in Sps : sp # req.sp =>
       /\ r.assertions[sp] = idpSession.assertions[sp]
       /\ r.nids[sp] = idpSession.nids[sp]

\* The session after an answer: the assertion, if there is one, is stored and
\* its entry listed; the status does not matter.
LEMMA SessionAfterAnswer ==
  ASSUME LoginInv, NEW l \in LoginIds, ~ Issued(l), NEW req \in AuthnRequest,
         NEW done \in BOOLEAN, NEW a \in Assertion, a.id = l, a.nid # NoNameID,
         a.sidx = IF req.sp \in WithSlo THEN l ELSE NoSessionIndex
  PROVE  FiledAs(SessionAfter(req, done, a), req, done, a)
<1> DEFINE built == IF done THEN AddAssertion(idpSession, req.sp, a) ELSE idpSession
           r == SessionAfter(req, done, a)
<1>1. idpSession \in Session /\ req.sp \in Sps /\ req.sp \in Providers /\ Sps \subseteq Providers
  BY ProvidersTyped DEF LoginInv, TypeOK, AuthnRequest
<1>2. HasSloData(a) <=> req.sp \in WithSlo
  BY NullsAreApart, IdffLoginConstants DEF HasSloData
<1>3. ASSUME req.sp \in WithSlo, NEW f \in idpSession.nids[req.sp]
      PROVE  ~ SameKey(EntryOf(a), f)
  <2>1. IssuedTo(f.aid, req.sp) /\ f = EntryOf(logins[f.aid].assertion)
    BY <1>1 DEF LoginInv, IdpListing
  <2>2. f.sidx = f.aid /\ Issued(f.aid)
    BY <2>1, <1>3 DEF LoginInv, Issuing, IssuedTo, Issued, EntryOf
  <2>3. EntryOf(a).sidx = l
    BY <1>3 DEF EntryOf
  <2> QED BY <2>2, <2>3 DEF SameKey
<1>4. FiledAs(built, req, done, a)
  <2>1. CASE done
    <3>1. built = AddAssertion(idpSession, req.sp, a)
      BY <2>1
    <3> HIDE DEF built
    <3>2. built.nids[req.sp] = IF req.sp \in WithSlo THEN idpSession.nids[req.sp] \cup {EntryOf(a)}
                               ELSE idpSession.nids[req.sp]
      <4>1. built.nids[req.sp] =
              IF HasSloData(a) /\ \A f \in idpSession.nids[req.sp] : ~ SameKey(EntryOf(a), f)
              THEN idpSession.nids[req.sp] \cup {EntryOf(a)} ELSE idpSession.nids[req.sp]
        BY <3>1, <1>1, AddAssertionTables, ZenonT(30)
      <4> QED BY <4>1, <1>2, <1>3
    <3>3. built \in Session
      BY <3>1, <1>1, AddAssertionTables
    <3>4. built.assertions[req.sp] \in {idpSession.assertions[req.sp], a}
      BY <3>1, <1>1, AddAssertionTables
    <3>5. \A q \in Providers : q # req.sp =>
            built.assertions[q] = idpSession.assertions[q] /\ built.nids[q] = idpSession.nids[q]
      <4>1. \A q \in Providers : q # req.sp =>
              /\ AddAssertion(idpSession, req.sp, a).assertions[q] = idpSession.assertions[q]
              /\ AddAssertion(idpSession, req.sp, a).nids[q] = idpSession.nids[q]
        BY <1>1, AddAssertionTables, ZenonT(20)
      <4> QED BY <3>1, <4>1
    <3> QED BY <2>1, <1>1, <3>2, <3>3, <3>4, <3>5 DEF FiledAs
  <2>2. CASE ~ done
    BY <2>2, <1>1 DEF FiledAs
  <2> QED BY <2>1, <2>2
<1>5. r \in {built, RemoveStatus(built, req.sp), AddStatus(built, req.sp)}
  BY DEF SessionAfter
<1> HIDE DEF built, r
<1>6. r \in Session /\ r.assertions = built.assertions /\ r.nids = built.nids
  BY <1>1, <1>4, <1>5, StatusTables DEF FiledAs
<1>7. FiledAs(r, req, done, a)
  BY <1>4, <1>6 DEF FiledAs
<1> QED BY <1>7 DEF r

\* The answer to a request: the one step that issues an assertion.
LEMMA AnswerStep ==
  ASSUME LoginInv, NEW l \in LoginIds, NEW success \in BOOLEAN, NEW consent \in BOOLEAN,
         NEW method \in Methods \cup {NoMethod},
         AnswerAuthnRequest(l, success, consent, method)
  PROVE  LoginInv'
<1> DEFINE req   == logins[l].req
           known == HasFederation(req.sp)
           authenticated == IF logins[l].ask THEN success ELSE identityKnown
           done  == authenticated /\ FederationOk(req, known, consent)
           creates == authenticated /\ CreatesFederation(req, known, consent)
           feds  == [federations EXCEPT ![req.sp] = IF creates THEN Federated(l) ELSE @]
           a     == BuildAssertion(l, EffectivePolicy(req, known, consent), feds)
           sent  == IF done THEN a ELSE NoAssertion
           new   == [logins[l] EXCEPT !.phase = "answered", !.success = done, !.consent = consent,
                                      !.method = method, !.assertion = sent]
<1> USE DEF LoginInv
<1>1. /\ Used(l) /\ logins[l].phase = "received"
      /\ federations' = feds
      /\ identityKnown' = (identityKnown \/ authenticated)
      /\ idpSession' = SessionAfter(req, done, a)
      /\ logins' = [logins EXCEPT ![l] = new]
      /\ UNCHANGED <<requests, ended, resolving, spVars>>
  BY DEF AnswerAuthnRequest
<1>2. logins[l] \in Login /\ req \in AuthnRequest /\ req.sp \in Sps
  BY <1>1, UsedTyped
<1>3. authenticated \in BOOLEAN
  <2>1. logins[l].ask \in BOOLEAN
    BY <1>2 DEF Login
  <2> QED BY <2>1 DEF TypeOK
<1>4. done \in BOOLEAN /\ known \in BOOLEAN
  BY DEF HasFederation
<1>5. creates => federations[req.sp] = NoNameID /\ (consent \/ req.consented)
  <2> SUFFICES ASSUME creates PROVE federations[req.sp] = NoNameID /\ (consent \/ req.consented)
    OBVIOUS
  <2>1. ~ known /\ (consent \/ req.consented)
    BY <1>2, <1>4, CreatedWithLeave
  <2> QED BY <2>1 DEF HasFederation
<1> HIDE DEF creates, authenticated, known
<1>6. /\ feds \in [Sps -> NameIds \cup {NoNameID}]
      /\ \A sp \in Sps :
           \/ feds[sp] = federations[sp]
           \/ /\ federations[sp] = NoNameID /\ sp = req.sp /\ feds[sp] = Federated(l)
              /\ consent \/ req.consented
  <2>1. federations \in [Sps -> NameIds \cup {NoNameID}] /\ Federated(l) \in NameIds
    BY NamesTyped DEF TypeOK
  <2> HIDE DEF req
  <2>2. feds \in [Sps -> NameIds \cup {NoNameID}]
    BY <2>1, <1>2
  <2>3. \A sp \in Sps : feds[sp] = IF sp = req.sp /\ creates THEN Federated(l) ELSE federations[sp]
    BY <2>1, <1>2
  <2> HIDE DEF feds
  <2> QED BY <2>2, <2>3, <1>5
<1> HIDE DEF feds, done
<1>7. /\ a \in Assertion /\ a.id = l
      /\ \/ a.nid = OneTime(l)
         \/ a.nid = feds[req.sp] /\ feds[req.sp] # NoNameID
      /\ a.sidx = IF req.sp \in WithSlo THEN l ELSE NoSessionIndex
  BY <1>2, <1>6, AssertionBuilt
<1>8. a.nid # NoNameID /\ a # NoAssertion
  <2>1. NoAssertion \notin Assertion
    BY NullsAreApart DEF Assertion
  <2> QED BY <1>7, <2>1, NamesTyped
<1> HIDE DEF a
<1>9. /\ new \in Login /\ new.req = req /\ new.phase = "answered"
      /\ new.success = done /\ new.consent = consent
      /\ new.assertion = IF done THEN a ELSE NoAssertion
  <2>1. sent \in Assertion \cup {NoAssertion}
    BY <1>7
  <2> HIDE DEF sent
  <2>2. /\ new \in Login /\ new.req = req /\ new.phase = "answered"
        /\ new.success = done /\ new.consent = consent /\ new.assertion = sent
    BY <1>2, <1>4, <2>1, ZenonT(30) DEF Login
  <2> QED BY <2>2 DEF sent
<1>10. new # NoLogin
  BY <1>9, IdffLoginConstants
<1> HIDE DEF new
<1>11. logins' \in [LoginIds -> Login \cup {NoLogin}]
       /\ \A k \in LoginIds : logins'[k] = IF k = l THEN new ELSE logins[k]
  BY <1>1, <1>9 DEF TypeOK
<1>12. ~ Issued(l)
  BY <1>1 DEF Issuing
<1>13. /\ \A k \in LoginIds : Issued(k) => k # l /\ Used(k)' /\ logins'[k] = logins[k]
       /\ \A k \in LoginIds : Issued(k)' <=> Issued(k) \/ (k = l /\ done)
       /\ \A k \in LoginIds : Used(k)' <=> Used(k)
       /\ \A k \in LoginIds : k # l => logins'[k] = logins[k]
       /\ logins'[l] = new
  BY <1>1, <1>8, <1>9, <1>10, <1>11, <1>12 DEF Issued, Used
<1>14. /\ idpSession' \in Session
       /\ idpSession'.assertions[req.sp] \in
            IF done THEN {idpSession.assertions[req.sp], a} ELSE {idpSession.assertions[req.sp]}
       /\ idpSession'.nids[req.sp] =
            IF done /\ req.sp \in WithSlo THEN idpSession.nids[req.sp] \cup {EntryOf(a)}
            ELSE idpSession.nids[req.sp]
       /\ \A sp \in Sps : sp # req.sp =>
            /\ idpSession'.assertions[sp] = idpSession.assertions[sp]
            /\ idpSession'.nids[sp] = idpSession.nids[sp]
  <2>1. idpSession' = SessionAfter(req, done, a)
    BY <1>1
  <2>2. /\ req \in AuthnRequest /\ done \in BOOLEAN /\ ~ Issued(l)
        /\ a \in Assertion /\ a.id = l /\ a.nid # NoNameID
        /\ a.sidx = IF req.sp \in WithSlo THEN l ELSE NoSessionIndex
    BY <1>2, <1>4, <1>7, <1>8, <1>12
  <2> HIDE DEF req, sent, LoginInv
  <2>3. FiledAs(idpSession', req, done, a)
    BY <2>1, <2>2, SessionAfterAnswer
  <2> QED BY <2>3 DEF FiledAs
<1>15. TypeOK'
  BY <1>1, <1>3, <1>6, <1>11, <1>14 DEF TypeOK, spVars
<1>16. Issuing'
  <2> SUFFICES ASSUME NEW k \in LoginIds
               PROVE  /\ Used(k)' /\ logins'[k].success => Issued(k)'
                      /\ Issued(k)' =>
                           /\ logins'[k].phase = "answered"
                           /\ logins'[k].assertion.id = k
                           /\ \/ logins'[k].assertion.nid = OneTime(k)
                              \/ /\ logins'[k].assertion.nid = feds[logins'[k].req.sp]
                                 /\ feds[logins'[k].req.sp] # NoNameID
                           /\ logins'[k].assertion.sidx =
                                IF logins'[k].req.sp \in WithSlo THEN k ELSE NoSessionIndex
    BY <1>1 DEF Issuing
  <2>1. CASE k = l
    BY <2>1, <1>7, <1>9, <1>12, <1>13
  <2>2. CASE k # l
    <3>1. logins'[k] = logins[k] /\ (Used(k)' <=> Used(k)) /\ (Issued(k)' <=> Issued(k))
          /\ (Used(k) => logins[k].req.sp \in Sps)
      BY <2>2, <1>13, UsedTyped
    <3>2. Issued(k) /\ federations[logins[k].req.sp] # NoNameID =>
            feds[logins[k].req.sp] = federations[logins[k].req.sp]
      BY <3>1, <1>6 DEF Issued
    <3> QED BY <3>1, <3>2 DEF Issuing
  <2> QED BY <2>1, <2>2
<1>17. Naming'
  <2> SUFFICES ASSUME NEW sp \in Sps, feds[sp] # NoNameID
               PROVE  \E k \in LoginIds : /\ feds[sp] = Federated(k)
                                          /\ Answered(k)' /\ logins'[k].req.sp = sp /\ Allowed(k)'
    BY <1>1 DEF Naming
  <2>1. CASE feds[sp] = federations[sp]
    <3>1. PICK k \in LoginIds : /\ federations[sp] = Federated(k)
                                /\ Answered(k) /\ logins[k].req.sp = sp /\ Allowed(k)
      BY <2>1 DEF Naming
    <3>2. k # l /\ Used(k)' /\ logins'[k] = logins[k]
      BY <3>1, <1>1, <1>13 DEF Answered
    <3> QED BY <3>1, <3>2, <2>1 DEF Answered, Allowed
  <2>2. CASE sp = req.sp /\ feds[sp] = Federated(l) /\ (consent \/ req.consented)
    BY <2>2, <1>1, <1>9, <1>13 DEF Answered, Allowed
  <2> QED BY <2>1, <2>2, <1>6
<1>18. \A k, sp : IssuedTo(k, sp) => IssuedTo(k, sp)' /\ logins'[k] = logins[k]
  BY <1>13, IssuedStays
<1>19. \A sp : done /\ sp = req.sp => IssuedTo(l, sp)' /\ logins'[l].assertion = a
  BY <1>9, <1>13 DEF IssuedTo
<1>20. IdpStored'
  <2> SUFFICES ASSUME NEW sp \in Sps, NEW b, b = idpSession'.assertions[sp], b # NoAssertion
               PROVE  IssuedTo(b.id, sp)'
    BY DEF IdpStored, IssuedTo, Issued
  <2>1. CASE b = idpSession.assertions[sp]
    BY <2>1, <1>18 DEF IdpStored
  <2>2. CASE b # idpSession.assertions[sp]
    <3>1. sp = req.sp /\ done /\ b = a
      BY <2>2, <1>14
    <3>2. b.id = l
      BY <3>1, <1>7
    <3> QED BY <3>1, <3>2, <1>19
  <2> QED BY <2>1, <2>2
<1>21. IdpListing'
  <2> SUFFICES ASSUME NEW sp \in Sps, NEW e \in idpSession'.nids[sp]
               PROVE  IssuedTo(e.aid, sp)' /\ e = EntryOf(logins'[e.aid].assertion)
    BY DEF IdpListing
  <2>1. CASE e \in idpSession.nids[sp]
    BY <2>1, <1>18 DEF IdpListing
  <2>2. CASE e \notin idpSession.nids[sp]
    <3>1. done /\ sp = req.sp /\ e = EntryOf(a)
      BY <2>2, <1>14
    <3>2. e.aid = l
      BY <3>1, <1>7 DEF EntryOf
    <3> QED BY <3>1, <3>2, <1>19
  <2> QED BY <2>1, <2>2
<1>22. Filing'
  <2> SUFFICES ASSUME NEW k \in LoginIds, Issued(k)', logins'[k].req.sp \in WithSlo, k \notin ended
               PROVE  EntryOf(logins'[k].assertion) \in idpSession'.nids[logins'[k].req.sp]
    BY <1>1 DEF Filing
  <2>1. CASE k = l
    <3>1. done /\ logins'[k].assertion = a /\ logins'[k].req = req
      BY <2>1, <1>9, <1>12, <1>13
    <3> QED BY <3>1, <1>14
  <2>2. CASE k # l
    <3>1. Issued(k) /\ logins'[k] = logins[k] /\ logins[k].req.sp \in Sps
      BY <2>2, <1>13, UsedTyped DEF Issued
    <3>2. EntryOf(logins[k].assertion) \in idpSession.nids[logins[k].req.sp]
      BY <3>1 DEF Filing
    <3>3. idpSession.nids[logins[k].req.sp] \subseteq idpSession'.nids[logins[k].req.sp]
      BY <3>1, <1>14, SMTT(20)
    <3> QED BY <3>1, <3>2, <3>3
  <2> QED BY <2>1, <2>2
<1>23. Calls'
  <2> SUFFICES ASSUME NEW c \in resolving
               PROVE  /\ Answered(c.artifact)' /\ logins'[c.artifact].req.sp = c.sp
                      /\ c.login # NoLogin => IssuedTo(c.login, c.sp)'
    BY <1>1 DEF Calls
  <2>1. c.artifact \in LoginIds /\ Answered(c.artifact) /\ logins[c.artifact].req.sp = c.sp
    BY DEF TypeOK, Calls
  <2>2. c.artifact # l
    BY <2>1, <1>1 DEF Answered
  <2>3. c.login # NoLogin => IssuedTo(c.login, c.sp)'
    BY <1>18 DEF Calls
  <2> QED BY <2>1, <2>2, <2>3, <1>13 DEF Answered
<1>24. Openings'
  BY <1>1, <1>18 DEF Openings, spVars
<1>25. Retired'
  <2>1. l \notin ended
    BY <1>1 DEF Retired, Answered
  <2>2. \A k \in ended : Answered(k)'
    <3> SUFFICES ASSUME NEW k \in ended PROVE Answered(k)'
      OBVIOUS
    <3>1. k \in LoginIds /\ k # l /\ Answered(k)
      BY <2>1 DEF TypeOK, Retired
    <3> QED BY <3>1, <1>13 DEF Answered
  <2>3. ASSUME NEW sp \in Sps, NEW b, b = idpSession'.assertions[sp], b # NoAssertion
        PROVE  b.id \notin ended
    <3>1. CASE b = idpSession.assertions[sp]
      BY <2>3, <3>1 DEF Retired
    <3>2. CASE b # idpSession.assertions[sp]
      <4>1. b = a
        BY <2>3, <3>2, <1>14
      <4> QED BY <4>1, <1>7, <2>1
    <3> QED BY <3>1, <3>2
  <2>4. ended' = ended
    BY <1>1
  <2> QED BY <2>2, <2>3, <2>4 DEF Retired
<1> QED BY <1>15, <1>16, <1>17, <1>20, <1>21, <1>22, <1>23, <1>24, <1>25

\* The provider is logged out: its tables are emptied and its logins ended.
LEMMA EndIdpLoginStep ==
  ASSUME LoginInv, NEW sp \in Sps, EndIdpLogin(sp)
  PROVE  LoginInv'
<1> USE DEF LoginInv
<1>1. /\ idpSession' = RemoveAssertion(idpSession, sp)
      /\ ended' = ended \cup { l \in LoginIds : Answered(l) /\ logins[l].req.sp = sp }
      /\ UNCHANGED <<requests, logins, federations, identityKnown, resolving, spVars>>
  BY DEF EndIdpLogin
<1>2. idpSession \in Session /\ sp \in Providers /\ Sps \subseteq Providers
  BY ProvidersTyped DEF TypeOK
<1>3. /\ idpSession' \in Session
      /\ idpSession'.assertions[sp] = NoAssertion /\ idpSession'.nids[sp] = {}
      /\ \A q \in Sps : q # sp => /\ idpSession'.assertions[q] = idpSession.assertions[q]
                                  /\ idpSession'.nids[q] = idpSession.nids[q]
  BY <1>1, <1>2, RemoveAssertionTables
<1>4. /\ \A k : (Used(k)' <=> Used(k)) /\ (Issued(k)' <=> Issued(k)) /\ (Answered(k)' <=> Answered(k))
      /\ \A k, q : IssuedTo(k, q)' <=> IssuedTo(k, q)
  BY <1>1 DEF Used, Issued, IssuedTo, Answered
<1>5. TypeOK'
  BY <1>1, <1>3 DEF TypeOK, spVars
<1>6. Issuing' /\ Naming'
  BY <1>1, <1>4 DEF Issuing, Naming, Allowed
<1>7. IdpStored'
  <2> SUFFICES ASSUME NEW q \in Sps, NEW b, b = idpSession'.assertions[q], b # NoAssertion
               PROVE  IssuedTo(b.id, q)'
    BY DEF IdpStored, IssuedTo, Issued
  <2>1. q # sp /\ b = idpSession.assertions[q]
    BY <1>3
  <2>2. IssuedTo(b.id, q)
    BY <2>1 DEF IdpStored
  <2> QED BY <1>4, <2>2
<1>8. IdpListing'
  <2> SUFFICES ASSUME NEW q \in Sps, NEW e \in idpSession'.nids[q]
               PROVE  IssuedTo(e.aid, q) /\ e = EntryOf(logins[e.aid].assertion)
    BY <1>1, <1>4 DEF IdpListing
  <2> QED BY <1>3 DEF IdpListing
<1>9. Filing'
  <2> SUFFICES ASSUME NEW k \in LoginIds, Issued(k), logins[k].req.sp \in WithSlo, k \notin ended'
               PROVE  EntryOf(logins[k].assertion) \in idpSession'.nids[logins[k].req.sp]
    BY <1>1, <1>4 DEF Filing
  <2>1. Answered(k) /\ logins[k].req.sp \in Sps
    BY UsedTyped DEF Issuing, Issued, Answered
  <2>2. logins[k].req.sp # sp /\ k \notin ended
    BY <2>1, <1>1
  <2> QED BY <2>1, <2>2, <1>3 DEF Filing
<1>10. Calls' /\ Openings'
  BY <1>1, <1>4 DEF Calls, Openings, spVars
<1>11. Retired'
  <2>1. \A k \in ended' : Answered(k)'
    BY <1>1, <1>4 DEF Retired
  <2>2. ASSUME NEW q \in Sps, NEW b, b = idpSession'.assertions[q], b # NoAssertion
        PROVE  b.id \notin ended'
    <3>1. q # sp /\ b = idpSession.assertions[q]
      BY <2>2, <1>3
    <3>2. logins[b.id].req.sp = q /\ b.id \notin ended
      BY <2>2, <3>1 DEF IdpStored, IssuedTo, Retired
    <3> QED BY <3>1, <3>2, <1>1
  <2> QED BY <2>1, <2>2 DEF Retired
<1> QED BY <1>5, <1>6, <1>7, <1>8, <1>9, <1>10, <1>11

-----------------------------------------------------------------------------
(* The steps of the service providers and of their SOAP calls *)

Call ==
  [sp : Sps, from : RequestIds \cup {NoRequest}, artifact : LoginIds,
   answered : BOOLEAN, login : LoginIds \cup {NoLogin}]

Opening ==
  [sp : Sps, login : LoginIds, own : BOOLEAN, intact : BOOLEAN, again : BOOLEAN]

\* Steps that leave the login objects alone and at most the status table of
\* the session change.
LEMMA QuietStep ==
  ASSUME LoginInv,
         UNCHANGED <<logins, federations, identityKnown, ended>>,
         requests' \in [RequestIds -> Wishes \cup {NoRequest}],
         idpSession' \in Session,
         idpSession'.assertions = idpSession.assertions, idpSession'.nids = idpSession.nids,
         resolving' \subseteq Call,
         \A c \in resolving' : /\ Answered(c.artifact) /\ logins[c.artifact].req.sp = c.sp
                               /\ c.login # NoLogin => IssuedTo(c.login, c.sp),
         spSessions' \in [Sps -> Session],
         spFederation' \in [Sps -> NameIds \cup {NoNameID}],
         opened' \subseteq Opening,
         \A o \in opened' : IssuedTo(o.login, o.sp) /\ o.own /\ o.intact
  PROVE  LoginInv'
<1> USE DEF LoginInv
<1>1. /\ \A k : (Used(k)' <=> Used(k)) /\ (Issued(k)' <=> Issued(k)) /\ (Answered(k)' <=> Answered(k))
      /\ \A k, q : IssuedTo(k, q)' <=> IssuedTo(k, q)
  BY DEF Used, Issued, IssuedTo, Answered
<1>2. TypeOK'
  BY DEF TypeOK, Call, Opening
<1>3. Issuing' /\ Naming'
  BY <1>1 DEF Issuing, Naming, Allowed
<1>4. IdpStored' /\ IdpListing' /\ Filing'
  BY <1>1 DEF IdpStored, IdpListing, Filing, IssuedTo, Issued
<1>5. Calls' /\ Openings'
  BY <1>1 DEF Calls, Openings
<1>6. Retired'
  BY <1>1 DEF Retired
<1> QED BY <1>2, <1>3, <1>4, <1>5, <1>6

\* The hypotheses of QuietStep hold of what a step does not change.
LEMMA QuietFacts ==
  ASSUME LoginInv
  PROVE  /\ requests \in [RequestIds -> Wishes \cup {NoRequest}]
         /\ idpSession \in Session
         /\ resolving \subseteq Call
         /\ \A c \in resolving : /\ Answered(c.artifact) /\ logins[c.artifact].req.sp = c.sp
                                 /\ c.login # NoLogin => IssuedTo(c.login, c.sp)
         /\ spSessions \in [Sps -> Session]
         /\ spFederation \in [Sps -> NameIds \cup {NoNameID}]
         /\ opened \subseteq Opening
         /\ \A o \in opened : IssuedTo(o.login, o.sp) /\ o.own /\ o.intact
BY DEF LoginInv, TypeOK, Call, Opening, Calls, Openings

\* lasso_login_accept_sso for an issued assertion.
LEMMA ConsumeStep ==
  ASSUME LoginInv, NEW sp, NEW l, IssuedTo(l, sp), NEW from, NEW profile, NEW signed \in BOOLEAN,
         NEW damage \in Damage, Consume(sp, profile, from, l, signed, damage)
  PROVE  /\ spSessions' \in [Sps -> Session]
         /\ spFederation' \in [Sps -> NameIds \cup {NoNameID}]
         /\ opened' \subseteq Opening
         /\ \A o \in opened' : IssuedTo(o.login, o.sp) /\ o.own /\ o.intact
<1> DEFINE a  == logins[l].assertion
           whole == damage # "assertion"
           mine  == from \in {NoRequest, logins[l].id}
           again == \E o \in opened : o.sp = sp /\ o.login = l
           o1 == [sp |-> sp, login |-> l, own |-> mine, intact |-> whole, again |-> again]
<1>1. CASE UNCHANGED spVars
  BY <1>1, QuietFacts DEF spVars
<1>2. CASE ~ UNCHANGED spVars
  <2>1. ResponseAccepted(profile, from, l, Arriving(signed, damage)) /\ AcceptSso(sp, from, l, damage)
    BY <1>2 DEF Consume
  <2>2. /\ spSessions' = [spSessions EXCEPT ![sp] = AddAssertion(@, Idp, a)]
        /\ spFederation' = [spFederation EXCEPT ![sp] = IF a.nid[1] = "federated" THEN a.nid ELSE @]
        /\ opened' = opened \cup {o1}
    BY <2>1 DEF AcceptSso
  <2>3. whole /\ mine
    <3>1. Arriving(signed, damage).messageSig = "valid" => damage = "none"
      BY DEF Arriving
    <3>2. Arriving(signed, damage).assertionSig = "valid" => damage # "assertion"
      BY DEF Arriving
    <3> QED BY <2>1, <3>1, <3>2 DEF ResponseAccepted, SignatureAccepted
  <2>4. l \in LoginIds /\ sp \in Sps /\ a \in Assertion /\ a.nid # NoNameID /\ Idp \in Providers
    <3>1. l \in LoginIds /\ Issued(l) /\ logins[l].req.sp = sp
      BY DEF IssuedTo, Issued
    <3>2. sp \in Sps /\ a \in Assertion
      BY <3>1, UsedTyped DEF LoginInv, Issued
    <3> QED BY <3>1, <3>2, NamesTyped, ProvidersTyped DEF LoginInv, Issuing
  <2>5. o1 \in Opening /\ o1.sp = sp /\ o1.login = l /\ o1.own /\ o1.intact
    <3>1. whole \in BOOLEAN /\ mine \in BOOLEAN /\ again \in BOOLEAN
      OBVIOUS
    <3> HIDE DEF whole, mine, again
    <3> QED BY <2>3, <2>4, <3>1 DEF Opening
  <2> HIDE DEF o1, a
  <2>6. opened' \subseteq Opening /\ \A o \in opened' : IssuedTo(o.login, o.sp) /\ o.own /\ o.intact
    BY <2>2, <2>5, QuietFacts
  <2>7. spSessions' \in [Sps -> Session]
    <3>1. AddAssertion(spSessions[sp], Idp, a) \in Session
      BY <2>4, QuietFacts, AddAssertionTables
    <3> QED BY <3>1, <2>2, <2>4, QuietFacts
  <2>8. spFederation' \in [Sps -> NameIds \cup {NoNameID}]
    <3>1. a.nid \in NameIds
      BY <2>4 DEF Assertion
    <3> QED BY <3>1, <2>2, <2>4, QuietFacts
  <2> QED BY <2>6, <2>7, <2>8
<1> QED BY <1>1, <1>2

-----------------------------------------------------------------------------
(* Every step *)

LEMMA StepKeepsInv == LoginInv /\ [Next]_vars => LoginInv'
<1> SUFFICES ASSUME LoginInv, [Next]_vars PROVE LoginInv'
  OBVIOUS
<1>1. ASSUME NEW wish \in Wishes, NEW r \in RequestIds, SendAuthnRequest(wish, r)
      PROVE  LoginInv'
  <2>1. UNCHANGED <<logins, federations, idpSession, identityKnown, ended, resolving,
                    spSessions, spFederation, opened>>
    BY <1>1 DEF SendAuthnRequest, idpVars, spVars
  <2>2. requests' \in [RequestIds -> Wishes \cup {NoRequest}]
    BY <1>1, QuietFacts DEF SendAuthnRequest
  <2> QED BY <2>1, <2>2, QuietFacts, QuietStep
<1>2. ASSUME NEW r \in RequestIds, NEW l \in LoginIds, ReceiveAuthnRequest(r, l)
      PROVE  LoginInv'
  <2>1. requests[r] \in AuthnRequest
    BY <1>2, QuietFacts, IdffLoginConstants DEF ReceiveAuthnRequest
  <2> QED BY <1>2, <2>1, NewLoginStep DEF ReceiveAuthnRequest, NextLogin
<1>3. ASSUME NEW sp \in Unsolicited, NEW l \in LoginIds, InitIdpInitiated(sp, l)
      PROVE  LoginInv'
  <2> DEFINE req == [sp |-> sp, profile |-> "artifact", policy |-> "any", consented |-> FALSE,
                     force |-> FALSE, passive |-> FALSE, method |-> NoMethod, signed |-> TRUE]
  <2>1. sp \in Sps
    BY IdffLoginConstants
  <2>2. req \in AuthnRequest
    BY <2>1 DEF AuthnRequest, Policies
  <2> HIDE DEF req
  <2> QED BY <1>3, <2>2, NewLoginStep DEF InitIdpInitiated, NextLogin, req
<1>4. ASSUME NEW l \in LoginIds, NEW success \in BOOLEAN, NEW consent \in BOOLEAN,
             NEW m \in Methods \cup {NoMethod}, AnswerAuthnRequest(l, success, consent, m)
      PROVE  LoginInv'
  BY <1>4, AnswerStep
<1>5. ASSUME NEW sp \in Sps, EndIdpLogin(sp)
      PROVE  LoginInv'
  BY <1>5, EndIdpLoginStep
<1>6. ASSUME NEW l \in LoginIds, Answered(l),
             NEW from \in RestoredFrom(logins[l].req.sp), ReceiveArtifact(l, from)
      PROVE  LoginInv'
  <2> DEFINE c == [sp |-> logins[l].req.sp, from |-> from, artifact |-> l, answered |-> FALSE,
                   login |-> NoLogin]
  <2>1. c \in Call /\ c.artifact = l /\ c.sp = logins[l].req.sp /\ c.login = NoLogin
    BY <1>6, UsedTyped DEF LoginInv, Answered, RestoredFrom, Call
  <2>2. resolving' = resolving \cup {c}
        /\ UNCHANGED <<requests, logins, federations, idpSession, identityKnown, ended,
                       spSessions, spFederation, opened>>
    BY <1>6 DEF ReceiveArtifact, idpVars, spVars
  <2> HIDE DEF c
  <2>3. /\ resolving' \subseteq Call
        /\ \A d \in resolving' : /\ Answered(d.artifact) /\ logins[d.artifact].req.sp = d.sp
                                 /\ d.login # NoLogin => IssuedTo(d.login, d.sp)
    BY <1>6, <2>1, <2>2, QuietFacts
  <2> QED BY <2>2, <2>3, QuietFacts, QuietStep
<1>7. ASSUME NEW l \in LoginIds, Answered(l), NEW signed \in BOOLEAN, NEW damage \in Damage,
             NEW from \in RestoredFrom(logins[l].req.sp), ReceiveResponse(l, from, signed, damage)
      PROVE  LoginInv'
  <2>1. UNCHANGED <<requests, logins, federations, idpSession, identityKnown, ended, resolving>>
        /\ Consume(logins[l].req.sp, "post", from, l, signed, damage)
    BY <1>7 DEF ReceiveResponse, idpVars
  <2>2. IssuedTo(l, logins[l].req.sp)
    BY <1>7 DEF ReceiveResponse, LoginInv, Issuing, IssuedTo, Answered
  <2>3. /\ spSessions' \in [Sps -> Session]
        /\ spFederation' \in [Sps -> NameIds \cup {NoNameID}]
        /\ opened' \subseteq Opening
        /\ \A o \in opened' : IssuedTo(o.login, o.sp) /\ o.own /\ o.intact
    BY <2>1, <2>2, ConsumeStep
  <2> QED BY <2>1, <2>3, QuietFacts, QuietStep
<1>8. ASSUME NEW c \in resolving, NEW signed \in BOOLEAN, ResolveArtifact(c, signed)
      PROVE  LoginInv'
  <2> DEFINE ans == IF signed THEN ArtifactAnswer(c.sp, c.artifact) ELSE NoLogin
             d == [c EXCEPT !.answered = TRUE, !.login = ans]
  <2>1. c \in Call /\ c.sp \in Sps /\ c.artifact \in LoginIds
        /\ Answered(c.artifact) /\ logins[c.artifact].req.sp = c.sp
    BY QuietFacts DEF Call
  <2>2. /\ resolving' = (resolving \ {c}) \cup {d}
        /\ idpSession' = IF signed THEN RemoveStatus(idpSession, c.sp) ELSE idpSession
        /\ UNCHANGED <<requests, logins, federations, identityKnown, ended,
                       spSessions, spFederation, opened>>
    BY <1>8 DEF ResolveArtifact, spVars
  <2>3. ans # NoLogin => IssuedTo(ans, c.sp)
    BY <2>1 DEF ArtifactAnswer, LoginInv, IdpStored, IssuedTo, Issued, Answered
  <2>4. ans \in LoginIds \cup {NoLogin}
    BY <2>3 DEF IssuedTo, Issued
  <2> HIDE DEF ans
  <2>5. d \in Call /\ d.artifact = c.artifact /\ d.sp = c.sp /\ d.login = ans
    BY <2>1, <2>4 DEF Call
  <2> HIDE DEF d
  <2>6. /\ resolving' \subseteq Call
        /\ \A e \in resolving' : /\ Answered(e.artifact) /\ logins[e.artifact].req.sp = e.sp
                                 /\ e.login # NoLogin => IssuedTo(e.login, e.sp)
    BY <2>1, <2>2, <2>3, <2>5, QuietFacts
  <2>7. idpSession' \in Session /\ idpSession'.assertions = idpSession.assertions
        /\ idpSession'.nids = idpSession.nids
    BY <2>1, <2>2, QuietFacts, StatusTables, ProvidersTyped
  <2> QED BY <2>2, <2>6, <2>7, QuietFacts, QuietStep
<1>9. ASSUME NEW c \in resolving, LoseSoapCall(c)
      PROVE  LoginInv'
  <2>1. UNCHANGED <<requests, logins, federations, idpSession, identityKnown, ended,
                    spSessions, spFederation, opened>>
        /\ resolving' \subseteq resolving
    BY <1>9 DEF LoseSoapCall, idpVars, spVars
  <2> QED BY <2>1, QuietFacts, QuietStep
<1>10. ASSUME NEW c \in resolving, NEW signed \in BOOLEAN, NEW damage \in Damage,
              ReceiveArtifactResponse(c, signed, damage)
       PROVE  LoginInv'
  <2>1. UNCHANGED <<requests, logins, federations, idpSession, identityKnown, ended>>
        /\ resolving' \subseteq resolving
    BY <1>10 DEF ReceiveArtifactResponse, idpVars
  <2>2. /\ spSessions' \in [Sps -> Session]
        /\ spFederation' \in [Sps -> NameIds \cup {NoNameID}]
        /\ opened' \subseteq Opening
        /\ \A o \in opened' : IssuedTo(o.login, o.sp) /\ o.own /\ o.intact
    <3>1. CASE c.login = NoLogin
      BY <1>10, <3>1, QuietFacts DEF ReceiveArtifactResponse, spVars
    <3>2. CASE c.login # NoLogin
      <4>1. IssuedTo(c.login, c.sp) /\ Consume(c.sp, "artifact", c.from, c.login, signed, damage)
        BY <1>10, <3>2, QuietFacts DEF ReceiveArtifactResponse
      <4> QED BY <4>1, ConsumeStep
    <3> QED BY <3>1, <3>2
  <2> QED BY <2>1, <2>2, QuietFacts, QuietStep
<1>11. CASE UNCHANGED vars
  <2>1. UNCHANGED <<requests, logins, federations, idpSession, identityKnown, ended, resolving,
                    spSessions, spFederation, opened>>
    BY <1>11 DEF vars, idpVars, spVars
  <2> QED BY <2>1, QuietFacts, QuietStep
<1> QED BY <1>1, <1>2, <1>3, <1>4, <1>5, <1>6, <1>7, <1>8, <1>9, <1>10, <1>11 DEF Next

-----------------------------------------------------------------------------
(* The theorems *)

\* The inductive invariant holds in every reachable state.
THEOREM Invariance == Spec => []LoginInv
BY InitLogin, StepKeepsInv, PTL DEF Spec

\* Requests, login objects, federations, sessions, SOAP calls and histories
\* keep their types.
THEOREM TypeCorrect == Spec => []TypeOK
<1>1. LoginInv => TypeOK
  BY DEF LoginInv
<1> QED BY <1>1, Invariance, PTL

\* Although an artifact is answered with whatever assertion the session holds,
\* a login object that sent a request opens a login only with the answer to
\* it (lasso_login_process_response_status_and_assertion).
THEOREM OwnRequestAnswered == Spec => []AnswersOwnRequest
<1>1. LoginInv => AnswersOwnRequest
  BY DEF LoginInv, Openings, AnswersOwnRequest
<1> QED BY <1>1, Invariance, PTL

\* No damaged assertion enters a session: by POST the signature of the message
\* covers it, by artifact that of the message or its own, whether or not the
\* message carries one.
THEOREM OnlyIntactAssertions == Spec => []AssertionIntact
<1>1. LoginInv => AssertionIntact
  BY DEF LoginInv, Openings, AssertionIntact
<1> QED BY <1>1, Invariance, PTL

\* Whatever was granted or refused since, the identity provider's session
\* lists every open login that was answered after the last logout of its
\* provider.
THEOREM LogoutReaches == Spec => []LogoutReachesLogins
<1>1. LoginInv => LogoutReachesLogins
  BY DEF LoginInv, Openings, Filing, LogoutReachesLogins, IssuedTo, Issued
<1> QED BY <1>1, Invariance, PTL

\* What a logout ended leaves the session for good, whatever is answered,
\* refused or resolved later: only the artifact an assertion was stored with
\* still brings it (lasso_login_build_response_msg).
THEOREM OnlyOwnArtifact == Spec => StoredForItself
<1>1. LoginInv /\ [Next]_vars =>
        [\A c \in resolving' \ resolving :
           c.answered /\ c.login \in ended => c.login = c.artifact]_vars
  <2> SUFFICES ASSUME LoginInv, Next, NEW d \in resolving' \ resolving,
                      d.answered, d.login \in ended
               PROVE  d.login = d.artifact
    OBVIOUS
  <2>1. ASSUME NEW l \in LoginIds, NEW from, ReceiveArtifact(l, from)
        PROVE  FALSE
    <3>1. d = [sp |-> logins[l].req.sp, from |-> from, artifact |-> l, answered |-> FALSE,
               login |-> NoLogin]
      BY <2>1 DEF ReceiveArtifact
    <3> QED BY <3>1
  <2>2. ASSUME NEW c \in resolving, NEW signed \in BOOLEAN, ResolveArtifact(c, signed)
        PROVE  d.login = d.artifact
    <3> DEFINE ans == IF signed THEN ArtifactAnswer(c.sp, c.artifact) ELSE NoLogin
    <3>1. d = [c EXCEPT !.answered = TRUE, !.login = ans]
      BY <2>2 DEF ResolveArtifact
    <3>2. c \in Call /\ c.sp \in Sps
      BY QuietFacts DEF Call
    <3>3. NoLogin \notin ended
      BY IdffLoginConstants DEF LoginInv, TypeOK
    <3>4. ans \in ended => ans = c.artifact
      BY <3>2, <3>3 DEF ArtifactAnswer, LoginInv, Retired
    <3> HIDE DEF ans
    <3>5. d.login = ans /\ d.artifact = c.artifact
      BY <3>1, <3>2 DEF Call
    <3> QED BY <3>4, <3>5
  <2>3. ASSUME resolving' \subseteq resolving PROVE FALSE
    BY <2>3
  <2>4. CASE \E wish \in Wishes, r \in RequestIds : SendAuthnRequest(wish, r)
    BY <2>3, <2>4 DEF SendAuthnRequest
  <2>5. CASE \E r \in RequestIds, l \in LoginIds : ReceiveAuthnRequest(r, l)
    BY <2>3, <2>5 DEF ReceiveAuthnRequest
  <2>6. CASE \E sp \in Unsolicited, l \in LoginIds : InitIdpInitiated(sp, l)
    BY <2>3, <2>6 DEF InitIdpInitiated
  <2>7. CASE \E l \in LoginIds, success, consent \in BOOLEAN, m \in Methods \cup {NoMethod} :
               AnswerAuthnRequest(l, success, consent, m)
    BY <2>3, <2>7 DEF AnswerAuthnRequest
  <2>8. CASE \E sp \in Sps : EndIdpLogin(sp)
    BY <2>3, <2>8 DEF EndIdpLogin
  <2>9. CASE \E l \in LoginIds : \E from \in RestoredFrom(logins[l].req.sp),
               signed \in BOOLEAN, damage \in Damage : ReceiveResponse(l, from, signed, damage)
    BY <2>3, <2>9 DEF ReceiveResponse
  <2>10. CASE \E c \in resolving, signed \in BOOLEAN, damage \in Damage :
                ReceiveArtifactResponse(c, signed, damage)
    BY <2>3, <2>10 DEF ReceiveArtifactResponse
  <2>11. CASE \E c \in resolving : LoseSoapCall(c)
    BY <2>3, <2>11 DEF LoseSoapCall
  <2> QED BY <2>1, <2>2, <2>4, <2>5, <2>6, <2>7, <2>8, <2>9, <2>10, <2>11 DEF Next
<1> QED BY <1>1, Invariance, PTL DEF Spec, StoredForItself

\* A name a service provider can recognise was allowed by the principal or by
\* the request, in the login that created it (must_ask_for_consent_private,
\* process_federation).
THEOREM ConsentedNames == Spec => []NamedByConsent
<1>1. LoginInv => NamedByConsent
  <2> SUFFICES ASSUME LoginInv, NEW l \in LoginIds, Answered(l), logins[l].success,
                      logins[l].assertion.nid[1] = "federated"
               PROVE  \E k \in LoginIds :
                        /\ Answered(k) /\ logins[k].req.sp = logins[l].req.sp
                        /\ logins[k].consent \/ logins[k].req.consented
    BY DEF NamedByConsent
  <2>1. Issued(l) /\ logins[l].req.sp \in Sps
    BY UsedTyped DEF LoginInv, Issuing, Answered
  <2>2. federations[logins[l].req.sp] # NoNameID
    BY <2>1, NamesTyped DEF LoginInv, Issuing
  <2> QED BY <2>1, <2>2 DEF LoginInv, Naming, Allowed
<1> QED BY <1>1, Invariance, PTL
=============================================================================
