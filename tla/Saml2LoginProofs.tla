--------------------------- MODULE Saml2LoginProofs ---------------------------
(***************************************************************************)
(* Proofs about Saml2Login for any providers, wishes and numbers of        *)
(* requests and logins.                                                    *)
(*                                                                         *)
(* The inductive invariant follows an assertion from the login that built  *)
(* it (Issuing) to the two sessions that keep its entry (IdpListing,       *)
(* SpListing), through the SOAP call (Calls), to the logins a service      *)
(* provider opened with it (Openings); Naming says which login gave each   *)
(* federation its name, and Filing that no assertion is missing from the   *)
(* identity provider's session.                                            *)
(***************************************************************************)
EXTENDS Saml2Login, SessionLemmas

Issued(l) == l \in LoginIds /\ Used(l) /\ logins[l].assertion # NoAssertion

\* A login answers something a provider may ask, or the identity provider
\* offers.
Asked == Wishes \cup { UnsolicitedRequest(sp) : sp \in Unsolicited }

Requested == \A l \in LoginIds : Used(l) => logins[l].req \in Asked

\* What an assertion says, for as long as it may be delivered.
Issuing ==
  \A l \in LoginIds : Issued(l) =>
    /\ logins[l].phase = "answered"
    /\ logins[l].assertion.id = l
    /\ logins[l].assertion.nid # NoNameID
    /\ logins[l].assertion.nid = IF UsesFederation(logins[l].req)
                                 THEN federations[Key(logins[l].req)] ELSE Transient(l)
    /\ logins[l].assertion.sidx = IF logins[l].req.sp \in WithSlo THEN l ELSE NoSessionIndex

\* The name of a federation was created by a login under the same qualifier.
Naming ==
  \A q \in Qualifiers : federations[q] # NoNameID =>
    \E k \in LoginIds :
      /\ federations[q] = Persistent(k)
      /\ Used(k) /\ logins[k].phase # "received" /\ Key(logins[k].req) = q

IsEntryFor(e, sp) ==
  /\ Issued(e.aid) /\ logins[e.aid].req.sp = sp
  /\ e = EntryOf(logins[e.aid].assertion)

IdpListing == \A sp \in Sps : \A e \in idpSession.nids[sp] : IsEntryFor(e, sp)

SpListing == \A sp \in Sps : \A e \in spSessions[sp].nids[Idp] : IsEntryFor(e, sp)

Calls ==
  \A c \in resolving : Answered(c.login) /\ logins[c.login].req.sp = c.sp

Openings ==
  \A o \in opened :
    /\ Issued(o.login) /\ logins[o.login].req.sp = o.sp
    /\ o.own
    /\ hint # "ignore" => o.intact
    /\ o.sp \in WithSlo =>
         o.login \in AssertionIdsOf(spSessions[o.sp], Idp) /\ ~ o.again

\* The requests whose assertion enters the session of the identity provider.
Filed(req) == Encrypted(req) \/ ProtocolProfile(req) # "paos"

Filing ==
  \A l \in LoginIds :
    Issued(l) /\ Filed(logins[l].req) /\ HasSloData(logins[l].assertion) =>
      EntryOf(logins[l].assertion) \in idpSession.nids[logins[l].req.sp]

LoginInv ==
  /\ TypeOK /\ Requested
  /\ Issuing /\ Naming /\ FederationsAgree
  /\ IdpListing /\ Filing
  /\ Calls /\ SpListing /\ Openings

-----------------------------------------------------------------------------
(* Facts about the constants and about issued assertions *)

\* Every request has a qualifier, and what may be asked is an AuthnRequest.
LEMMA AskedTyped ==
  /\ Asked \subseteq AuthnRequest
  /\ \A req \in AuthnRequest : req.sp \in Sps /\ Key(req) \in Qualifiers
  /\ Sps \subseteq Providers /\ Idp \in Providers
<1>1. \A sp \in Unsolicited : UnsolicitedRequest(sp) \in AuthnRequest
  <2> SUFFICES ASSUME NEW sp \in Unsolicited PROVE UnsolicitedRequest(sp) \in AuthnRequest
    OBVIOUS
  <2>1. sp \in Sps /\ DefaultFormat[sp] \in Formats
    BY LoginConstants
  <2> QED BY <2>1 DEF UnsolicitedRequest, AuthnRequest, SignatureStatus
<1>2. \A req \in AuthnRequest : req.sp \in Sps
  BY DEF AuthnRequest
<1>3. \A req \in AuthnRequest : Key(req) \in Qualifiers
  BY <1>2 DEF Key, Qualifiers
<1> QED BY <1>1, <1>2, <1>3, LoginConstants DEF Asked

\* The names a login may create.
LEMMA NamesTyped ==
  ASSUME NEW l \in LoginIds
  PROVE  /\ Persistent(l) \in NameIds /\ Transient(l) \in NameIds
         /\ IsPersistent(Persistent(l)) /\ ~ IsPersistent(Transient(l))
         /\ Persistent(l) # NoNameID /\ Transient(l) # NoNameID
         /\ \A k \in LoginIds : /\ Persistent(l) # Transient(k)
                                /\ Persistent(l) = Persistent(k) => l = k
                                /\ Transient(l) = Transient(k) => l = k
<1>1. Persistent(l) \in NameIds /\ Transient(l) \in NameIds
  BY LoginConstants DEF Persistent, Transient
<1>2. IsPersistent(Persistent(l)) /\ ~ IsPersistent(Transient(l))
  BY DEF Persistent, Transient, IsPersistent
<1>3. \A k \in LoginIds : /\ Persistent(l) # Transient(k)
                          /\ Persistent(l) = Persistent(k) => l = k
                          /\ Transient(l) = Transient(k) => l = k
  BY DEF Persistent, Transient
<1> QED BY <1>1, <1>2, <1>3, NullsAreApart

\* A used login object is a record of Login.
LEMMA UsedTyped ==
  ASSUME TypeOK, NEW l \in LoginIds
  PROVE  /\ Used(l) => logins[l] \in Login /\ logins[l].req \in AuthnRequest
                       /\ logins[l].req.sp \in Sps
         /\ Issued(l) => logins[l].assertion \in Assertion
<1>1. Used(l) => logins[l] \in Login
  BY DEF TypeOK, Used
<1>2. Used(l) => logins[l].req \in AuthnRequest /\ logins[l].assertion \in Assertion \cup {NoAssertion}
  BY <1>1 DEF Login
<1> QED BY <1>1, <1>2, AskedTyped DEF Issued

\* As long as issued assertions stay, so do their entries.
LEMMA EntriesStay ==
  ASSUME \A k \in LoginIds : Issued(k) => Used(k)' /\ logins'[k] = logins[k],
         NEW e, NEW sp, IsEntryFor(e, sp)
  PROVE  IsEntryFor(e, sp)'
BY DEF IsEntryFor, Issued

\* The entry of an issued assertion is filed under the login's own number.
LEMMA EntryNumber ==
  ASSUME TypeOK, Issuing, NEW e \in Entry, NEW sp, IsEntryFor(e, sp)
  PROVE  e.sidx = e.aid /\ e.aid \in LoginIds
<1>1. Issued(e.aid) /\ e.aid \in LoginIds /\ e.sidx = logins[e.aid].assertion.sidx
  BY DEF IsEntryFor, Issued, EntryOf
<1>2. e.sidx # NoSessionIndex
  BY NullsAreApart DEF Entry
<1> QED BY <1>1, <1>2 DEF Issuing

-----------------------------------------------------------------------------
(* The steps of the identity provider *)

LEMMA InitLogin == Init => LoginInv
<1> SUFFICES ASSUME Init PROVE LoginInv
  OBVIOUS
<1>1. EmptySession \in Session
  BY EmptySound DEF StoredSound
<1>2. \A l \in LoginIds : ~ Used(l)
  BY DEF Init, Used
<1>3. \A p \in Providers : EmptySession.nids[p] = {}
  BY DEF EmptySession
<1>4. TypeOK
  BY <1>1 DEF Init, TypeOK
<1>5. IdpListing /\ SpListing
  BY <1>3, AskedTyped DEF Init, IdpListing, SpListing
<1>6. Requested /\ Issuing /\ Naming /\ FederationsAgree /\ Filing /\ Calls /\ Openings
  BY <1>2 DEF Init, Requested, Issuing, Issued, Naming, FederationsAgree, Filing, Calls, Openings
<1> QED BY <1>4, <1>5, <1>6 DEF LoginInv

\* A request arrives or is invented: a new login object, nothing issued.
LEMMA NewLoginStep ==
  ASSUME LoginInv, NEW l \in LoginIds, ~ Used(l), NEW req \in Asked,
         NEW r \in RequestIds \cup {NoRequest},
         logins' = [logins EXCEPT ![l] = NewLogin(req, r)],
         UNCHANGED <<requests, artifacts, federations, idpSession, identityKnown,
                     hint, resolving, spVars>>
  PROVE  LoginInv'
<1> DEFINE new == NewLogin(req, r)
<1>1. req \in AuthnRequest
  BY AskedTyped
<1>2. MustAuthenticate(req, idpSession, MethodOf) \in BOOLEAN
  BY DEF MustAuthenticate
<1>3. new \in Login /\ new.req = req /\ new.assertion = NoAssertion
  BY <1>1, <1>2 DEF NewLogin, Login
<1>4. new # NoLogin
  BY <1>3, LoginConstants
<1> HIDE DEF new
<1>5. logins' \in [LoginIds -> Login \cup {NoLogin}]
  BY <1>3 DEF LoginInv, TypeOK, new
<1>6. \A k \in LoginIds : logins'[k] = IF k = l THEN new ELSE logins[k]
  BY DEF LoginInv, TypeOK, new
<1>7. \A k \in LoginIds : (Used(k) => k # l /\ logins'[k] = logins[k])
                          /\ (Used(k)' <=> Used(k) \/ k = l)
                          /\ (Issued(k)' <=> Issued(k))
  BY <1>3, <1>4, <1>6 DEF Used, Issued
<1>8. TypeOK'
  BY <1>5 DEF LoginInv, TypeOK, spVars
<1>9. Requested'
  BY <1>3, <1>6, <1>7 DEF LoginInv, Requested, Asked
<1>10. Issuing' /\ Filing'
  <2>1. \A k \in LoginIds : Issued(k)' => Issued(k) /\ logins'[k] = logins[k]
    BY <1>7 DEF Issued
  <2>2. Issuing'
    BY <2>1 DEF LoginInv, Issuing, Key
  <2>3. Filing'
    BY <2>1 DEF LoginInv, Filing
  <2> QED BY <2>2, <2>3
<1>11. Naming' /\ FederationsAgree'
  BY <1>7 DEF LoginInv, Naming, FederationsAgree, spVars, Key
<1>12. \A k \in LoginIds : Issued(k) => Used(k)' /\ logins'[k] = logins[k]
  BY <1>7 DEF Issued
<1>13. IdpListing' /\ SpListing'
  BY <1>12, EntriesStay DEF LoginInv, IdpListing, SpListing, spVars
<1>14. Calls'
  BY <1>7 DEF LoginInv, TypeOK, Calls, Answered
<1>15. Openings'
  BY <1>12, <1>7 DEF LoginInv, Openings, spVars, Issued
<1> QED BY <1>8, <1>9, <1>10, <1>11, <1>13, <1>14, <1>15 DEF LoginInv

\* What process_federation may do to the identity: nothing, or one new name
\* where there was none.
LEMMA FederationsOnlyGrow ==
  ASSUME TypeOK, NEW l \in LoginIds, Used(l), NEW consent, NEW feds,
         feds \in {federations, FederationsAfter(l, consent)}
  PROVE  /\ feds \in [Qualifiers -> NameIds \cup {NoNameID}]
         /\ \A q \in Qualifiers :
              \/ feds[q] = federations[q]
              \/ /\ federations[q] = NoNameID
                 /\ q = Key(logins[l].req) /\ feds[q] = Persistent(l)
<1> DEFINE req == logins[l].req
<1>1. Key(req) \in Qualifiers
  BY UsedTyped, AskedTyped
<1>2. federations \in [Qualifiers -> NameIds \cup {NoNameID}] /\ Persistent(l) \in NameIds
  BY NamesTyped DEF TypeOK
<1>3. CASE feds = federations
  BY <1>2, <1>3
<1>4. CASE feds = FederationsAfter(l, consent)
  <2>1. feds = [federations EXCEPT ![Key(req)] =
                  IF CreatesFederation(req, HasFederation(req), consent)
                  THEN Persistent(l) ELSE federations[Key(req)]]
    BY <1>4 DEF FederationsAfter
  <2>2. CreatesFederation(req, HasFederation(req), consent) => federations[Key(req)] = NoNameID
    BY DEF CreatesFederation, HasFederation
  <2> HIDE DEF req
  <2>3. feds \in [Qualifiers -> NameIds \cup {NoNameID}]
    BY <2>1, <1>1, <1>2
  <2>4. \A q \in Qualifiers :
              \/ feds[q] = federations[q]
              \/ federations[q] = NoNameID /\ q = Key(req) /\ feds[q] = Persistent(l)
    BY <2>1, <2>2, <1>1, <1>2
  <2> QED BY <2>3, <2>4 DEF req
<1> QED BY <1>3, <1>4

\* The assertion of lasso_saml20_login_build_assertion.
LEMMA AssertionBuilt ==
  ASSUME TypeOK, NEW l \in LoginIds, Used(l),
         NEW feds \in [Qualifiers -> NameIds \cup {NoNameID}]
  PROVE  /\ BuildAssertion(l, feds) \in Assertion
         /\ BuildAssertion(l, feds).id = l
         /\ BuildAssertion(l, feds).nid = IF UsesFederation(logins[l].req)
                                          THEN feds[Key(logins[l].req)] ELSE Transient(l)
         /\ BuildAssertion(l, feds).sidx =
              IF logins[l].req.sp \in WithSlo THEN l ELSE NoSessionIndex
<1>1. Key(logins[l].req) \in Qualifiers
  BY UsedTyped, AskedTyped
<1>2. feds[Key(logins[l].req)] \in NameIds \cup {NoNameID} /\ Transient(l) \in NameIds
  BY <1>1, NamesTyped
<1>3. l \in AssertionIds /\ l \in SessionIndexes
  BY LoginConstants
<1> QED BY <1>2, <1>3 DEF BuildAssertion, Assertion

\* The answer to a request: the one step that issues an assertion.
LEMMA AnswerStep ==
  ASSUME LoginInv, NEW l \in LoginIds, NEW success \in BOOLEAN, NEW consent \in BOOLEAN,
         NEW signed \in BOOLEAN, NEW method \in Methods \cup {NoMethod},
         AnswerAuthnRequest(l, success, consent, method, signed)
  PROVE  LoginInv'
<1> DEFINE req     == logins[l].req
           authenticated == IF logins[l].ask THEN success ELSE identityKnown
           verdict == FederationVerdict(req, HasFederation(req), consent)
           status  == ValidateStatus(req, authenticated, verdict)
           done    == status = "success"
           feds    == IF authenticated /\ ~ SignatureRefused(req)
                      THEN FederationsAfter(l, consent) ELSE federations
           a       == BuildAssertion(l, feds)
           built   == done /\ a.nid # NoNameID
           phase   == IF done /\ ~ built THEN "failed" ELSE "answered"
           sent    == IF built THEN a ELSE NoAssertion
           asked   == logins[l].ask /\ success
           new     == [logins[l] EXCEPT !.phase = phase, !.status = status,
                         !.authenticated = asked, !.method = method, !.signed = signed,
                         !.assertion = sent]
<1> USE DEF LoginInv
<1>1. /\ Used(l) /\ logins[l].phase = "received"
      /\ federations' = feds
      /\ identityKnown' = (identityKnown \/ authenticated)
      /\ idpSession' = IF built THEN SessionAfter(req, a) ELSE idpSession
      /\ logins' = [logins EXCEPT ![l] = new]
      /\ artifacts' \subseteq artifacts \cup {l}
      /\ UNCHANGED <<requests, hint, resolving, spVars>>
  BY DEF AnswerAuthnRequest
<1>2. logins[l] \in Login /\ req \in AuthnRequest /\ req.sp \in Sps /\ Key(req) \in Qualifiers
  BY <1>1, UsedTyped, AskedTyped
<1>3. feds \in {federations, FederationsAfter(l, consent)}
  OBVIOUS
<1>4. status \in Statuses
  BY DEF ValidateStatus, Statuses
<1>5. authenticated \in BOOLEAN
  <2>1. logins[l].ask \in BOOLEAN
    BY <1>2 DEF Login
  <2> QED BY <2>1 DEF TypeOK
<1>6. asked \in BOOLEAN /\ phase \in {"answered", "failed"}
  OBVIOUS
<1> HIDE DEF feds, status, authenticated, verdict
<1>7. /\ feds \in [Qualifiers -> NameIds \cup {NoNameID}]
      /\ \A q \in Qualifiers : \/ feds[q] = federations[q]
                               \/ federations[q] = NoNameID /\ q = Key(req) /\ feds[q] = Persistent(l)
  BY <1>1, <1>3, FederationsOnlyGrow
<1>8. /\ a \in Assertion /\ a.id = l /\ a # NoAssertion
      /\ a.nid = IF UsesFederation(req) THEN feds[Key(req)] ELSE Transient(l)
      /\ a.sidx = IF req.sp \in WithSlo THEN l ELSE NoSessionIndex
  <2>1. /\ a \in Assertion /\ a.id = l
        /\ a.nid = IF UsesFederation(req) THEN feds[Key(req)] ELSE Transient(l)
        /\ a.sidx = IF req.sp \in WithSlo THEN l ELSE NoSessionIndex
    BY <1>1, <1>7, AssertionBuilt
  <2>2. NoAssertion \notin Assertion
    BY NullsAreApart DEF Assertion
  <2> QED BY <2>1, <2>2
<1> HIDE DEF a
<1>9. /\ new \in Login /\ new.req = req
      /\ new.assertion = IF built THEN a ELSE NoAssertion
      /\ new.phase = IF done /\ ~ built THEN "failed" ELSE "answered"
  <2>1. sent \in Assertion \cup {NoAssertion}
    BY <1>8
  <2> HIDE DEF sent, phase, asked
  <2>2. new \in Login /\ new.req = req /\ new.assertion = sent /\ new.phase = phase
    BY <1>2, <1>4, <1>6, <2>1, ZenonT(30) DEF Login
  <2> QED BY <2>2 DEF sent, phase
<1>10. new # NoLogin
  BY <1>9, LoginConstants
<1> HIDE DEF new
<1>11. logins' \in [LoginIds -> Login \cup {NoLogin}]
       /\ \A k \in LoginIds : logins'[k] = IF k = l THEN new ELSE logins[k]
  BY <1>1, <1>9 DEF TypeOK
<1>12. ~ Issued(l)
  BY <1>1 DEF Issuing, Issued
<1>13. /\ \A k \in LoginIds : Issued(k) => k # l /\ Used(k)' /\ logins'[k] = logins[k]
       /\ \A k \in LoginIds : Issued(k)' <=> Issued(k) \/ (k = l /\ built)
       /\ \A k \in LoginIds : Used(k)' <=> Used(k)
       /\ \A k \in LoginIds : k # l => logins'[k] = logins[k]
       /\ logins'[l] = new
  BY <1>1, <1>8, <1>9, <1>10, <1>11, <1>12 DEF Issued, Used
<1>14. /\ idpSession' \in Session
       /\ \A sp \in Sps : idpSession'.nids[sp] =
            IF /\ built /\ Filed(req) /\ sp = req.sp /\ HasSloData(a)
            THEN idpSession.nids[sp] \cup {EntryOf(a)} ELSE idpSession.nids[sp]
  <2>1. idpSession \in Session /\ req.sp \in Providers /\ Sps \subseteq Providers
    BY <1>2, AskedTyped DEF TypeOK
  <2>2. ASSUME HasSloData(a), NEW f \in idpSession.nids[req.sp]
        PROVE  ~ SameKey(EntryOf(a), f)
    <3>1. f \in Entry
      BY <2>1 DEF Session
    <3>2. IsEntryFor(f, req.sp)
      BY <1>2 DEF IdpListing
    <3>3. f.sidx = f.aid /\ Issued(f.aid)
      BY <3>1, <3>2, EntryNumber DEF IsEntryFor
    <3>4. EntryOf(a).sidx = l
      BY <2>2, <1>8 DEF EntryOf, HasSloData
    <3> QED BY <3>3, <3>4, <1>12 DEF SameKey
  <2>3. CASE built /\ Filed(req)
    <3>1. idpSession' = AddAssertion(idpSession, req.sp, a)
      BY <2>3, <1>1 DEF SessionAfter, Filed
    <3>2. /\ idpSession' \in Session
          /\ idpSession'.nids[req.sp] =
               IF HasSloData(a) THEN idpSession.nids[req.sp] \cup {EntryOf(a)}
               ELSE idpSession.nids[req.sp]
          /\ \A q \in Providers : q # req.sp => idpSession'.nids[q] = idpSession.nids[q]
      <4>1. a \in Assertion
        BY <1>8
      <4>2. /\ idpSession' \in Session
            /\ idpSession'.nids[req.sp] =
                 IF HasSloData(a) /\ \A f \in idpSession.nids[req.sp] : ~ SameKey(EntryOf(a), f)
                 THEN idpSession.nids[req.sp] \cup {EntryOf(a)} ELSE idpSession.nids[req.sp]
            /\ \A q \in Providers : q # req.sp => idpSession'.nids[q] = idpSession.nids[q]
        BY <3>1, <2>1, <4>1, AddAssertionTables, ZenonT(30)
      <4> QED BY <4>2, <2>2
    <3> QED BY <3>2, <2>1, <2>3
  <2>4. CASE ~ (built /\ Filed(req))
    BY <2>1, <2>4, <1>1 DEF SessionAfter, Filed
  <2> QED BY <2>3, <2>4
<1>15. TypeOK'
  BY <1>1, <1>5, <1>7, <1>11, <1>14 DEF TypeOK, spVars
<1>16. Requested'
  BY <1>9, <1>13 DEF Requested, Asked
<1>17. Issuing'
  <2> SUFFICES ASSUME NEW k \in LoginIds, Issued(k)'
               PROVE  /\ logins'[k].phase = "answered"
                      /\ logins'[k].assertion.id = k
                      /\ logins'[k].assertion.nid # NoNameID
                      /\ logins'[k].assertion.nid =
                           IF UsesFederation(logins'[k].req)
                           THEN feds[Key(logins'[k].req)] ELSE Transient(k)
                      /\ logins'[k].assertion.sidx =
                           IF logins'[k].req.sp \in WithSlo THEN k ELSE NoSessionIndex
    BY <1>1 DEF Issuing, Key
  <2>1. CASE k = l
    BY <2>1, <1>8, <1>9, <1>12, <1>13
  <2>2. CASE k # l
    <3>1. Issued(k) /\ logins'[k] = logins[k] /\ Key(logins[k].req) \in Qualifiers
      BY <2>2, <1>13, UsedTyped, AskedTyped DEF Issued
    <3>2. UsesFederation(logins[k].req) => federations[Key(logins[k].req)] # NoNameID
      BY <3>1 DEF Issuing
    <3>3. UsesFederation(logins[k].req) =>
            feds[Key(logins[k].req)] = federations[Key(logins[k].req)]
      BY <3>1, <3>2, <1>7
    <3> QED BY <3>1, <3>3 DEF Issuing
  <2> QED BY <2>1, <2>2
<1>18. Naming'
  <2> SUFFICES ASSUME NEW q \in Qualifiers, feds[q] # NoNameID
               PROVE  \E k \in LoginIds :
                        /\ feds[q] = Persistent(k)
                        /\ Used(k)' /\ logins'[k].phase # "received" /\ Key(logins'[k].req) = q
    BY <1>1 DEF Naming, Key
  <2>1. CASE feds[q] = federations[q]
    <3>1. PICK k \in LoginIds : /\ federations[q] = Persistent(k)
                                /\ Used(k) /\ logins[k].phase # "received" /\ Key(logins[k].req) = q
      BY <2>1 DEF Naming
    <3>2. k # l /\ Used(k)' /\ logins'[k] = logins[k]
      BY <3>1, <1>1, <1>13
    <3> QED BY <3>1, <3>2, <2>1
  <2>2. CASE q = Key(req) /\ feds[q] = Persistent(l)
    BY <2>2, <1>1, <1>9, <1>13
  <2> QED BY <2>1, <2>2, <1>7
<1>19. FederationsAgree'
  <2> SUFFICES ASSUME NEW sp \in Sps, spFederation[sp] # NoNameID
               PROVE  spFederation[sp] = feds[Qualifier[sp]]
    BY <1>1 DEF FederationsAgree, spVars
  <2>1. Qualifier[sp] \in Qualifiers /\ spFederation[sp] = federations[Qualifier[sp]]
    BY DEF Qualifiers, FederationsAgree
  <2> QED BY <2>1, <1>7
<1>20. \A e, sp : IsEntryFor(e, sp) => IsEntryFor(e, sp)'
  BY <1>13, EntriesStay
<1>21. IdpListing'
  <2> SUFFICES ASSUME NEW sp \in Sps, NEW e \in idpSession'.nids[sp]
               PROVE  IsEntryFor(e, sp)'
    BY DEF IdpListing
  <2>1. CASE e \in idpSession.nids[sp]
    BY <2>1, <1>20 DEF IdpListing
  <2>2. CASE e \notin idpSession.nids[sp]
    <3>1. built /\ sp = req.sp /\ e = EntryOf(a)
      BY <2>2, <1>14
    <3>2. e.aid = l /\ Issued(l)' /\ logins'[l].req.sp = sp /\ logins'[l].assertion = a
      BY <3>1, <1>8, <1>9, <1>13 DEF EntryOf
    <3> QED BY <3>1, <3>2 DEF IsEntryFor
  <2> QED BY <2>1, <2>2
<1>22. SpListing'
  BY <1>1, <1>20 DEF SpListing, spVars
<1>23. Filing'
  <2> SUFFICES ASSUME NEW k \in LoginIds, Issued(k)', Filed(logins'[k].req),
                      HasSloData(logins'[k].assertion)
               PROVE  EntryOf(logins'[k].assertion) \in idpSession'.nids[logins'[k].req.sp]
    BY DEF Filing
  <2>1. CASE k = l
    <3>1. built /\ logins'[k].assertion = a /\ logins'[k].req = req
      BY <2>1, <1>9, <1>12, <1>13
    <3> QED BY <3>1, <1>2, <1>14
  <2>2. CASE k # l
    <3>1. Issued(k) /\ logins'[k] = logins[k] /\ logins[k].req.sp \in Sps
      BY <2>2, <1>13, UsedTyped DEF Issued
    <3> QED BY <3>1, <1>14 DEF Filing
  <2> QED BY <2>1, <2>2
<1>24. Calls'
  <2> SUFFICES ASSUME NEW c \in resolving PROVE Answered(c.login)' /\ logins'[c.login].req.sp = c.sp
    BY <1>1 DEF Calls
  <2>1. Answered(c.login) /\ logins[c.login].req.sp = c.sp /\ c.login \in LoginIds
    BY DEF Calls, TypeOK
  <2>2. c.login # l
    BY <2>1, <1>1 DEF Answered
  <2> QED BY <2>1, <2>2, <1>13 DEF Answered
<1>25. Openings'
  BY <1>1, <1>13 DEF Openings, spVars, Issued
<1> QED BY <1>15, <1>16, <1>17, <1>18, <1>19, <1>21, <1>22, <1>23, <1>24, <1>25

-----------------------------------------------------------------------------
(* The steps of the service providers *)

\* What the steps of the service providers do not touch.
IdpPart ==
  /\ requests \in [RequestIds -> Wishes \cup {NoRequest}]
  /\ logins \in [LoginIds -> Login \cup {NoLogin}]
  /\ federations \in [Qualifiers -> NameIds \cup {NoNameID}]
  /\ idpSession \in Session
  /\ identityKnown \in BOOLEAN /\ hint \in VerifyHints
  /\ Requested /\ Issuing /\ Naming /\ IdpListing /\ Filing

CallPart ==
  /\ artifacts \subseteq LoginIds
  /\ resolving \subseteq [sp : Sps, from : RequestIds \cup {NoRequest}, login : LoginIds,
                         answer : {"pending", "response", "empty"}]
  /\ Calls

SpPart ==
  /\ spSessions \in [Sps -> Session]
  /\ spFederation \in [Sps -> NameIds \cup {NoNameID}]
  /\ opened \subseteq [sp : Sps, login : LoginIds, intact : BOOLEAN, own : BOOLEAN,
                      again : BOOLEAN]
  /\ FederationsAgree /\ SpListing /\ Openings

LEMMA LoginInvParts ==
  ASSUME IdpPart', CallPart', SpPart'
  PROVE  LoginInv'
BY DEF LoginInv, TypeOK, IdpPart, CallPart, SpPart

LEMMA IdpPartStays ==
  ASSUME LoginInv, UNCHANGED <<logins, federations, idpSession, identityKnown, hint>>,
         requests' \in [RequestIds -> Wishes \cup {NoRequest}]
  PROVE  IdpPart'
<1>1. \A k : (Used(k)' <=> Used(k)) /\ (Issued(k)' <=> Issued(k))
  BY DEF Used, Issued
<1>2. Requested' /\ Issuing' /\ Filing'
  BY <1>1 DEF LoginInv, Requested, Issuing, Filing, Key, Asked
<1>3. Naming'
  BY <1>1 DEF LoginInv, Naming, Key
<1>4. IdpListing'
  BY <1>1 DEF LoginInv, IdpListing, IsEntryFor
<1> QED BY <1>2, <1>3, <1>4 DEF IdpPart, LoginInv, TypeOK

LEMMA SpPartStays ==
  ASSUME LoginInv, UNCHANGED <<logins, federations, hint, spVars>>
  PROVE  SpPart'
<1>1. \A k : (Used(k)' <=> Used(k)) /\ (Issued(k)' <=> Issued(k))
  BY DEF Used, Issued
<1>2. SpListing' /\ Openings' /\ FederationsAgree'
  BY <1>1 DEF LoginInv, SpListing, IsEntryFor, Openings, FederationsAgree, spVars
<1> QED BY <1>2 DEF SpPart, LoginInv, TypeOK, spVars

LEMMA CallPartStays ==
  ASSUME LoginInv, logins' = logins, artifacts' \subseteq LoginIds,
         resolving' \subseteq [sp : Sps, from : RequestIds \cup {NoRequest}, login : LoginIds,
                              answer : {"pending", "response", "empty"}],
         \A c \in resolving' : Answered(c.login) /\ logins[c.login].req.sp = c.sp
  PROVE  CallPart'
BY DEF CallPart, Calls, Answered, Used

\* A response that is accepted was made for the request of the login object,
\* and its assertion is intact unless signatures are ignored.
LEMMA AcceptedIsGood ==
  ASSUME NEW binding, NEW l, NEW from, NEW damage \in Damage,
         ResponseAccepted(binding, hint, from, NoRequest, Arriving(l, damage))
  PROVE  /\ from \in {NoRequest, logins[l].id}
         /\ hint # "ignore" => damage # "assertion"
<1> DEFINE m == Arriving(l, damage)
<1>1. /\ m.inResponseTo = logins[l].id
      /\ m.assertSig = IF damage = "assertion" THEN "invalid" ELSE "valid"
      /\ m.respSig = IF ~ logins[l].signed THEN "not_found"
                     ELSE IF damage = "none" THEN "valid" ELSE "invalid"
  BY DEF Arriving
<1>2. SignaturesAccepted(hint, m) /\ (from # NoRequest => m.inResponseTo = from)
  BY DEF ResponseAccepted
<1> HIDE DEF m
<1>3. ASSUME hint # "ignore", damage = "assertion" PROVE FALSE
  <2>1. m.assertSig = "invalid" /\ m.respSig \in {"not_found", "invalid"}
    BY <1>1, <1>3
  <2> QED BY <2>1, <1>2, <1>3 DEF SignaturesAccepted
<1> QED BY <1>1, <1>2, <1>3

\* lasso_login_accept_sso, refused or not.
LEMMA ConsumeStep ==
  ASSUME LoginInv, NEW l \in LoginIds, Answered(l), NEW from \in RequestIds \cup {NoRequest},
         NEW binding, NEW damage \in Damage,
         Consume(logins[l].req.sp, from, l, binding, damage),
         UNCHANGED <<logins, federations, hint>>
  PROVE  SpPart'
<1> DEFINE sp == logins[l].req.sp
           a  == logins[l].assertion
           whole == damage # "assertion"
           mine  == from \in {NoRequest, logins[l].id}
           again == \E o \in opened : o.sp = sp /\ o.login = l
           o1 == [sp |-> sp, login |-> l, intact |-> whole, own |-> mine, again |-> again]
<1> USE DEF LoginInv
<1>1. CASE UNCHANGED spVars
  BY <1>1, SpPartStays
<1>2. CASE ~ UNCHANGED spVars
  <2>1. /\ ResponseAccepted(binding, hint, from, NoRequest, Arriving(l, damage))
        /\ a # NoAssertion
        /\ AcceptSso(sp, from, l, damage)
    BY <1>2 DEF Consume
  <2>2. /\ ~ IsReplay(sp, a)
        /\ spSessions' = [spSessions EXCEPT ![sp] = AddAssertion(@, Idp, a)]
        /\ spFederation' = [spFederation EXCEPT ![sp] = IF IsPersistent(a.nid) THEN a.nid ELSE @]
        /\ opened' = opened \cup {o1}
    BY <2>1, <1>2 DEF AcceptSso
  <2>3. /\ Issued(l) /\ sp \in Sps /\ sp \in Providers /\ Idp \in Providers /\ a \in Assertion
        /\ logins[l].req \in AuthnRequest
    BY <2>1, UsedTyped, AskedTyped DEF Issued, Answered
  <2>4. /\ a.id = l /\ a.nid # NoNameID
        /\ a.nid = IF UsesFederation(logins[l].req)
                   THEN federations[Key(logins[l].req)] ELSE Transient(l)
        /\ a.sidx = IF sp \in WithSlo THEN l ELSE NoSessionIndex
    BY <2>3 DEF Issuing
  <2>5. spSessions[sp] \in Session
    BY <2>3 DEF TypeOK
  <2>6. o1 \in [sp : Sps, login : LoginIds, intact : BOOLEAN, own : BOOLEAN, again : BOOLEAN]
        /\ o1.sp = sp /\ o1.login = l
        /\ o1.intact = whole /\ o1.own = mine /\ o1.again = again
    <3>1. whole \in BOOLEAN /\ mine \in BOOLEAN /\ again \in BOOLEAN
      OBVIOUS
    <3> HIDE DEF whole, mine, again
    <3> QED BY <2>3, <3>1
  <2> HIDE DEF sp, a, o1
  <2>7. l \notin AssertionIdsOf(spSessions[sp], Idp)
    BY <2>2, <2>4 DEF IsReplay
  <2>8. ASSUME HasSloData(a), NEW f \in spSessions[sp].nids[Idp]
        PROVE  ~ SameKey(EntryOf(a), f)
    <3>1. f \in Entry
      BY <2>3, <2>5 DEF Session
    <3>2. f.sidx = f.aid
      BY <2>3, <3>1, EntryNumber DEF SpListing
    <3>3. f.aid # l
      BY <2>7 DEF AssertionIdsOf
    <3>4. EntryOf(a).sidx = l
      BY <2>8, <2>4 DEF EntryOf, HasSloData
    <3> QED BY <3>2, <3>3, <3>4 DEF SameKey
  <2>9. /\ spSessions' \in [Sps -> Session]
        /\ spSessions'[sp].nids[Idp] =
             IF HasSloData(a) THEN spSessions[sp].nids[Idp] \cup {EntryOf(a)}
             ELSE spSessions[sp].nids[Idp]
        /\ \A s \in Sps : s # sp => spSessions'[s] = spSessions[s]
    <3>1. AddAssertion(spSessions[sp], Idp, a) \in Session
      BY <2>3, <2>5, AddAssertionTables
    <3>2. AddAssertion(spSessions[sp], Idp, a).nids[Idp] =
             IF HasSloData(a) THEN spSessions[sp].nids[Idp] \cup {EntryOf(a)}
             ELSE spSessions[sp].nids[Idp]
      BY <2>3, <2>5, <2>8, AddAssertionTables
    <3>3. spSessions'[sp] = AddAssertion(spSessions[sp], Idp, a)
      BY <2>2, <2>3 DEF TypeOK
    <3>4. spSessions' \in [Sps -> Session] /\ \A s \in Sps : s # sp => spSessions'[s] = spSessions[s]
      BY <2>2, <2>3, <3>1 DEF TypeOK
    <3> QED BY <3>2, <3>3, <3>4
  <2>10. /\ spFederation' \in [Sps -> NameIds \cup {NoNameID}]
         /\ spFederation'[sp] = IF IsPersistent(a.nid) THEN a.nid ELSE spFederation[sp]
         /\ \A s \in Sps : s # sp => spFederation'[s] = spFederation[s]
    <3>1. a.nid \in NameIds
      BY <2>3, <2>4 DEF Assertion
    <3> QED BY <2>2, <2>3, <3>1 DEF TypeOK
  <2>11. opened' \subseteq [sp : Sps, login : LoginIds, intact : BOOLEAN, own : BOOLEAN,
                           again : BOOLEAN]
    BY <2>2, <2>6 DEF TypeOK
  <2>12. \A k : (Used(k)' <=> Used(k)) /\ (Issued(k)' <=> Issued(k))
    BY DEF Used, Issued
  <2>13. FederationsAgree'
    <3> SUFFICES ASSUME NEW s \in Sps, spFederation'[s] # NoNameID
                 PROVE  spFederation'[s] = federations[Qualifier[s]]
      BY DEF FederationsAgree
    <3>1. CASE s = sp /\ IsPersistent(a.nid)
      <4>1. a.nid # Transient(l)
        BY <3>1, NamesTyped
      <4>2. a.nid = federations[Key(logins[l].req)]
        BY <2>4, <4>1
      <4> QED BY <3>1, <4>2, <2>10 DEF Key, sp
    <3>2. CASE ~ (s = sp /\ IsPersistent(a.nid))
      BY <3>2, <2>10 DEF FederationsAgree
    <3> QED BY <3>1, <3>2
  <2>14. SpListing'
    <3> SUFFICES ASSUME NEW s \in Sps, NEW e \in spSessions'[s].nids[Idp]
                 PROVE  IsEntryFor(e, s)
      BY <2>12 DEF SpListing, IsEntryFor
    <3>1. CASE e \in spSessions[s].nids[Idp]
      BY <3>1 DEF SpListing
    <3>2. CASE e \notin spSessions[s].nids[Idp]
      <4>1. s = sp /\ e = EntryOf(a)
        BY <3>2, <2>9
      <4>2. e.aid = l
        BY <4>1, <2>4 DEF EntryOf
      <4> QED BY <4>1, <4>2, <2>3 DEF IsEntryFor, sp, a
    <3> QED BY <3>1, <3>2
  <2>15. Openings'
    <3> SUFFICES ASSUME NEW o \in opened'
                 PROVE  /\ Issued(o.login) /\ logins[o.login].req.sp = o.sp
                        /\ o.own
                        /\ hint # "ignore" => o.intact
                        /\ o.sp \in WithSlo =>
                             o.login \in AssertionIdsOf(spSessions'[o.sp], Idp) /\ ~ o.again
      BY <2>12 DEF Openings
    <3>1. \A s \in Sps : AssertionIdsOf(spSessions[s], Idp) \subseteq AssertionIdsOf(spSessions'[s], Idp)
      BY <2>9 DEF AssertionIdsOf
    <3>2. CASE o \in opened
      <4>1. o.sp \in Sps
        BY <3>2 DEF TypeOK
      <4> QED BY <3>1, <3>2, <4>1 DEF Openings
    <3>3. CASE o = o1
      <4>1. o.own /\ (hint # "ignore" => o.intact)
        BY <3>3, <2>1, <2>6, AcceptedIsGood
      <4>2. sp \in WithSlo => l \in AssertionIdsOf(spSessions'[sp], Idp)
        <5> SUFFICES ASSUME sp \in WithSlo PROVE l \in AssertionIdsOf(spSessions'[sp], Idp)
          OBVIOUS
        <5>1. HasSloData(a)
          BY <2>4, NullsAreApart, LoginConstants DEF HasSloData
        <5>2. EntryOf(a) \in spSessions'[sp].nids[Idp] /\ EntryOf(a).aid = l
          BY <5>1, <2>4, <2>9 DEF EntryOf
        <5> QED BY <5>2 DEF AssertionIdsOf
      <4>3. sp \in WithSlo => ~ \E p \in opened : p.sp = sp /\ p.login = l
        BY <2>7 DEF Openings
      <4> QED BY <3>3, <4>1, <4>2, <4>3, <2>3, <2>6 DEF sp
    <3> QED BY <3>2, <3>3, <2>2
  <2> QED BY <2>9, <2>10, <2>11, <2>13, <2>14, <2>15 DEF SpPart
<1> QED BY <1>1, <1>2

\* The service provider's session forgets the login.
LEMMA EndLoginStep ==
  ASSUME LoginInv, NEW sp \in Sps, EndLogin(sp)
  PROVE  SpPart'
<1> USE DEF LoginInv
<1>1. /\ spSessions' = [spSessions EXCEPT ![sp] = RemoveAssertion(@, Idp)]
      /\ opened' = { o \in opened : o.sp # sp }
      /\ UNCHANGED <<requests, idpVars, hint, resolving, spFederation>>
  BY DEF EndLogin
<1>2. spSessions[sp] \in Session /\ Idp \in Providers
  BY AskedTyped DEF TypeOK
<1>3. /\ RemoveAssertion(spSessions[sp], Idp) \in Session
      /\ RemoveAssertion(spSessions[sp], Idp).nids[Idp] = {}
  BY <1>2, RemoveAssertionTables
<1>4. /\ spSessions' \in [Sps -> Session] /\ spSessions'[sp].nids[Idp] = {}
      /\ \A s \in Sps : s # sp => spSessions'[s] = spSessions[s]
  BY <1>1, <1>3 DEF TypeOK
<1>5. \A k : (Used(k)' <=> Used(k)) /\ (Issued(k)' <=> Issued(k)) /\ logins' = logins
  BY <1>1 DEF Used, Issued, idpVars
<1>6. FederationsAgree'
  BY <1>1 DEF FederationsAgree, idpVars
<1>7. SpListing'
  BY <1>4, <1>5 DEF SpListing, IsEntryFor
<1>8. Openings'
  <2> SUFFICES ASSUME NEW o \in opened, o.sp # sp
               PROVE  /\ Issued(o.login) /\ logins[o.login].req.sp = o.sp
                      /\ o.own
                      /\ hint # "ignore" => o.intact
                      /\ o.sp \in WithSlo =>
                           o.login \in AssertionIdsOf(spSessions'[o.sp], Idp) /\ ~ o.again
    BY <1>1, <1>5 DEF Openings
  <2>1. o.sp \in Sps
    BY DEF TypeOK
  <2> QED BY <2>1, <1>4 DEF Openings
<1> QED BY <1>1, <1>4, <1>6, <1>7, <1>8 DEF SpPart, TypeOK

-----------------------------------------------------------------------------
(* Every step *)

LEMMA StepKeepsInv == LoginInv /\ [Next]_vars => LoginInv'
<1> SUFFICES ASSUME LoginInv, [Next]_vars PROVE LoginInv'
  OBVIOUS
<1> DEFINE Call == [sp : Sps, from : RequestIds \cup {NoRequest}, login : LoginIds,
                    answer : {"pending", "response", "empty"}]
<1>0. /\ resolving \subseteq Call /\ artifacts \subseteq LoginIds
      /\ requests \in [RequestIds -> Wishes \cup {NoRequest}]
      /\ \A c \in resolving : Answered(c.login) /\ logins[c.login].req.sp = c.sp
  BY DEF LoginInv, TypeOK, Calls
<1>1. ASSUME NEW wish \in Wishes, NEW r \in RequestIds, SendAuthnRequest(wish, r)
      PROVE  LoginInv'
  <2>1. requests' \in [RequestIds -> Wishes \cup {NoRequest}]
    BY <1>0, <1>1 DEF SendAuthnRequest
  <2> QED BY <1>0, <1>1, <2>1, IdpPartStays, CallPartStays, SpPartStays, LoginInvParts
          DEF SendAuthnRequest, idpVars
<1>2. ASSUME NEW r \in RequestIds, NEW l \in LoginIds, ReceiveAuthnRequest(r, l)
      PROVE  LoginInv'
  <2>1. requests[r] \in Asked
    BY <1>0, <1>2 DEF ReceiveAuthnRequest, Asked
  <2> QED BY <1>2, <2>1, NewLoginStep DEF ReceiveAuthnRequest, NextLogin
<1>3. ASSUME NEW sp \in Unsolicited, NEW l \in LoginIds, InitIdpInitiated(sp, l)
      PROVE  LoginInv'
  <2>1. UnsolicitedRequest(sp) \in Asked
    BY DEF Asked
  <2> QED BY <1>3, <2>1, NewLoginStep DEF InitIdpInitiated, NextLogin
<1>4. ASSUME NEW l \in LoginIds, NEW success \in BOOLEAN, NEW consent \in BOOLEAN,
             NEW signed \in BOOLEAN, NEW m \in Methods \cup {NoMethod},
             AnswerAuthnRequest(l, success, consent, m, signed)
      PROVE  LoginInv'
  BY <1>4, AnswerStep
<1>5. ASSUME NEW l \in LoginIds, NEW damage \in Damage, Answered(l),
             NEW from \in RestoredFrom(logins[l].req.sp), ReceiveResponse(l, from, damage)
      PROVE  LoginInv'
  <2>1. /\ from \in RequestIds \cup {NoRequest}
        /\ UNCHANGED <<requests, idpVars, hint, resolving>>
    BY <1>5 DEF RestoredFrom, ReceiveResponse
  <2>2. PICK binding \in {"post", "paos"} : Consume(logins[l].req.sp, from, l, binding, damage)
    BY <1>5 DEF ReceiveResponse
  <2>3. UNCHANGED <<requests, logins, artifacts, federations, idpSession, identityKnown, hint, resolving>>
    BY <2>1 DEF idpVars
  <2>4. SpPart'
    BY <1>5, <2>1, <2>2, <2>3, ConsumeStep
  <2> QED BY <1>0, <2>3, <2>4, IdpPartStays, CallPartStays, LoginInvParts
<1>6. ASSUME NEW l \in LoginIds, Answered(l),
             NEW from \in RestoredFrom(logins[l].req.sp), ReceiveArtifact(l, from)
      PROVE  LoginInv'
  <2> DEFINE c == [sp |-> logins[l].req.sp, from |-> from, login |-> l, answer |-> "pending"]
  <2>1. c \in Call /\ c.login = l /\ c.sp = logins[l].req.sp
    BY <1>6, UsedTyped DEF LoginInv, Answered, RestoredFrom
  <2>2. resolving' = resolving \cup {c} /\ UNCHANGED <<requests, idpVars, hint, spVars>>
    BY <1>6 DEF ReceiveArtifact
  <2> HIDE DEF c
  <2>3. resolving' \subseteq Call /\ \A d \in resolving' : Answered(d.login) /\ logins[d.login].req.sp = d.sp
    BY <1>0, <1>6, <2>1, <2>2
  <2>4. UNCHANGED <<requests, logins, artifacts, federations, idpSession, identityKnown, hint, spVars>>
    BY <2>2 DEF idpVars
  <2> QED BY <1>0, <2>3, <2>4, IdpPartStays, CallPartStays, SpPartStays, LoginInvParts
<1>7. ASSUME NEW c \in resolving, ResolveArtifact(c)
      PROVE  LoginInv'
  <2> DEFINE ans == IF c.login \in artifacts THEN "response" ELSE "empty"
             d == [c EXCEPT !.answer = ans]
  <2>1. ans \in {"response", "empty"} /\ c \in Call
    BY <1>0
  <2>2. resolving' = (resolving \ {c}) \cup {d} /\ artifacts' = artifacts \ {c.login}
        /\ UNCHANGED <<requests, logins, federations, idpSession, identityKnown, hint, spVars>>
    BY <1>7 DEF ResolveArtifact
  <2> HIDE DEF ans
  <2>3. d \in Call /\ d.login = c.login /\ d.sp = c.sp
    BY <2>1
  <2> HIDE DEF d
  <2>4. resolving' \subseteq Call /\ \A e \in resolving' : Answered(e.login) /\ logins[e.login].req.sp = e.sp
    BY <1>0, <2>2, <2>3
  <2> QED BY <1>0, <2>2, <2>4, IdpPartStays, CallPartStays, SpPartStays, LoginInvParts
<1>8. ASSUME NEW c \in resolving, LoseSoapCall(c)
      PROVE  LoginInv'
  <2>1. UNCHANGED <<requests, logins, artifacts, federations, idpSession, identityKnown, hint, spVars>>
        /\ resolving' \subseteq resolving
    BY <1>8 DEF LoseSoapCall, idpVars
  <2> QED BY <1>0, <2>1, IdpPartStays, CallPartStays, SpPartStays, LoginInvParts
<1>9. ASSUME NEW c \in resolving, NEW damage \in Damage, ReceiveArtifactResponse(c, damage)
      PROVE  LoginInv'
  <2>1. UNCHANGED <<requests, logins, artifacts, federations, idpSession, identityKnown, hint>>
        /\ resolving' \subseteq resolving
        /\ c.login \in LoginIds /\ c.from \in RequestIds \cup {NoRequest}
        /\ Answered(c.login) /\ logins[c.login].req.sp = c.sp
    BY <1>0, <1>9 DEF ReceiveArtifactResponse, idpVars
  <2>2. CASE UNCHANGED spVars
    BY <1>0, <2>1, <2>2, IdpPartStays, CallPartStays, SpPartStays, LoginInvParts
  <2>3. CASE ~ UNCHANGED spVars
    <3>1. Consume(c.sp, c.from, c.login, "artifact", damage)
      BY <1>9, <2>3 DEF ReceiveArtifactResponse
    <3>2. SpPart'
      BY <2>1, <3>1, ConsumeStep
    <3> QED BY <1>0, <2>1, <3>2, IdpPartStays, CallPartStays, LoginInvParts
  <2> QED BY <2>2, <2>3
<1>10. ASSUME NEW sp \in Sps, EndLogin(sp)
       PROVE  LoginInv'
  <2>1. UNCHANGED <<requests, logins, artifacts, federations, idpSession, identityKnown, hint, resolving>>
    BY <1>10 DEF EndLogin, idpVars
  <2> QED BY <1>0, <1>10, <2>1, EndLoginStep, IdpPartStays, CallPartStays, LoginInvParts
<1>11. CASE UNCHANGED vars
  <2>1. UNCHANGED <<requests, logins, artifacts, federations, idpSession, identityKnown, hint,
                    resolving, spVars>>
    BY <1>11 DEF vars, idpVars
  <2> QED BY <1>0, <2>1, IdpPartStays, CallPartStays, SpPartStays, LoginInvParts
<1> QED BY <1>1, <1>2, <1>3, <1>4, <1>5, <1>6, <1>7, <1>8, <1>9, <1>10, <1>11 DEF Next

-----------------------------------------------------------------------------
(* The theorems *)

\* The inductive invariant holds in every reachable state.
THEOREM Invariance == Spec => []LoginInv
BY InitLogin, StepKeepsInv, PTL DEF Spec

\* Requests, login objects, federations, sessions, SOAP calls and histories
\* keep their types.
THEOREM TypeCorrect == Spec => []TypeOK
<1>1. LoginInv => TypeOK
  BY DEF LoginInv
<1> QED BY <1>1, Invariance, PTL

\* However the browser delivers, a login object that sent a request opens a
\* login only with the answer to it
\* (lasso_saml20_login_process_response_status_and_assertion).
THEOREM OwnRequestAnswered == Spec => []AnswersOwnRequest
<1>1. LoginInv => AnswersOwnRequest
  BY DEF LoginInv, Openings, AnswersOwnRequest
<1> QED BY <1>1, Invariance, PTL

\* No damaged assertion enters a session of a service provider that does not
\* ignore signatures, by any of the three bindings.
THEOREM OnlyIntactAssertions == Spec => []AssertionIntact
<1>1. LoginInv => AssertionIntact
  BY DEF LoginInv, Openings, AssertionIntact
<1> QED BY <1>1, Invariance, PTL

\* The replay check is enough: the assertion of a login that can be logged out
\* is never accepted twice, although lasso_session_add_assertion drops entries
\* whose pair is listed, because every login has a SessionIndex of its own.
THEOREM NoReplay == Spec => []OpenedOnce
<1>1. LoginInv => OpenedOnce
  BY DEF LoginInv, Openings, OpenedOnce
<1> QED BY <1>1, Invariance, PTL

\* A service provider knows the principal by the name the identity provider
\* keeps for its affiliation (lasso_saml20_login_process_federation).
THEOREM FederationsInStep == Spec => []FederationsAgree
<1>1. LoginInv => FederationsAgree
  BY DEF LoginInv
<1> QED BY <1>1, Invariance, PTL

\* Providers of different affiliations never receive the same NameID.
THEOREM NamesNeverShared == Spec => []NamesApart
<1>1. LoginInv => NamesApart
  <2> SUFFICES ASSUME LoginInv, NEW o \in opened, NEW p \in opened,
                      Qualifier[o.sp] # Qualifier[p.sp],
                      logins[o.login].assertion.nid = logins[p.login].assertion.nid
               PROVE  FALSE
    BY DEF NamesApart
  <2> DEFINE n == logins[o.login].assertion.nid
  <2>1. /\ Issued(o.login) /\ Issued(p.login) /\ o.login \in LoginIds /\ p.login \in LoginIds
        /\ logins[o.login].req.sp = o.sp /\ logins[p.login].req.sp = p.sp
    BY DEF LoginInv, Openings, Issued
  <2>2. Key(logins[o.login].req) \in Qualifiers /\ Key(logins[p.login].req) \in Qualifiers
    BY <2>1, UsedTyped, AskedTyped DEF LoginInv, Issued
  <2>3. Key(logins[o.login].req) # Key(logins[p.login].req) /\ o.login # p.login
    BY <2>1 DEF Key
  <2>4. \A l \in LoginIds : Issued(l) =>
          \/ logins[l].assertion.nid = Transient(l)
          \/ \E k \in LoginIds : /\ logins[l].assertion.nid = Persistent(k)
                                 /\ Key(logins[k].req) = Key(logins[l].req)
    <3> SUFFICES ASSUME NEW l \in LoginIds, Issued(l), logins[l].assertion.nid # Transient(l)
                 PROVE  \E k \in LoginIds : /\ logins[l].assertion.nid = Persistent(k)
                                            /\ Key(logins[k].req) = Key(logins[l].req)
      OBVIOUS
    <3>1. logins[l].assertion.nid = federations[Key(logins[l].req)]
          /\ federations[Key(logins[l].req)] # NoNameID
      BY DEF LoginInv, Issuing
    <3>2. Key(logins[l].req) \in Qualifiers
      BY UsedTyped, AskedTyped DEF LoginInv, Issued
    <3> QED BY <3>1, <3>2 DEF LoginInv, Naming
  <2> QED BY <2>1, <2>3, <2>4, NamesTyped
<1> QED BY <1>1, Invariance, PTL

\* The identity provider can reach every login of every service provider that
\* can be logged out, but for the assertions with a plain NameID that came by
\* PAOS, which build_response_msg does not store.
THEOREM LogoutReaches == Spec => []LogoutReachesLogins
<1>1. LoginInv => LogoutReachesLogins
  <2> SUFFICES ASSUME LoginInv, NEW sp \in Sps, NEW e \in spSessions[sp].nids[Idp],
                      ~ PlainPaos(logins[e.aid].req)
               PROVE  e \in idpSession.nids[sp]
    BY DEF LogoutReachesLogins
  <2> DEFINE a == logins[e.aid].assertion
  <2>1. /\ Issued(e.aid) /\ e.aid \in LoginIds /\ logins[e.aid].req.sp = sp /\ e = EntryOf(a)
    BY DEF LoginInv, SpListing, IsEntryFor, Issued
  <2>2. e \in Entry
    BY AskedTyped DEF LoginInv, TypeOK, Session
  <2>3. e.nid = a.nid /\ e.sidx = a.sidx
    BY <2>1 DEF EntryOf
  <2>4. HasSloData(a)
    BY <2>2, <2>3, NullsAreApart DEF Entry, HasSloData
  <2>5. Filed(logins[e.aid].req)
    BY DEF PlainPaos, Filed
  <2> QED BY <2>1, <2>4, <2>5 DEF LoginInv, Filing
<1> QED BY <1>1, Invariance, PTL
=============================================================================
