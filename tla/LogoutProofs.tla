---------------------------- MODULE LogoutProofs ----------------------------
(***************************************************************************)
(* Proofs about what the two single logouts share, for any number of       *)
(* providers: the traversal of the session and the initial request put     *)
(* aside meanwhile.  The proofs about either protocol complete them.       *)
(*                                                                         *)
(* The traversal walks a list that was cached before assertions were       *)
(* removed, by an index that skips the requester.  Listing says that what  *)
(* is still in the session is in the list, and that the part of the list   *)
(* before the index has been dealt with.                                   *)
(***************************************************************************)
EXTENDS LogoutProfile, SessionLemmas

\* The application is between the validation of the request and the response.
Traversing == {"traverse", "ask", "call", "redirect", "away", "accepted", "failed"}

\* What the application's position says of the objects it holds.
Flow ==
  /\ pc = "idle" => req = None /\ lo.response = None
  /\ pc \in {"idle", "validate"} => lo.index = 0 /\ lo.iremote = None /\ tried = {}
  /\ pc = "validate" => lo.remote = req.from /\ lo.response = None
  /\ pc \in {"validate", "respond"} => req # None
  /\ pc # "done" => final = None
  /\ pc = "ask" => cur \in Providers
  /\ pc \in {"call", "redirect", "away", "accepted", "failed"} => cur \in tried
  /\ req = None => lo.iremote = None /\ final = None
  /\ req # None /\ pc \in {"ask", "call", "redirect", "away"} => lo.iremote = req.from

\* The requester's own assertion is removed first.
Gone == req # None /\ pc \in Traversing => ~ RemoveAssertionOk(sess, req.from)

\* The providers of the first n places of a list.
FirstOf(list, n) == { list[i] : i \in { j \in 1 .. Len(list) : j <= n } }

\* The cached list covers the session, has no provider twice, and its
\* providers before the index have been dealt with.
Listing ==
  /\ IsOrder(sess.providerIDs, FirstOf(sess.providerIDs, Len(sess.providerIDs)))
  /\ sess.providerIDs = <<>> => lo.index = 0 \/ SloProviders(sess) = {}
  /\ sess.providerIDs # <<>> =>
       SloProviders(sess) \subseteq FirstOf(sess.providerIDs, Len(sess.providerIDs))
  /\ FirstOf(sess.providerIDs, lo.index) \cap SloProviders(sess)
       \subseteq tried \cup (IF pc = "ask" THEN {cur} ELSE {})

SessionInv == Sound(sess) /\ Bare(sess)

\* What is proved of both protocols together.
CommonInv ==
  /\ TypeOK /\ SessionInv /\ Flow /\ Gone /\ InitialKept
  /\ Listing /\ WholeSessionTried

-----------------------------------------------------------------------------
(* The provider at the index *)

\* lasso_logout_get_next_providerID moves the index over the provider it
\* returns and over the requester, and over nobody else.
LEMMA NextProviderFacts ==
  ASSUME NEW l \in Logout, NEW s \in Session,
         IsOrder(s.providerIDs, FirstOf(s.providerIDs, Len(s.providerIDs)))
  PROVE  LET list == s.providerIDs
             n == NextProvider(l, s)
             k == AfterNextProvider(l, s).index
         IN  /\ AfterNextProvider(l, s) = [l EXCEPT !.index = k]
             /\ k \in Nat /\ l.index < k
             /\ n # None => /\ SloProviders(s) # {}
                            /\ k \in 1 .. Len(list) /\ n = list[k]
                            /\ n \in Providers /\ n # l.iremote
             /\ SloProviders(s) # {} =>
                  /\ FirstOf(list, k) \subseteq FirstOf(list, l.index) \cup {n, l.iremote}
                  /\ n = None => FirstOf(list, Len(list)) \subseteq FirstOf(list, k)
<1> DEFINE list == s.providerIDs
           L == Len(list)
           n == NextProvider(l, s)
           k == AfterNextProvider(l, s).index
<1>1. /\ list \in Seq(Providers) /\ L \in Nat /\ DOMAIN list = 1 .. L /\ l.index \in Nat
      /\ \A i \in 1 .. L : list[i] \in Providers
  BY DEF Session, Logout
<1>2. k = IF Skips(l, s) THEN l.index + 2 ELSE l.index + 1
  BY <1>1 DEF AfterNextProvider, Logout
<1>3. AfterNextProvider(l, s) = [l EXCEPT !.index = k]
  BY <1>2 DEF AfterNextProvider, Logout
<1>4. k \in Nat /\ l.index < k
  BY <1>1, <1>2
<1> HIDE DEF k
<1>5. n = IF SloProviders(s) # {} /\ k \in 1 .. L THEN list[k] ELSE None
  <2>1. n = ProviderIndex(s, k - 1, None)
    BY <1>1, <1>2 DEF NextProvider
  <2> QED BY <1>1, <1>4, <2>1 DEF ProviderIndex
<1> HIDE DEF n
<1>6. \A i, j \in 1 .. L : list[i] = list[j] => i = j
  BY DEF IsOrder
<1>7. Skips(l, s) => /\ SloProviders(s) # {} /\ l.index + 1 \in 1 .. L
                     /\ list[l.index + 1] = l.iremote
  BY <1>1 DEF Skips, ProviderIndex
<1>8. ~ Skips(l, s) /\ SloProviders(s) # {} /\ l.index + 1 \in 1 .. L /\ l.iremote # None
        => list[l.index + 1] # l.iremote
  BY <1>1 DEF Skips, ProviderIndex
<1>9. n # None => /\ SloProviders(s) # {} /\ k \in 1 .. L /\ n = list[k] /\ n \in Providers
                  /\ n # l.iremote
  <2> SUFFICES ASSUME n # None
               PROVE  /\ SloProviders(s) # {} /\ k \in 1 .. L /\ n = list[k] /\ n \in Providers
                      /\ n # l.iremote
    OBVIOUS
  <2>1. SloProviders(s) # {} /\ k \in 1 .. L /\ n = list[k] /\ n \in Providers
    BY <1>1, <1>5
  <2>2. CASE Skips(l, s)
    <3>1. k = l.index + 2 /\ k # l.index + 1
      BY <1>1, <1>2, <2>2
    <3> QED BY <1>6, <1>7, <2>1, <2>2, <3>1
  <2>3. CASE ~ Skips(l, s)
    <3>1. k = l.index + 1
      BY <1>2, <2>3
    <3> QED BY <1>8, <2>1, <2>3, <3>1
  <2> QED BY <2>1, <2>2, <2>3
<1>10. ASSUME SloProviders(s) # {}, NEW x \in FirstOf(list, k)
       PROVE  x \in FirstOf(list, l.index) \cup {n, l.iremote}
  <2>1. PICK i \in 1 .. L : i <= k /\ x = list[i]
    BY DEF FirstOf
  <2>2. CASE i <= l.index
    BY <2>1, <2>2 DEF FirstOf
  <2>3. CASE i = k
    BY <1>5, <1>10, <2>1, <2>3
  <2>4. CASE Skips(l, s) /\ i = l.index + 1
    BY <1>7, <2>1, <2>4
  <2> HIDE DEF L, list
  <2> QED BY <1>1, <1>2, <1>4, <2>1, <2>2, <2>3, <2>4
<1>11. ASSUME SloProviders(s) # {}, n = None
       PROVE  FirstOf(list, L) \subseteq FirstOf(list, k)
  <2>1. L < k
    <3>1. ~ (k \in 1 .. L)
      BY <1>1, <1>5, <1>11, RolesAreTyped
    <3> HIDE DEF L
    <3> QED BY <1>1, <1>4, <3>1
  <2>2. \A j \in 1 .. L : j <= k
    <3> HIDE DEF L
    <3> QED BY <1>1, <1>4, <2>1
  <2> QED BY <2>2 DEF FirstOf
<1> QED BY <1>3, <1>4, <1>9, <1>10, <1>11 DEF n, k

LEMMA FirstOfNone ==
  ASSUME NEW list \in Seq(Providers)
  PROVE  FirstOf(list, 0) = {}
BY DEF FirstOf

LEMMA EmptyList ==
  ASSUME NEW list, list = <<>>
  PROVE  IsOrder(list, FirstOf(list, Len(list))) /\ \A n : FirstOf(list, n) = {}
<1>1. Len(<<>>) = 0 /\ 1 .. 0 = {} /\ <<>> \in Seq({})
  OBVIOUS
<1>2. \A n : FirstOf(list, n) = {}
  BY <1>1 DEF FirstOf
<1> QED BY <1>1, <1>2 DEF IsOrder

\* A fresh list covers the session.
LEMMA OrderCovers ==
  ASSUME NEW S, NEW list, IsOrder(list, S)
  PROVE  FirstOf(list, Len(list)) = S /\ list \in Seq(S)
<1>1. list \in Seq(S) /\ Len(list) \in Nat /\ \A i \in 1 .. Len(list) : list[i] \in S
  BY DEF IsOrder
<1> QED BY <1>1 DEF FirstOf, IsOrder

\* What a call of lasso_session_get_provider_index leaves of the session.
LEMMA AfterProviderIndexFacts ==
  ASSUME SessionInv, Listing, NEW s \in AfterProviderIndex(sess)
  PROVE  /\ Sound(s) /\ Bare(s) /\ s.assertions = sess.assertions /\ s.nids = sess.nids
         /\ SloProviders(s) = SloProviders(sess)
         /\ IsOrder(s.providerIDs, FirstOf(s.providerIDs, Len(s.providerIDs)))
         /\ s.providerIDs = <<>> => SloProviders(sess) = {}
         /\ s.providerIDs # <<>> =>
              SloProviders(sess) \subseteq FirstOf(s.providerIDs, Len(s.providerIDs))
         /\ s.providerIDs = sess.providerIDs \/ lo.index = 0
<1>1. CASE SloProviders(sess) # {} /\ sess.providerIDs = <<>>
  <2>1. s \in InitProviderIds(sess)
    BY <1>1 DEF AfterProviderIndex
  <2>2. /\ Sound(s) /\ s.assertions = sess.assertions /\ s.nids = sess.nids
        /\ IsOrder(s.providerIDs, SloProviders(sess))
    BY <2>1, InitProviderIdsList DEF SessionInv
  <2>3. FirstOf(s.providerIDs, Len(s.providerIDs)) = SloProviders(sess)
    BY <2>2, OrderCovers
  <2>4. s.providerIDs # <<>>
    BY <1>1, <2>2 DEF IsOrder
  <2> QED BY <1>1, <2>2, <2>3, <2>4, SameTablesSame DEF SessionInv, Listing
<1>2. CASE ~ (SloProviders(sess) # {} /\ sess.providerIDs = <<>>)
  BY <1>2 DEF AfterProviderIndex, SessionInv, Listing
<1> QED BY <1>1, <1>2

\* Removing an assertion keeps the list a cover of the session.
LEMMA RemovalKeepsListing ==
  ASSUME SessionInv, Listing, NEW p \in Providers, sess' = RemoveAssertion(sess, p),
         lo'.index = lo.index, tried \subseteq tried',
         pc = "ask" => (pc' = "ask" /\ cur' = cur) \/ cur \in tried'
  PROVE  SessionInv' /\ Listing'
<1>1. /\ Sound(sess') /\ Bare(sess') /\ sess'.providerIDs = sess.providerIDs
      /\ SloProviders(sess') \subseteq SloProviders(sess)
  BY RemoveAssertionSound, RemoveAssertionOut DEF SessionInv
<1> QED BY <1>1 DEF SessionInv, Listing

\* What is counted can be removed.
LEMMA CountedRemovable ==
  ASSUME NEW s, NEW p \in Counted(s)
  PROVE  RemoveAssertionOk(s, p)
BY DEF Counted, SloProviders, StoredProviders, RemoveAssertionOk

\* Nothing can be removed where nobody is counted.
LEMMA NobodyRemovable ==
  ASSUME NEW s, Sound(s), Bare(s), Counted(s) = {}
  PROVE  \A q \in Providers : ~ RemoveAssertionOk(s, q)
<1>1. SloProviders(s) = {} /\ StoredProviders(s) = {}
  BY CountZero DEF Bare, Counted
<1> QED BY <1>1 DEF SloProviders, StoredProviders, RemoveAssertionOk

-----------------------------------------------------------------------------
(* The steps that do not depend on the protocol *)

LEMMA ResetStep == CommonInv /\ ResetProviderIDIndex => CommonInv'
<1> SUFFICES ASSUME CommonInv, ResetProviderIDIndex PROVE CommonInv'
  OBVIOUS
<1>1. /\ sess' \in InitProviderIds(sess) /\ lo' = lo /\ lo.index = 0
      /\ UNCHANGED <<pc, req, cur, final, targets, tried, redirected, confirmed, partly>>
      /\ pc \in {"validate", "traverse"}
  BY DEF ResetProviderIDIndex, CommonInv, TypeOK, Logout, history
<1>2. /\ Sound(sess') /\ sess'.assertions = sess.assertions /\ sess'.nids = sess.nids
      /\ IsOrder(sess'.providerIDs, SloProviders(sess))
  BY <1>1, InitProviderIdsList DEF CommonInv, SessionInv
<1>3. /\ SloProviders(sess') = SloProviders(sess) /\ (Bare(sess) => Bare(sess'))
      /\ \A q : RemoveAssertionOk(sess', q) <=> RemoveAssertionOk(sess, q)
  BY <1>2, SameTablesSame
<1>4. TypeOK'
  BY <1>1, <1>2 DEF CommonInv, TypeOK, Sound, StoredSound
<1>5. SessionInv' /\ Flow' /\ Gone' /\ InitialKept'
  BY <1>1, <1>2, <1>3 DEF CommonInv, SessionInv, Flow, Gone, InitialKept
<1>6. FirstOf(sess'.providerIDs, Len(sess'.providerIDs)) = SloProviders(sess')
  BY <1>2, <1>3, OrderCovers
<1>7. sess'.providerIDs \in Seq(Providers)
  BY <1>2 DEF Sound, StoredSound, Session
<1>8. FirstOf(sess'.providerIDs, lo'.index) = {}
  BY <1>1, <1>7, FirstOfNone
<1>9. Listing' /\ WholeSessionTried'
  BY <1>1, <1>2, <1>3, <1>6, <1>8 DEF Listing, WholeSessionTried
<1> QED BY <1>4, <1>5, <1>9 DEF CommonInv

\* The provider returned is not the requester: that one is skipped.
LEMMA NextStep ==
  ASSUME CommonInv, GetNextProviderID
  PROVE  /\ CommonInv'
         /\ pc' = "ask" => /\ lo'.index \in 1 .. Len(sess'.providerIDs)
                           /\ cur' = sess'.providerIDs[lo'.index]
                           /\ req # None => cur' # req.from
         /\ lo' = [lo EXCEPT !.index = lo'.index] /\ lo'.index \in Nat /\ lo.index < lo'.index
         /\ sess'.assertions = sess.assertions /\ sess'.nids = sess.nids
         /\ sess'.providerIDs = sess.providerIDs \/ lo.index = 0
<1> DEFINE list == sess'.providerIDs
<1>1. /\ pc = "traverse" /\ sess' \in AfterProviderIndex(sess)
      /\ cur' = NextProvider(lo, sess') /\ lo' = AfterNextProvider(lo, sess')
      /\ pc' = IF cur' # None THEN "ask" ELSE IF req = None THEN "done" ELSE "respond"
      /\ UNCHANGED <<req, final, targets, tried, redirected, confirmed, partly>>
  BY DEF GetNextProviderID, history
<1>2. /\ Sound(sess') /\ Bare(sess') /\ sess'.assertions = sess.assertions /\ sess'.nids = sess.nids
      /\ SloProviders(sess') = SloProviders(sess)
      /\ IsOrder(list, FirstOf(list, Len(list)))
      /\ list = <<>> => SloProviders(sess) = {}
      /\ list # <<>> => SloProviders(sess) \subseteq FirstOf(list, Len(list))
      /\ list = sess.providerIDs \/ lo.index = 0
  BY <1>1, AfterProviderIndexFacts DEF CommonInv
<1>3. \A q : RemoveAssertionOk(sess', q) <=> RemoveAssertionOk(sess, q)
  BY <1>2, SameTablesSame
<1>4. lo \in Logout /\ sess' \in Session /\ list \in Seq(Providers) /\ lo.index \in Nat
  BY <1>2 DEF CommonInv, TypeOK, Sound, StoredSound, Session, Logout
<1>5. /\ lo' = [lo EXCEPT !.index = lo'.index] /\ lo'.index \in Nat /\ lo.index < lo'.index
      /\ cur' # None => /\ SloProviders(sess') # {}
                        /\ lo'.index \in 1 .. Len(list) /\ cur' = list[lo'.index]
                        /\ cur' \in Providers /\ cur' # lo.iremote
      /\ SloProviders(sess') # {} =>
           /\ FirstOf(list, lo'.index) \subseteq FirstOf(list, lo.index) \cup {cur', lo.iremote}
           /\ cur' = None => FirstOf(list, Len(list)) \subseteq FirstOf(list, lo'.index)
  <2>1. lo'.index = AfterNextProvider(lo, sess').index
    BY <1>1
  <2> HIDE DEF list
  <2> QED BY <1>1, <1>2, <1>4, <2>1, NextProviderFacts DEF list
<1>6. /\ lo' \in Logout /\ lo'.iremote = lo.iremote /\ lo'.iresponse = lo.iresponse
  BY <1>4, <1>5 DEF Logout
<1>7. TypeOK'
  BY <1>1, <1>4, <1>5, <1>6 DEF CommonInv, TypeOK, Pcs
<1>8. req # None /\ SloProviders(sess) # {} => lo.iremote = req.from /\ lo.iresponse = Response(Local, "Success")
  BY <1>1 DEF CommonInv, InitialKept
<1>9. SessionInv' /\ Gone'
  BY <1>1, <1>2, <1>3 DEF CommonInv, SessionInv, Gone, Traversing
<1>10. Flow'
  BY <1>1, <1>2, <1>5, <1>6, <1>8 DEF CommonInv, Flow
<1>11. InitialKept'
  BY <1>1, <1>2, <1>5, <1>6, <1>8 DEF InitialKept
<1>12. req # None => req.from \notin SloProviders(sess)
  BY <1>1 DEF CommonInv, Gone, Traversing, RemoveAssertionOk, SloProviders
<1>13. lo.iremote \notin SloProviders(sess)
  <2>1. CASE lo.iremote = None
    BY <2>1, RolesAreTyped DEF SloProviders
  <2>2. CASE lo.iremote # None
    BY <1>1, <1>8, <1>12, <2>2 DEF CommonInv, Flow
  <2> QED BY <2>1, <2>2
<1>14. FirstOf(list, lo.index) \cap SloProviders(sess) \subseteq tried
  <2>1. CASE list = sess.providerIDs
    BY <1>1, <2>1 DEF CommonInv, Listing
  <2>2. CASE lo.index = 0
    BY <1>4, <2>2, FirstOfNone
  <2> QED BY <1>2, <2>1, <2>2
<1>15. FirstOf(list, lo'.index) \cap SloProviders(sess') \subseteq tried' \cup (IF pc' = "ask" THEN {cur'} ELSE {})
  BY <1>1, <1>2, <1>5, <1>13, <1>14, RolesAreTyped DEF SloProviders
<1>16. Listing'
  BY <1>2, <1>15 DEF Listing
<1>17. WholeSessionTried'
  BY <1>1, <1>2, <1>5, <1>15 DEF WholeSessionTried
<1>18. pc' = "ask" /\ req # None => cur' # req.from
  BY <1>1, <1>2, <1>5, <1>8
<1> QED BY <1>1, <1>2, <1>5, <1>7, <1>9, <1>10, <1>11, <1>16, <1>17, <1>18 DEF CommonInv

LEMMA RedirectStep == CommonInv /\ Redirect => CommonInv'
<1> SUFFICES ASSUME CommonInv, Redirect PROVE CommonInv'
  OBVIOUS
<1>1. /\ pc = "redirect" /\ sess' = Restore(Dump(sess)) /\ lo' = RestoreLogout(lo)
      /\ redirected' = redirected \cup {cur} /\ pc' = "away"
      /\ UNCHANGED <<req, cur, final, targets, tried, confirmed, partly>>
  BY DEF Redirect
<1>2. /\ Sound(sess') /\ Bare(sess') /\ SloProviders(sess') = SloProviders(sess)
      /\ sess'.providerIDs = <<>>
      /\ \A q \in Providers : RemoveAssertionOk(sess', q) <=> RemoveAssertionOk(sess, q)
  BY <1>1, RestoreDumpSame DEF CommonInv, SessionInv
<1>3. /\ lo' \in Logout /\ lo'.iremote = lo.iremote /\ lo'.iresponse = lo.iresponse /\ lo'.index = 0
  BY <1>1 DEF CommonInv, TypeOK, Logout, RestoreLogout
<1>4. cur \in tried
  BY <1>1 DEF CommonInv, Flow
<1>5. TypeOK'
  BY <1>1, <1>2, <1>3, <1>4 DEF CommonInv, TypeOK, Pcs, Sound, StoredSound
<1>6. req # None => req.from \in Providers /\ lo.iremote = req.from
  BY <1>1, LogoutInputs DEF CommonInv, TypeOK, Flow
<1>7. SessionInv' /\ Flow' /\ Gone' /\ InitialKept'
  <2>1. InitialKept'
    BY <1>1, <1>2, <1>3, <1>6, RolesAreTyped DEF CommonInv, InitialKept
  <2>2. Flow'
    BY <1>1, <1>3, <1>4, <1>6 DEF CommonInv, Flow
  <2>3. SessionInv' /\ Gone'
    BY <1>1, <1>2, <1>6 DEF CommonInv, SessionInv, Gone, Traversing
  <2> QED BY <2>1, <2>2, <2>3
<1>8. Listing' /\ WholeSessionTried'
  BY <1>1, <1>2, <1>3, EmptyList DEF Listing, WholeSessionTried
<1> QED BY <1>5, <1>7, <1>8 DEF CommonInv

LEMMA WaitStep == CommonInv /\ (Refuse \/ StartLocally \/ NoAnswer \/ UNCHANGED vars) => CommonInv'
<1> SUFFICES ASSUME CommonInv, Refuse \/ StartLocally \/ NoAnswer \/ UNCHANGED vars
             PROVE  CommonInv'
  OBVIOUS
<1>1. /\ UNCHANGED <<sess, lo, req, cur, final, targets, tried, redirected, confirmed, partly>>
      /\ \/ pc = "validate" /\ pc' = "respond"
         \/ pc = "idle" /\ pc' = "traverse"
         \/ pc = "call" /\ pc' = "traverse"
         \/ pc' = pc
  BY DEF Refuse, StartLocally, NoAnswer, vars, history
<1>2. TypeOK' /\ SessionInv'
  BY <1>1 DEF CommonInv, TypeOK, SessionInv, Pcs
<1>3. Flow' /\ Gone' /\ InitialKept'
  BY <1>1 DEF CommonInv, Flow, Gone, InitialKept, Traversing
<1>4. Listing' /\ WholeSessionTried'
  BY <1>1 DEF CommonInv, Listing, WholeSessionTried, Flow, TypeOK, Logout
<1> QED BY <1>2, <1>3, <1>4 DEF CommonInv

-----------------------------------------------------------------------------
(* The beginning *)

\* A login of which lasso_session_count_assertions knows: a thin session
\* counts only what it can log out.
Countable == ThinSessions => \A p \in Providers : HasSloData(LoginOf[p])

LEMMA SessionWithFacts ==
  ASSUME NEW L \in SUBSET Providers
  PROVE  /\ Sound(SessionWith(L)) /\ Bare(SessionWith(L)) /\ SessionWith(L).providerIDs = <<>>
         /\ Countable => Counted(SessionWith(L)) = L
         /\ (\A p \in Providers : HasSloData(LoginOf[p])) => SloProviders(SessionWith(L)) = L
<1> DEFINE t == [p \in Providers |-> IF p \in L THEN LoginOf[p] ELSE NoAssertion]
           d == [EmptySession EXCEPT !.assertions = t]
           r == SessionWith(L)
<1>1. \A p \in Providers : LoginOf[p] \in Assertion /\ LoginOf[p] # NoAssertion
  BY LogoutInputs, NullsAreApart DEF Assertion
<1>2. t \in [Providers -> Assertion \cup {NoAssertion}]
  BY <1>1
<1>3. EmptySession \in Session
  BY EmptySound DEF StoredSound
<1>4. /\ d \in Session /\ d.assertions = t
      /\ d.nids = [p \in Providers |-> {}] /\ d.first = [p \in Providers |-> NoNameID]
  <2> HIDE DEF t
  <2> QED BY <1>2, <1>3 DEF Session, EmptySession
<1>5. r = Restore(d)
  BY DEF SessionWith
<1> HIDE DEF d
<1>6. StoredSound(d)
  BY <1>4 DEF StoredSound, NoDoublonsIn, FirstIsListedIn, EntriesBackedIn
<1>7. Sound(r) /\ r.providerIDs = <<>>
  BY <1>5, <1>6, RestoreSound DEF Restore
<1>8. /\ r.assertions = [p \in Providers |-> IF ThinSessions THEN NoAssertion ELSE d.assertions[p]]
      /\ r.nids = [p \in Providers |-> RestoredEntries(d, p)]
  BY <1>5 DEF Restore
<1> HIDE DEF r
<1>9. Bare(r)
  BY <1>8 DEF Bare, StoredProviders
<1>10. ~ ThinSessions => StoredProviders(r) = L
  BY <1>1, <1>4, <1>8 DEF StoredProviders
<1>11. ASSUME \A p \in Providers : HasSloData(LoginOf[p]) PROVE SloProviders(r) = L
  <2>1. ASSUME NEW p \in Providers PROVE r.nids[p] # {} <=> p \in L
    <3>1. CASE p \in L
      BY <1>1, <1>4, <1>8, <1>11, <3>1 DEF RestoredEntries
    <3>2. CASE p \notin L
      BY <1>4, <1>8, <3>2 DEF RestoredEntries
    <3> QED BY <3>1, <3>2
  <2> QED BY <2>1 DEF SloProviders, HasSloSession
<1> QED BY <1>7, <1>9, <1>10, <1>11, ThinIsFlag DEF r, Counted, Countable

LEMMA InitCommon == Init => CommonInv
<1> SUFFICES ASSUME Init PROVE CommonInv
  OBVIOUS
<1>1. PICK L \in SUBSET Providers : sess = SessionWith(L) /\ targets = L
  BY DEF Init
<1>2. SessionInv /\ sess \in Session /\ sess.providerIDs = <<>>
  BY <1>1, SessionWithFacts DEF SessionInv, Sound, StoredSound
<1>3. lo \in Logout /\ lo = NewLogout
  BY DEF Init, Logout, NewLogout
<1>4. lo.index = 0 /\ lo.iremote = None /\ lo.response = None
  BY <1>3 DEF NewLogout
<1>5. TypeOK
  BY <1>1, <1>2, <1>3 DEF Init, TypeOK, Pcs
<1>6. Flow /\ Gone /\ InitialKept /\ WholeSessionTried
  BY <1>4 DEF Init, Flow, Gone, InitialKept, WholeSessionTried, Traversing
<1>7. Listing
  BY <1>2, <1>4, EmptyList DEF Listing
<1> QED BY <1>2, <1>5, <1>6, <1>7 DEF CommonInv

-----------------------------------------------------------------------------
(* Nobody is asked twice before a dump resets the index *)

\* The providers tried are the ones before the index.
Behind ==
  /\ pc # "ask" => tried \subseteq FirstOf(sess.providerIDs, lo.index)
  /\ pc = "ask" => /\ lo.index \in 1 .. Len(sess.providerIDs)
                   /\ cur = sess.providerIDs[lo.index]
                   /\ tried \subseteq FirstOf(sess.providerIDs, lo.index - 1)

\* The requester is neither tried nor about to be.
Spared ==
  req # None => req.from \notin tried /\ (pc = "ask" => cur # req.from)

Advancing == Spared /\ (redirected = {} => Behind)

LEMMA FirstOfGrows ==
  ASSUME NEW list \in Seq(Providers), NEW n \in Nat, NEW k \in Nat, n <= k
  PROVE  FirstOf(list, n) \subseteq FirstOf(list, k)
<1>1. Len(list) \in Nat
  OBVIOUS
<1>2. \A j \in 1 .. Len(list) : j <= n => j <= k
  BY <1>1
<1> QED BY <1>2 DEF FirstOf

LEMMA FirstOfFresh ==
  ASSUME NEW list \in Seq(Providers), IsOrder(list, FirstOf(list, Len(list))),
         NEW k \in 1 .. Len(list)
  PROVE  /\ list[k] \notin FirstOf(list, k - 1) /\ list[k] \in FirstOf(list, k)
         /\ FirstOf(list, k - 1) \subseteq FirstOf(list, k)
<1>1. Len(list) \in Nat /\ k \in Nat /\ k <= k
  OBVIOUS
<1>2. \A i \in 1 .. Len(list) : list[i] = list[k] => ~ (i <= k - 1)
  BY <1>1 DEF IsOrder
<1>3. \A j \in 1 .. Len(list) : j <= k - 1 => j <= k
  BY <1>1
<1> QED BY <1>1, <1>2, <1>3 DEF FirstOf

\* What the position of the traversal means: the provider about to be asked
\* comes after those that were tried, in a list that has nobody twice.
LEMMA AdvancingAsksOnce ==
  ASSUME CommonInv, Advancing, redirected = {}
  PROVE  AskedOnce
<1> SUFFICES ASSUME pc = "ask" PROVE cur \notin tried /\ (req # None => cur # req.from)
  BY DEF AskedOnce
<1> DEFINE list == sess.providerIDs
<1>1. list \in Seq(Providers) /\ IsOrder(list, FirstOf(list, Len(list)))
  BY DEF CommonInv, TypeOK, Session, Listing
<1>2. lo.index \in 1 .. Len(list) /\ cur = list[lo.index] /\ tried \subseteq FirstOf(list, lo.index - 1)
  BY DEF Advancing, Behind
<1> HIDE DEF list
<1>3. cur \notin tried
  BY <1>1, <1>2, FirstOfFresh
<1> QED BY <1>3 DEF Advancing, Spared

\* A step that tries nobody and moves neither the list nor the index.
LEMMA AdvancingKept ==
  ASSUME Advancing, UNCHANGED <<tried, redirected>>, req' = req \/ tried = {},
         pc # "ask", pc' # "ask",
         \/ redirected # {} \/ tried = {}
         \/ sess'.providerIDs = sess.providerIDs /\ lo'.index = lo.index
  PROVE  Advancing'
<1>1. Spared'
  BY DEF Advancing, Spared
<1>2. redirected' = {} => Behind'
  BY DEF Advancing, Behind
<1> QED BY <1>1, <1>2 DEF Advancing

\* A step that asks the provider at the index.
LEMMA AdvancingAsks ==
  ASSUME CommonInv, Advancing, pc = "ask", pc' # "ask", tried' = tried \cup {cur},
         UNCHANGED <<req, redirected>>,
         sess'.providerIDs = sess.providerIDs, lo'.index = lo.index
  PROVE  Advancing'
<1> DEFINE list == sess.providerIDs
<1>1. Spared'
  BY DEF Advancing, Spared
<1>2. ASSUME redirected = {} PROVE Behind'
  <2>1. list \in Seq(Providers) /\ IsOrder(list, FirstOf(list, Len(list)))
    BY DEF CommonInv, TypeOK, Session, Listing
  <2>2. lo.index \in 1 .. Len(list) /\ cur = list[lo.index] /\ tried \subseteq FirstOf(list, lo.index - 1)
    BY <1>2 DEF Advancing, Behind
  <2> HIDE DEF list
  <2>3. tried' \subseteq FirstOf(list, lo.index)
    BY <2>1, <2>2, FirstOfFresh
  <2> QED BY <2>3 DEF Behind, list
<1> QED BY <1>1, <1>2 DEF Advancing

\* The steps both protocols share.
LEMMA AdvancingShared ==
  ASSUME CommonInv, Advancing,
         \/ ResetProviderIDIndex \/ GetNextProviderID \/ Redirect
         \/ Refuse \/ StartLocally \/ NoAnswer \/ UNCHANGED vars
  PROVE  Advancing'
<1>1. CASE GetNextProviderID
  <2> DEFINE list == sess'.providerIDs
  <2>1. /\ pc' = "ask" => /\ lo'.index \in 1 .. Len(list) /\ cur' = list[lo'.index]
                          /\ req # None => cur' # req.from
        /\ lo'.index \in Nat /\ lo.index < lo'.index
        /\ list = sess.providerIDs \/ lo.index = 0
        /\ CommonInv'
    BY <1>1, NextStep
  <2>2. /\ pc = "traverse" /\ pc' \in {"ask", "done", "respond"}
        /\ tried' = tried /\ req' = req /\ redirected' = redirected
    BY <1>1 DEF GetNextProviderID, history
  <2>3. Spared'
    BY <2>1, <2>2 DEF Advancing, Spared
  <2>4. ASSUME redirected = {} PROVE Behind'
    <3>1. /\ list \in Seq(Providers) /\ sess.providerIDs \in Seq(Providers) /\ lo.index \in Nat
      BY <2>1 DEF CommonInv, TypeOK, Session, Logout
    <3>2. tried \subseteq FirstOf(list, lo.index)
      <4>1. tried \subseteq FirstOf(sess.providerIDs, lo.index)
        BY <2>2, <2>4 DEF Advancing, Behind
      <4> QED BY <2>1, <3>1, <4>1, FirstOfNone
    <3> HIDE DEF list
    <3>3. lo'.index - 1 \in Nat /\ lo.index <= lo'.index - 1 /\ lo.index <= lo'.index
      BY <2>1, <3>1
    <3>4. tried \subseteq FirstOf(list, lo'.index - 1) /\ tried \subseteq FirstOf(list, lo'.index)
      BY <2>1, <3>1, <3>2, <3>3, FirstOfGrows
    <3> QED BY <2>1, <2>2, <3>4 DEF Behind, list
  <2> QED BY <2>2, <2>3, <2>4 DEF Advancing
<1>2. CASE ResetProviderIDIndex
  <2>1. /\ pc \in {"validate", "traverse"} /\ pc' = pc /\ lo.index = 0
        /\ UNCHANGED <<req, tried, redirected>>
    BY <1>2 DEF ResetProviderIDIndex, history
  <2>2. redirected = {} => tried = {}
    BY <2>1, FirstOfNone DEF Advancing, Behind, CommonInv, TypeOK, Session
  <2> QED BY <2>1, <2>2, AdvancingKept
<1>3. CASE Redirect
  <2>1. pc' = "away" /\ redirected' # {} /\ UNCHANGED <<req, tried>>
    BY <1>3 DEF Redirect
  <2> QED BY <2>1 DEF Advancing, Spared
<1>4. CASE Refuse \/ StartLocally \/ NoAnswer
  <2>1. /\ pc # "ask" /\ pc' # "ask" /\ UNCHANGED <<req, tried, redirected, sess, lo>>
    BY <1>4 DEF Refuse, StartLocally, NoAnswer, history
  <2> QED BY <2>1, AdvancingKept
<1>5. CASE UNCHANGED vars
  BY <1>5 DEF vars, Advancing, Spared, Behind
<1> QED BY <1>1, <1>2, <1>3, <1>4, <1>5

\* A logout begins with nobody tried.
LEMMA InitAdvancing == Init => Advancing
BY DEF Init, Advancing, Spared, Behind
=============================================================================
