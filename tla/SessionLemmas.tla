---------------------------- MODULE SessionLemmas ----------------------------
(***************************************************************************)
(* What the operators of SessionOps keep, for any session value: lemmas    *)
(* for the proofs about the session and about the single logouts.          *)
(*                                                                         *)
(* A session is sound when its two tables fit together.  A dump written    *)
(* before entries were dumped need not list its assertions, so a dump is   *)
(* held to less than an object: StoredSound against Sound.                 *)
(***************************************************************************)
EXTENDS SessionOps, FiniteSetTheorems, TLAPS

StoredSound(s) ==
  /\ s \in Session
  /\ NoDoublonsIn(s)
  /\ FirstIsListedIn(s)
  /\ ~ ThinSessions => EntriesBackedIn(s)

Sound(s) ==
  /\ StoredSound(s)
  /\ ~ ThinSessions => StoredListedIn(s)

-----------------------------------------------------------------------------
(* The operators keep sessions sound *)

\* A session without logins is sound.
LEMMA EmptySound == StoredSound(EmptySession)
<1>1. EmptySession \in Session
  BY DEF EmptySession, Session
<1> QED BY <1>1 DEF StoredSound, EmptySession, NoDoublonsIn, FirstIsListedIn, EntriesBackedIn

\* A restored object is sound when the dump is: the entry of the stored
\* assertion is put first and dumped entries with its key are dropped.
LEMMA RestoreSound ==
  ASSUME NEW d, StoredSound(d)
  PROVE  Sound(Restore(d))
<1>1. Restore(d) \in Session
  BY ThinIsFlag DEF StoredSound, Session, Restore, RestoredEntries, RestoredFirst, HasSloData, EntryOf, Entry, Assertion
<1>2. NoDoublonsIn(Restore(d))
  BY DEF StoredSound, NoDoublonsIn, Restore, RestoredEntries, SameKey, Session
<1>3. FirstIsListedIn(Restore(d))
  <2> SUFFICES ASSUME NEW p \in Providers
               PROVE  IF RestoredEntries(d, p) = {}
                      THEN RestoredFirst(d, p) = NoNameID
                      ELSE \E e \in RestoredEntries(d, p) : e.nid = RestoredFirst(d, p)
    BY DEF FirstIsListedIn, Restore
  <2>1. CASE d.assertions[p] # NoAssertion /\ HasSloData(d.assertions[p])
    <3>1. EntryOf(d.assertions[p]) \in RestoredEntries(d, p)
      BY <2>1 DEF RestoredEntries
    <3>2. EntryOf(d.assertions[p]).nid = RestoredFirst(d, p)
      BY <2>1 DEF RestoredFirst, EntryOf
    <3> QED BY <3>1, <3>2
  <2>2. CASE ~ (d.assertions[p] # NoAssertion /\ HasSloData(d.assertions[p]))
    <3>1. RestoredEntries(d, p) = d.nids[p] /\ RestoredFirst(d, p) = d.first[p]
      BY <2>2 DEF RestoredEntries, RestoredFirst
    <3> QED BY <3>1 DEF StoredSound, FirstIsListedIn
  <2> QED BY <2>1, <2>2
<1>4. ~ ThinSessions => EntriesBackedIn(Restore(d)) /\ StoredListedIn(Restore(d))
  BY DEF StoredSound, EntriesBackedIn, StoredListedIn, Restore, RestoredEntries, EntryOf, SameKey
<1> QED BY <1>1, <1>2, <1>3, <1>4 DEF Sound, StoredSound

\* Adding an assertion: the new entry is listed or its key already is.
LEMMA AddAssertionSound ==
  ASSUME NEW s, Sound(s), NEW p \in Providers, NEW a \in Assertion
  PROVE  Sound(AddAssertion(s, p, a))
<1> DEFINE t == AddAssertionSimple(s, p, a)
           u == AddAssertionNidAndSessionIndex(t, p, a)
           r == AddAssertion(s, p, a)
<1>1. t \in Session /\ t.nids = s.nids /\ t.first = s.first
  BY ThinIsFlag DEF AddAssertionSimple, Sound, StoredSound, Session
<1>2. ~ ThinSessions => t.assertions = [s.assertions EXCEPT ![p] = a]
  BY DEF AddAssertionSimple, Sound, StoredSound, Session
<1>3. HasSloData(a) => EntryOf(a) \in Entry
  BY DEF HasSloData, EntryOf, Entry, Assertion
<1>4. u \in Session /\ u.assertions = t.assertions
  BY <1>1, <1>3 DEF AddAssertionNidAndSessionIndex, AddNidAndSessionIndex, Session, Entry
<1>5. r \in Session /\ r.assertions = u.assertions /\ r.nids = u.nids /\ r.first = u.first
  BY <1>4 DEF AddAssertion, Session
<1>6. \/ r.nids = s.nids /\ r.first = s.first
      \/ /\ HasSloData(a)
         /\ \A f \in s.nids[p] : ~ SameKey(EntryOf(a), f)
         /\ r.nids = [s.nids EXCEPT ![p] = @ \cup {EntryOf(a)}]
         /\ r.first = [s.first EXCEPT ![p] = IF s.nids[p] = {} THEN EntryOf(a).nid ELSE @]
  BY <1>1, <1>5 DEF AddAssertionNidAndSessionIndex, AddNidAndSessionIndex, Session
<1>7. HasSloData(a) => \E e \in r.nids[p] : SameKey(e, EntryOf(a))
  <2> SUFFICES ASSUME HasSloData(a) PROVE \E e \in r.nids[p] : SameKey(e, EntryOf(a))
    OBVIOUS
  <2>1. CASE \E f \in t.nids[p] : SameKey(EntryOf(a), f)
    BY <2>1, <1>5 DEF AddAssertionNidAndSessionIndex, AddNidAndSessionIndex, SameKey
  <2>2. CASE ~ \E f \in t.nids[p] : SameKey(EntryOf(a), f)
    <3>1. EntryOf(a) \in r.nids[p]
      BY <2>2, <1>1, <1>5 DEF AddAssertionNidAndSessionIndex, AddNidAndSessionIndex, Session
    <3> QED BY <3>1 DEF SameKey
  <2> QED BY <2>1, <2>2
<1> HIDE DEF r, t, u
<1>8. NoDoublonsIn(r)
  BY <1>6 DEF NoDoublonsIn, SameKey, Sound, StoredSound, Session
<1>9. FirstIsListedIn(r)
  <2> SUFFICES ASSUME NEW q \in Providers
               PROVE  IF r.nids[q] = {} THEN r.first[q] = NoNameID
                      ELSE \E e \in r.nids[q] : e.nid = r.first[q]
    BY DEF FirstIsListedIn
  <2>1. IF s.nids[q] = {} THEN s.first[q] = NoNameID
        ELSE \E e \in s.nids[q] : e.nid = s.first[q]
    BY DEF FirstIsListedIn, Sound, StoredSound
  <2>2. CASE r.nids[q] = s.nids[q] /\ r.first[q] = s.first[q]
    BY <2>1, <2>2
  <2>3. CASE ~ (r.nids[q] = s.nids[q] /\ r.first[q] = s.first[q])
    <3>1. /\ r.nids[q] = s.nids[q] \cup {EntryOf(a)}
          /\ r.first[q] = IF s.nids[q] = {} THEN EntryOf(a).nid ELSE s.first[q]
      BY <1>6, <2>3 DEF Sound, StoredSound, Session
    <3> QED BY <3>1, <2>1
  <2> QED BY <2>2, <2>3
<1>10. ~ ThinSessions => EntriesBackedIn(r)
  BY <1>2, <1>4, <1>5, <1>6, NullsAreApart DEF EntriesBackedIn, Sound, StoredSound, Session, Assertion
<1>11. ~ ThinSessions => StoredListedIn(r)
  <2> SUFFICES ASSUME ~ ThinSessions, NEW q \in Providers,
                      r.assertions[q] # NoAssertion, HasSloData(r.assertions[q])
               PROVE  \E e \in r.nids[q] : SameKey(e, EntryOf(r.assertions[q]))
    BY DEF StoredListedIn
  <2>1. r.assertions = [s.assertions EXCEPT ![p] = a]
    BY <1>2, <1>4, <1>5
  <2>2. CASE q = p
    BY <2>1, <2>2, <1>7 DEF Sound, StoredSound, Session
  <2>3. CASE q # p
    <3>1. r.assertions[q] = s.assertions[q] /\ r.nids[q] = s.nids[q]
      BY <2>1, <2>3, <1>6 DEF Sound, StoredSound, Session
    <3> QED BY <3>1 DEF StoredListedIn, Sound
  <2> QED BY <2>2, <2>3
<1> QED BY <1>5, <1>8, <1>9, <1>10, <1>11 DEF Sound, StoredSound, r

\* Removing clears both tables for the provider.
LEMMA RemoveAssertionSound ==
  ASSUME NEW s, Sound(s), NEW p \in Providers
  PROVE  Sound(RemoveAssertion(s, p))
<1> DEFINE r == RemoveAssertion(s, p)
<1>1. /\ r \in Session
      /\ r.assertions = [s.assertions EXCEPT ![p] = NoAssertion]
      /\ r.nids = [s.nids EXCEPT ![p] = {}]
      /\ r.first = [s.first EXCEPT ![p] = NoNameID]
  BY DEF RemoveAssertion, Sound, StoredSound, Session
<1> HIDE DEF r
<1>2. NoDoublonsIn(r)
  BY <1>1 DEF NoDoublonsIn, Sound, StoredSound, Session
<1>3. FirstIsListedIn(r)
  BY <1>1 DEF FirstIsListedIn, Sound, StoredSound, Session
<1>4. ~ ThinSessions => EntriesBackedIn(r) /\ StoredListedIn(r)
  BY <1>1 DEF EntriesBackedIn, StoredListedIn, Sound, StoredSound, Session
<1> QED BY <1>1, <1>2, <1>3, <1>4 DEF Sound, StoredSound, r

\* The other fields of a session do not matter for its soundness.
LEMMA SameTablesSound ==
  ASSUME NEW s, Sound(s), NEW r \in Session,
         r.assertions = s.assertions, r.nids = s.nids, r.first = s.first
  PROVE  Sound(r)
BY DEF Sound, StoredSound, NoDoublonsIn, FirstIsListedIn, EntriesBackedIn, StoredListedIn

\* The set of providers of a session is finite, and every order of it is a
\* sequence of providers.
LEMMA OrdersTyped ==
  ASSUME NEW s, NEW order \in Orders(SloProviders(s))
  PROVE  order \in Seq(Providers)
<1>1. SloProviders(s) \subseteq Providers /\ IsFiniteSet(SloProviders(s))
  BY ProvidersFinite, FS_Subset DEF SloProviders
<1>2. Cardinality(SloProviders(s)) \in Nat
  BY <1>1, FS_CardinalityType
<1> QED BY <1>1, <1>2 DEF Orders

\* A dump leaves out only the cached list and the flag.
LEMMA DumpTyped ==
  ASSUME NEW s \in Session
  PROVE  /\ Dump(s) \in Session /\ Dump(s).assertions = s.assertions
         /\ Dump(s).nids = s.nids /\ Dump(s).first = s.first
<1>1. <<>> \in Seq(Providers)
  OBVIOUS
<1>2. /\ Dump(s).assertions = s.assertions /\ Dump(s).nids = s.nids /\ Dump(s).first = s.first
  BY DEF Dump, Session
<1>3. Dump(s) \in Session
  BY <1>1 DEF Dump, Session
<1> QED BY <1>2, <1>3

LEMMA InitProviderIdsSound ==
  ASSUME NEW s, Sound(s), NEW r \in InitProviderIds(s)
  PROVE  Sound(r)
<1>1. PICK order \in Orders(SloProviders(s)) : r = [s EXCEPT !.providerIDs = order]
  BY DEF InitProviderIds
<1>2. order \in Seq(Providers)
  BY OrdersTyped
<1>3. r \in Session /\ r.assertions = s.assertions /\ r.nids = s.nids /\ r.first = s.first
  BY <1>1, <1>2 DEF Sound, StoredSound, Session
<1> QED BY <1>3, SameTablesSound

-----------------------------------------------------------------------------
(* What the tables hold after an operation *)

\* Adding touches the tables of one provider: the assertion replaces the one
\* before, and its entry is added unless the pair is listed already.
LEMMA AddAssertionTables ==
  ASSUME NEW s \in Session, NEW p \in Providers, NEW a \in Assertion
  PROVE  /\ AddAssertion(s, p, a) \in Session
         /\ AddAssertion(s, p, a).assertions[p] \in {s.assertions[p], a}
         /\ AddAssertion(s, p, a).nids[p] =
              IF HasSloData(a) /\ \A f \in s.nids[p] : ~ SameKey(EntryOf(a), f)
              THEN s.nids[p] \cup {EntryOf(a)} ELSE s.nids[p]
         /\ \A q \in Providers : q # p =>
              /\ AddAssertion(s, p, a).assertions[q] = s.assertions[q]
              /\ AddAssertion(s, p, a).nids[q] = s.nids[q]
<1> DEFINE t == AddAssertionSimple(s, p, a)
           u == AddAssertionNidAndSessionIndex(t, p, a)
           r == AddAssertion(s, p, a)
<1>1. t \in Session /\ t.nids = s.nids
      /\ t.assertions \in {s.assertions, [s.assertions EXCEPT ![p] = a]}
  BY ThinIsFlag DEF AddAssertionSimple, Session
<1>2. HasSloData(a) => EntryOf(a) \in Entry
  BY DEF HasSloData, EntryOf, Entry, Assertion
<1>3. u \in Session /\ u.assertions = t.assertions
  <2> HIDE DEF t
  <2>1. ASSUME NEW e \in Entry
        PROVE  /\ AddNidAndSessionIndex(t, p, e) \in Session
               /\ AddNidAndSessionIndex(t, p, e).assertions = t.assertions
    <3>1. e.nid \in NameIds
      BY DEF Entry
    <3> QED BY <1>1, <2>1, <3>1 DEF AddNidAndSessionIndex, Session
  <2>2. CASE HasSloData(a)
    BY <1>2, <2>1, <2>2 DEF AddAssertionNidAndSessionIndex
  <2>3. CASE ~ HasSloData(a)
    BY <1>1, <2>3 DEF AddAssertionNidAndSessionIndex
  <2> QED BY <2>2, <2>3
<1>4. r \in Session /\ r.assertions = u.assertions /\ r.nids = u.nids
  BY <1>3 DEF AddAssertion, Session
<1>5. u.nids = IF HasSloData(a) /\ \A f \in s.nids[p] : ~ SameKey(EntryOf(a), f)
               THEN [s.nids EXCEPT ![p] = @ \cup {EntryOf(a)}] ELSE s.nids
  BY <1>1 DEF AddAssertionNidAndSessionIndex, AddNidAndSessionIndex, Session
<1> HIDE DEF r, t, u
<1>6. s.nids \in [Providers -> SUBSET Entry] /\ s.assertions \in [Providers -> Assertion \cup {NoAssertion}]
  BY DEF Session
<1>7. r.nids = IF HasSloData(a) /\ \A f \in s.nids[p] : ~ SameKey(EntryOf(a), f)
               THEN [s.nids EXCEPT ![p] = @ \cup {EntryOf(a)}] ELSE s.nids
  BY <1>4, <1>5
<1>8. r.nids[p] = IF HasSloData(a) /\ \A f \in s.nids[p] : ~ SameKey(EntryOf(a), f)
                  THEN s.nids[p] \cup {EntryOf(a)} ELSE s.nids[p]
  BY <1>6, <1>7
<1>9. \A q \in Providers : q # p => r.nids[q] = s.nids[q] /\ r.assertions[q] = s.assertions[q]
  BY <1>1, <1>3, <1>4, <1>6, <1>7
<1>10. r.assertions[p] \in {s.assertions[p], a}
  BY <1>1, <1>3, <1>4, <1>6
<1> QED BY <1>4, <1>8, <1>9, <1>10 DEF r

\* Removing empties the tables of one provider.
LEMMA RemoveAssertionTables ==
  ASSUME NEW s \in Session, NEW p \in Providers
  PROVE  /\ RemoveAssertion(s, p) \in Session
         /\ RemoveAssertion(s, p).assertions[p] = NoAssertion
         /\ RemoveAssertion(s, p).nids[p] = {}
         /\ \A q \in Providers : q # p =>
              /\ RemoveAssertion(s, p).assertions[q] = s.assertions[q]
              /\ RemoveAssertion(s, p).nids[q] = s.nids[q]
<1> DEFINE r == RemoveAssertion(s, p)
<1>1. /\ r \in Session
      /\ r.assertions = [s.assertions EXCEPT ![p] = NoAssertion]
      /\ r.nids = [s.nids EXCEPT ![p] = {}]
  BY DEF RemoveAssertion, Session
<1>2. s.nids \in [Providers -> SUBSET Entry] /\ s.assertions \in [Providers -> Assertion \cup {NoAssertion}]
  BY DEF Session
<1> HIDE DEF r
<1>3. /\ r.assertions[p] = NoAssertion /\ r.nids[p] = {}
      /\ \A q \in Providers : q # p => r.assertions[q] = s.assertions[q] /\ r.nids[q] = s.nids[q]
  BY <1>1, <1>2
<1> QED BY <1>1, <1>3 DEF r

\* A status leaves the tables of assertions and entries alone.
LEMMA StatusTables ==
  ASSUME NEW s \in Session, NEW p \in Providers
  PROVE  /\ AddStatus(s, p) \in Session /\ RemoveStatus(s, p) \in Session
         /\ AddStatus(s, p).assertions = s.assertions /\ AddStatus(s, p).nids = s.nids
         /\ RemoveStatus(s, p).assertions = s.assertions /\ RemoveStatus(s, p).nids = s.nids
<1>1. AddStatus(s, p) \in Session /\ AddStatus(s, p).assertions = s.assertions
      /\ AddStatus(s, p).nids = s.nids
  BY DEF AddStatus, Session
<1>2. RemoveStatus(s, p) \in Session /\ RemoveStatus(s, p).assertions = s.assertions
      /\ RemoveStatus(s, p).nids = s.nids
  BY DEF RemoveStatus, Session
<1> QED BY <1>1, <1>2

-----------------------------------------------------------------------------
(* Who is in a session *)

\* The providers lasso_session_count_assertions counts.
Counted(s) == IF ThinSessions THEN SloProviders(s) ELSE StoredProviders(s)

\* A thin session stores no assertion.
Bare(s) == ThinSessions => StoredProviders(s) = {}

\* The count is zero when nobody is counted, and then nobody is listed.
LEMMA CountZero ==
  ASSUME NEW s, Sound(s)
  PROVE  /\ CountAssertions(s) \in Nat
         /\ CountAssertions(s) = 0 <=> Counted(s) = {}
         /\ SloProviders(s) \subseteq Counted(s)
<1>1. IsFiniteSet(Counted(s))
  BY ProvidersFinite, FS_Subset DEF SloProviders, StoredProviders, Counted
<1>2. CountAssertions(s) = Cardinality(Counted(s))
  BY DEF CountAssertions, Counted
<1>3. SloProviders(s) \subseteq Counted(s)
  BY DEF SloProviders, StoredProviders, Counted, HasSloSession, Sound, StoredSound, EntriesBackedIn
<1> QED BY <1>1, <1>2, <1>3, FS_CardinalityType, FS_EmptySet

\* Removing takes one provider out of both tables and leaves the list.
LEMMA RemoveAssertionOut ==
  ASSUME NEW s, Sound(s), NEW p \in Providers
  PROVE  /\ SloProviders(RemoveAssertion(s, p)) = SloProviders(s) \ {p}
         /\ StoredProviders(RemoveAssertion(s, p)) = StoredProviders(s) \ {p}
         /\ Counted(RemoveAssertion(s, p)) = Counted(s) \ {p}
         /\ Bare(s) => Bare(RemoveAssertion(s, p))
         /\ RemoveAssertion(s, p).providerIDs = s.providerIDs
         /\ \A q \in Providers :
              RemoveAssertionOk(RemoveAssertion(s, p), q) <=> q # p /\ RemoveAssertionOk(s, q)
<1> DEFINE r == RemoveAssertion(s, p)
<1>1. /\ r.assertions = [s.assertions EXCEPT ![p] = NoAssertion]
      /\ r.nids = [s.nids EXCEPT ![p] = {}]
      /\ r.providerIDs = s.providerIDs
  BY DEF RemoveAssertion, Sound, StoredSound, Session
<1>2. \A q \in Providers :
        /\ r.assertions[q] = IF q = p THEN NoAssertion ELSE s.assertions[q]
        /\ r.nids[q] = IF q = p THEN {} ELSE s.nids[q]
  BY <1>1 DEF Sound, StoredSound, Session
<1> HIDE DEF r
<1>3. SloProviders(r) = SloProviders(s) \ {p} /\ StoredProviders(r) = StoredProviders(s) \ {p}
  BY <1>2 DEF SloProviders, StoredProviders, HasSloSession
<1>4. Counted(r) = Counted(s) \ {p} /\ (Bare(s) => Bare(r))
  BY <1>3 DEF Counted, Bare
<1>5. \A q \in Providers : RemoveAssertionOk(r, q) <=> q # p /\ RemoveAssertionOk(s, q)
  BY <1>2 DEF RemoveAssertionOk, HasSloSession
<1> QED BY <1>1, <1>3, <1>4, <1>5 DEF r

\* Session values with the same tables have the same providers.
LEMMA SameTablesSame ==
  ASSUME NEW s, NEW r, r.assertions = s.assertions, r.nids = s.nids
  PROVE  /\ SloProviders(r) = SloProviders(s) /\ StoredProviders(r) = StoredProviders(s)
         /\ Counted(r) = Counted(s) /\ (Bare(s) => Bare(r))
         /\ \A q : RemoveAssertionOk(r, q) <=> RemoveAssertionOk(s, q)
<1>1. SloProviders(r) = SloProviders(s) /\ StoredProviders(r) = StoredProviders(s)
  BY DEF SloProviders, StoredProviders, HasSloSession
<1> QED BY <1>1 DEF Counted, Bare, RemoveAssertionOk, HasSloSession

\* A list is a permutation of a set.
IsOrder(list, S) ==
  /\ list \in Seq(S)
  /\ \A p \in S : \E i \in 1 .. Len(list) : list[i] = p
  /\ \A i, j \in 1 .. Len(list) : list[i] = list[j] => i = j

\* lasso_session_init_provider_ids lists each provider once.
LEMMA OrdersAreOrders ==
  ASSUME NEW S, IsFiniteSet(S), NEW order \in Orders(S)
  PROVE  IsOrder(order, S)
<1> DEFINE n == Cardinality(S)
<1>1. n \in Nat
  BY FS_CardinalityType
<1>2. order \in [1 .. n -> S] /\ \A x \in S : \E i \in 1 .. n : order[i] = x
  BY DEF Orders
<1>3. order \in Surjection(1 .. n, S)
  BY <1>2 DEF Surjection
<1>4. IsFiniteSet(1 .. n) /\ Cardinality(1 .. n) = n
  BY <1>1, FS_Interval
<1>5. order \in Injection(1 .. n, S)
  BY <1>3, <1>4, FS_SurjSameCardinalityImpliesInj
<1>6. \A i, j \in 1 .. n : order[i] = order[j] => i = j
  BY <1>5 DEF Injection, IsInjective
<1> HIDE DEF n
<1>7. order \in Seq(S) /\ Len(order) = n
  BY <1>1, <1>2
<1> QED BY <1>2, <1>6, <1>7 DEF IsOrder

LEMMA InitProviderIdsList ==
  ASSUME NEW s, Sound(s), NEW r \in InitProviderIds(s)
  PROVE  /\ Sound(r) /\ r.assertions = s.assertions /\ r.nids = s.nids
         /\ IsOrder(r.providerIDs, SloProviders(s))
<1>1. PICK order \in Orders(SloProviders(s)) : r = [s EXCEPT !.providerIDs = order]
  BY DEF InitProviderIds
<1>2. r.assertions = s.assertions /\ r.nids = s.nids /\ r.providerIDs = order
  BY <1>1 DEF Sound, StoredSound, Session
<1>3. IsFiniteSet(SloProviders(s))
  BY ProvidersFinite, FS_Subset DEF SloProviders
<1> QED BY <1>2, <1>3, OrdersAreOrders, InitProviderIdsSound

\* A dump and a restore forget the list and nothing of a sound session.
LEMMA RestoreDumpSame ==
  ASSUME NEW s, Sound(s), Bare(s)
  PROVE  /\ Sound(Restore(Dump(s))) /\ Bare(Restore(Dump(s)))
         /\ SloProviders(Restore(Dump(s))) = SloProviders(s)
         /\ StoredProviders(Restore(Dump(s))) = StoredProviders(s)
         /\ Counted(Restore(Dump(s))) = Counted(s)
         /\ Restore(Dump(s)).providerIDs = <<>>
         /\ \A q \in Providers :
              RemoveAssertionOk(Restore(Dump(s)), q) <=> RemoveAssertionOk(s, q)
<1> DEFINE d == Dump(s)
           r == Restore(d)
<1>1. /\ s \in Session /\ d \in Session
      /\ d.assertions = s.assertions /\ d.nids = s.nids /\ d.first = s.first
  BY DumpTyped DEF Sound, StoredSound
<1> HIDE DEF d
<1>2. StoredSound(d) /\ StoredProviders(d) = StoredProviders(s)
  BY <1>1 DEF Sound, StoredSound, NoDoublonsIn, FirstIsListedIn, EntriesBackedIn, StoredProviders
<1>3. Sound(r) /\ r.providerIDs = <<>>
  BY <1>2, RestoreSound DEF Restore
<1>4. ASSUME NEW q \in Providers
      PROVE  /\ r.assertions[q] = s.assertions[q]
             /\ r.nids[q] = {} <=> s.nids[q] = {}
  <2>1. r.nids[q] = RestoredEntries(d, q)
        /\ r.assertions[q] = IF ThinSessions THEN NoAssertion ELSE s.assertions[q]
    BY <1>1 DEF Restore
  <2>2. ThinSessions => s.assertions[q] = NoAssertion
    BY DEF Bare, StoredProviders
  <2>3. CASE s.assertions[q] # NoAssertion /\ HasSloData(s.assertions[q])
    <3>1. s.nids[q] # {}
      BY <2>2, <2>3 DEF Sound, StoredListedIn
    <3>2. RestoredEntries(d, q) # {}
      BY <1>1, <2>3 DEF RestoredEntries
    <3> QED BY <2>1, <2>2, <3>1, <3>2
  <2>4. CASE ~ (s.assertions[q] # NoAssertion /\ HasSloData(s.assertions[q]))
    <3>1. RestoredEntries(d, q) = s.nids[q]
      BY <1>1, <2>4 DEF RestoredEntries
    <3> QED BY <2>1, <2>2, <3>1
  <2> QED BY <2>3, <2>4
<1> HIDE DEF r
<1>5. SloProviders(r) = SloProviders(s) /\ StoredProviders(r) = StoredProviders(s)
  BY <1>4 DEF SloProviders, StoredProviders, HasSloSession
<1> QED BY <1>3, <1>4, <1>5 DEF r, d, Counted, Bare, RemoveAssertionOk, HasSloSession
=============================================================================
