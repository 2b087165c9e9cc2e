------------------------ MODULE SessionMetadataProofs ------------------------
(***************************************************************************)
(* Proofs about the two state machines below the profiles.  They share no  *)
(* variable, and neither proof uses a fact of the other:                   *)
(*                                                                         *)
(*  1. the life of a LassoSession, for any number of providers, names and  *)
(*     assertions.  TypeOK, NoDoublons and TablesAgree are not inductive   *)
(*     on the session object alone: a request starts from the restored     *)
(*     dump, so what the dump satisfies has to be carried along.           *)
(*                                                                         *)
(*  2. the metadata of an entity, for any elements, any number of          *)
(*     descriptors in any order and any requests.  ResponseReachesConsumer *)
(*     and ArtifactFindsIssuer compare what was looked up in one request   *)
(*     with the document.  The invariant says that the list holds what the *)
(*     document declares, in key order, and that the login object and the  *)
(*     artifact hold what a lookup in that list returns now: the list is   *)
(*     fixed before the first lookup.                                      *)
(***************************************************************************)
EXTENDS Session, SessionLemmas, Metadata

-----------------------------------------------------------------------------
(* 1. The session *)

IndInv ==
  /\ StoredSound(store)
  /\ mem = NoSession \/ Sound(mem)

\* The empty session and the dumps of older versions are sound dumps.
LEMMA InitSound ==
  /\ StoredSound(EmptySession)
  /\ \A p \in Providers, a \in Assertion : StoredSound(OldDump(p, a))
<1>1. EmptySession \in Session
  BY EmptySound DEF StoredSound
<1>2. StoredSound(EmptySession)
  BY EmptySound
<1>3. ASSUME NEW p \in Providers, NEW a \in Assertion
      PROVE  StoredSound(OldDump(p, a))
  <2>1. OldDump(p, a) \in Session
    BY <1>1 DEF OldDump, Session
  <2>2. /\ OldDump(p, a).nids = EmptySession.nids
        /\ OldDump(p, a).first = EmptySession.first
    BY <1>1 DEF OldDump, Session
  <2> QED BY <2>1, <2>2 DEF StoredSound, EmptySession, NoDoublonsIn, FirstIsListedIn, EntriesBackedIn
<1> QED BY <1>2, <1>3

-----------------------------------------------------------------------------
(* The invariant *)

\* The inductive step: every action takes sound sessions to sound sessions.
LEMMA IndInvStep == IndInv /\ [Next]_vars => IndInv'
<1> SUFFICES ASSUME IndInv, [Next]_vars PROVE IndInv'
  OBVIOUS
<1> USE DEF IndInv
<1>1. CASE SetSessionFromDump
  BY <1>1, RestoreSound DEF SetSessionFromDump
<1>2. ASSUME NEW p \in Providers, NEW a \in Received, AddAssertionStep(p, a)
      PROVE  IndInv'
  BY <1>2, AddAssertionSound, InputsAreTyped DEF AddAssertionStep
<1>3. ASSUME NEW id \in AdviceIds, AddAssertionWithIdStep(id)
      PROVE  IndInv'
  <2>1. mem' \in Session /\ mem'.assertions = mem.assertions /\ mem'.nids = mem.nids /\ mem'.first = mem.first
    BY <1>3, InputsAreTyped DEF AddAssertionWithIdStep, AddAssertionWithId, Sound, StoredSound, Session
  <2> QED BY <1>3, <2>1, SameTablesSound DEF AddAssertionWithIdStep
<1>4. ASSUME NEW p \in Judged, AddStatusStep(p)
      PROVE  IndInv'
  <2>1. mem' \in Session /\ mem'.assertions = mem.assertions /\ mem'.nids = mem.nids /\ mem'.first = mem.first
    BY <1>4, InputsAreTyped DEF AddStatusStep, AddStatus, Sound, StoredSound, Session
  <2> QED BY <1>4, <2>1, SameTablesSound DEF AddStatusStep
<1>5. ASSUME NEW p \in Providers, RemoveAssertionStep(p)
      PROVE  IndInv'
  BY <1>5, RemoveAssertionSound DEF RemoveAssertionStep
<1>6. ASSUME NEW p \in Judged, RemoveStatusStep(p)
      PROVE  IndInv'
  <2>1. mem' \in Session /\ mem'.assertions = mem.assertions /\ mem'.nids = mem.nids /\ mem'.first = mem.first
    BY <1>6, InputsAreTyped DEF RemoveStatusStep, RemoveStatus, Sound, StoredSound, Session
  <2> QED BY <1>6, <2>1, SameTablesSound DEF RemoveStatusStep
<1>7. CASE GetProviderIndexStep
  BY <1>7, InitProviderIdsSound DEF GetProviderIndexStep, AfterProviderIndex
<1>8. CASE InitProviderIdsStep
  BY <1>8, InitProviderIdsSound DEF InitProviderIdsStep
<1>9. CASE SaveSession
  <2>1. CASE mem.is_dirty
    <3>1. /\ store' \in Session /\ store'.assertions = mem.assertions
          /\ store'.nids = mem.nids /\ store'.first = mem.first
      <4>1. mem \in Session /\ store' = Dump(mem)
        BY <1>9, <2>1 DEF SaveSession, Sound, StoredSound
      <4> QED BY <4>1, DumpTyped
    <3>2. Sound(store')
      BY <1>9, <3>1, SameTablesSound DEF SaveSession
    <3> QED BY <1>9, <3>2 DEF SaveSession, Sound
  <2>2. CASE ~ mem.is_dirty
    BY <1>9, <2>2 DEF SaveSession
  <2> QED BY <2>1, <2>2
<1>10. CASE Crash
  BY <1>10 DEF Crash
<1>11. CASE UNCHANGED vars
  BY <1>11 DEF vars
<1> QED BY <1>1, <1>2, <1>3, <1>4, <1>5, <1>6, <1>7, <1>8, <1>9, <1>10, <1>11 DEF Next

\* The inductive invariant holds of the object and of the dump, whatever is
\* added, removed, saved, restored or lost in a crash (session.c).
THEOREM Invariance == Spec => []IndInv
<1>1. Init => IndInv
  BY InitSound, InputsAreTyped DEF Init, IndInv
<1> QED BY <1>1, IndInvStep, PTL DEF Spec

\* TypeOK: the tables keep their types through every add, remove, dump and
\* restore (session.c).
THEOREM TypeCorrect == Spec => []TypeOK
<1>1. IndInv => TypeOK
  BY DEF IndInv, Sound, StoredSound, TypeOK
<1> QED BY <1>1, Invariance, PTL

\* NoDoublons: no provider ever has two entries for one NameID and
\* SessionIndex (lasso_session_add_nid_and_session_index).
THEOREM DoublonsExcluded == Spec => []NoDoublons
<1>1. IndInv => NoDoublons
  BY DEF IndInv, Sound, StoredSound, NoDoublons
<1> QED BY <1>1, Invariance, PTL

\* TablesAgree: a session that counts no assertion has nothing left to log
\* out (lasso_session_count_assertions, lasso_session_remove_assertion).
THEOREM TablesInStep == Spec => []TablesAgree
<1>1. IndInv => TablesAgree
  <2> SUFFICES ASSUME IndInv, mem # NoSession
               PROVE  /\ ~ ThinSessions => TablesAgreeIn(mem)
                      /\ CountAssertions(mem) = 0 => SloProviders(mem) = {}
    BY DEF TablesAgree
  <2>1. ~ ThinSessions => TablesAgreeIn(mem)
    BY DEF IndInv, Sound, StoredSound, TablesAgreeIn
  <2>2. ~ ThinSessions => SloProviders(mem) \subseteq StoredProviders(mem)
    BY <2>1 DEF SloProviders, StoredProviders, HasSloSession, TablesAgreeIn, EntriesBackedIn
  <2>3. IsFiniteSet(SloProviders(mem)) /\ IsFiniteSet(StoredProviders(mem))
    BY ProvidersFinite, FS_Subset DEF SloProviders, StoredProviders
  <2>4. ASSUME CountAssertions(mem) = 0 PROVE SloProviders(mem) = {}
    <3>1. CASE ThinSessions
      BY <3>1, <2>3, <2>4, FS_EmptySet DEF CountAssertions
    <3>2. CASE ~ ThinSessions
      BY <3>2, <2>2, <2>3, <2>4, FS_EmptySet DEF CountAssertions
    <3> QED BY <3>1, <3>2
  <2> QED BY <2>1, <2>4
<1> QED BY <1>1, Invariance, PTL

-----------------------------------------------------------------------------
(* What the store and the object agree on *)

\* Restoring a dump neither loses nor invents a login.
LEMMA RestoreSameLogins ==
  ASSUME NEW d \in Session
  PROVE  SameLogins(Restore(d), d)
<1>1. ~ ThinSessions => Restore(d).assertions = d.assertions
  BY DEF Restore, Session
<1>2. ASSUME NEW p \in Providers
      PROVE  Keys(Restore(d), p) = UpgradedKeys(d, p)
  <2> DEFINE a == d.assertions[p]
  <2>1. Restore(d).nids[p] = RestoredEntries(d, p)
    BY DEF Restore
  <2>2. CASE a # NoAssertion /\ HasSloData(a)
    <3>1. UpgradedKeys(d, p) = Keys(d, p) \cup {<<a.nid, a.sidx>>}
      BY <2>2 DEF UpgradedKeys
    <3>2. RestoredEntries(d, p) =
            {EntryOf(a)} \cup { e \in d.nids[p] : ~ SameKey(e, EntryOf(a)) }
      BY <2>2 DEF RestoredEntries
    <3>3. EntryOf(a).nid = a.nid /\ EntryOf(a).sidx = a.sidx
      BY DEF EntryOf
    <3>4. ASSUME NEW e \in d.nids[p] PROVE <<e.nid, e.sidx>> \in Keys(Restore(d), p)
      BY <2>1, <3>2, <3>3 DEF Keys, SameKey
    <3>5. <<a.nid, a.sidx>> \in Keys(Restore(d), p)
      BY <2>1, <3>2, <3>3 DEF Keys
    <3>6. Keys(Restore(d), p) \subseteq Keys(d, p) \cup {<<a.nid, a.sidx>>}
      BY <2>1, <3>2, <3>3 DEF Keys
    <3> QED BY <3>1, <3>4, <3>5, <3>6 DEF Keys
  <2>3. CASE ~ (a # NoAssertion /\ HasSloData(a))
    <3>1. UpgradedKeys(d, p) = Keys(d, p)
      BY <2>3 DEF UpgradedKeys
    <3>2. RestoredEntries(d, p) = d.nids[p]
      BY <2>3 DEF RestoredEntries
    <3> QED BY <2>1, <3>1, <3>2 DEF Keys
  <2> QED BY <2>2, <2>3
<1>3. Restore(d).status = d.status /\ Restore(d).byId = d.byId
  BY DEF Restore
<1> QED BY <1>1, <1>2, <1>3 DEF SameLogins, SameListings

\* RestoreKeepsLogins: the object a request starts with describes the logins
\* of the stored dump, entries of old dumps included (init_from_xml).
THEOREM RestoreLossless == Spec => RestoreKeepsLogins
<1>1. ASSUME TypeOK, [Next]_vars, mem = NoSession, mem' # NoSession
      PROVE  SameLogins(mem', store)
  <2>1. SetSessionFromDump
    BY <1>1 DEF Next, vars, SetSessionFromDump, AddAssertionStep, AddAssertionWithIdStep,
         AddStatusStep, RemoveAssertionStep, RemoveStatusStep, GetProviderIndexStep,
         InitProviderIdsStep, SaveSession, Crash
  <2> QED BY <1>1, <2>1, RestoreSameLogins DEF SetSessionFromDump, TypeOK
<1>2. TypeOK /\ [Next]_vars => [mem = NoSession /\ mem' # NoSession => SameLogins(mem', store)]_vars
  BY <1>1
<1> QED BY <1>2, TypeCorrect, PTL DEF Spec, RestoreKeepsLogins

\* What an object that is not dirty says of the store.
CleanAs(s, d) ==
  /\ SameListings(s, d)
  /\ ~ ThinSessions => \A p \in Providers :
       s.assertions[p] = d.assertions[p] \/ StoredUnnamed(s, p)

\* Two session values with the same tables say the same of a dump.
LEMMA SameTablesCleanAs ==
  ASSUME NEW s, NEW r, NEW d, CleanAs(s, d),
         r.assertions = s.assertions, r.nids = s.nids, r.status = s.status, r.byId = s.byId
  PROVE  CleanAs(r, d)
BY DEF CleanAs, SameListings, Keys, StoredUnnamed

\* Adding an assertion without NameID to an object that is not dirty.
LEMMA UnnamedCleanAs ==
  ASSUME NEW s \in Session, NEW d, CleanAs(s, d),
         NEW p \in Providers, NEW a \in Assertion, ~ AddAssertionOk(a)
  PROVE  CleanAs(AddAssertion(s, p, a), d)
<1> DEFINE r == AddAssertion(s, p, a)
<1>1. r = [AddAssertionSimple(s, p, a) EXCEPT !.is_dirty = @]
  BY DEF AddAssertion, AddAssertionNidAndSessionIndex, AddAssertionOk, HasSloData
<1>2. /\ r.nids = s.nids /\ r.status = s.status /\ r.byId = s.byId
      /\ ~ ThinSessions => r.assertions = [s.assertions EXCEPT ![p] = a]
  BY <1>1 DEF AddAssertionSimple, Session
<1> HIDE DEF r
<1>3. SameListings(r, d)
  BY <1>2 DEF CleanAs, SameListings, Keys
<1>4. ASSUME ~ ThinSessions, NEW q \in Providers
      PROVE  r.assertions[q] = d.assertions[q] \/ StoredUnnamed(r, q)
  <2>1. CASE q = p
    <3>1. r.assertions[q] = a /\ a # NoAssertion
      BY <1>2, <1>4, <2>1, NullsAreApart DEF Session, Assertion
    <3> QED BY <3>1 DEF StoredUnnamed
  <2>2. CASE q # p
    <3>1. r.assertions[q] = s.assertions[q]
      BY <1>2, <1>4, <2>2 DEF Session
    <3> QED BY <1>4, <3>1 DEF CleanAs, StoredUnnamed
  <2> QED BY <2>1, <2>2
<1>5. CleanAs(r, d)
  BY <1>3, <1>4 DEF CleanAs
<1> QED BY <1>5 DEF r

\* DirtyCoversChanges: an object that is not dirty describes the logins of
\* the store, except for an assertion without NameID: an application that
\* saves only what lasso_profile_is_session_dirty reports loses nothing else.
THEOREM DirtyIsEnough == Spec => []DirtyCoversChanges
<1>1. Init => DirtyCoversChanges
  BY DEF Init, DirtyCoversChanges
<1>2. TypeOK /\ DirtyCoversChanges /\ [Next]_vars => DirtyCoversChanges'
  <2> SUFFICES ASSUME TypeOK, DirtyCoversChanges, [Next]_vars, mem' # NoSession, ~ mem'.is_dirty
               PROVE  CleanAs(mem', store')
    BY DEF DirtyCoversChanges, CleanAs
  <2>0. mem # NoSession /\ ~ mem.is_dirty => CleanAs(mem, store)
    BY DEF DirtyCoversChanges, CleanAs
  <2>1. CASE SetSessionFromDump
    <3>1. SameLogins(mem', store')
      BY <2>1, RestoreSameLogins DEF SetSessionFromDump, TypeOK
    <3> QED BY <3>1 DEF SameLogins, CleanAs
  <2>2. ASSUME NEW p \in Providers, NEW a \in Received, AddAssertionStep(p, a)
        PROVE  CleanAs(mem', store')
    <3> DEFINE u == AddAssertionNidAndSessionIndex(AddAssertionSimple(mem, p, a), p, a)
    <3>0. mem \in Session /\ mem # NoSession /\ a \in Assertion
      BY <2>2, InputsAreTyped DEF AddAssertionStep, TypeOK
    <3>1. mem' = [u EXCEPT !.is_dirty = IF AddAssertionOk(a) THEN TRUE ELSE @]
      BY <2>2 DEF AddAssertionStep, AddAssertion
    <3>2. u \in Session
      <4> DEFINE t == AddAssertionSimple(mem, p, a)
      <4>1. t \in Session
        BY <3>0, ThinIsFlag DEF AddAssertionSimple, Session
      <4>2. HasSloData(a) => EntryOf(a) \in Entry
        BY <3>0 DEF HasSloData, EntryOf, Entry, Assertion
      <4>3. CASE HasSloData(a)
        BY <4>1, <4>2, <4>3 DEF AddAssertionNidAndSessionIndex, AddNidAndSessionIndex, Entry, Session
      <4>4. CASE ~ HasSloData(a)
        BY <4>1, <4>4 DEF AddAssertionNidAndSessionIndex
      <4> QED BY <4>3, <4>4
    <3>3. u.is_dirty = mem.is_dirty
      BY <3>0 DEF AddAssertionNidAndSessionIndex, AddAssertionSimple, AddNidAndSessionIndex, Session
    <3>4. ~ AddAssertionOk(a) /\ ~ mem.is_dirty
      BY <3>0, <3>1, <3>2, <3>3 DEF Session
    <3> QED BY <2>0, <2>2, <3>0, <3>4, UnnamedCleanAs, InputsAreTyped DEF AddAssertionStep
  <2>3. ASSUME NEW id \in AdviceIds, AddAssertionWithIdStep(id) PROVE FALSE
    BY <2>3 DEF AddAssertionWithIdStep, AddAssertionWithId, TypeOK, Session
  <2>4. ASSUME NEW p \in Judged, AddStatusStep(p) PROVE FALSE
    BY <2>4 DEF AddStatusStep, AddStatus, TypeOK, Session
  <2>5. ASSUME NEW p \in Providers, RemoveAssertionStep(p) PROVE CleanAs(mem', store')
    <3>1. ~ RemoveAssertionOk(mem, p) /\ ~ mem.is_dirty /\ mem \in Session
      BY <2>5 DEF RemoveAssertionStep, RemoveAssertion, TypeOK, Session
    <3>2. /\ mem'.assertions = mem.assertions /\ mem'.nids = mem.nids
          /\ mem'.status = mem.status /\ mem'.byId = mem.byId
      BY <2>5, <3>1 DEF RemoveAssertionStep, RemoveAssertion, RemoveAssertionOk, HasSloSession, Session
    <3> QED BY <2>0, <2>5, <3>1, <3>2, SameTablesCleanAs DEF RemoveAssertionStep
  <2>6. ASSUME NEW p \in Judged, RemoveStatusStep(p) PROVE CleanAs(mem', store')
    <3>1. p \notin mem.status /\ ~ mem.is_dirty /\ mem \in Session
      BY <2>6 DEF RemoveStatusStep, RemoveStatus, TypeOK, Session
    <3>2. /\ mem'.assertions = mem.assertions /\ mem'.nids = mem.nids
          /\ mem'.status = mem.status /\ mem'.byId = mem.byId
      BY <2>6, <3>1 DEF RemoveStatusStep, RemoveStatus, Session
    <3> QED BY <2>0, <2>6, <3>1, <3>2, SameTablesCleanAs DEF RemoveStatusStep
  <2>7. CASE GetProviderIndexStep \/ InitProviderIdsStep
    <3>1. mem' = mem \/ mem' \in InitProviderIds(mem)
      BY <2>7 DEF GetProviderIndexStep, InitProviderIdsStep, AfterProviderIndex
    <3>2. /\ mem'.assertions = mem.assertions /\ mem'.nids = mem.nids
          /\ mem'.status = mem.status /\ mem'.byId = mem.byId /\ mem'.is_dirty = mem.is_dirty
      BY <2>7, <3>1 DEF InitProviderIds, GetProviderIndexStep, InitProviderIdsStep, TypeOK, Session
    <3> QED BY <2>0, <2>7, <3>2, SameTablesCleanAs DEF GetProviderIndexStep, InitProviderIdsStep
  <2>8. CASE SaveSession \/ Crash
    BY <2>8 DEF SaveSession, Crash
  <2>9. CASE UNCHANGED vars
    BY <2>0, <2>9 DEF vars
  <2> QED BY <2>1, <2>2, <2>3, <2>4, <2>5, <2>6, <2>7, <2>8, <2>9 DEF Next
<1> QED BY <1>1, <1>2, TypeCorrect, PTL DEF Spec

-----------------------------------------------------------------------------
(* 2. The metadata: the order of the endpoints *)

StrictOrder(K, R) ==
  /\ \A i \in K : <<i, i>> \notin R
  /\ \A i, j \in K : i # j => <<i, j>> \in R \/ <<j, i>> \in R
  /\ \A i, j, k \in K : <<i, j>> \in R /\ <<j, k>> \in R => <<i, k>> \in R

Arranges(f, K, R) ==
  /\ Cardinality(K) \in Nat
  /\ f \in [1 .. Cardinality(K) -> K]
  /\ \A j \in K : \E m \in 1 .. Cardinality(K) : f[m] = j
  /\ \A l, m \in 1 .. Cardinality(K) : l < m => <<f[l], f[m]>> \in R

\* InOrder arranges a finite set by a strict total order: every member has
\* one place, and an earlier place means an earlier member.
LEMMA InOrderFacts ==
  ASSUME NEW K, IsFiniteSet(K), NEW R, StrictOrder(K, R)
  PROVE  Arranges(InOrder(K, R), K, R)
<1> DEFINE N == Cardinality(K)
           Below(j) == {i \in K : <<i, j>> \in R}
           rank == [j \in K |-> Cardinality(Below(j))]
           f == InOrder(K, R)
<1>1. N \in Nat
  BY FS_CardinalityType
<1>2. \A j \in K : IsFiniteSet(Below(j)) /\ rank[j] \in Nat /\ rank[j] < N
  <2> SUFFICES ASSUME NEW j \in K
               PROVE  IsFiniteSet(Below(j)) /\ rank[j] \in Nat /\ rank[j] < N
    OBVIOUS
  <2>1. Below(j) \subseteq K /\ Below(j) # K
    BY DEF StrictOrder
  <2>2. IsFiniteSet(Below(j)) /\ Cardinality(Below(j)) <= N /\ Cardinality(Below(j)) # N
    BY <2>1, FS_Subset
  <2>3. Cardinality(Below(j)) \in Nat
    BY <2>2, FS_CardinalityType
  <2> QED BY <1>1, <2>2, <2>3
<1>3. ASSUME NEW i \in K, NEW j \in K, <<i, j>> \in R
      PROVE  rank[i] < rank[j]
  <2>1. Below(i) \subseteq Below(j) /\ Below(i) # Below(j)
    BY <1>3 DEF StrictOrder
  <2>2. Cardinality(Below(i)) <= Cardinality(Below(j)) /\ Cardinality(Below(i)) # Cardinality(Below(j))
    BY <1>2, <2>1, FS_Subset
  <2>3. rank[i] = Cardinality(Below(i)) /\ rank[j] = Cardinality(Below(j))
    OBVIOUS
  <2>4. rank[i] \in Nat /\ rank[j] \in Nat
    BY <1>2
  <2> HIDE DEF rank, Below
  <2> QED BY <2>2, <2>3, <2>4
<1> HIDE DEF Below
<1>4. \A i, j \in K : rank[i] = rank[j] => i = j
  <2> SUFFICES ASSUME NEW i \in K, NEW j \in K, rank[i] = rank[j], i # j PROVE FALSE
    OBVIOUS
  <2>1. rank[i] < rank[j] \/ rank[j] < rank[i]
    BY <1>3 DEF StrictOrder
  <2> QED BY <1>2, <2>1
<1>5. \A m \in 1 .. N : \E j \in K : rank[j] = m - 1
  <2>1. rank \in Injection(K, 0 .. N - 1)
    BY <1>1, <1>2, <1>4 DEF Injection, IsInjective
  <2>2. IsFiniteSet(0 .. N - 1) /\ Cardinality(0 .. N - 1) = N
    <3>1. 0 \in Int /\ N - 1 \in Int /\ (0 > N - 1 => N = 0) /\ N - 1 - 0 + 1 = N
      BY <1>1
    <3>2. IsFiniteSet(0 .. N - 1) /\ Cardinality(0 .. N - 1) = IF 0 > N - 1 THEN 0 ELSE N - 1 - 0 + 1
      BY <3>1, FS_Interval
    <3> HIDE DEF N
    <3> QED BY <3>1, <3>2
  <2>3. rank \in Surjection(K, 0 .. N - 1)
    BY <2>1, <2>2, FS_Injection
  <2>4. ASSUME NEW m \in 1 .. N PROVE m - 1 \in 0 .. N - 1
    BY <1>1
  <2> HIDE DEF rank, N
  <2> QED BY <2>3, <2>4 DEF Surjection
<1>6. f = [m \in 1 .. N |-> CHOOSE j \in K : Cardinality(Below(j)) = m - 1]
  BY DEF InOrder, Below
<1>7. \A m \in 1 .. N : f[m] \in K /\ rank[f[m]] = m - 1
  <2> SUFFICES ASSUME NEW m \in 1 .. N PROVE f[m] \in K /\ rank[f[m]] = m - 1
    OBVIOUS
  <2>1. \E j \in K : Cardinality(Below(j)) = m - 1
    BY <1>5
  <2>2. f[m] = CHOOSE j \in K : Cardinality(Below(j)) = m - 1
    BY <1>6
  <2> HIDE DEF f, N
  <2> QED BY <2>1, <2>2
<1> HIDE DEF f, rank, N
<1>8. f \in [1 .. N -> K]
  BY <1>6, <1>7
<1>9. ASSUME NEW j \in K PROVE \E m \in 1 .. N : f[m] = j
  <2>1. rank[j] \in Nat /\ rank[j] + 1 \in 1 .. N
    BY <1>1, <1>2
  <2>2. PICK m \in 1 .. N : m = rank[j] + 1
    BY <2>1
  <2>3. m - 1 = rank[j]
    BY <2>1, <2>2
  <2>4. f[m] \in K /\ rank[f[m]] = rank[j]
    BY <1>7, <2>3
  <2> QED BY <1>4, <2>4
<1>10. ASSUME NEW l \in 1 .. N, NEW m \in 1 .. N, l < m PROVE <<f[l], f[m]>> \in R
  <2>1. f[l] \in K /\ f[m] \in K /\ rank[f[l]] < rank[f[m]]
    BY <1>1, <1>7, <1>10
  <2>2. f[l] # f[m] /\ <<f[m], f[l]>> \notin R
    BY <1>2, <1>3, <2>1
  <2> QED BY <2>1, <2>2 DEF StrictOrder
<1>11. Arranges(f, K, R)
  BY <1>1, <1>8, <1>9, <1>10 DEF Arranges, N
<1> QED BY <1>11 DEF f

\* Keys have four numbers.
Key == Int \X Int \X Int \X Int

\* Less, spelled out.
LEMMA LessSpelled ==
  ASSUME NEW k \in Key, NEW q \in Key
  PROVE  Less(k, q) <=> \/ k[1] < q[1]
                        \/ k[1] = q[1] /\ k[2] < q[2]
                        \/ k[1] = q[1] /\ k[2] = q[2] /\ k[3] < q[3]
                        \/ k[1] = q[1] /\ k[2] = q[2] /\ k[3] = q[3] /\ k[4] < q[4]
<1>1. 1 .. 4 = {1, 2, 3, 4} /\ 1 .. 1 - 1 = {} /\ 1 .. 2 - 1 = {1} /\ 1 .. 3 - 1 = {1, 2}
      /\ 1 .. 4 - 1 = {1, 2, 3}
  OBVIOUS
<1> QED BY <1>1 DEF Less

\* compare_endpoint_type is a strict total order of the keys.
LEMMA LessOrders ==
  ASSUME NEW k \in Key, NEW q \in Key
  PROVE  /\ ~ Less(k, k)
         /\ k # q => Less(k, q) \/ Less(q, k)
         /\ \A r \in Key : Less(k, q) /\ Less(q, r) => Less(k, r)
<1>1. k[1] \in Int /\ k[2] \in Int /\ k[3] \in Int /\ k[4] \in Int
      /\ q[1] \in Int /\ q[2] \in Int /\ q[3] \in Int /\ q[4] \in Int
  BY DEF Key
<1>2. ~ Less(k, k)
  BY <1>1, LessSpelled
<1>3. ASSUME k # q PROVE Less(k, q) \/ Less(q, k)
  <2>1. ~ (k[1] = q[1] /\ k[2] = q[2] /\ k[3] = q[3] /\ k[4] = q[4])
    BY <1>3 DEF Key
  <2> QED BY <1>1, <2>1, LessSpelled
<1>4. ASSUME NEW r \in Key, Less(k, q), Less(q, r) PROVE Less(k, r)
  <2>1. r[1] \in Int /\ r[2] \in Int /\ r[3] \in Int /\ r[4] \in Int
    BY DEF Key
  <2> QED BY <1>1, <1>4, <2>1, LessSpelled
<1> QED BY <1>2, <1>3, <1>4

-----------------------------------------------------------------------------
(* The list of endpoints *)

\* What load_endpoint_type2 makes of the elements of a descriptor.
LoadedFrom(role, S) == { Endpoint(role, e) : e \in { x \in S : Loads(x) } }

AnyEndpoint == LoadedFrom("sp", SpElements) \cup LoadedFrom("idp", IdpElements)

\* The keys of the list never decrease.
InKeyOrder(s) ==
  \A i, j \in DOMAIN s : i < j => ~ Less(EndpointKey(s[j]), EndpointKey(s[i]))

\* The key of a loaded endpoint consists of numbers: its index was parsed.
LEMMA KeyTyped ==
  ASSUME NEW x \in AnyEndpoint
  PROVE  /\ EndpointKey(x) \in Key
         /\ EndpointKey(x) = <<RoleRank(x.role), KindRank(x.kind), DefaultRank(x.isDefault), x.index>>
<1>1. PICK role \in Roles, e \in SpElements \cup IdpElements : x = Endpoint(role, e) /\ Loads(e)
  BY DEF AnyEndpoint, LoadedFrom, Roles
<1>2. e.isDefault \in {"true", "false", "absent"} /\ (Indexed(e) => e.index \in Nat)
  BY <1>1, MetadataConstants DEF Loads, IndexOk
<1>3. x.index \in Nat /\ x.isDefault \in {"true", "false", "absent"}
  BY <1>1, <1>2 DEF Endpoint
<1>4. DefaultRank(x.isDefault) \in Int
  BY <1>3 DEF DefaultRank
<1>5. RoleRank(x.role) \in Int /\ KindRank(x.kind) \in Int
  BY DEF RoleRank, KindRank
<1> QED BY <1>3, <1>4, <1>5 DEF EndpointKey, Key

\* load_descriptor appends one endpoint for each element that loads.
LEMMA EndpointsFacts ==
  ASSUME NEW role \in Roles, NEW elements \in Seq(Elements(role))
  PROVE  /\ Endpoints(role, elements) \in Seq(AnyEndpoint)
         /\ ToSet(Endpoints(role, elements)) = LoadedFrom(role, ToSet(elements))
<1> DEFINE kept == {i \in DOMAIN elements : Loads(elements[i])}
           R == {p \in kept \X kept : p[1] < p[2]}
           f == InOrder(kept, R)
           N == Cardinality(kept)
           r == Endpoints(role, elements)
<1>1. kept \subseteq Nat /\ IsFiniteSet(kept)
  <2>1. kept \subseteq 1 .. Len(elements) /\ Len(elements) \in Nat
    OBVIOUS
  <2>2. IsFiniteSet(1 .. Len(elements))
    BY <2>1, FS_Interval
  <2> QED BY <2>1, <2>2, FS_Subset
<1>2. \A i, j \in kept : <<i, j>> \in R <=> i < j
  OBVIOUS
<1>3. /\ N \in Nat /\ f \in [1 .. N -> kept] /\ \A j \in kept : \E m \in 1 .. N : f[m] = j
  <2> HIDE DEF kept, R
  <2>1. StrictOrder(kept, R)
    BY <1>1, <1>2 DEF StrictOrder
  <2>2. Arranges(f, kept, R)
    BY <1>1, <2>1, InOrderFacts
  <2> HIDE DEF f
  <2> QED BY <2>2 DEF Arranges
<1>4. r = [n \in DOMAIN f |-> Endpoint(role, elements[f[n]])]
  BY DEF Endpoints
<1> HIDE DEF f, R, N, r
<1>5. DOMAIN r = 1 .. N /\ \A n \in 1 .. N : r[n] = Endpoint(role, elements[f[n]])
  BY <1>3, <1>4
<1>6. ASSUME NEW i \in kept
      PROVE  /\ Endpoint(role, elements[i]) \in LoadedFrom(role, ToSet(elements))
             /\ Endpoint(role, elements[i]) \in AnyEndpoint
  <2>1. i \in DOMAIN elements /\ Loads(elements[i])
    OBVIOUS
  <2>2. elements[i] \in Elements(role) /\ elements[i] \in ToSet(elements)
    BY <2>1 DEF ToSet
  <2> QED BY <2>1, <2>2 DEF LoadedFrom, AnyEndpoint, Elements, Roles
<1>7. ASSUME NEW x \in LoadedFrom(role, ToSet(elements)) PROVE \E n \in 1 .. N : r[n] = x
  <2>1. PICK i \in DOMAIN elements : Loads(elements[i]) /\ x = Endpoint(role, elements[i])
    BY DEF LoadedFrom, ToSet
  <2>2. i \in kept
    BY <2>1
  <2> HIDE DEF kept
  <2> QED BY <1>3, <1>5, <2>1, <2>2
<1> HIDE DEF kept
<1>8. \A n \in 1 .. N : r[n] \in AnyEndpoint /\ r[n] \in LoadedFrom(role, ToSet(elements))
  BY <1>3, <1>5, <1>6
<1>9. r \in [1 .. N -> AnyEndpoint]
  BY <1>3, <1>4, <1>5, <1>8
<1>10. r \in Seq(AnyEndpoint)
  BY <1>3, <1>9
<1>11. ToSet(r) = LoadedFrom(role, ToSet(elements))
  BY <1>5, <1>7, <1>8 DEF ToSet
<1> QED BY <1>10, <1>11 DEF r

\* g_list_sort loses and invents nothing, and puts the list in key order.
LEMMA SortedFacts ==
  ASSUME NEW s \in Seq(AnyEndpoint)
  PROVE  /\ Sorted(s) \in Seq(AnyEndpoint)
         /\ ToSet(Sorted(s)) = ToSet(s)
         /\ InKeyOrder(Sorted(s))
<1> DEFINE D == DOMAIN s
           R == {p \in D \X D : SortsBefore(s, p[1], p[2])}
           f == InOrder(D, R)
           N == Cardinality(D)
           r == Sorted(s)
           key(i) == EndpointKey(s[i])
<1>1. D \subseteq Nat /\ IsFiniteSet(D) /\ \A i \in D : s[i] \in AnyEndpoint
  <2>1. D = 1 .. Len(s) /\ Len(s) \in Nat
    OBVIOUS
  <2>2. IsFiniteSet(1 .. Len(s))
    BY <2>1, FS_Interval
  <2> QED BY <2>1, <2>2
<1>2. \A i \in D : key(i) \in Key
  BY <1>1, KeyTyped
<1>3. \A i, j \in D : <<i, j>> \in R <=> Less(key(i), key(j)) \/ (key(i) = key(j) /\ i < j)
  BY DEF SortsBefore
<1> HIDE DEF D, R, key
<1>4. \A i, j \in D : ~ (<<i, j>> \in R /\ Less(key(j), key(i)))
  <2> SUFFICES ASSUME NEW i \in D, NEW j \in D, <<i, j>> \in R, Less(key(j), key(i)) PROVE FALSE
    OBVIOUS
  <2>1. key(i) \in Key /\ key(j) \in Key
    BY <1>2
  <2>2. ~ Less(key(j), key(j))
    BY <2>1, LessOrders
  <2>3. Less(key(i), key(j)) => Less(key(j), key(j))
    BY <2>1, LessOrders
  <2> QED BY <1>3, <2>2, <2>3
<1>5. /\ N \in Nat /\ f \in [1 .. N -> D]
      /\ \A j \in D : \E m \in 1 .. N : f[m] = j
      /\ \A l, m \in 1 .. N : l < m => <<f[l], f[m]>> \in R
  <2>1. ASSUME NEW i \in D PROVE <<i, i>> \notin R
    BY <1>1, <1>2, <1>3, LessOrders
  <2>2. ASSUME NEW i \in D, NEW j \in D, i # j PROVE <<i, j>> \in R \/ <<j, i>> \in R
    <3>1. key(i) = key(j) \/ Less(key(i), key(j)) \/ Less(key(j), key(i))
      BY <1>2, LessOrders
    <3>2. i < j \/ j < i
      BY <1>1, <2>2
    <3> QED BY <1>3, <3>1, <3>2
  <2>3. ASSUME NEW i \in D, NEW j \in D, NEW k \in D, <<i, j>> \in R, <<j, k>> \in R
        PROVE  <<i, k>> \in R
    <3>1. Less(key(i), key(j)) /\ Less(key(j), key(k)) => Less(key(i), key(k))
      BY <1>2, LessOrders
    <3>2. i < j /\ j < k => i < k
      BY <1>1
    <3> QED BY <1>3, <2>3, <3>1, <3>2
  <2>4. StrictOrder(D, R)
    BY <2>1, <2>2, <2>3 DEF StrictOrder
  <2>5. Arranges(f, D, R)
    BY <1>1, <2>4, InOrderFacts
  <2> HIDE DEF f
  <2> QED BY <2>5 DEF Arranges
<1>6. r = [n \in DOMAIN f |-> s[f[n]]]
  BY DEF Sorted, D, R
<1> HIDE DEF f, N, r
<1>7. DOMAIN r = 1 .. N /\ \A n \in 1 .. N : r[n] = s[f[n]] /\ r[n] \in AnyEndpoint
  BY <1>1, <1>5, <1>6
<1>8. r \in Seq(AnyEndpoint)
  <2>1. r \in [1 .. N -> AnyEndpoint]
    BY <1>6, <1>7
  <2> QED BY <1>5, <2>1
<1>9. ToSet(r) = ToSet(s)
  <2>1. ASSUME NEW n \in 1 .. N PROVE r[n] \in ToSet(s)
    BY <1>5, <1>7 DEF ToSet, D
  <2>2. ASSUME NEW i \in DOMAIN s PROVE \E n \in 1 .. N : r[n] = s[i]
    <3>1. PICK n \in 1 .. N : f[n] = i
      BY <1>5 DEF D
    <3> QED BY <1>7, <3>1
  <2>3. ToSet(r) \subseteq ToSet(s)
    <3> SUFFICES ASSUME NEW n \in 1 .. N PROVE r[n] \in ToSet(s)
      BY <1>7 DEF ToSet
    <3> QED BY <2>1
  <2>4. ToSet(s) \subseteq ToSet(r)
    <3> SUFFICES ASSUME NEW i \in DOMAIN s PROVE s[i] \in ToSet(r)
      BY DEF ToSet
    <3>1. PICK n \in DOMAIN r : r[n] = s[i]
      BY <1>7, <2>2
    <3> QED BY <3>1 DEF ToSet
  <2> QED BY <2>3, <2>4
<1>10. InKeyOrder(r)
  <2> SUFFICES ASSUME NEW l \in 1 .. N, NEW m \in 1 .. N, l < m
               PROVE  ~ Less(EndpointKey(r[m]), EndpointKey(r[l]))
    BY <1>7 DEF InKeyOrder
  <2>1. f[l] \in D /\ f[m] \in D /\ <<f[l], f[m]>> \in R
    BY <1>5
  <2>2. ~ Less(key(f[m]), key(f[l]))
    BY <1>4, <2>1
  <2> QED BY <1>7, <2>2 DEF key
<1> QED BY <1>8, <1>9, <1>10 DEF r

\* A search of the list returns the endpoint at the first of the places.
LEMMA FirstFacts ==
  ASSUME NEW list, NEW places \in SUBSET Nat, places # {}
  PROVE  \E i \in places : First(list, places) = list[i] /\ \A j \in places : i <= j
<1>1. \E i \in places : \A j \in places : i <= j
  <2> DEFINE R == {p \in Nat \X Nat : p[1] < p[2]}
  <2>1. IsWellFoundedOn(R, Nat)
    BY NatLessThanWellFounded DEF OpToRel
  <2>2. \A i, j \in Nat : j < i => <<j, i>> \in R
    OBVIOUS
  <2> HIDE DEF R
  <2>3. PICK i \in places : \A j \in places : ~ (<<j, i>> \in R)
    BY <2>1, WFMin
  <2>4. ASSUME NEW j \in places PROVE i <= j
    <3>1. i \in Nat /\ j \in Nat /\ <<j, i>> \notin R
      BY <2>3
    <3>2. ~ (j < i)
      BY <2>2, <3>1
    <3> QED BY <3>1, <3>2
  <2> QED BY <2>4
<1> QED BY <1>1 DEF First

-----------------------------------------------------------------------------
(* The invariant *)

\* What the document holds and the list contains: no more and no less.
Descriptor == [role : Roles, elements : Seq(SpElements \cup IdpElements)]

DocumentTyped ==
  /\ document \in Seq(Descriptor)
  /\ \A d \in DOMAIN document : document[d].elements \in Seq(Elements(document[d].role))

FromDescriptor(d) == LoadedFrom(d.role, ToSet(d.elements))
FromDocument(doc) == UNION {FromDescriptor(doc[i]) : i \in DOMAIN doc}

ListOfDocument ==
  /\ endpoints \in Seq(AnyEndpoint)
  /\ ToSet(endpoints) = FromDocument(document)
  /\ InKeyOrder(endpoints)

\* The login object keeps what the first of the two requests has looked up.
LoginKept ==
  login # Nothing =>
    /\ state = "loaded"
    /\ login = [req |-> login.req, binding |-> login.binding,
                profile |-> login.profile, sentTo |-> login.sentTo]
    /\ AnswerBinding(login.req) # NoBinding
    /\ login.binding = IF login.req.url = NoUrl THEN login.req.binding ELSE AnswerBinding(login.req)
    /\ login.profile = BindingProfile(AnswerBinding(login.req))
    /\ login.sentTo # Nothing /\ login.profile # "lecp" =>
         login.sentTo = ConsumerUrl(login.req, login.binding)

\* The artifact keeps the index of the issuer's first resolution service.
ArtifactKept ==
  artifact # Nothing =>
    /\ state = "loaded"
    /\ artifact = [role |-> artifact.role, index |-> artifact.index,
                   bytes |-> artifact.bytes, resolver |-> artifact.resolver]
    /\ artifact.role \in {"idp", "none"}
    /\ DefaultResolution(endpoints, artifact.role) # NoUrl
    /\ artifact.index = DefaultResolution(endpoints, artifact.role).index
    /\ artifact.bytes = Encode(artifact.index)
    /\ artifact.resolver # Nothing =>
         \E signed \in BOOLEAN :
           artifact.resolver = Url(ResolutionAt(endpoints, "idp", Decode(artifact.bytes, signed)))

MetadataInv == DocumentTyped /\ ListOfDocument /\ LoginKept /\ ArtifactKept

\* Before anything is loaded.
LEMMA MetadataInvInit == MetadataInit => MetadataInv
<1> SUFFICES ASSUME MetadataInit PROVE MetadataInv
  OBVIOUS
<1>1. document = <<>> /\ endpoints = <<>> /\ login = Nothing /\ artifact = Nothing
  BY DEF MetadataInit
<1>2. DocumentTyped
  BY <1>1 DEF DocumentTyped
<1>3. ListOfDocument
  BY <1>1 DEF ListOfDocument, InKeyOrder, ToSet, FromDocument
<1> QED BY <1>1, <1>2, <1>3 DEF MetadataInv, LoginKept, ArtifactKept

\* load_descriptor: the new endpoints are appended and the list is sorted.
LEMMA LoadDescriptorKeeps ==
  ASSUME DocumentTyped, ListOfDocument,
         NEW role \in Roles, NEW elements \in Seq(Elements(role)), NEW supported \in BOOLEAN,
         LoadDescriptor(role, elements, supported)
  PROVE  DocumentTyped' /\ ListOfDocument'
<1> DEFINE new == [role |-> role, elements |-> IF supported THEN elements ELSE <<>>]
<1>1. new \in Descriptor /\ new.role = role /\ new.elements \in Seq(Elements(role))
  <2>1. new.role = role /\ new.elements = IF supported THEN elements ELSE <<>>
    OBVIOUS
  <2>2. new.elements \in Seq(Elements(role))
    BY <2>1
  <2>3. Elements(role) \subseteq SpElements \cup IdpElements
    BY DEF Elements
  <2>4. new.elements \in Seq(SpElements \cup IdpElements)
    BY <2>2, <2>3
  <2> QED BY <2>1, <2>2, <2>4 DEF Descriptor
<1>2. document' = Append(document, new) /\ document \in Seq(Descriptor)
  BY DEF LoadDescriptor, DocumentTyped
<1>3. FromDescriptor(new) = IF supported THEN LoadedFrom(role, ToSet(elements)) ELSE {}
  BY DEF FromDescriptor, LoadedFrom, ToSet
<1> HIDE DEF new
<1>4. /\ document' \in Seq(Descriptor)
      /\ DOMAIN document' = DOMAIN document \cup {Len(document) + 1}
      /\ \A d \in DOMAIN document : document'[d] = document[d]
      /\ document'[Len(document) + 1] = new
  BY <1>1, <1>2
<1>5. DocumentTyped'
  BY <1>1, <1>4 DEF DocumentTyped
<1>6. FromDocument(document') = FromDocument(document) \cup FromDescriptor(new)
  <2> DEFINE before == FromDocument(document)
             after == FromDocument(document')
  <2>1. ASSUME NEW x \in after PROVE x \in before \cup FromDescriptor(new)
    <3>1. PICK d \in DOMAIN document' : x \in FromDescriptor(document'[d])
      BY DEF FromDocument
    <3>2. CASE d \in DOMAIN document
      BY <1>4, <3>1, <3>2 DEF FromDocument
    <3>3. CASE d = Len(document) + 1
      BY <1>4, <3>1, <3>3
    <3> QED BY <1>4, <3>2, <3>3
  <2>2. ASSUME NEW x \in before PROVE x \in after
    <3>1. PICK d \in DOMAIN document : x \in FromDescriptor(document[d])
      BY DEF FromDocument
    <3>2. d \in DOMAIN document' /\ x \in FromDescriptor(document'[d])
      BY <1>4, <3>1
    <3> QED BY <3>2 DEF FromDocument
  <2>3. FromDescriptor(new) \subseteq after
    <3>1. Len(document) + 1 \in DOMAIN document' /\ FromDescriptor(document'[Len(document) + 1]) = FromDescriptor(new)
      BY <1>4
    <3> QED BY <3>1 DEF FromDocument
  <2> QED BY <2>1, <2>2, <2>3
<1>7. CASE supported
  <2> DEFINE more == Endpoints(role, elements)
             all == endpoints \o more
  <2>1. endpoints' = Sorted(all)
    BY <1>7 DEF LoadDescriptor
  <2>2. more \in Seq(AnyEndpoint) /\ ToSet(more) = LoadedFrom(role, ToSet(elements))
    BY EndpointsFacts
  <2>3. endpoints \in Seq(AnyEndpoint)
    BY DEF ListOfDocument
  <2> HIDE DEF more
  <2>4. all \in Seq(AnyEndpoint) /\ ToSet(all) = ToSet(endpoints) \cup ToSet(more)
    <3>1. all \in Seq(AnyEndpoint)
      BY <2>2, <2>3
    <3>2. ASSUME NEW i \in DOMAIN all
          PROVE  all[i] \in ToSet(endpoints) \cup ToSet(more)
      <4>1. i \in Nat /\ (i <= Len(endpoints) => i \in DOMAIN endpoints /\ all[i] = endpoints[i])
            /\ (i > Len(endpoints) => i - Len(endpoints) \in DOMAIN more /\ all[i] = more[i - Len(endpoints)])
        BY <2>2, <2>3
      <4>2. Len(endpoints) \in Nat
        BY <2>3
      <4>3. CASE i <= Len(endpoints)
        BY <4>1, <4>3 DEF ToSet
      <4>4. CASE i > Len(endpoints)
        BY <4>1, <4>4 DEF ToSet
      <4> QED BY <4>1, <4>2, <4>3, <4>4
    <3>3. ASSUME NEW i \in DOMAIN endpoints
          PROVE  i \in DOMAIN all /\ all[i] = endpoints[i]
      BY <2>2, <2>3
    <3>4. ASSUME NEW i \in DOMAIN more
          PROVE  i + Len(endpoints) \in DOMAIN all /\ all[i + Len(endpoints)] = more[i]
      BY <2>2, <2>3
    <3> HIDE DEF all
    <3>5. ToSet(all) \subseteq ToSet(endpoints) \cup ToSet(more)
      BY <3>2 DEF ToSet
    <3>6. ToSet(endpoints) \subseteq ToSet(all)
      BY <3>3 DEF ToSet
    <3>7. ToSet(more) \subseteq ToSet(all)
      BY <3>4 DEF ToSet
    <3> QED BY <3>1, <3>5, <3>6, <3>7
  <2> HIDE DEF all
  <2>5. /\ Sorted(all) \in Seq(AnyEndpoint) /\ ToSet(Sorted(all)) = ToSet(all)
        /\ InKeyOrder(Sorted(all))
    BY <2>4, SortedFacts
  <2>6. InKeyOrder(endpoints)'
    BY <2>1, <2>5 DEF InKeyOrder
  <2>7. ToSet(endpoints)' = ToSet(endpoints) \cup FromDescriptor(new)
    <3>1. ToSet(endpoints)' = ToSet(Sorted(all))
      BY <2>1 DEF ToSet
    <3> QED BY <1>3, <1>7, <2>2, <2>4, <2>5, <3>1
  <2>8. ToSet(endpoints)' = FromDocument(document')
    <3>1. ToSet(endpoints) = FromDocument(document)
      BY DEF ListOfDocument
    <3> QED BY <1>6, <2>7, <3>1
  <2>9. ListOfDocument'
    <3>1. endpoints' \in Seq(AnyEndpoint)
      BY <2>1, <2>5
    <3> QED BY <2>6, <2>8, <3>1 DEF ListOfDocument, FromDescriptor
  <2> QED BY <1>5, <2>9
<1>8. CASE ~ supported
  <2>1. endpoints' = endpoints
    BY <1>8 DEF LoadDescriptor
  <2>2. ToSet(endpoints)' = ToSet(endpoints) /\ InKeyOrder(endpoints)' = InKeyOrder(endpoints)
    BY <2>1 DEF ToSet, InKeyOrder
  <2>3. FromDescriptor(new) = {}
    BY <1>3, <1>8
  <2>4. ToSet(endpoints)' = FromDocument(document')
    BY <1>6, <2>2, <2>3 DEF ListOfDocument
  <2>5. ListOfDocument'
    BY <2>1, <2>2, <2>4 DEF ListOfDocument, FromDescriptor
  <2> QED BY <1>5, <2>5
<1> QED BY <1>7, <1>8

\* The list is never changed once the metadata are loaded, so that a step that
\* leaves the login object alone leaves what was looked up for it alone.
LEMMA LookupsKept ==
  ASSUME LoginKept, ArtifactKept, UNCHANGED <<endpoints, state>>
  PROVE  /\ login' = login => LoginKept'
         /\ artifact' = artifact => ArtifactKept'
<1>1. \A req : AnswerBinding(req)' = AnswerBinding(req)
  BY DEF AnswerBinding
<1>2. \A req, b : ConsumerUrl(req, b)' = ConsumerUrl(req, b)
  BY DEF ConsumerUrl
<1>3. ASSUME login' = login PROVE LoginKept'
  BY <1>1, <1>2, <1>3 DEF LoginKept
<1>4. ASSUME artifact' = artifact PROVE ArtifactKept'
  BY <1>4 DEF ArtifactKept
<1> QED BY <1>3, <1>4

\* The inductive step.
LEMMA MetadataInvStep == MetadataInv /\ [MetadataNext]_metadataVars => MetadataInv'
<1> SUFFICES ASSUME MetadataInv, [MetadataNext]_metadataVars PROVE MetadataInv'
  OBVIOUS
<1>1. DocumentTyped /\ ListOfDocument /\ LoginKept /\ ArtifactKept
  BY DEF MetadataInv
<1>2. ASSUME UNCHANGED provider PROVE DocumentTyped' /\ ListOfDocument'
  BY <1>1, <1>2 DEF provider, DocumentTyped, ListOfDocument, InKeyOrder, ToSet, FromDocument
<1>3. ASSUME NEW role \in Roles, NEW supported \in BOOLEAN,
             NEW elements \in BoundedSeq(Elements(role), MaxElements),
             LoadDescriptor(role, elements, supported)
      PROVE  MetadataInv'
  <2>1. elements \in Seq(Elements(role))
    <3>1. PICK m \in 0 .. MaxElements : elements \in [1 .. m -> Elements(role)]
      BY DEF BoundedSeq, SeqOf
    <3>2. m \in Nat
      BY <3>1, MetadataConstants
    <3> QED BY <3>1, <3>2
  <2>2. DocumentTyped' /\ ListOfDocument'
    BY <1>1, <1>3, <2>1, LoadDescriptorKeeps
  <2>3. login' = Nothing /\ artifact' = Nothing
    BY <1>1, <1>3 DEF LoadDescriptor, LoginKept, ArtifactKept
  <2> QED BY <2>2, <2>3 DEF MetadataInv, LoginKept, ArtifactKept
<1>4. ASSUME NEW role \in Roles, EndLoad(role) PROVE MetadataInv'
  <2>1. login' = Nothing /\ artifact' = Nothing
    BY <1>1, <1>4 DEF EndLoad, LoginKept, ArtifactKept
  <2> QED BY <1>2, <1>4, <2>1 DEF EndLoad, MetadataInv, LoginKept, ArtifactKept
<1>5. ASSUME NEW req \in Requests, ProcessAuthnRequest(req) PROVE MetadataInv'
  <2>1. UNCHANGED <<provider, endpoints, state, artifact>> /\ state = "loaded"
    BY <1>5 DEF ProcessAuthnRequest, provider
  <2>2. login' = [req |-> req,
                  binding |-> IF req.url = NoUrl THEN req.binding ELSE AnswerBinding(req),
                  profile |-> BindingProfile(AnswerBinding(req)), sentTo |-> Nothing]
        /\ AnswerBinding(req) # NoBinding
    BY <1>5 DEF ProcessAuthnRequest
  <2>3. AnswerBinding(req)' = AnswerBinding(req)
    BY <2>1 DEF AnswerBinding
  <2>4. \A r : AnswerBinding(r)' = AnswerBinding(r)
    BY <2>1 DEF AnswerBinding
  <2>5. LoginKept'
    BY <2>1, <2>2, <2>4 DEF LoginKept
  <2> QED BY <1>1, <1>2, <2>1, <2>5, LookupsKept DEF MetadataInv
<1>6. CASE BuildResponse
  <2>1. UNCHANGED <<provider, endpoints, state, artifact>>
    BY <1>6 DEF BuildResponse, provider
  <2>2. login # Nothing
        /\ login' = [login EXCEPT !.sentTo =
             IF login.profile = "lecp" THEN Url(ConsumerWithBinding(endpoints, "paos"))
             ELSE ConsumerUrl(login.req, login.binding)]
    BY <1>6 DEF BuildResponse
  <2>3. PICK url : login' = [login EXCEPT !.sentTo = url]
                   /\ (login.profile # "lecp" => url = ConsumerUrl(login.req, login.binding))
    BY <2>2
  <2>4. login = [req |-> login.req, binding |-> login.binding,
                 profile |-> login.profile, sentTo |-> login.sentTo]
    BY <1>1, <2>2 DEF LoginKept
  <2>5. login' = [req |-> login.req, binding |-> login.binding,
                  profile |-> login.profile, sentTo |-> url]
    BY <2>3, <2>4
  <2>6. \A r : AnswerBinding(r)' = AnswerBinding(r)
    BY <2>1 DEF AnswerBinding
  <2>7. \A r, b : ConsumerUrl(r, b)' = ConsumerUrl(r, b)
    BY <2>1 DEF ConsumerUrl
  <2>8. LoginKept'
    BY <1>1, <2>1, <2>2, <2>3, <2>5, <2>6, <2>7 DEF LoginKept
  <2> QED BY <1>1, <1>2, <2>1, <2>8, LookupsKept DEF MetadataInv
<1>7. ASSUME NEW role \in {"idp", "none"}, BuildArtifact(role) PROVE MetadataInv'
  <2>1. UNCHANGED <<provider, endpoints, state, login>> /\ state = "loaded"
    BY <1>7 DEF BuildArtifact, provider
  <2>2. /\ DefaultResolution(endpoints, role) # NoUrl
        /\ artifact' = [role |-> role, index |-> DefaultResolution(endpoints, role).index,
                        bytes |-> Encode(DefaultResolution(endpoints, role).index),
                        resolver |-> Nothing]
    BY <1>7 DEF BuildArtifact
  <2>3. ArtifactKept'
    BY <2>1, <2>2 DEF ArtifactKept
  <2> QED BY <1>1, <1>2, <2>1, <2>3, LookupsKept DEF MetadataInv
<1>8. ASSUME NEW signed \in BOOLEAN, ResolveArtifact(signed) PROVE MetadataInv'
  <2>1. UNCHANGED <<provider, endpoints, state, login>>
    BY <1>8 DEF ResolveArtifact, provider
  <2>2. artifact # Nothing
        /\ artifact' = [artifact EXCEPT !.resolver =
             Url(ResolutionAt(endpoints, "idp", Decode(artifact.bytes, signed)))]
    BY <1>8 DEF ResolveArtifact
  <2>3. artifact = [role |-> artifact.role, index |-> artifact.index,
                    bytes |-> artifact.bytes, resolver |-> artifact.resolver]
    BY <1>1, <2>2 DEF ArtifactKept
  <2>4. artifact' = [role |-> artifact.role, index |-> artifact.index, bytes |-> artifact.bytes,
                     resolver |-> Url(ResolutionAt(endpoints, "idp", Decode(artifact.bytes, signed)))]
    BY <2>2, <2>3
  <2>5. ArtifactKept'
    BY <1>1, <2>1, <2>2, <2>4 DEF ArtifactKept
  <2> QED BY <1>1, <1>2, <2>1, <2>5, LookupsKept DEF MetadataInv
<1>9. CASE UNCHANGED metadataVars
  <2>1. UNCHANGED <<provider, endpoints, state, login, artifact>>
    BY <1>9 DEF metadataVars, provider
  <2> QED BY <1>1, <1>2, <2>1, LookupsKept DEF MetadataInv
<1> QED BY <1>3, <1>4, <1>5, <1>6, <1>7, <1>8, <1>9 DEF MetadataNext

-----------------------------------------------------------------------------
(* The list and the document *)

\* An element and the endpoint made of it agree on all that a lookup compares.
Same(x, e) ==
  /\ x.url = e.url /\ x.binding = e.binding
  /\ x.index = e.index /\ x.isDefault = e.isDefault

IndexedKinds == {"AssertionConsumerService", "ArtifactResolutionService"}

ListedAt(role, kind) ==
  {i \in DOMAIN endpoints : endpoints[i].role = role /\ endpoints[i].kind = kind}

\* The endpoints listed for a role and a kind are those its descriptors declare.
LEMMA ListedAreDeclared ==
  ASSUME DocumentTyped, ListOfDocument, NEW role \in Roles, NEW kind \in IndexedKinds
  PROVE  /\ ListedAt(role, kind) \subseteq Nat
         /\ \A i \in ListedAt(role, kind) :
              /\ endpoints[i] # NoUrl /\ endpoints[i].url # NoUrl
              /\ endpoints[i].index \in Nat /\ endpoints[i].isDefault \in {"true", "false", "absent"}
              /\ \E e \in Declared(role, kind) : Same(endpoints[i], e)
         /\ \A e \in Declared(role, kind) :
              \E i \in ListedAt(role, kind) : Same(endpoints[i], e)
<1>1. endpoints \in Seq(AnyEndpoint) /\ ToSet(endpoints) = FromDocument(document)
  BY DEF ListOfDocument
<1>2. ASSUME NEW r \in Roles, NEW e \in SpElements \cup IdpElements, Loads(e), e.kind \in IndexedKinds
      PROVE  /\ Endpoint(r, e) # NoUrl /\ Endpoint(r, e).url # NoUrl
             /\ Endpoint(r, e).index \in Nat
             /\ Endpoint(r, e).isDefault \in {"true", "false", "absent"}
             /\ Endpoint(r, e).role = r /\ Endpoint(r, e).kind = e.kind
             /\ Same(Endpoint(r, e), e)
  <2>1. Endpoint(r, e) # NoUrl
    BY NoUrlIsNoEndpoint
  <2>2. e.index # NoIndex /\ e.index \in Nat /\ e.isDefault \in {"true", "false", "absent"} /\ e.url # NoUrl
    BY <1>2, MetadataConstants DEF Loads, IndexOk, Indexed, IndexedKinds
  <2>3. /\ Endpoint(r, e).url = e.url /\ Endpoint(r, e).binding = e.binding
        /\ Endpoint(r, e).index = e.index /\ Endpoint(r, e).isDefault = e.isDefault
        /\ Endpoint(r, e).role = r /\ Endpoint(r, e).kind = e.kind
    BY <1>2 DEF Endpoint, Indexed, IndexedKinds
  <2> QED BY <2>1, <2>2, <2>3 DEF Same
<1>3. ASSUME NEW d \in DOMAIN document, NEW e \in ToSet(document[d].elements)
      PROVE  document[d].role \in Roles /\ e \in SpElements \cup IdpElements
  <2>1. document[d] \in Descriptor
    BY DEF DocumentTyped
  <2> QED BY <2>1 DEF Descriptor, ToSet
<1>4. ASSUME NEW i \in ListedAt(role, kind)
      PROVE  \E e \in Declared(role, kind) :
               /\ e \in SpElements \cup IdpElements /\ Loads(e)
               /\ e.kind = kind /\ endpoints[i] = Endpoint(role, e)
  <2>1. i \in DOMAIN endpoints /\ endpoints[i].role = role /\ endpoints[i].kind = kind
    BY DEF ListedAt
  <2>2. endpoints[i] \in FromDocument(document)
    BY <1>1, <2>1 DEF ToSet
  <2>3. PICK d \in DOMAIN document : endpoints[i] \in FromDescriptor(document[d])
    BY <2>2 DEF FromDocument
  <2>4. PICK e \in ToSet(document[d].elements) :
          Loads(e) /\ endpoints[i] = Endpoint(document[d].role, e)
    BY <2>3 DEF FromDescriptor, LoadedFrom
  <2>5. e \in SpElements \cup IdpElements
    BY <1>3
  <2>6. document[d].role = role /\ e.kind = kind
    BY <2>1, <2>4 DEF Endpoint
  <2>7. e \in Declared(role, kind)
    BY <2>4, <2>6 DEF Declared
  <2> QED BY <2>4, <2>5, <2>6, <2>7
<1>5. ASSUME NEW e \in Declared(role, kind)
      PROVE  /\ e \in SpElements \cup IdpElements /\ Loads(e) /\ e.kind = kind
             /\ \E i \in DOMAIN endpoints : endpoints[i] = Endpoint(role, e)
  <2>1. PICK d \in DOMAIN document :
          document[d].role = role /\ e \in ToSet(document[d].elements) /\ Loads(e) /\ e.kind = kind
    BY DEF Declared
  <2>2. Endpoint(role, e) \in FromDescriptor(document[d])
    BY <2>1 DEF FromDescriptor, LoadedFrom
  <2>3. Endpoint(role, e) \in ToSet(endpoints)
    BY <1>1, <2>2 DEF FromDocument
  <2> QED BY <1>3, <2>1, <2>3 DEF ToSet
<1>6. ListedAt(role, kind) \subseteq Nat
  BY <1>1 DEF ListedAt
<1>7. ASSUME NEW i \in ListedAt(role, kind)
      PROVE  /\ endpoints[i] # NoUrl /\ endpoints[i].url # NoUrl
             /\ endpoints[i].index \in Nat /\ endpoints[i].isDefault \in {"true", "false", "absent"}
             /\ \E e \in Declared(role, kind) : Same(endpoints[i], e)
  BY <1>2, <1>4
<1>8. ASSUME NEW e \in Declared(role, kind)
      PROVE  \E i \in ListedAt(role, kind) : Same(endpoints[i], e)
  <2>1. PICK i \in DOMAIN endpoints : endpoints[i] = Endpoint(role, e)
    BY <1>5
  <2>2. e \in SpElements \cup IdpElements /\ Loads(e) /\ e.kind = kind
    BY <1>5
  <2>3. endpoints[i].role = role /\ endpoints[i].kind = kind /\ Same(endpoints[i], e)
    BY <1>2, <2>1, <2>2
  <2>4. i \in ListedAt(role, kind)
    BY <2>3 DEF ListedAt
  <2> QED BY <2>3, <2>4
<1> QED BY <1>6, <1>7, <1>8

\* Of two endpoints of a role and a kind the earlier one is not the less
\* preferred one.
LEMMA EarlierIsPreferred ==
  ASSUME DocumentTyped, ListOfDocument, NEW role \in Roles, NEW kind \in IndexedKinds,
         NEW i \in ListedAt(role, kind), NEW j \in ListedAt(role, kind), i <= j
  PROVE  LET x == endpoints[i]
             y == endpoints[j]
         IN  \/ DefaultRank(x.isDefault) < DefaultRank(y.isDefault)
             \/ DefaultRank(x.isDefault) = DefaultRank(y.isDefault) /\ x.index <= y.index
<1> DEFINE x == endpoints[i]
           y == endpoints[j]
<1>1. i \in DOMAIN endpoints /\ j \in DOMAIN endpoints /\ i \in Nat /\ j \in Nat
      /\ x \in AnyEndpoint /\ y \in AnyEndpoint
  BY DEF ListedAt, ListOfDocument
<1>2. x.role = y.role /\ x.kind = y.kind
  BY DEF ListedAt
<1>3. x.index \in Nat /\ y.index \in Nat
  BY ListedAreDeclared
<1>4. /\ EndpointKey(x) \in Key /\ EndpointKey(y) \in Key
      /\ EndpointKey(x) = <<RoleRank(x.role), KindRank(x.kind), DefaultRank(x.isDefault), x.index>>
      /\ EndpointKey(y) = <<RoleRank(y.role), KindRank(y.kind), DefaultRank(y.isDefault), y.index>>
  BY <1>1, KeyTyped
<1>5. i = j \/ ~ Less(EndpointKey(y), EndpointKey(x))
  BY <1>1 DEF ListOfDocument, InKeyOrder
<1> HIDE DEF x, y
<1>6. DefaultRank(x.isDefault) \in Int /\ DefaultRank(y.isDefault) \in Int
  BY <1>4 DEF Key
<1>7. \/ DefaultRank(x.isDefault) < DefaultRank(y.isDefault)
      \/ DefaultRank(x.isDefault) = DefaultRank(y.isDefault) /\ x.index <= y.index
  <2>1. CASE i = j
    BY <1>3, <2>1 DEF x, y
  <2>2. CASE ~ Less(EndpointKey(y), EndpointKey(x))
    <3> DEFINE k == EndpointKey(x)
               q == EndpointKey(y)
    <3>1. k[1] = q[1] /\ k[2] = q[2] /\ k[3] = DefaultRank(x.isDefault) /\ q[3] = DefaultRank(y.isDefault)
          /\ k[4] = x.index /\ q[4] = y.index
      BY <1>2, <1>4
    <3>2. k \in Key /\ q \in Key /\ ~ Less(q, k)
      BY <1>4, <2>2
    <3> HIDE DEF k, q
    <3>3. ~ (q[3] < k[3]) /\ ~ (q[3] = k[3] /\ q[4] < k[4])
      BY <3>1, <3>2, LessSpelled
    <3> QED BY <1>3, <1>6, <3>1, <3>3
  <2> QED BY <1>5, <2>1, <2>2
<1> QED BY <1>7 DEF x, y

-----------------------------------------------------------------------------
(* The two lookups of a login *)

\* A search of the consumers: it fails only if none fits, and otherwise finds
\* the first one that fits.
LEMMA SearchFacts ==
  ASSUME DocumentTyped, ListOfDocument, NEW role \in Roles, NEW kind \in IndexedKinds,
         NEW places \in SUBSET ListedAt(role, kind)
  PROVE  /\ places = {} => First(endpoints, places) = NoUrl
         /\ places # {} =>
              /\ First(endpoints, places) # NoUrl
              /\ Url(First(endpoints, places)) = First(endpoints, places).url
              /\ First(endpoints, places).url # NoUrl
              /\ \E i \in places : First(endpoints, places) = endpoints[i] /\ \A j \in places : i <= j
<1>1. places = {} => First(endpoints, places) = NoUrl
  BY DEF First
<1>2. ASSUME places # {}
      PROVE  /\ First(endpoints, places) # NoUrl
             /\ Url(First(endpoints, places)) = First(endpoints, places).url
             /\ First(endpoints, places).url # NoUrl
             /\ \E i \in places : First(endpoints, places) = endpoints[i] /\ \A j \in places : i <= j
  <2>1. places \in SUBSET Nat
    BY ListedAreDeclared
  <2>2. PICK i \in places : First(endpoints, places) = endpoints[i] /\ \A j \in places : i <= j
    BY <1>2, <2>1, FirstFacts
  <2>3. endpoints[i] # NoUrl /\ endpoints[i].url # NoUrl
    BY ListedAreDeclared
  <2> QED BY <2>2, <2>3 DEF Url
<1> QED BY <1>1, <1>2

\* The places the lookups search are places of assertion consumers.
LEMMA ConsumerPlaces ==
  ListedAt("sp", "AssertionConsumerService") = {i \in DOMAIN endpoints : IsConsumer(endpoints[i])}
BY DEF ListedAt, IsConsumer

\* process_authn_request_msg and get_assertion_consumer_service_url agree.
LEMMA LookupsAgree ==
  ASSUME DocumentTyped, ListOfDocument, NEW req,
         AnswerBinding(req) # NoBinding, Asked(req) # {}
  PROVE  LET b == IF req.url = NoUrl THEN req.binding ELSE AnswerBinding(req)
         IN  \E e \in Asked(req) :
               e.url = ConsumerUrl(req, b) /\ e.binding = AnswerBinding(req)
<1> DEFINE b == IF req.url = NoUrl THEN req.binding ELSE AnswerBinding(req)
           Places == ListedAt("sp", "AssertionConsumerService")
           answer == AnswerBinding(req)
           sentTo == ConsumerUrl(req, b)
<1>1. "sp" \in Roles /\ "AssertionConsumerService" \in IndexedKinds
  BY DEF Roles, IndexedKinds
<1>2. /\ \A i \in Places : /\ endpoints[i] # NoUrl /\ endpoints[i].url # NoUrl
                            /\ \E e \in Consumers : Same(endpoints[i], e)
      /\ \A e \in Consumers : \E i \in Places : Same(endpoints[i], e)
  BY <1>1, ListedAreDeclared DEF Consumers
<1>3. \A i : i \in Places <=> i \in DOMAIN endpoints /\ IsConsumer(endpoints[i])
  BY ConsumerPlaces
<1>5. CASE req.url # NoUrl /\ req.binding # NoBinding
  <2>1. ConsumerKnown(endpoints, req.url, req.binding) /\ answer = req.binding /\ b = req.binding
    BY <1>5 DEF AnswerBinding
  <2>2. sentTo = req.url
    BY <1>5, <2>1 DEF ConsumerUrl
  <2>3. PICK e \in Asked(req) : e.url = req.url /\ e.binding = req.binding
    BY <1>5 DEF Asked
  <2> QED BY <2>1, <2>2, <2>3
<1>6. CASE req.url # NoUrl /\ req.binding = NoBinding
  <2> DEFINE c == ConsumerWithUrl(endpoints, req.url)
             P == {i \in Places : endpoints[i].url = req.url}
  <2>1. c = First(endpoints, P)
    <3>1. P = {i \in DOMAIN endpoints : IsConsumer(endpoints[i]) /\ endpoints[i].url = req.url}
      BY <1>3
    <3> QED BY <3>1 DEF ConsumerWithUrl
  <2>2. c # NoUrl /\ answer = c.binding
    BY <1>6 DEF AnswerBinding
  <2>3. PICK i \in P : c = endpoints[i]
    BY <1>1, <2>1, <2>2, SearchFacts
  <2>4. i \in DOMAIN endpoints /\ endpoints[i].role = "sp" /\ endpoints[i].url = req.url
        /\ endpoints[i].binding = answer
    BY <2>2, <2>3 DEF ListedAt
  <2>5. ConsumerKnown(endpoints, req.url, answer) /\ b = answer
    BY <1>6, <2>4 DEF ConsumerKnown
  <2>6. sentTo = req.url
    BY <1>6, <2>5 DEF ConsumerUrl
  <2>7. PICK e \in Consumers : Same(endpoints[i], e)
    BY <1>2, <2>3
  <2>8. e \in Asked(req) /\ e.url = req.url /\ e.binding = answer
    BY <1>6, <2>4, <2>7 DEF Same, Asked
  <2> QED BY <2>6, <2>8
<1>7. CASE req.url = NoUrl /\ req.binding # NoBinding
  <2> DEFINE c == ConsumerWithBinding(endpoints, req.binding)
             P == {i \in Places : endpoints[i].binding = req.binding}
  <2>1. c = First(endpoints, P)
    <3>1. P = {i \in DOMAIN endpoints : IsConsumer(endpoints[i]) /\ endpoints[i].binding = req.binding}
      BY <1>3
    <3> QED BY <3>1 DEF ConsumerWithBinding
  <2>2. answer = req.binding /\ b = req.binding /\ req.index = NoIndex
    BY <1>7 DEF AnswerBinding
  <2>3. P # {}
    <3>1. PICK e \in Consumers : e.binding = req.binding
      BY <1>7 DEF Asked
    <3>2. PICK i \in Places : Same(endpoints[i], e)
      BY <1>2
    <3> QED BY <3>1, <3>2 DEF Same
  <2>4. PICK i \in P : c = endpoints[i] /\ Url(c) = c.url /\ c.url # NoUrl
    BY <1>1, <2>1, <2>3, SearchFacts
  <2>5. sentTo = endpoints[i].url
    BY <1>7, <2>2, <2>4 DEF ConsumerUrl
  <2>6. PICK e \in Consumers : Same(endpoints[i], e)
    BY <1>2
  <2>7. e \in Asked(req) /\ e.url = endpoints[i].url /\ e.binding = req.binding
    BY <1>7, <2>6 DEF Same, Asked
  <2> QED BY <2>2, <2>5, <2>7
<1>8. CASE req.url = NoUrl /\ req.binding = NoBinding
  <2> DEFINE c == ConsumerAt(endpoints, req.index)
             Fits(x) == IF req.index # NoIndex THEN x.index = req.index
                        ELSE x.binding \in {"post", "artifact"}
             P == {i \in Places : Fits(endpoints[i])}
  <2>1. c = First(endpoints, P)
    <3>1. P = {i \in DOMAIN endpoints : IsConsumer(endpoints[i]) /\ Fits(endpoints[i])}
      BY <1>3
    <3> QED BY <3>1 DEF ConsumerAt
  <2>2. c # NoUrl /\ answer = c.binding /\ b = NoBinding
    BY <1>8 DEF AnswerBinding
  <2>3. PICK i \in P : c = endpoints[i] /\ Url(c) = c.url /\ c.url # NoUrl /\ \A j \in P : i <= j
    BY <1>1, <2>1, <2>2, SearchFacts
  <2>4. sentTo = endpoints[i].url
    BY <1>8, <2>2, <2>3 DEF ConsumerUrl
  <2>5. PICK e \in Consumers : Same(endpoints[i], e)
    BY <1>2
  <2>6. e.url = sentTo /\ e.binding = answer
    BY <2>2, <2>3, <2>4, <2>5 DEF Same
  <2>7. CASE req.index # NoIndex
    <3>1. e \in Asked(req)
      BY <1>8, <2>5, <2>7 DEF Same, Asked
    <3> QED BY <2>6, <3>1
  <2>8. CASE req.index = NoIndex
    <3> DEFINE S == {f \in Consumers : f.binding \in {"post", "artifact"}}
    <3>1. e \in S
      BY <2>5, <2>8 DEF Same
    <3>2. ASSUME NEW f \in S
          PROVE  \/ DefaultRank(e.isDefault) < DefaultRank(f.isDefault)
                 \/ DefaultRank(e.isDefault) = DefaultRank(f.isDefault) /\ e.index <= f.index
      <4>1. PICK j \in Places : Same(endpoints[j], f)
        BY <1>2
      <4>2. j \in P /\ i \in Places /\ i <= j
        BY <2>3, <2>8, <4>1 DEF Same
      <4>3. \/ DefaultRank(endpoints[i].isDefault) < DefaultRank(endpoints[j].isDefault)
            \/ /\ DefaultRank(endpoints[i].isDefault) = DefaultRank(endpoints[j].isDefault)
               /\ endpoints[i].index <= endpoints[j].index
        BY <1>1, <4>2, EarlierIsPreferred
      <4> QED BY <2>5, <4>1, <4>3 DEF Same
    <3>3. e \in Preferred(S)
      BY <3>1, <3>2 DEF Preferred
    <3>4. Asked(req) = Preferred(S)
      BY <1>8, <2>8 DEF Asked
    <3> QED BY <2>6, <3>3, <3>4
  <2> QED BY <2>7, <2>8
<1> QED BY <1>5, <1>6, <1>7, <1>8

\* What the invariant says of the answer.
LEMMA InvResponse == MetadataInv => ResponseReachesConsumer
<1> SUFFICES ASSUME MetadataInv, login # Nothing, login.sentTo # Nothing, login.profile # "lecp",
                    Asked(login.req) # {}
             PROVE  \E e \in Asked(login.req) :
                      e.url = login.sentTo /\ BindingProfile(e.binding) = login.profile
  BY DEF ResponseReachesConsumer
<1>1. /\ AnswerBinding(login.req) # NoBinding
      /\ login.binding = IF login.req.url = NoUrl THEN login.req.binding ELSE AnswerBinding(login.req)
      /\ login.profile = BindingProfile(AnswerBinding(login.req))
      /\ login.sentTo = ConsumerUrl(login.req, login.binding)
  BY DEF MetadataInv, LoginKept
<1>2. DocumentTyped /\ ListOfDocument
  BY DEF MetadataInv
<1>3. PICK e \in Asked(login.req) :
        e.url = ConsumerUrl(login.req, login.binding) /\ e.binding = AnswerBinding(login.req)
  BY <1>1, <1>2, LookupsAgree
<1> QED BY <1>1, <1>3

-----------------------------------------------------------------------------
(* The index that travels in an artifact *)

\* build_artifact writes two bytes and init_artifact_resolve reads back what it
\* wrote, whatever the sign of char, if the index is below 128.
LEMMA IndexSurvives ==
  ASSUME NEW index \in Nat, index < 128, NEW signed \in BOOLEAN
  PROVE  Decode(Encode(index), signed) = index
<1>1. index \div 256 = 0 /\ index % 256 = index
  OBVIOUS
<1>2. Encode(index) = <<0, index>>
  BY <1>1 DEF Encode
<1>3. Char(0, signed) = 0 /\ Char(index, signed) = index
  BY DEF Char
<1>4. Decode(Encode(index), signed) = (0 * 65536 + index) % 65536
  BY <1>2, <1>3 DEF Decode
<1> QED BY <1>4

\* The receiver finds the service that the issuer's index was taken from.
LEMMA ResolutionFound ==
  ASSUME DocumentTyped, ListOfDocument, NEW role \in {"idp", "none"},
         DefaultResolution(endpoints, role) # NoUrl,
         role = "idp" \/ Declared("sp", "ArtifactResolutionService") = {}
  PROVE  LET c == DefaultResolution(endpoints, role)
         IN  /\ c.index \in Nat
             /\ \E e \in Preferred(Declared("idp", "ArtifactResolutionService")) :
                  e.url = Url(ResolutionAt(endpoints, "idp", c.index)) /\ e.index = c.index
<1> DEFINE c == DefaultResolution(endpoints, role)
           kind == "ArtifactResolutionService"
           Places == ListedAt("idp", kind)
           S == Declared("idp", kind)
<1>1. "sp" \in Roles /\ "idp" \in Roles /\ kind \in IndexedKinds
  BY DEF Roles, IndexedKinds
<1>2. \A i \in DOMAIN endpoints : endpoints[i].role \in Roles
  <2> SUFFICES ASSUME NEW i \in DOMAIN endpoints PROVE endpoints[i].role \in Roles
    OBVIOUS
  <2>1. endpoints[i] \in AnyEndpoint
    BY DEF ListOfDocument
  <2> QED BY <2>1 DEF AnyEndpoint, LoadedFrom, Endpoint, Roles
<1>3. c = First(endpoints, Places)
  <2>1. ASSUME NEW i \in DOMAIN endpoints, IsResolution(endpoints[i]), role \in {endpoints[i].role, "none"}
        PROVE  endpoints[i].role = "idp"
    <3>1. CASE role = "idp"
      BY <2>1, <3>1
    <3>2. CASE Declared("sp", kind) = {}
      <4>1. ListedAt("sp", kind) = {}
        BY <1>1, <3>2, ListedAreDeclared
      <4>2. endpoints[i].role # "sp"
        BY <2>1, <4>1 DEF ListedAt, IsResolution
      <4> QED BY <1>2, <4>2 DEF Roles
    <3> QED BY <3>1, <3>2
  <2>2. Places = {i \in DOMAIN endpoints : IsResolution(endpoints[i]) /\ role \in {endpoints[i].role, "none"}}
    BY <2>1 DEF ListedAt, IsResolution
  <2> QED BY <2>2 DEF DefaultResolution
<1>4. PICK i \in Places : c = endpoints[i] /\ \A j \in Places : i <= j
  BY <1>1, <1>3, SearchFacts
<1>5. c.index \in Nat
  BY <1>1, <1>4, ListedAreDeclared
<1> DEFINE P == {j \in Places : endpoints[j].index = c.index}
<1>6. ResolutionAt(endpoints, "idp", c.index) = First(endpoints, P)
  <2>1. P = {j \in DOMAIN endpoints : /\ IsResolution(endpoints[j])
                                      /\ endpoints[j].role = "idp" /\ endpoints[j].index = c.index}
    BY DEF ListedAt, IsResolution
  <2> QED BY <2>1 DEF ResolutionAt
<1> HIDE DEF c
<1>7. i \in P /\ Places \subseteq Nat
  BY <1>1, <1>4, ListedAreDeclared
<1>8. PICK m \in P : /\ First(endpoints, P) = endpoints[m] /\ \A j \in P : m <= j
                     /\ Url(First(endpoints, P)) = endpoints[m].url
  <2>1. P \in SUBSET Places /\ P # {}
    BY <1>7
  <2> HIDE DEF P
  <2> QED BY <1>1, <2>1, SearchFacts
<1>9. m = i
  <2>1. m <= i /\ i <= m /\ m \in Nat /\ i \in Nat
    BY <1>4, <1>7, <1>8
  <2> QED BY <2>1
<1>10. PICK e \in S : Same(endpoints[i], e)
  BY <1>1, ListedAreDeclared
<1>11. ASSUME NEW f \in S
       PROVE  \/ DefaultRank(e.isDefault) < DefaultRank(f.isDefault)
              \/ DefaultRank(e.isDefault) = DefaultRank(f.isDefault) /\ e.index <= f.index
  <2>1. PICK j \in Places : Same(endpoints[j], f)
    BY <1>1, ListedAreDeclared
  <2>2. \/ DefaultRank(endpoints[i].isDefault) < DefaultRank(endpoints[j].isDefault)
        \/ /\ DefaultRank(endpoints[i].isDefault) = DefaultRank(endpoints[j].isDefault)
           /\ endpoints[i].index <= endpoints[j].index
    BY <1>1, <1>4, EarlierIsPreferred
  <2> QED BY <1>10, <2>1, <2>2 DEF Same
<1>12. e \in Preferred(S)
  BY <1>11 DEF Preferred
<1>13. e.url = Url(ResolutionAt(endpoints, "idp", c.index)) /\ e.index = c.index
  BY <1>4, <1>6, <1>8, <1>9, <1>10 DEF Same
<1> QED BY <1>5, <1>12, <1>13 DEF c

\* What the invariant says of an artifact.
LEMMA InvArtifact == MetadataInv => ArtifactFindsIssuer
<1> SUFFICES ASSUME MetadataInv, artifact # Nothing, artifact.resolver # Nothing, artifact.index < 128,
                    artifact.role = "idp" \/ Declared("sp", "ArtifactResolutionService") = {}
             PROVE  \E e \in Preferred(Declared("idp", "ArtifactResolutionService")) :
                      e.url = artifact.resolver /\ e.index = artifact.index
  BY DEF ArtifactFindsIssuer
<1>1. /\ artifact.role \in {"idp", "none"}
      /\ DefaultResolution(endpoints, artifact.role) # NoUrl
      /\ artifact.index = DefaultResolution(endpoints, artifact.role).index
      /\ artifact.bytes = Encode(artifact.index)
  BY DEF MetadataInv, ArtifactKept
<1>2. PICK signed \in BOOLEAN :
        artifact.resolver = Url(ResolutionAt(endpoints, "idp", Decode(artifact.bytes, signed)))
  BY DEF MetadataInv, ArtifactKept
<1>3. DocumentTyped /\ ListOfDocument
  BY DEF MetadataInv
<1>4. /\ artifact.index \in Nat
      /\ \E e \in Preferred(Declared("idp", "ArtifactResolutionService")) :
           e.url = Url(ResolutionAt(endpoints, "idp", artifact.index)) /\ e.index = artifact.index
  BY <1>1, <1>3, ResolutionFound
<1>5. Decode(artifact.bytes, signed) = artifact.index
  BY <1>1, <1>4, IndexSurvives
<1> QED BY <1>2, <1>4, <1>5

-----------------------------------------------------------------------------
(* Theorems *)

(***************************************************************************)
(* MetadataInvariance: the list, the login object and the artifact keep    *)
(* the invariant in every state.                                           *)
(***************************************************************************)
THEOREM MetadataInvariance == MetadataSpec => []MetadataInv
BY MetadataInvInit, MetadataInvStep, PTL DEF MetadataSpec

(***************************************************************************)
(* ListIsDocument: private_data->endpoints holds what load_endpoint_type2  *)
(* makes of the descriptors' elements and nothing else, in the order of    *)
(* compare_endpoint_type, however often load_descriptor sorts it anew.     *)
(***************************************************************************)
THEOREM ListIsDocument == MetadataSpec => []ListOfDocument
<1>1. MetadataInv => ListOfDocument
  BY DEF MetadataInv
<1> QED BY <1>1, MetadataInvariance, PTL

(***************************************************************************)
(* ResponsesReach: for any metadata and any request, the binding chosen by *)
(* process_authn_request_msg and the URL chosen when the response is built *)
(* are those of one consumer, which the request asks for.                  *)
(***************************************************************************)
THEOREM ResponsesReach == MetadataSpec => []ResponseReachesConsumer
BY MetadataInvariance, InvResponse, PTL

(***************************************************************************)
(* ArtifactsFind: for any metadata, the two bytes that build_artifact      *)
(* writes lead init_artifact_resolve to the issuer's preferred resolution  *)
(* service, within the limits ArtifactFindsIssuer states.                  *)
(***************************************************************************)
THEOREM ArtifactsFind == MetadataSpec => []ArtifactFindsIssuer
BY MetadataInvariance, InvArtifact, PTL
=============================================================================
