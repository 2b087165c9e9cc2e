----------------------------- MODULE SessionOps -----------------------------
(***************************************************************************)
(* The operations of a LassoSession (lasso/id-ff/session.c) as functions   *)
(* from one session value to the next.  The state machines of this project *)
(* (Session, Logout, Login) hold session values in their variables and     *)
(* change them only through these operators.                               *)
(*                                                                         *)
(* A session value is a record with one field per table of the C object:   *)
(*   assertions   the last assertion stored for each provider;             *)
(*   nids         nid_and_session_indexes: for each provider the set of    *)
(*                (NameID, assertion ID, SessionIndex) entries;            *)
(*   first        the NameID at the head of that list, the one a logout    *)
(*                request is built for;                                    *)
(*   status, byId the keys of the status and assertions_by_id tables;      *)
(*   providerIDs  the cached list lasso_session_get_provider_index walks;  *)
(*   is_dirty     the flag lasso_profile_is_session_dirty reports.         *)
(*                                                                         *)
(* An absent key of a hash table is NoAssertion, {} or NoNameID.  The      *)
(* order of a list of entries is abstracted to the NameID at its head: no  *)
(* caller looks at any other position.                                     *)
(***************************************************************************)
EXTENDS Integers, Sequences, FiniteSets

CONSTANTS
  Providers,        \* provider IDs that may appear in a session
  NameIds,          \* name identifiers
  SessionIndexes,   \* SessionIndex values
  AssertionIds,     \* assertion IDs
  NoAssertion,      \* lookup of a provider without assertion
  NoNameID,         \* an assertion whose Subject has no NameID
  NoSessionIndex,   \* an AuthnStatement without SessionIndex
  ThinSessions      \* lasso_flag_thin_sessions

ASSUME ProvidersFinite == IsFiniteSet(Providers)
ASSUME ThinIsFlag      == ThinSessions \in BOOLEAN
ASSUME NullsAreApart   ==
  /\ NoNameID \notin NameIds
  /\ NoSessionIndex \notin SessionIndexes
  /\ NoAssertion \notin [id   : AssertionIds,
                         nid  : NameIds \cup {NoNameID},
                         sidx : SessionIndexes \cup {NoSessionIndex}]

\* What the session looks at in an assertion: its ID, the NameID of its
\* Subject and the SessionIndex of its AuthnStatement.
Assertion ==
  [id   : AssertionIds,
   nid  : NameIds \cup {NoNameID},
   sidx : SessionIndexes \cup {NoSessionIndex}]

\* struct _NidAndSessionIndex
Entry == [nid : NameIds, aid : AssertionIds, sidx : SessionIndexes]

Session ==
  [assertions  : [Providers -> Assertion \cup {NoAssertion}],
   nids        : [Providers -> SUBSET Entry],
   first       : [Providers -> NameIds \cup {NoNameID}],
   status      : SUBSET Providers,
   byId        : SUBSET AssertionIds,
   providerIDs : Seq(Providers),
   is_dirty    : BOOLEAN]

\* lasso_session_new
EmptySession ==
  [assertions  |-> [p \in Providers |-> NoAssertion],
   nids        |-> [p \in Providers |-> {}],
   first       |-> [p \in Providers |-> NoNameID],
   status      |-> {},
   byId        |-> {},
   providerIDs |-> <<>>,
   is_dirty    |-> FALSE]

-----------------------------------------------------------------------------
(* Adding *)

SameKey(e, f) == e.nid = f.nid /\ e.sidx = f.sidx

\* Mutant: the list is not searched for the pair.
AddNidAndSessionIndexDoublons(s, p, e) ==
  [s EXCEPT !.nids[p] = @ \cup {e}, !.first[p] = IF s.nids[p] = {} THEN e.nid ELSE @]

\* "do some sharing and limit doublons": an entry for a (NameID,
\* SessionIndex) pair that is already listed is dropped, with its assertion ID.
AddNidAndSessionIndex(s, p, e) ==
  IF \E f \in s.nids[p] : SameKey(e, f)
  THEN s
  ELSE [s EXCEPT !.nids[p]  = @ \cup {e},
                 !.first[p] = IF s.nids[p] = {} THEN e.nid ELSE @]

HasSloData(a) == a.nid # NoNameID /\ a.sidx # NoSessionIndex

EntryOf(a) == [nid |-> a.nid, aid |-> a.id, sidx |-> a.sidx]

\* Mutant: the SessionIndex is not tested.
AddAssertionNidAndSessionIndexUnchecked(s, p, a) == AddNidAndSessionIndex(s, p, EntryOf(a))

\* The failing return (no NameID) and the silent one (no SessionIndex) both
\* leave the table alone.
AddAssertionNidAndSessionIndex(s, p, a) ==
  IF HasSloData(a) THEN AddNidAndSessionIndex(s, p, EntryOf(a)) ELSE s

\* A thin session does not keep the assertion itself.
AddAssertionSimple(s, p, a) ==
  IF ThinSessions THEN s ELSE [s EXCEPT !.assertions[p] = a]

\* lasso_session_add_assertion returns 0 only for an assertion with a NameID.
AddAssertionOk(a) == a.nid # NoNameID

\* On the failing path the assertion is already stored, and the function
\* returns before it marks the session dirty.
AddAssertion(s, p, a) ==
  LET t == AddAssertionNidAndSessionIndex(AddAssertionSimple(s, p, a), p, a)
  IN  [t EXCEPT !.is_dirty = IF AddAssertionOk(a) THEN TRUE ELSE @]

AddAssertionWithId(s, id) ==
  [s EXCEPT !.byId = @ \cup {id}, !.is_dirty = TRUE]

AddStatus(s, p) ==
  [s EXCEPT !.status = @ \cup {p}, !.is_dirty = TRUE]

-----------------------------------------------------------------------------
(* Removing *)

HasSloSession(s, p) == s.nids[p] # {}

\* LASSO_PROFILE_ERROR_MISSING_ASSERTION when neither table knows p.
RemoveAssertionOk(s, p) == s.assertions[p] # NoAssertion \/ HasSloSession(s, p)

\* Mutant: only the assertion goes.
RemoveAssertionKeepsNids(s, p) ==
  [s EXCEPT !.assertions[p] = NoAssertion,
            !.is_dirty      = IF RemoveAssertionOk(s, p) THEN TRUE ELSE @]

\* Mutant: the assertion itself stays.
RemoveAssertionKeepsAssertion(s, p) ==
  [s EXCEPT !.nids[p]  = {},
            !.first[p] = NoNameID,
            !.is_dirty = IF RemoveAssertionOk(s, p) THEN TRUE ELSE @]

\* Mutant: the session is not marked dirty.
RemoveAssertionClean(s, p) ==
  [s EXCEPT !.assertions[p] = NoAssertion, !.nids[p] = {}, !.first[p] = NoNameID]

\* The cached list of provider IDs is not refreshed.
RemoveAssertion(s, p) ==
  [s EXCEPT !.assertions[p] = NoAssertion,
            !.nids[p]       = {},
            !.first[p]      = NoNameID,
            !.is_dirty      = IF RemoveAssertionOk(s, p) THEN TRUE ELSE @]

RemoveStatus(s, p) ==
  [s EXCEPT !.status   = @ \ {p},
            !.is_dirty = IF p \in s.status THEN TRUE ELSE @]

-----------------------------------------------------------------------------
(* Looking up *)

SessionIndexesOf(s, p, nid) == { e.sidx : e \in { f \in s.nids[p] : f.nid = nid } }

AssertionIdsOf(s, p) == { e.aid : e \in s.nids[p] }

SloProviders(s) == { p \in Providers : HasSloSession(s, p) }

StoredProviders(s) == { p \in Providers : s.assertions[p] # NoAssertion }

CountAssertions(s) ==
  Cardinality(IF ThinSessions THEN SloProviders(s) ELSE StoredProviders(s))

\* The orders in which g_hash_table_foreach may visit the keys of a table.
Orders(S) == { f \in [1 .. Cardinality(S) -> S] : \A x \in S : \E i \in DOMAIN f : f[i] = x }

\* The session values lasso_session_init_provider_ids may produce.
InitProviderIds(s) ==
  { [s EXCEPT !.providerIDs = order] : order \in Orders(SloProviders(s)) }

\* The session values one call of lasso_session_get_provider_index may leave
\* behind: the cache is built when it is missing, and never refreshed.
AfterProviderIndex(s) ==
  IF SloProviders(s) # {} /\ s.providerIDs = <<>> THEN InitProviderIds(s) ELSE {s}

\* What that call returns, read in the session value it leaves behind
\* (index 0 is the first element).
ProviderIndex(s, index, none) ==
  IF SloProviders(s) # {} /\ index + 1 \in DOMAIN s.providerIDs
  THEN s.providerIDs[index + 1]
  ELSE none

-----------------------------------------------------------------------------
(* Serialisation *)

\* get_xmlNode: the cache and the dirty flag are not written.
Dump(s) == [s EXCEPT !.providerIDs = <<>>, !.is_dirty = FALSE]

\* Mutant: the assertions of an old dump are not indexed.
RestoredEntriesNotUpgraded(d, p) == d.nids[p]

\* init_from_xml for one provider: the assertion is stored and indexed first
\* ("automatic upgrade from old session serialization"), then the dumped
\* entries are added, dropping the ones whose key is already there.
RestoredEntries(d, p) ==
  LET a    == d.assertions[p]
      base == IF a # NoAssertion /\ HasSloData(a) THEN {EntryOf(a)} ELSE {}
  IN  base \cup { e \in d.nids[p] : \A f \in base : ~ SameKey(e, f) }

RestoredFirst(d, p) ==
  LET a == d.assertions[p]
  IN  IF a # NoAssertion /\ HasSloData(a) THEN a.nid ELSE d.first[p]

\* lasso_session_new_from_dump.  lasso_session_add_assertion_with_id, used for
\* the assertions indexed by ID, leaves the restored session dirty.
Restore(d) ==
  [assertions  |-> [p \in Providers |->
                      IF ThinSessions THEN NoAssertion ELSE d.assertions[p]],
   nids        |-> [p \in Providers |-> RestoredEntries(d, p)],
   first       |-> [p \in Providers |-> RestoredFirst(d, p)],
   status      |-> d.status,
   byId        |-> d.byId,
   providerIDs |-> <<>>,
   is_dirty    |-> d.byId # {}]

-----------------------------------------------------------------------------
(* How the tables of one session value fit together *)

NoDoublonsIn(s) ==
  \A p \in Providers : \A e, f \in s.nids[p] : SameKey(e, f) => e = f

EntriesBackedIn(s) ==
  \A p \in Providers : s.nids[p] # {} => s.assertions[p] # NoAssertion

StoredListedIn(s) ==
  \A p \in Providers :
    s.assertions[p] # NoAssertion /\ HasSloData(s.assertions[p])
      => \E e \in s.nids[p] : SameKey(e, EntryOf(s.assertions[p]))

TablesAgreeIn(s) == EntriesBackedIn(s) /\ StoredListedIn(s)

FirstIsListedIn(s) ==
  \A p \in Providers :
    IF s.nids[p] = {}
    THEN s.first[p] = NoNameID
    ELSE \E e \in s.nids[p] : e.nid = s.first[p]
=============================================================================
