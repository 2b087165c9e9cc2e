------------------------------- MODULE Session -------------------------------
(***************************************************************************)
(* The life of one principal's LassoSession (lasso/id-ff/session.c).       *)
(*                                                                         *)
(* Lasso keeps nothing between two HTTP requests: the application stores   *)
(* the dump of the session.  A request restores the dump into a session    *)
(* object, runs profile code that changes the object, and, when            *)
(* lasso_profile_is_session_dirty says so, writes the new dump.  The       *)
(* request may also die before it saves.                                   *)
(***************************************************************************)
EXTENDS SessionOps

CONSTANTS
  Received,     \* the assertions profile code may add
  AdviceIds,    \* the IDs of the assertions it may index by ID
  Judged,       \* the providers it may record a status for
  NoSession     \* no request is being served

ASSUME InputsAreTyped ==
  /\ Received \subseteq Assertion
  /\ AdviceIds \subseteq AssertionIds
  /\ Judged \subseteq Providers
ASSUME NoSessionApart        == NoSession \notin Session

VARIABLES
  mem,      \* the session object of the request being served, or NoSession
  store     \* the dump the application keeps

vars == <<mem, store>>

\* A store written before entries were dumped: assertions and nothing else.
OldDump(p, a) == [EmptySession EXCEPT !.assertions[p] = a]

Init ==
  /\ mem = NoSession
  /\ store \in {EmptySession} \cup
               { OldDump(p, a) : p \in Providers, a \in Received }

\* The request handler builds the object from the dump.
SetSessionFromDump ==
  /\ mem = NoSession
  /\ mem' = Restore(store)
  /\ UNCHANGED store

AddAssertionStep(p, a) ==
  /\ mem # NoSession
  /\ mem' = AddAssertion(mem, p, a)
  /\ UNCHANGED store

AddAssertionWithIdStep(id) ==
  /\ mem # NoSession
  /\ mem' = AddAssertionWithId(mem, id)
  /\ UNCHANGED store

AddStatusStep(p) ==
  /\ mem # NoSession
  /\ mem' = AddStatus(mem, p)
  /\ UNCHANGED store

RemoveAssertionStep(p) ==
  /\ mem # NoSession
  /\ mem' = RemoveAssertion(mem, p)
  /\ UNCHANGED store

RemoveStatusStep(p) ==
  /\ mem # NoSession
  /\ mem' = RemoveStatus(mem, p)
  /\ UNCHANGED store

\* lasso_session_get_provider_index, whatever the index asked for.
GetProviderIndexStep ==
  /\ mem # NoSession
  /\ mem' \in AfterProviderIndex(mem)
  /\ UNCHANGED store

InitProviderIdsStep ==
  /\ mem # NoSession
  /\ mem' \in InitProviderIds(mem)
  /\ UNCHANGED store

\* The request ends: the application saves what lasso says has changed.
SaveSession ==
  /\ mem # NoSession
  /\ store' = IF mem.is_dirty THEN Dump(mem) ELSE store
  /\ mem' = NoSession

\* The request dies, and its session object with it.
Crash ==
  /\ mem # NoSession
  /\ mem' = NoSession
  /\ UNCHANGED store

Next ==
  \/ SetSessionFromDump
  \/ \E p \in Providers, a \in Received : AddAssertionStep(p, a)
  \/ \E id \in AdviceIds : AddAssertionWithIdStep(id)
  \/ \E p \in Judged : AddStatusStep(p)
  \/ \E p \in Providers : RemoveAssertionStep(p)
  \/ \E p \in Judged : RemoveStatusStep(p)
  \/ GetProviderIndexStep
  \/ InitProviderIdsStep
  \/ SaveSession
  \/ Crash

Spec == Init /\ [][Next]_vars

-----------------------------------------------------------------------------
(* What two sessions agree on when they describe the same logins: the same  *)
(* stored assertions, and for each provider the same NameID and             *)
(* SessionIndex pairs.                                                      *)
Keys(s, p) == { <<e.nid, e.sidx>> : e \in s.nids[p] }

\* The pairs a restored object lists: the dumped ones and the one of the
\* dumped assertion.
UpgradedKeys(d, p) ==
  Keys(d, p) \cup { <<a.nid, a.sidx>> :
                      a \in { b \in {d.assertions[p]} : b # NoAssertion /\ HasSloData(b) } }

SameListings(s, d) ==
  /\ \A p \in Providers : Keys(s, p) = UpgradedKeys(d, p)
  /\ s.status = d.status
  /\ s.byId = d.byId

SameLogins(s, d) ==
  /\ ~ ThinSessions => s.assertions = d.assertions
  /\ SameListings(s, d)

(***************************************************************************)
(* TypeOK: the object and the dump are sessions (instance_init,            *)
(* init_from_xml and every add and remove function keep the tables'        *)
(* types).                                                                 *)
(***************************************************************************)
TypeOK ==
  /\ mem \in Session \cup {NoSession}
  /\ store \in Session

(***************************************************************************)
(* NoDoublons: "limit doublons" (lasso_session_add_nid_and_session_index,  *)
(* session.c:101).  However assertions are added, removed, dumped and      *)
(* restored, in whatever order, a provider never has two entries for one   *)
(* NameID and SessionIndex.                                                *)
(***************************************************************************)
NoDoublons == NoDoublonsIn(store) /\ (mem # NoSession => NoDoublonsIn(mem))

(***************************************************************************)
(* TablesAgree: the two tables lasso_session_remove_assertion clears       *)
(* together stay in step in every object the library works on.  When       *)
(* lasso_session_count_assertions says nothing is left, the logout         *)
(* iteration has nothing left either, and an assertion that can be logged  *)
(* out is listed for the logout.  (A thin session counts the entries       *)
(* themselves and stores no assertion.)                                    *)
(***************************************************************************)
TablesAgree ==
  mem # NoSession =>
    /\ ~ ThinSessions => TablesAgreeIn(mem)
    /\ CountAssertions(mem) = 0 => SloProviders(mem) = {}

\* An assertion without NameID that was received: lasso_session_add_assertion
\* has stored it when it fails, and returns before it marks the session dirty.
StoredUnnamed(s, p) == s.assertions[p] # NoAssertion /\ ~ AddAssertionOk(s.assertions[p])

(***************************************************************************)
(* DirtyCoversChanges: lasso_profile_is_session_dirty "Checks whether      *)
(* session has been modified (and should therefore be saved)"              *)
(* (profile.c:342).  What an object that is not dirty says of the logins,  *)
(* the statuses and the indexed assertions is what the stored dump says,   *)
(* and so are the stored assertions, with one exception: an assertion      *)
(* without NameID replaces the one of its provider and leaves the session  *)
(* clean (session.c:354), so it is lost when nothing else changes.  An     *)
(* application that saves only dirty sessions loses that and nothing else. *)
(***************************************************************************)
DirtyCoversChanges ==
  mem # NoSession /\ ~ mem.is_dirty =>
    /\ SameListings(mem, store)
    /\ ~ ThinSessions => \A p \in Providers :
         mem.assertions[p] = store.assertions[p] \/ StoredUnnamed(mem, p)

(***************************************************************************)
(* RestoreKeepsLogins: a request that restores the dump sees every stored  *)
(* assertion and every NameID and SessionIndex pair of it, the upgraded    *)
(* ones of an old dump included (init_from_xml).                           *)
(***************************************************************************)
RestoreKeepsLogins == [][mem = NoSession /\ mem' # NoSession => SameLogins(mem', store)]_vars
=============================================================================
