# A TLA+ model of Lasso

Lasso is a C library that implements the Liberty Alliance ID-FF 1.2 and SAML 2.0
protocols for identity providers and service providers. It keeps no state of its own
between two HTTP requests: an application restores *dumps* (of the principal's session,
of his identity, of a profile object), calls the library to process one message and to
build the next one, and stores the dumps again. What is hard in it is what happens
across those calls: which dump is current, which message answers which request, and what
a long exchange with several providers leaves behind when one of them fails.

This directory holds TLA+ modules that model that part of the library, TLC
configurations that check them, and TLAPS proofs. `PROJECT.json` has the same
information for tools: components, runs, mutants, the source lines of each definition,
findings, hazards and theorems. Paths below are relative to `src/lasso/`.

    tlc -workers 2 -config MCSession.cfg MCSession      # one run
    tlapm SessionMetadataProofs.tla                     # the proofs of one module

## 1. Inventory

| Component | State it keeps | Operations | Correct when |
|---|---|---|---|
| Session (`id-ff/session.c`) | per provider: an assertion, the list of (NameID, SessionIndex, assertion id), a status; assertions by id; a cached list of providers; a dirty flag | add / remove assertion, status, indexed assertion; walk the providers; dump, restore, upgrade of old dumps | the two tables agree, no login is listed twice, a clean session needs no save, a restore loses nothing |
| Single logout (`id-ff/logout.c`, `saml-2.0/logout.c`) | the request being served, and aside the initial requester, request and response; the index of the walk; the partial flag | process / validate a request, next provider, init / build a request, process a response, build the response, dump | the requester gets one answer, its own; Success only if all others are out; every provider is tried; it ends |
| SAML 2.0 single sign-on (`saml-2.0/login.c`) | the login object with the ID of the request sent; at the identity provider the answer and its assertion | init / process an AuthnRequest, must authenticate, must ask for consent, validate, build assertion, build / process a response (POST, artifact, PAOS), accept SSO | an assertion opens one login, for its own request, once; the login can be logged out; both sides agree on the federation |
| Identity and federation (`id-ff/identity.c`, `federation.c`) | NameIDs by provider or affiliation | add, get, remove, compare, dump | both providers keep the same names |
| ID-FF single sign-on (`id-ff/login.c`) | as SAML 2.0, but an artifact is answered from the session (assertion or status) | as SAML 2.0, POST and artifact | as SAML 2.0; a federated name is given with consent only |
| Name identifier management (`saml-2.0/name_id_management.c`), defederation, name registration | the federation, through the identity | request, validate, response | both sides change together or the difference is reported (exceptions: section 3); a confirmed termination holds |
| Profile layer (`id-ff/profile.c`, `saml-2.0/profile.c`) | remote provider, request, response, signature status, artifact | process any request / response, artifact resolution, status | a message is believed only when its signature and status allow it |
| Server, provider, metadata (`saml-2.0/provider.c`) | a sorted list of endpoints, read once | load descriptors, look up by kind, role, index, URL, binding, default | two lookups of one request agree, and so do the two ends of an artifact |
| ECP / LECP client, assertion query, name mapping, ID-WSF 1.1 and 2.0 | none between requests | relay or answer one message | – |
| XML objects, signatures, keys, registry, logging | none | – | – |

How they interact. A profile object (login, logout) refers to a server object and to the
principal's session and identity. Login adds assertions to the session and federations to
the identity; logout walks the session, removes assertions, and needs the NameID and
SessionIndex that login put there. Providers talk through the browser (redirect, POST,
artifact, ECP), which loses, repeats and reorders messages, and by SOAP calls, which fail.
The application is the scheduler and the store.

Hard behaviours: several tabs and several providers interleave; every dump is a crash
point; a session walk continues while its answers shrink the session; an answer may belong
to an earlier question. The list, with source lines, is under `hazards` in `PROJECT.json`.

## 2. Modules

| Module | Models |
|---|---|
| `SessionOps` | the functions on a `LassoSession` as operators on a record |
| `Session` | the life of a session: restored from a dump, changed, saved if dirty, or lost with the process |
| `SessionLemmas` | what the operators of `SessionOps` keep, for any session value |
| `LogoutOps` | the `LassoLogout` object, the walk, the dump, what both protocols share |
| `LogoutProfile` | the application that drives a logout, and the shared properties |
| `Saml2Logout`, `IdffLogout` | the handlers of each protocol, complete specifications |
| `SloContract` | what a logout promises the requester: the abstract specification |
| `LogoutProofs` | what is proved of both logouts together |
| `Saml2LogoutProofs`, `IdffLogoutProofs` | proofs about each protocol's logout |
| `Saml2LoginOps` | the decisions of SAML 2.0 single sign-on that depend on messages alone |
| `Saml2Login` | one identity provider, several service providers, a browser |
| `Saml2LoginProofs` | proofs about `Saml2Login` |
| `FederationOps` | a federation and its names, the name a request carries |
| `Saml2NameId`, `IdffNameId` | the handlers of SAML 2.0 name identifier management, and of ID-FF name registration and federation termination |
| `FederationLife` | composes them with the logins that create a federation, between two providers |
| `FederationProofs` | proofs about `FederationLife` |
| `IdffLogin` | ID-FF single sign-on: one identity provider, several service providers, a browser |
| `IdffLoginProofs` | proofs about `IdffLogin` |
| `Metadata` | the endpoints of an entity, the choice of a consumer, the artifact's endpoint index |
| `SessionMetadataProofs` | proofs about `Session` and, independent of them, about `Metadata` |
| `MC…` | instances for TLC |

`SessionOps` is used by logout and login of both protocols: they run on the same session
functions that the proofs are about.

**Session.** A session is a record of functions from providers. `nids[p]` is the *set* of
entries of a provider, because order matters in one place only: a logout request takes
the first NameID, which is `first[p]`. The order of the cached provider list is any
enumeration (`Orders`), since it comes from a hash table. With `ThinSessions` no assertion
is stored and the entries are counted instead. `Dump` and `Restore` model what is written
and what is read back: the dirty flag and the cached list are not, and an assertion that
is stored without entry gets one, in front.

**Logout.** `pc` is the place of the application in the loop that the documentation of
`LassoLogout` shows. A provider asked by SOAP answers in the same request or the call
fails. For one asked by redirect, `Redirect` dumps and restores both objects. From then on
any provider the browser was ever sent to may answer, in any order and repeatedly.
`RestoreLogout` is what the dump of the object keeps, which is neither the partial flag
(written as `PartialLogout`, read as `PartiaLogout`) nor the index. Whether the
application removes the assertion of a provider that answered is the constant
`AppRemoves`, because the SAML 2.0 code leaves it to the application. `targets`, `tried`,
`redirected`, `confirmed` and `partly` (who answered PartialLogout under a Success) are
history variables. HTTP-Redirect stands for POST too.

**Login.** `requests` and `logins` keep every message for ever; the browser may deliver
any of them, to the login object restored for any of the service provider's requests or
to a fresh one, whole or damaged. An identity provider's login object takes two steps,
before and after the principal is asked, so that other logins can come in between. A NameID
and an assertion ID are named after the login that made them, which is what
`lasso_build_unique_id` amounts to. Signatures are verdicts: a damaged signed part is
"invalid", an unsigned one "not_found". `opened` is a history variable.
External, by how the library uses them: the artifact store (each response is given once),
the methods of earlier authentications, the loss of a SOAP call, the damage.

**Federation.** Two providers, each with its federation and the NameID its session keeps.
An operation is an *exchange*: the requester's first handler (`Start`), the receiver's
handlers (`Serve`), the requester's last one (`TakeAnswer`). Requests and answers are kept
for ever, so they arrive late, again, crossed or never; an answer may reach any object of
the requester that waits for one, because neither protocol compares it with the request.
Each handler is an operator that returns the federation, the session's name, a return code
and the status of the answer, so that SAML 2.0 and ID-FF share one state machine. Every
name ever given is a different value. `lasso_identity_add_federation`, called with the
federation that is in the table already, inserts an object whose last reference it drops;
`Fates` are the outcomes of that undefined behaviour, and the handler answers Success in all
of them. `agreed` and `disturbed` are history variables: an operation that returned an error,
was given up, repeated or met another one disturbs, until a login starts with nothing else
under way. What `Fates` does to the federation does not.

**ID-FF login.** As `Saml2Login`, except for the artifact. `build_response_msg` answers
an artifact from the session: a stored status first, then the session's assertion for the
provider, then the assertion kept with the artifact. `SessionAfter` and `ArtifactAnswer`
model both ends. `EndIdpLogin` is a logout at the identity provider between any two steps;
`ended` is the history of the logins that were answered before one. A response arrives with
two verdicts, that of the message (which may be unsigned) and that of the assertion
(`Arriving`). A POST is refused when the first is not valid; for an artifact the second is
looked at exactly when the first is not valid (`SignatureAccepted`).

**Metadata.** `LoadDescriptor` reads one descriptor, sorts the whole list, and decides
whether the descriptor counts. `Sorted` is a stable sort by the key of
`compare_endpoint_type`: `InOrder` puts at place *n* the member with *n* - 1 others before
it. `First` is a loop over the list that stops at the first match. The properties compare what the lookups find in that list with
a choice made over the document itself. Bytes of the artifact are numbers: `Encode` and
`Decode` are the two shifts, `Char` the sign of a C `char`, `% 65536` the `unsigned short`.

## 3. Runs

| Run | Instance | Distinct states | Shows |
|---|---|---|---|
| `session` | 2 providers, 4 assertions (two for one login, one without SessionIndex, one without NameID), old dumps, statuses and assertions by ID | 890,446 | tables agree, no doublons, what a clean session may lose, restore is lossless |
| `saml2_logout_soap` | 3 service providers (one without SOAP), 1 identity provider, nine requests, seven answers | 30,611 | safety, termination and `SloContract` |
| `saml2_logout_redirect` | both bindings, seven answers, a provider that is counted but not listed | 185,644 | the right answer to the requester with dumps, late and repeated answers |
| `saml2_logout_dump` | the application removes every provider that answered | *violation* | the partial flag is lost: a false Success |
| `saml2_logout_partial` | answers Success and PartialLogout under Success | *violation* | a partial logout is reported to the requester as Success |
| `idff_logout` | as SAML 2.0, every signature verdict, fallback to redirect | 80,677 | the initial response is kept, returns only when the session is empty, and then reaches the requester; safety of `SloContract` |
| `idff_logout_signed` | – | *violation* | a validly signed answer is ignored |
| `saml2_login` | 3 service providers, two in one affiliation, 2 requests, 2 logins, 3 verify hints, plain and encrypted PAOS | 1,098,989 | the properties of section 1 for single sign-on |
| `federation` | 2 logins, 2 renames or terminations by either side, both protocols | 954,139 | names never differ unnoticed, terminations hold |
| `idff_login` | 2 service providers, 2 requests, 2 logins, POST and artifact, signed and unsigned | 1,036,507 | the same for ID-FF, consent, and what an artifact brings after a logout |
| `idff_login_replay` | one POST login | *violation* | the same response opens two logins |
| `metadata` | 16 endpoint elements, up to 2 descriptors of up to 2, 19 requests | 421,452 | binding and URL belong together, an artifact finds its issuer |

The properties, with the code they are about, are stated in comments before each
definition. Each property of a passing run has a mutant: a definition changed the way a
plausible bug would change it, under which TLC finds that property violated.

**Exceptions.** The instances contain the cases in which the code does less than one would
like; the properties name them, so that they show that there are no others.

| Property | Does not hold for | Because |
|---|---|---|
| `DirtyCoversChanges` | an assertion without NameID | it is stored before the function fails, and the session stays clean (`id-ff/session.c:354`) |
| `LogoutReachesLogins` (SAML 2.0) | a PAOS login with a plain NameID | no function on that path stores the assertion (`saml-2.0/login.c:1031`) |
| `LogoutReachesLogins` (ID-FF) | a login answered before the identity provider logged the provider out | an artifact still brings the assertion stored with it (`id-ff/login.c:1450`); `StoredForItself` says that it brings it to nobody else |
| `AnsweredWhenEmpty` | a last answer RequestDenied or FederationDoesNotExist; an identity provider in the session | the denial branch does not restore the initial response (`id-ff/logout.c:836`; the documentation at `:732` makes no exception) |
| `NamesAgree` | after a reported error, a message that was given up or repeated, or crossed operations, until the next login | each side changes its own federation at its own time |
| `NamesAgree` | the receiver of a confirmed SAML 2.0 rename, which may have no federation left | `id-ff/identity.c:67`; it never has another name |
| `SuccessMeansLoggedOut` | what a provider that answered PartialLogout under Success could not reach | such an answer is read as Success (finding 4) |

**Bounds.** Sessions: the properties relate entries of one provider, so two assertions
that collide, one that is stored without being listed, one that cannot be listed, and one
other provider, make all cases. Logout: with
three others to ask, one can succeed, one fail and one be skipped in every order. Login:
`MaxRequests` = `MaxLogins` = 2 gives every pair of tabs, of providers and of an original
and its replay. Federation: two exchanges can cross, repeat each other or follow a login, and
the second login repairs what they broke. Metadata: the order is decided by pairs of
endpoints, and two descriptors make the list be sorted twice; the indexes are the edges of
a byte (127, 128, 256) and of the unsigned short (65535). The session and logout models have no counters: their state spaces are
finite as they stand. Deadlock is checked in the session and logout runs; in the others
the bounds are used up or the browser stops at some point, and that is no error; a finished logout stutters in `Done`.

**Fairness.** Only `Saml2Logout` states any, and `LogoutEnds` and the liveness of `KeepsContract`
are checked over SOAP only. Weak fairness on the steps of the request handler: the loop of
the application is straight-line code that ends. Weak fairness on "the call is answered or
fails": SOAP calls time out. Nothing makes a browser that was sent away come back, so no
liveness is claimed for redirects, nor for ID-FF, where `AnsweredWhenEmpty` says what a logout
that does end gives the requester.

## 4. Proofs

The runs check small instances; the theorems hold for every value of the constants: any
number of providers, requests, logins, renames, any answers, with and without thin
sessions, any metadata. Every safety property of a passing run is stated by a theorem. The assumptions on constants are the named `ASSUME`s of the modules: providers
are finitely many (they are counted), null values are not members of the sets they stand
apart from, inputs are typed. TLC evaluates them in the runs. All inductive invariants
were checked with TLC on the instances of section 3 before they were proved.

| Property | Theorem | Hypothesis |
|---|---|---|
| Session: `TypeOK`, `NoDoublons`, `TablesAgree`, `DirtyCoversChanges`, `RestoreKeepsLogins` | `SessionMetadataProofs` `TypeCorrect`, `DoublonsExcluded`, `TablesInStep`, `DirtyIsEnough`, `RestoreLossless` | – |
| SAML 2.0 logout: `TypeOK`, `AnswersTheRequester`, `InitialKept`, `WholeSessionTried` | `Saml2LogoutProofs` `TypeCorrect`, `RequesterAnswered`, `InitialStateKept`, `SessionCovered` | – |
| SAML 2.0 logout: `SuccessMeansLoggedOut`, safety of `KeepsContract` | `CompleteSuccess`, `ImplementsContract` | `Accountable` |
| SAML 2.0 logout: `AskedOnce` | `NobodyAskedTwice` | the others are asked by SOAP |
| both logouts: `AskedOnce` until the first redirect; the requester is never asked (`Spared`) | `AskedOnceUntilRedirect`, `RequesterSpared` in both modules | – |
| ID-FF logout: `TypeOK`, `InitialKept`, `WholeSessionTried` | `IdffLogoutProofs` `TypeCorrect`, `InitialStateKept`, `SessionCovered` | – |
| ID-FF logout: `RestoredOnlyWhenDone` | `NoEarlyReturn` | `Countable` |
| ID-FF logout: `SuccessMeansSettled` | `SuccessIsSettled` | `Countable`, `Reachable` |
| ID-FF logout: `KeepsPromise`, `AnsweredWhenEmpty` | `ImplementsContract`, `EmptyMeansAnswered` | `Countable`, `Reachable` |
| ID-FF logout: what the requester gets is the local provider's answer (`OwnAnswer`) | `AnswerIsOwn` | `Reachable` |
| Federation: `TypeOK`, `TerminationHolds`, `OnlyLoginFederates`, `NamesAgree` | `FederationProofs` `TypeCorrect`, `TerminationsHold`, `OnlyLoginsFederate`, `AgreedNames` | – |
| SAML 2.0 login: `TypeOK`, `AnswersOwnRequest`, `AssertionIntact`, `OpenedOnce`, `FederationsAgree`, `NamesApart`, `LogoutReachesLogins` | `Saml2LoginProofs` `TypeCorrect`, `OwnRequestAnswered`, `OnlyIntactAssertions`, `NoReplay`, `FederationsInStep`, `NamesNeverShared`, `LogoutReaches` | – |
| ID-FF login: `TypeOK`, `AnswersOwnRequest`, `AssertionIntact`, `LogoutReachesLogins`, `StoredForItself`, `NamedByConsent` | `IdffLoginProofs` `TypeCorrect`, `OwnRequestAnswered`, `OnlyIntactAssertions`, `LogoutReaches`, `OnlyOwnArtifact`, `ConsentedNames` | – |
| Metadata: `ResponseReachesConsumer`, `ArtifactFindsIssuer` | `SessionMetadataProofs` `ResponsesReach`, `ArtifactsFind` | – |
| Metadata: the list is the document's, in key order (`ListOfDocument`) | `ListIsDocument` | – |

**The hypotheses** say what the code leaves to its surroundings; each is satisfied by the
instance of the run that checks the property.

- `Countable`: a thin session holds only logins with a NameID and a SessionIndex. It stores
  no assertion and counts what is listed, so it cannot see any other.
- `Accountable`: `Countable`, and the application removes an assertion for a provider that
  confirmed, not for every one that answered. Without it a Success is false: that is
  finding 1 of section 5.
- `Reachable`: if requests go by redirect, every provider has a redirect endpoint. ID-FF
  `init_request` drops a provider that has none from the session without asking it.
- Asking by SOAP, for `AskedOnce`: after a redirect the index restarts at 0. Without the
  hypothesis the property holds up to the first redirect.

**Session.** The properties are not inductive on the session object, because each request
starts from the stored dump. `IndInv` therefore also says what holds of the dump
(`StoredSound`). It is less than what holds of the object (`Sound`): a dump of an old version
may store assertions that are not listed, and only `Restore` lists them. The lemmas
`RestoreSound`, `AddAssertionSound` and `RemoveAssertionSound` carry the argument, one per
operator; the proofs of logout and login cite the same module, `SessionLemmas`.

**Logout.** The walk goes through a list that was cached before assertions were removed, by
an index that skips the requester. `Listing` says that the list has no provider twice, covers
what is still in the session, and that its part before the index has been dealt with;
`WholeSessionTried` follows at the end of the walk. `Flow` and `Gone` tie the objects to the
application's position. For SAML 2.0 `Answering` says where the requester's name is while
others are asked, and `Accounting` that who has not confirmed is still counted; the code
decides on Success by that count alone. For ID-FF, `Tracking` and `Settlement` say the same
of who was tried and who settled; `Standing` follows the initial response
until it comes back, which the code does only when the count reaches zero, and `Owing` says
that an empty session whose initial response is not back was emptied by a denial. The refinement
maps an accepted request to `SloContract`'s `Ask`, a step that sends the final answer to
`Answer`, a confirmation to `Confirm`, and everything else to a stutter; `Accounting` and
`Settlement` are what makes the answer step legal. `Advancing`, shared by both protocols, says
that who was tried is behind the index as long as no dump has reset it, and that the
requester is never tried.

**Federation.** `Shapes` are the names a federation always has. `AnswersHold` says that a
fresh Success for a termination is as true as when it was sent, which makes
`TerminationHolds` inductive. `NamesAgree` speaks only of rest; `PhaseInv` says in addition
what a single undisturbed login or exchange has done so far on either side, and who may have
lost its federation by it (`Emptied`).

**Login.** An assertion is followed from the login that built it to the two sessions that
list it. `Issuing` says what it contains (its SessionIndex is the login's own number),
`IdpListing` and `SpListing` that every entry is the entry of an issued assertion for that
provider, so that no new entry is ever dropped as a doublon: this is why the replay check
works and why the identity provider's session misses nothing (`Filing`). `Naming` keeps for
each federation the login that created it, for ID-FF with the consent it had. `Calls` says
what a SOAP call can bring back: for ID-FF that is any assertion the session holds for the
provider (`IdpStored`), for which only `InResponseTo` decides. `Retired` says that the session stores no
assertion of a login from before a logout, which leaves the artifact as its only source.

**Metadata.** The properties compare a lookup made earlier with the document. Two facts carry
them. `ListOfDocument`: the list holds the endpoints of the document's elements and no others,
and its keys never decrease. It rests on the lemmas `InOrderFacts` (ranks in a strict
total order of a finite set are a bijection, by the counting theorems for finite sets),
`LessOrders` (the comparison of the keys is such an order) and `SortedFacts`. `LoginKept` and
`ArtifactKept`: what the objects hold is what a lookup in the list returns now, since the
list is fixed before the first lookup. `LookupsAgree` then compares the two lookups of a
login, by what the request names: URL and binding, URL, binding, index, nothing. In the
last case the first match is the preferred one because of the key order. `ResolutionFound`
does the same for artifacts, and `IndexSurvives` is the codec below 128. The assumption
`NoUrlIsNoEndpoint` says that a failed search can be told from an endpoint.

**Model-checked only.** Liveness (`LogoutEnds`) and the fairness part of `KeepsContract` are out
of reach of the prover.

## 5. Findings and observations

Each *violation* run is a disagreement between the code and a comment, the documentation
or `NEWS`; `findings` in `PROJECT.json` quotes both.

1. `id-ff/logout.c:1181`: misspelt attribute, the partial flag does not survive a dump.
2. `id-ff/logout.c:795`: a valid signature ends the processing of a logout response.
3. `id-ff/login.c:812`: no replay check for ID-FF, although `accept_sso` documents one.
4. `saml-2.0/logout.c:366`: a PartialLogout under a top-level Success, which is what Lasso
   itself builds, is parsed as a plain success; `NEWS:229` promises an error code.

The exceptions of section 3 are disagreements of the same kind that the passing runs show by
name. Seen while modelling, besides those:

- SAML 2.0 `process_response_msg` never removes an assertion, although the documentation
  of the function (`id-ff/logout.c:729`) says so without distinguishing the protocols. Over
  redirects the walk then returns the same provider for ever, unless the application
  removes it (`AppRemoves`).
- A RequestDenied answer does not set the partial flag (`saml-2.0/profile.c:1450`); the
  requester hears of it only while the assertion is still in the session.
- Only listed entries carry an assertion id, so the replay check
  (`saml-2.0/login.c:1534`) does not see assertions without SessionIndex, nor a second
  assertion for the same login. `OpenedOnce` is therefore stated for providers with a
  logout endpoint.
- ID-FF: with thin sessions every logout request is denied, as its validation looks for a
  stored assertion; the comment at `id-ff/logout.c:863` says the role of the initial
  provider is used, the code uses the last one's.
- A request without NameIDPolicy Format may create a persistent federation by the
  provider's default, while its assertion has a transient NameID
  (`saml-2.0/login.c:692` and `824`).
- A SAML 2.0 POST response that is not a success is reported as such before its second
  status code is looked at, so FEDERATION_NOT_FOUND and UNKNOWN_PRINCIPAL reach the
  application by artifact and PAOS only.
- The endpoint index of an artifact is written with `>> 8` and read with `<< 16`
  (`saml-2.0/profile.c:197` and `340`): 256 is read as 0, and 128 as 65408 where `char` is
  signed. `ArtifactFindsIssuer` holds below 128 only.
- The server's role decides which artifact resolution service is named. A login object
  restored with a new server has no role, and the index may be one of the service
  provider descriptor (`saml-2.0/provider.c:853`), looked up among the identity provider's.
- The index 65535 is refused (`saml-2.0/provider.c:154`); endpoints that are not indexed all
  get 0, because `*counter++` advances the pointer (`provider.c:170`).
- `compare_endpoint_type` is said to order "then by binding" (`provider.c:225`) and does not
  compare bindings; equal endpoints stay in document order.
- `check_assertion_consumer_service_url` (`provider.c:645`) does not look at the kind of the
  endpoint; a request for a binding the provider does not declare is answered at the URL of
  its default consumer with the binding asked for; an ECP answer goes to the first PAOS
  consumer, whatever index was asked for.
- `get_first_http_method` (`provider.c:584`) does not look at the role of an endpoint, and
  `accept_http_method` does; a synchronous method it skips is returned all the same when no
  other follows.
- SAML 2.0 name identifier management: a request for an unknown federation returns an error
  to the application and a Success to the requester; answers are matched to no request; a
  rename by the identity provider leaves the old name in the service provider's session,
  so that its next request is refused; `process_response_msg` reads the NameID of a request
  that may have none; with an affiliation the federation is keyed by the affiliation and
  looked up by provider, so it is never found.
- ID-FF name registration: Success is answered before the name is compared; the verdict on
  the response's signature is returned after the federation was changed. Federation
  termination forgets the federation before the notification leaves.
- ID-FF login: `profile == LASSO_PROFILE_SIGNATURE_VERIFY_HINT_MAYBE` (`id-ff/login.c:2117`)
  compares a pointer, so `signature_status` stays 0 and `validate_request_msg` never denies
  a request for its signature. The status of a refused login may be consumed by the artifact
  of another tab, whose own artifact then yields the other login's assertion; `InResponseTo`
  keeps that from being accepted. With NameID encryption `build_assertion` fails.

## 6. Not modelled

XML, signatures and encryption are verdicts. Two thirds of the sources are there: over six
hundred files, most of which declare one XML class each (a table of its fields), the engine that
reads and writes them (`xml.c`, `tools.c`), and the language bindings. The models cover the
part of the rest that keeps or changes state of a principal.

ID-WSF is an optional build whose services answer one message at a time. The ECP and LECP clients, the assertion query and the ID-FF
name mapping change no state of the principal. In single sign-on: several assertions in one
response, several identity providers, failed decryption, NameID formats left to the caller,
LECP for ID-FF, and an HTTP-Redirect default for the assertion consumer, which the library
refuses. Of metadata: keys, attributes, affiliations, ID-FF metadata, federation files.
In federations: affiliations and encrypted names, which the handlers do not support.
The application is taken to use the library as documented; two requests of one browser
that overwrite each other's session dump are its concern, and not in the model.

## 7. Plan

The model has the components that keep state for the principal, and their safety
properties are proved. What is left:

1. The ID-FF logout with an identity provider in the session, as to whether the requester is
   answered; `AnswerIsOwn` covers whose answer it is.
2. The choice of a first HTTP method and the ID-FF metadata, as further lookups of `Metadata`.

`LogoutEnds` stays with TLC.
