------------------------------- MODULE Metadata -------------------------------
(***************************************************************************)
(* The SAML 2.0 metadata of one entity (lasso/saml-2.0/provider.c) and the *)
(* two places where a choice made from it must be the same in two          *)
(* requests: the assertion consumer a response is sent to, which the       *)
(* identity provider looks up once for the binding and later for the URL,  *)
(* and the artifact resolution service, which the issuer of an artifact    *)
(* chooses and its receiver finds again from two bytes of the artifact.    *)
(*                                                                         *)
(* The entity's own LassoServer and its peers load the same document, so   *)
(* one list of endpoints stands for both copies.                           *)
(***************************************************************************)
EXTENDS Integers, SequencesExt

CONSTANTS
  SpElements, IdpElements,  \* endpoint elements the descriptors may hold
  Requests,         \* AuthnRequests, as far as they name a consumer
  NoIndex,          \* no index attribute, no AssertionConsumerServiceIndex
  NoUrl,            \* no Location, no AssertionConsumerServiceURL, no endpoint
  NoBinding,        \* no ProtocolBinding
  Nothing,          \* no login object, no artifact
  MaxElements,      \* bound: endpoints in a descriptor
  MaxDescriptors    \* bound: descriptors in the document

(* An element is a record: kind, binding, url (its Location or NoUrl),      *)
(* index (the attribute or NoIndex), isDefault ("true", "false", "absent"). *)
(* A request has url, binding and index.                                    *)

Roles == {"sp", "idp"}
Elements(role) == IF role = "sp" THEN SpElements ELSE IdpElements

ASSUME MetadataConstants ==
  /\ MaxElements \in Nat /\ MaxDescriptors \in Nat
  /\ \A e \in SpElements \cup IdpElements :
       /\ e.binding \in {"post", "artifact", "redirect", "paos", "soap"}
       /\ e.isDefault \in {"true", "false", "absent"}
       /\ e.index # NoIndex => e.index \in Nat /\ e.index <= 65535

-----------------------------------------------------------------------------
(* Loading *)

Indexed(e) == e.kind \in {"AssertionConsumerService", "ArtifactResolutionService"}

\* xsdUnsignedShortParse: the greatest unsigned short is refused.
IndexOk(index) == index # NoIndex /\ index < 65535

\* load_endpoint_type2: an indexed endpoint without index is dropped.  The
\* other endpoints have the index 0 all, as the counter is never advanced.
Loads(e) == e.url # NoUrl /\ (Indexed(e) => IndexOk(e.index))

Endpoint(role, e) ==
  [role |-> role, kind |-> e.kind, binding |-> e.binding, url |-> e.url,
   index |-> IF Indexed(e) THEN e.index ELSE 0,
   isDefault |-> IF Indexed(e) THEN e.isDefault ELSE "absent"]

ASSUME NoUrlIsNoEndpoint ==
  \A role \in Roles, e \in SpElements \cup IdpElements : Endpoint(role, e) # NoUrl

\* The elements of a finite set of positions in the order of the relation R.
InOrder(K, R) ==
  [n \in 1 .. Cardinality(K) |->
     CHOOSE j \in K : Cardinality({i \in K : <<i, j>> \in R}) = n - 1]

\* One call of load_endpoint_type2 for each element, in document order.
Endpoints(role, elements) ==
  LET kept   == {i \in DOMAIN elements : Loads(elements[i])}
      loaded == InOrder(kept, {p \in kept \X kept : p[1] < p[2]})
  IN  [n \in DOMAIN loaded |-> Endpoint(role, elements[loaded[n]])]

\* The order of the roles, of the kinds and of isDefault.
RoleRank(role) == IF role = "sp" THEN 1 ELSE 2
KindRank(kind) == CASE kind = "ArtifactResolutionService" -> 1
                    [] kind = "AssertionConsumerService"  -> 2
                    [] OTHER                              -> 3
DefaultRank(isDefault) == CASE isDefault = "true"   -> -1
                            [] isDefault = "absent" -> 0
                            [] isDefault = "false"  -> 1

\* Mutant: isDefault is not compared.
EndpointKeyNoDefault(e) == <<RoleRank(e.role), KindRank(e.kind), 0, e.index>>

\* compare_endpoint_type: the keys, most significant first.
EndpointKey(e) ==
  <<RoleRank(e.role), KindRank(e.kind), DefaultRank(e.isDefault), e.index>>

Less(k1, k2) ==
  \E i \in 1 .. 4 : k1[i] < k2[i] /\ \A j \in 1 .. i - 1 : k1[j] = k2[j]

\* g_list_sort, which keeps equal elements in their order.
SortsBefore(s, i, j) ==
  \/ Less(EndpointKey(s[i]), EndpointKey(s[j]))
  \/ EndpointKey(s[i]) = EndpointKey(s[j]) /\ i < j

Sorted(s) ==
  LET D     == DOMAIN s
      order == InOrder(D, {p \in D \X D : SortsBefore(s, p[1], p[2])})
  IN  [n \in DOMAIN order |-> s[order[n]]]

\* load_endpoint_type and load_default_assertion_consumer: a descriptor of a
\* service provider is refused unless some consumer has an index to name as
\* the default one, in this descriptor or in one read before.
NamesDefault(elements) ==
  LET consumers == SelectSeq(elements, LAMBDA e : e.kind = "AssertionConsumerService")
  IN  \/ \E i \in DOMAIN consumers :
           consumers[i].index # NoIndex /\ consumers[i].isDefault # "false"
      \/ consumers # <<>> /\ consumers[1].index # NoIndex

-----------------------------------------------------------------------------
(* Lookups *)

\* The first endpoint of the list among those at the given places, or NoUrl.
First(list, places) ==
  IF places = {} THEN NoUrl ELSE list[CHOOSE i \in places : \A j \in places : i <= j]

IsConsumer(e) == e.role = "sp" /\ e.kind = "AssertionConsumerService"

\* lasso_saml20_provider_get_assertion_consumer_service
ConsumerAt(list, index) ==
  First(list, { i \in DOMAIN list :
                  /\ IsConsumer(list[i])
                  /\ IF index # NoIndex THEN list[i].index = index
                     ELSE list[i].binding \in {"post", "artifact"} })

\* ..._get_assertion_consumer_service_binding_by_url and ..._url_by_binding
ConsumerWithUrl(list, url) ==
  First(list, {i \in DOMAIN list : IsConsumer(list[i]) /\ list[i].url = url})
ConsumerWithBinding(list, b) ==
  First(list, {i \in DOMAIN list : IsConsumer(list[i]) /\ list[i].binding = b})

\* lasso_saml20_provider_check_assertion_consumer_service_url: the endpoint
\* need not be an assertion consumer.
ConsumerKnown(list, url, b) ==
  \E i \in DOMAIN list : list[i].role = "sp" /\ list[i].url = url /\ list[i].binding = b

IsResolution(e) == e.kind = "ArtifactResolutionService"

\* lasso_saml20_provider_get_artifact_resolution_service_index, for a server
\* whose role is known or, after the login object was restored with a new
\* server, not ("none").
DefaultResolution(list, role) ==
  First(list, {i \in DOMAIN list : IsResolution(list[i]) /\ role \in {list[i].role, "none"}})

\* Mutant: the role is not compared.
ResolutionAtAnyRole(list, role, index) ==
  First(list, {i \in DOMAIN list : IsResolution(list[i]) /\ list[i].index = index})

\* lasso_saml20_provider_get_endpoint_url by index.
ResolutionAt(list, role, index) ==
  First(list, {i \in DOMAIN list : /\ IsResolution(list[i])
                                   /\ list[i].role = role /\ list[i].index = index})

-----------------------------------------------------------------------------
(* The bytes of an artifact that name the endpoint *)

\* lasso_saml20_profile_build_artifact
Encode(index) == <<(index \div 256) % 256, index % 256>>

\* A byte read through a char, which is signed or not.
Char(byte, signed) == IF signed /\ byte > 127 THEN byte - 256 ELSE byte

\* lasso_saml20_profile_init_artifact_resolve: an unsigned short is what
\* remains of (artifact[2] << 16) + artifact[3].
Decode(bytes, signed) ==
  (Char(bytes[1], signed) * 65536 + Char(bytes[2], signed)) % 65536

-----------------------------------------------------------------------------
VARIABLES
  document,     \* the descriptors read: <<role, elements>>
  endpoints,    \* private_data->endpoints
  roles,        \* private_data->roles
  named,        \* a default assertion consumer was named
  loadedOne,    \* loaded_one_or_more_descriptor
  state,        \* "loading", "loaded", or "refused" by the peers
  login,        \* the identity provider's login object
  artifact      \* an artifact of the entity

provider == <<document, endpoints, roles, named, loadedOne>>
metadataVars == <<provider, state, login, artifact>>

MetadataInit ==
  /\ document = <<>> /\ endpoints = <<>>
  /\ roles = {} /\ named = FALSE /\ loadedOne = FALSE
  /\ state = "loading" /\ login = Nothing /\ artifact = Nothing

\* load_descriptor.  supported: the protocolSupportEnumeration names SAML 2.0.
LoadDescriptor(role, elements, supported) ==
  /\ state = "loading" /\ Len(document) < MaxDescriptors
  /\ document' = Append(document, [role |-> role,
                                   elements |-> IF supported THEN elements ELSE <<>>])
  /\ IF supported
     THEN /\ roles' = roles \cup {role}
          /\ endpoints' = Sorted(endpoints \o Endpoints(role, elements))
          /\ named' = (named \/ NamesDefault(elements))
          /\ loadedOne' = (loadedOne \/ role # "sp" \/ named')
     ELSE UNCHANGED <<endpoints, roles, named, loadedOne>>
  /\ UNCHANGED <<state, login, artifact>>

\* The end of lasso_saml20_provider_load_metadata, at a peer that uses the
\* entity in the given role.
EndLoad(role) ==
  /\ state = "loading"
  /\ state' = IF loadedOne /\ role \in roles THEN "loaded" ELSE "refused"
  /\ UNCHANGED <<provider, login, artifact>>

BindingProfile(b) ==
  CASE b = "artifact" -> "art" [] b = "post" -> "post"
    [] b = "redirect" -> "redirect" [] b \in {"soap", "paos"} -> "lecp"

\* The binding lasso_saml20_login_process_authn_request_msg answers with, or
\* NoBinding when it returns an error.
AnswerBinding(req) ==
  LET asked == IF req.url = NoUrl THEN req.binding
               ELSE IF req.binding # NoBinding
               THEN IF ConsumerKnown(endpoints, req.url, req.binding) THEN req.binding
                    ELSE NoBinding
               ELSE LET c == ConsumerWithUrl(endpoints, req.url)
                    IN  IF c = NoUrl THEN NoBinding ELSE c.binding
      found == ConsumerAt(endpoints, req.index)
  IN  IF req.url # NoUrl \/ req.binding # NoBinding
      THEN IF req.index # NoIndex \/ asked = "redirect" THEN NoBinding ELSE asked
      ELSE IF found = NoUrl THEN NoBinding ELSE found.binding

\* The URL found for a request without binding brings its binding along.
ProcessAuthnRequest(req) ==
  /\ state = "loaded" /\ "sp" \in roles /\ login = Nothing /\ artifact = Nothing
  /\ AnswerBinding(req) # NoBinding
  /\ login' = [req |-> req,
               binding |-> IF req.url = NoUrl THEN req.binding ELSE AnswerBinding(req),
               profile |-> BindingProfile(AnswerBinding(req)), sentTo |-> Nothing]
  /\ UNCHANGED <<provider, state, artifact>>

Url(e) == IF e = NoUrl THEN NoUrl ELSE e.url

\* lasso_saml20_login_get_assertion_consumer_service_url, for the request with
\* the binding b that process_authn_request_msg may have added.
ConsumerUrl(req, b) ==
  LET byIndex   == IF req.index # NoIndex \/ b = NoBinding
                   THEN Url(ConsumerAt(endpoints, req.index)) ELSE NoUrl
      byBinding == IF b # NoBinding THEN Url(ConsumerWithBinding(endpoints, b)) ELSE NoUrl
  IN  IF req.url # NoUrl /\ ConsumerKnown(endpoints, req.url, b) THEN req.url
      ELSE IF byIndex # NoUrl   THEN byIndex
      ELSE IF byBinding # NoUrl THEN byBinding
      ELSE Url(ConsumerAt(endpoints, NoIndex))

\* build_authn_response_msg and build_artifact_msg; build_response_msg for ECP
\* goes to the first consumer with the PAOS binding.
BuildResponse ==
  /\ login # Nothing /\ login.sentTo = Nothing
  /\ login' = [login EXCEPT !.sentTo =
       IF login.profile = "lecp" THEN Url(ConsumerWithBinding(endpoints, "paos"))
       ELSE ConsumerUrl(login.req, login.binding)]
  /\ UNCHANGED <<provider, state, artifact>>

\* The entity answers as an identity provider by artifact.
BuildArtifact(role) ==
  /\ state = "loaded" /\ "idp" \in roles /\ login = Nothing /\ artifact = Nothing
  /\ DefaultResolution(endpoints, role) # NoUrl
  /\ LET index == DefaultResolution(endpoints, role).index
     IN  artifact' = [role |-> role, index |-> index, bytes |-> Encode(index),
                      resolver |-> Nothing]
  /\ UNCHANGED <<provider, state, login>>

\* The receiver finds the URL to ask, or ENDPOINT_INDEX_NOT_FOUND.
ResolveArtifact(signed) ==
  /\ artifact # Nothing /\ artifact.resolver = Nothing
  /\ artifact' = [artifact EXCEPT !.resolver =
       Url(ResolutionAt(endpoints, "idp", Decode(artifact.bytes, signed)))]
  /\ UNCHANGED <<provider, state, login>>

MetadataNext ==
  \/ \E role \in Roles, supported \in BOOLEAN :
       \E elements \in BoundedSeq(Elements(role), MaxElements) :
         LoadDescriptor(role, elements, supported)
  \/ \E role \in Roles : EndLoad(role)
  \/ \E req \in Requests : ProcessAuthnRequest(req)
  \/ BuildResponse
  \/ \E role \in {"idp", "none"} : BuildArtifact(role)
  \/ \E signed \in BOOLEAN : ResolveArtifact(signed)

MetadataSpec == MetadataInit /\ [][MetadataNext]_metadataVars

-----------------------------------------------------------------------------
(* Properties, stated over the document and not over the sorted list *)

\* The elements of a kind that were loaded from the descriptors of a role.
Declared(role, kind) ==
  { e \in UNION { ToSet(document[d].elements) :
                    d \in {i \in DOMAIN document : document[i].role = role} } :
      e.kind = kind /\ Loads(e) }

\* Those of a set no other one comes before, as metadata order them.
Preferred(S) ==
  { e \in S : \A f \in S :
      \/ DefaultRank(e.isDefault) < DefaultRank(f.isDefault)
      \/ DefaultRank(e.isDefault) = DefaultRank(f.isDefault) /\ e.index <= f.index }

Consumers == Declared("sp", "AssertionConsumerService")

\* The consumers a request asks for.
Asked(req) ==
  IF req.url # NoUrl
  THEN {e \in Consumers : e.url = req.url /\ req.binding \in {e.binding, NoBinding}}
  ELSE IF req.binding # NoBinding THEN {e \in Consumers : e.binding = req.binding}
  ELSE IF req.index # NoIndex     THEN {e \in Consumers : e.index = req.index}
  ELSE Preferred({e \in Consumers : e.binding \in {"post", "artifact"}})

\* A browser is sent to a consumer the request asks for, the default one when
\* it asks for none, and with the binding that very consumer has, although
\* binding and URL are looked up by different functions in different requests
\* (process_authn_request_msg, build_authn_response_msg, build_artifact_msg).
\* A request for what the metadata do not declare is excepted: the library
\* goes for the default URL then, or for an endpoint of another kind.
ResponseReachesConsumer ==
  (login # Nothing /\ login.sentTo # Nothing /\ login.profile # "lecp" /\ Asked(login.req) # {}) =>
    \E e \in Asked(login.req) :
      e.url = login.sentTo /\ BindingProfile(e.binding) = login.profile

\* An artifact is resolved where its issuer would answer it: at the preferred
\* resolution service of its identity provider descriptor, whether char is
\* signed or not.  That holds for indexes below 128 only, the second byte of
\* the index being all that survives, and if the issuer knows its role or has
\* no resolution service in another one (build_artifact, init_artifact_resolve).
ArtifactFindsIssuer ==
  ( /\ artifact # Nothing /\ artifact.resolver # Nothing /\ artifact.index < 128
    /\ artifact.role = "idp" \/ Declared("sp", "ArtifactResolutionService") = {} ) =>
      \E e \in Preferred(Declared("idp", "ArtifactResolutionService")) :
        e.url = artifact.resolver /\ e.index = artifact.index
=============================================================================
