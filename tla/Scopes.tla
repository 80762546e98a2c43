------------------------------- MODULE Scopes -------------------------------
(***************************************************************************)
(* The two vocabularies of the service: capabilities, which a caller asks  *)
(* for, and scopes, which a token carries (lib/capabilities). The order of *)
(* a list of scopes is left out: they are sets here.                       *)
(***************************************************************************)

Capabilities == {"postgres", "data_api", "auth", "storage", "functions", "ai_gateway"}

AlwaysGranted == {"postgres"}
GrantableOnRequest == {"data_api", "auth"}

(* Wrong variant: whatever the vocabulary has is granted. *)
GrantedKnown(requested) == (requested \cup AlwaysGranted) \cap Capabilities

(* decideCapabilities and grantedCapabilities: an unknown capability is denied
   like one that requires a claim. *)
Granted(requested) ==
  (requested \cup AlwaysGranted) \cap (AlwaysGranted \cup GrantableOnRequest)

Denied(requested) == requested \ Granted(requested)

(* CAPABILITY_SCOPES *)
CapabilityScopes ==
  [postgres |-> {"postgres.read", "postgres.write"},
   data_api |-> {"data_api.query", "data_api.configure"},
   auth |-> {"auth.configure"},
   storage |-> {"storage.read", "storage.write"},
   functions |-> {"functions.deploy", "functions.invoke"},
   ai_gateway |-> {"ai_gateway.invoke"}]

ScopeNames == UNION {CapabilityScopes[c] : c \in Capabilities}

ScopesForCapabilities(capabilities) == UNION {CapabilityScopes[c] : c \in capabilities}

GrantableConfigureScopes == {"auth.configure", "data_api.configure"}

WithGrantableConfigureScopes(scopes) == scopes \cup GrantableConfigureScopes

WithGrantedCapability(scopes, capability) ==
  WithGrantableConfigureScopes(scopes \cup ScopesForCapabilities({capability}))

(* The configure scope stays. *)
WithoutDataApiQuery(scopes) ==
  WithGrantableConfigureScopes(scopes \ {"data_api.query"})
=============================================================================
