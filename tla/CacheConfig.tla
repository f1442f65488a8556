----------------------------- MODULE CacheConfig -----------------------------
(***************************************************************************)
(* The shared cache of the controller manager (pkg/operator/               *)
(* setup_manager.go): which objects it holds, for every choice of enabled  *)
(* controllers.  A cache configuration is the set of the kinds that have   *)
(* an entry and, for them, the pairs of a kind and a value of the managed  *)
(* label that it admits.  A kind without an entry is cached whole.         *)
(***************************************************************************)
Features == {"IstioCSR", "TrustManager"}

(* RequestEnqueueLabelValue of each controller, and an object of a user.   *)
LabelOf == [IstioCSR |-> "cert-manager-istio-csr", TrustManager |-> "cert-manager-trust-manager"]
Unlabelled == "none"
AnyValue == {LabelOf[f] : f \in Features} \cup {Unlabelled}

CommonResources ==
    {"Certificate", "Deployment", "ClusterRole", "ClusterRoleBinding", "Role",
     "RoleBinding", "Service", "ServiceAccount"}

istioCSRManagedResources == CommonResources \cup {"NetworkPolicy"}

trustManagerManagedResources ==
    CommonResources \cup {"ValidatingWebhookConfiguration"}

(* Variant: the selector of the second controller replaces that of the     *)
(* first.                                                                  *)
AddControllerCacheConfigReplacing(list, value, resources) ==
    [kinds |-> list.kinds \cup resources,
     admits |-> {a \in list.admits : a[1] \notin resources}
                \cup {<<k, value>> : k \in resources}]

(* A kind that both controllers manage admits both values.                 *)
AddControllerCacheConfig(list, value, resources) ==
    [kinds |-> list.kinds \cup resources,
     admits |-> list.admits \cup {<<k, value>> : k \in resources}]

(* An entry without a selector.                                            *)
AddObject(list, kind) ==
    [kinds |-> list.kinds \cup {kind},
     admits |-> list.admits \cup {<<kind, label>> : label \in AnyValue}]

EmptyConfig == [kinds |-> {}, admits |-> {}]

BuildCacheObjectList(enabled) ==
    LET istio ==
            IF "IstioCSR" \notin enabled THEN EmptyConfig
            ELSE AddObject(AddControllerCacheConfig(EmptyConfig, LabelOf.IstioCSR,
                                                    istioCSRManagedResources),
                           "IstioCSR")
    IN  IF "TrustManager" \notin enabled THEN istio
        ELSE AddObject(AddControllerCacheConfig(istio, LabelOf.TrustManager,
                                                trustManagerManagedResources),
                       "TrustManager")

(* What a controller reads through the cache: the objects it manages, and  *)
(* objects of users it is told about.                                      *)
Reads(f) ==
    CASE f = "IstioCSR" ->
            {<<k, LabelOf.IstioCSR>> : k \in istioCSRManagedResources \cup {"ConfigMap"}}
            \cup {<<k, Unlabelled>> :
                    k \in {"IstioCSR", "Issuer", "ClusterIssuer", "ConfigMap", "Secret"}}
      [] f = "TrustManager" ->
            {<<k, LabelOf.TrustManager>> :
                    k \in trustManagerManagedResources \cup {"ConfigMap", "Issuer"}}
            \cup {<<k, Unlabelled>> :
                    k \in {"TrustManager", "ConfigMap", "Namespace", "APIServer"}}

Cached(list, kind, label) == kind \in list.kinds => <<kind, label>> \in list.admits

=============================================================================
