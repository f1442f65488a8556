---------------------------- MODULE ContainerArgs ----------------------------
(***************************************************************************)
(* The argument lists of containers (pkg/controller/common/                *)
(* container_args.go) and the arguments that the TLS security profile of   *)
(* the cluster asks for (pkg/tlsprofile), as operators on values.          *)
(*                                                                         *)
(* An argument "key=value" is the pair <<key, value>>.  A list that        *)
(* MergeContainerArgs produced is sorted and names every key once: it is   *)
(* represented by the function from its keys to their values.  A list      *)
(* somebody wrote, where a key may come twice, is a sequence of pairs.     *)
(***************************************************************************)
EXTENDS Sequences, Naturals, Maps

(* The empty string: no value, or an empty element of a list of arguments. *)
Empty == ""

(* ParseArgMap: the last occurrence of a key counts, an empty argument     *)
(* does not.                                                               *)
ParseArgMap(args) ==
    LET Named == {i \in 1..Len(args) : args[i][1] # Empty}
    IN  [k \in {args[i][1] : i \in Named} |->
            args[CHOOSE i \in Named :
                    /\ args[i][1] = k
                    /\ \A j \in Named : args[j][1] = k => j <= i][2]]

(* MergeContainerArgs: the override wins.                                  *)
MergeContainerArgs(source, override) == override ++ source

StripArgsByKeys(args, keys) ==
    [k \in DOMAIN args \ keys |-> args[k]]

-----------------------------------------------------------------------------
(***************************************************************************)
(* The TLS profile.  An APIServer object is a record of its tlsAdherence   *)
(* and its tlsSecurityProfile; a profile spec has a minimum version and a  *)
(* list of ciphers, here by the name of the profile the list comes from.   *)
(***************************************************************************)
NoAPIServer == [adherence |-> "absent"]

APIServers ==
    [adherence : {"", "Legacy", "Strict"},
     profile : {"", "Old", "Intermediate", "Modern", "Custom", "CustomEmpty"}]

ProfileError == [minVersion |-> "error"]
Skip == [minVersion |-> "skip"]

(* EffectiveSpec: nothing means Intermediate, a custom profile must have   *)
(* its settings.  CustomEmpty is a Custom profile without them.            *)
EffectiveSpec(profile) ==
    CASE profile \in {"", "Intermediate"} ->
            [minVersion |-> "VersionTLS12", ciphers |-> "Intermediate"]
      [] profile = "Old" -> [minVersion |-> "VersionTLS10", ciphers |-> "Old"]
      [] profile = "Modern" -> [minVersion |-> "VersionTLS13", ciphers |-> "Modern"]
      [] profile = "Custom" -> [minVersion |-> "VersionTLS12", ciphers |-> "Custom"]
      [] OTHER -> ProfileError

(* library-go: an absent or a legacy adherence leaves components alone,    *)
(* every other value is enforced.                                          *)
ShouldHonorClusterTLSProfile(adherence) == adherence \notin {"", "Legacy"}

(* ResolveHonoredTLSProfile: no APIServer object, or an adherence that     *)
(* does not ask for it, leaves the arguments alone.                        *)
ResolveHonoredTLSProfile(apiServer) ==
    IF apiServer = NoAPIServer THEN Skip
    ELSE IF ~ShouldHonorClusterTLSProfile(apiServer.adherence) THEN Skip
    ELSE EffectiveSpec(apiServer.profile)

(* Variant: the adherence is not compared.                                 *)
ProfileChanged(old, new) ==
    old = NoAPIServer \/ new = NoAPIServer \/ old.profile # new.profile

(* ClusterAPIServerTLSConfigChanged, and the creation and deletion of the  *)
(* object: the events of the APIServer watch that pass its predicate.      *)
ClusterAPIServerTLSConfigChanged(old, new) ==
    \/ old = NoAPIServer
    \/ new = NoAPIServer
    \/ old.adherence # new.adherence
    \/ old.profile # new.profile

CertManagerCipherSuiteArgKeys ==
    {"--tls-cipher-suites", "--metrics-tls-cipher-suites"}

TrustManagerCipherSuiteArgKeys == {"--tls-cipher-suites"}

(* Ciphers cannot be chosen for TLS 1.3, so no flag names them.            *)
IsTLS13(spec) == spec.minVersion = "VersionTLS13"

CertManagerWebhookTLSArgs(spec) ==
    IF IsTLS13(spec)
    THEN [k \in {"--tls-min-version", "--metrics-tls-min-version"} |-> spec.minVersion]
    ELSE Entry("--tls-min-version", spec.minVersion)
         ++ Entry("--tls-cipher-suites", spec.ciphers)
         ++ Entry("--metrics-tls-min-version", spec.minVersion)
         ++ Entry("--metrics-tls-cipher-suites", spec.ciphers)

CertManagerOperandMetricsTLSArgs(spec) ==
    IF IsTLS13(spec)
    THEN Entry("--metrics-tls-min-version", spec.minVersion)
    ELSE Entry("--metrics-tls-min-version", spec.minVersion)
         ++ Entry("--metrics-tls-cipher-suites", spec.ciphers)

TrustManagerWebhookTLSArgs(spec) ==
    IF IsTLS13(spec)
    THEN Entry("--tls-min-version", spec.minVersion)
    ELSE Entry("--tls-min-version", spec.minVersion)
         ++ Entry("--tls-cipher-suites", spec.ciphers)

(* What the TLS hooks do with the arguments of a container.                *)
MergedTLSArgs(args, extra, spec, cipherKeys) ==
    MergeContainerArgs(
        IF IsTLS13(spec) THEN StripArgsByKeys(args, cipherKeys) ELSE args,
        extra)

=============================================================================
