----------------------------- MODULE MCOperator -----------------------------
(* Small instances of Operator for TLC. *)
EXTENDS Operator

Policy(n, egress) == [name |-> n, componentName |-> "CoreController", egress |-> egress]

Secured == [managementState |-> "Managed", defaultNetworkPolicy |-> "true",
            networkPolicies |-> <<Policy("a", "dns")>>]
Widened == [Secured EXCEPT !.networkPolicies = <<Policy("a", "all"), Policy("b", "dns")>>]
LeftAlone == [Secured EXCEPT !.managementState = "Unmanaged"]

Both == [IstioCSR |-> TRUE, TrustManager |-> TRUE]
Neither == [IstioCSR |-> FALSE]
OnlyDefaults == << >>

Modern(adherence) == [adherence |-> adherence, profile |-> "Modern"]

Unusable == [adherence |-> "Strict", profile |-> "CustomEmpty"]

(* Users of network policies; a console; a cluster whose TLS profile       *)
(* changes, once to one that cannot be used; a cluster without the APIs of *)
(* OpenShift, and no manager; a flag that makes every start fail.          *)
MCSetups ==
    {[flag |-> Both, openshift |-> TRUE, console |-> FALSE,
      profiles |-> {Modern("Strict")}, specs |-> {Secured, Widened, DefaultCertManager},
      maxDisturb |-> 1],
     [flag |-> OnlyDefaults, openshift |-> TRUE, console |-> TRUE,
      profiles |-> {Modern("Strict")}, specs |-> {DefaultCertManager}, maxDisturb |-> 1],
     [flag |-> OnlyDefaults, openshift |-> TRUE, console |-> FALSE,
      profiles |-> {Modern("Strict"), Modern("Legacy"), Unusable},
      specs |-> {DefaultCertManager}, maxDisturb |-> 2],
     [flag |-> Neither, openshift |-> FALSE, console |-> FALSE,
      profiles |-> {NoAPIServer}, specs |-> {LeftAlone}, maxDisturb |-> 1],
     [flag |-> Malformed, openshift |-> TRUE, console |-> FALSE,
      profiles |-> {Modern("Strict")}, specs |-> {DefaultCertManager}, maxDisturb |-> 1]}

(* A CertManager that is deleted.                                          *)
DeletingSetups ==
    {[flag |-> OnlyDefaults, openshift |-> TRUE, console |-> FALSE,
      profiles |-> {NoAPIServer}, specs |-> {Secured}, maxDisturb |-> 1]}

=============================================================================
