----------------------------- MODULE MCIstioCSR -----------------------------
(***************************************************************************)
(* Instances of IstioCSR for TLC.  The pipelines are cuts through the real *)
(* one (network policy, services, service account, cluster role, ...,      *)
(* certificate, deployment) that keep one kind of each behaviour: service  *)
(* (a status field written once), clusterrole (status written every time)  *)
(* and deployment (watched by generation, can be impossible to build).     *)
(***************************************************************************)
EXTENDS IstioCSR

CONSTANTS service, clusterrole, deployment, s1, s2, bad

ClusterRoleOnly == <<clusterrole>>
ServiceClusterRole == <<service, clusterrole>>
ClusterRoleDeployment == <<clusterrole, deployment>>

(* Every difference between two specs is one hasObjectChanged sees.        *)
AllDiffer == [s \in Specs |-> s]

(* s1 and s2 differ only in fields the comparison leaves out.              *)
SameDigest == [s \in Specs |-> IF s \in {s1, s2} THEN s1 ELSE s]

AllBuildable == [k \in Kinds |-> {}]

(* bad names a CA ConfigMap that is not there.                             *)
DeploymentUnbuildable == [k \in Kinds |-> IF k = deployment THEN {bad} ELSE {}]

(* The whole API server refuses writes, or those of one target only.       *)
Everything == {Targets}
EverythingOrOne == {Targets} \cup {{t} : t \in Targets}
=============================================================================
