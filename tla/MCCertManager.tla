---------------------------- MODULE MCCertManager ----------------------------
(* Small instances of CertManager for TLC. *)
EXTENDS CertManager

With(args) == [DefaultSpec EXCEPT !.config = [EmptyConfig EXCEPT !.overrideArgs = args]]

(* Everything a user may tune, within the limits, and an argument that     *)
(* breaks the glass.                                                       *)
Tuned ==
    [managementState |-> "Managed", logLevel |-> "Trace",
     unsupported |-> << <<"--metrics-dynamic-serving-dns-names", "mine">> >>,
     config |->
        [overrideArgs |-> << <<"--v", "3">>, <<"--kube-api-qps", <<"half", 4>>>>,
                             <<"--v", "5">>, <<"--kube-api-burst", <<"int", 5>>>> >>,
         overrideEnv |-> Entry("HTTP_PROXY", "mine"),
         overrideLabels |-> Entry("azure.workload.identity/use", "true"),
         overrideReplicas |-> 2,
         overrideResources |-> [limits |-> Entry("cpu", "0") ++ Entry("memory", "64Mi"),
                                requests |-> Entry("cpu", "10m")],
         overrideScheduling |->
            [nodeSelector |-> Entry("kubernetes.io/os", "other"),
             tolerations |-> {[key |-> "a", effect |-> ""],
                              [key |-> "a", effect |-> "NoSchedule"]}]]]

BadBurst ==
    With(<< <<"--kube-api-qps", <<"half", 5>>>>, <<"--kube-api-burst", <<"int", 5>>>> >>)

Unsupported == With(<< <<"--namespace", "mine">> >>)
Removed == [DefaultSpec EXCEPT !.managementState = "Removed"]
Unmanaged == [Tuned EXCEPT !.managementState = "Unmanaged"]

OpenShift == [infra |-> TRUE, ca |-> TRUE, secret |-> TRUE, images |-> TRUE,
              vars |-> Entry("HTTP_PROXY", "cluster") ++ Entry("NO_PROXY", "local")]
Kubernetes == [infra |-> FALSE, ca |-> FALSE, secret |-> TRUE, images |-> FALSE,
               vars |-> Entry("PATH", "bin")]

Complete == [ca |-> TRUE, secret |-> TRUE, platform |-> "AWS",
             api |-> [adherence |-> "Strict", profile |-> "Modern"]]
Lacking == [Complete EXCEPT !.secret = FALSE, !.api.profile = ""]

(* The two extremes: everything that can be configured and one mishap, and *)
(* two mishaps in the life of a plain installation.                        *)
MCSetups ==
    {[name |-> Controller, env |-> OpenShift, inputs |-> {Complete, Lacking},
      specs |-> {Tuned, BadBurst, Removed, Unmanaged}, maxDisturb |-> 1],
     [name |-> Webhook, env |-> Kubernetes, inputs |-> {Complete},
      specs |-> {Tuned, BadBurst, Removed, Unmanaged}, maxDisturb |-> 1],
     [name |-> CAInjector, env |-> Kubernetes, inputs |-> {Complete},
      specs |-> {DefaultSpec, Removed}, maxDisturb |-> 2]}

(* A user withdraws an argument that is not supported.                     *)
RaceSetups ==
    {[name |-> Webhook, env |-> Kubernetes, inputs |-> {Complete},
      specs |-> {DefaultSpec, Unsupported}, maxDisturb |-> 1]}

=============================================================================
