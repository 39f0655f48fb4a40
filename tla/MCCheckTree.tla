----------------------------- MODULE MCCheckTree -----------------------------
(* The shapes of the tree of pkg/checkers/phases.go in small: a phase whose     *)
(* sub-checks depend on one another (runtime), one of them a nested phase that  *)
(* may be skipped with its sub-check never started, a check that depends on the *)
(* outer phase (workload_status), a dependency on a name that no result has,    *)
(* and a check without a function.                                              *)
EXTENDS CheckTree

MCChecks ==
    {"runtime", "openrc", "iknite_running", "kubelet_running", "kubelet_health",
     "workload_status", "machine_id"}

MCTopLevel == <<"machine_id", "runtime", "workload_status">>

MCSubChecks ==
    [c \in MCChecks |->
        CASE c = "runtime" -> <<"openrc", "iknite_running", "kubelet_running">>
          [] c = "kubelet_running" -> <<"kubelet_health">>
          [] OTHER -> <<>>]

MCDependsOn ==
    [c \in MCChecks |->
        CASE c = "iknite_running" -> <<"openrc", "containerd_running">>
          [] c = "kubelet_running" -> <<"iknite_running">>
          [] c = "workload_status" -> <<"runtime">>
          [] OTHER -> <<>>]

MCHasCheckFn == {"openrc", "iknite_running", "kubelet_health", "workload_status"}
=============================================================================
