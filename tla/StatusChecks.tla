----------------------------- MODULE StatusChecks -----------------------------
(***************************************************************************)
(* The checks `iknite status` runs, under the rules of CheckReport: the    *)
(* configuration and runtime phases and the workload check of              *)
(* pkg/checkers, with what each check function looks at on the host and in *)
(* the cluster, and WaitOptions.Poll in all its modes.  The environment    *)
(* phase is in HostSetup.                                                  *)
(*                                                                         *)
(* The host is the set of the facts that hold: a file is there, a service  *)
(* is started, an endpoint answers, a workload is ready.  It can change    *)
(* while the checks run; the kubelet can start or die.                     *)
(***************************************************************************)
EXTENDS CheckReport, Integers, FiniteSets, Sequences, TLC

CONSTANTS
    Facts,                 \* the facts of the instance
    Workloads,             \* those that say that a workload is ready
    Modes,                 \* the waiting modes of the command line
    Retries, OkResponses,  \* its --check-retries and --check-ok-responses
    MaxMissing,            \* bound on the facts that do not hold at first
    MaxChanges             \* bound on the changes of the host during the checks

ASSUME StatusOptions ==
    /\ Retries \in Int /\ OkResponses \in Int
    /\ Modes \subseteq {"wait", "once", "watch", "both"}

\* ConfigureIkniteClusterChecker always adds the workload check, which is no phase.
ASSUME WorkloadLeaf == "workload_status" \in Checks /\ SubChecks["workload_status"] = <<>>

VARIABLES
    facts,     \* the facts that hold
    pid,       \* /run/kubelet.pid: "none", "live", or "stale" for a dead kubelet
    held,      \* what the kubelet check has read of it, "unread" at first
    mode,      \* "wait", "once" or "watch", or "both", which is refused
    poll,      \* poll[c]: the counters of the loop of c
    data,      \* checkWorkloadData: the verdict and the workloads that are not ready
    changes,   \* how often the host has changed
    erred,     \* history: a request to an endpoint has failed
    row,       \* history: how many answers in a row said that all workloads are ready
    lost       \* history: the pid file of a live kubelet was removed: "no",
               \* "raced" when the kubelet had started since the file was read, or "yes"

hostVars == <<facts, pid, changes>>
runVars == <<held, mode, poll, data, erred, row, lost>>
statusVars == <<reportVars, hostVars, runVars>>

----------------------------------------------------------------------------
(* The tree of phases.go, restricted to the checks of the instance.         *)

KnownName(n) == n \in Checks
Listed(list) == SelectSeq(list, KnownName)

NewConfigurationCheckPhase ==
    <<"pki", "manifests", "kubelet_conf", "admin_conf", "kubelet_config",
      "kubeadm_flags", "iknite_conf", "api_backend_data">>
ManifestsPhase ==
    <<"manifest_backend", "manifest_apiserver", "manifest_controller", "manifest_scheduler">>
NewRuntimeCheckPhase ==
    <<"openrc", "iknite_running", "containerd_running", "buildkitd_running",
      "kubelet_running", "kubelet_health", "apiserver_health", "iknite_server_health">>

\* ConfigureIkniteClusterChecker.
StatusTopLevel == Listed(<<"configuration", "runtime", "workload_status">>)
PhaseList(c) ==
    CASE c = "configuration" -> NewConfigurationCheckPhase
      [] c = "manifests" -> ManifestsPhase
      [] c = "runtime" -> NewRuntimeCheckPhase
      [] OTHER -> <<>>
StatusSubChecks == [c \in Checks |-> Listed(PhaseList(c))]

\* ServiceCheck: openrc unless another parent is given.
OpenRCServices == {"iknite_running", "containerd_running", "buildkitd_running"}
StatusDependsOn ==
    [c \in Checks |->
        CASE c \in OpenRCServices -> <<"openrc">>
          [] c = "kubelet_running" -> <<"iknite_running">>
          [] c \in {"kubelet_health", "apiserver_health"} -> <<"kubelet_running">>
          [] c = "iknite_server_health" -> <<"apiserver_health">>
          [] c = "workload_status" -> <<"runtime">>
          [] OTHER -> <<>>]
StatusHasCheckFn == {c \in Checks : StatusSubChecks[c] = <<>>}

----------------------------------------------------------------------------
(* What the check functions look at.  A fact that is not in the instance is *)
(* one that always holds.                                                   *)

checkFileAndContent(f) == f \in facts \/ f \notin Facts

\* FileTreeDifference: the files that are missing and those that should not be there.
PkiFiles == {"ca.crt", "iknite-server.crt"}
ExtraPki == {"extra.crt"}
Missing(expected) == {f \in expected : ~checkFileAndContent(f)}
Extra == ExtraPki \cap facts

\* Deviation: a file that does not belong there is not noticed.
checkFileTree_MissingOnly == Missing(PkiFiles) = {}

checkFileTree == Missing(PkiFiles) = {} /\ Extra = {}
checkApiBackendData == Missing({"kine.db"}) = {}
checkOpenRCStarted == checkFileAndContent("softlevel")

\* IsServiceStarted: the link of the service in the directory of the started ones.
IsServiceStarted(c) == checkFileAndContent(c)

\* CheckKubeletHealth, CheckApiServerHealth: a client, the static pods, the waiter.
CheckKubeletHealth == checkFileAndContent("admin_conf") /\ checkFileAndContent("kubelet_health")
CheckApiServerHealth ==
    /\ checkFileAndContent("admin_conf")
    /\ Missing({"manifest_apiserver", "manifest_controller", "manifest_scheduler"}) = {}
    /\ checkFileAndContent("apiserver_health")

\* The functions that look once, by check; the others are SimpleFileChecks.
Verdict(c) ==
    CASE c = "pki" -> checkFileTree
      [] c = "api_backend_data" -> checkApiBackendData
      [] c = "openrc" -> checkOpenRCStarted
      [] c \in OpenRCServices -> IsServiceStarted(c)
      [] c = "kubelet_health" -> CheckKubeletHealth
      [] c = "apiserver_health" -> CheckApiServerHealth
      [] OTHER -> checkFileAndContent(c)

Polling == {"iknite_server_health", "workload_status"}
LooksOnce == {c \in Checks : Phase[c] = {}} \ (Polling \cup {"kubelet_running"})

NewCounters == [retries |-> Retries, successes |-> 0]

StatusInit ==
    /\ ReportInit
    /\ facts \in {Facts \ (m \cup ExtraPki) : m \in {s \in SUBSET Facts : Cardinality(s) <= MaxMissing}}
                 \cup {Facts}
    /\ pid \in {"none", "live", "stale"} /\ held = "unread"
    /\ mode \in Modes
    /\ poll = [c \in Polling |-> NewCounters]
    /\ data = [ok |-> "no", unready |-> {}]
    /\ changes = 0 /\ erred = "no" /\ row = 0 /\ lost = "no"

----------------------------------------------------------------------------
\* CheckFn of c runs: Run has been called and the dependencies are met.
Running(c) == c \in Checks /\ report[c] = "none" /\ Called(c) /\ Met(c)

\* The function returns.
Conclude(c, success) == Running(c) /\ Decide(c, IF success THEN "success" ELSE "failed")

CheckOnce(c) ==
    /\ c \in LooksOnce /\ Conclude(c, Verdict(c))
    /\ UNCHANGED <<hostVars, runVars>>

\* Deviation: the process the pid names is not asked whether it is there.
ReadPidFile_Unsignalled(c) ==
    /\ c = "kubelet_running" /\ Running(c) /\ held = "unread"
    /\ IF pid \in {"live", "stale"} THEN held' = "stale" /\ UNCHANGED reportVars
       ELSE Conclude(c, FALSE) /\ UNCHANGED held
    /\ UNCHANGED <<hostVars, mode, poll, data, erred, row, lost>>

\* CheckService with a pid file, CheckPidFile up to signal 0.
ReadPidFile(c) ==
    /\ c = "kubelet_running" /\ Running(c) /\ held = "unread"
    /\ IF pid = "stale" THEN held' = "stale" /\ UNCHANGED reportVars
       ELSE Conclude(c, pid = "live") /\ UNCHANGED held
    /\ UNCHANGED <<hostVars, mode, poll, data, erred, row, lost>>

\* CheckPidFile removes the file by its name, whatever it holds by now.
RemovePidFile(c) ==
    /\ c = "kubelet_running" /\ Running(c) /\ held \in {"stale", "replaced"}
    /\ Conclude(c, FALSE)
    /\ \/ pid' = "none"
          /\ lost' = IF pid # "live" THEN lost ELSE IF held = "replaced" THEN "raced" ELSE "yes"
       \/ UNCHANGED <<pid, lost>>
    /\ UNCHANGED <<facts, changes, held, mode, poll, data, erred, row>>

----------------------------------------------------------------------------
(* WaitOptions.Poll.                                                        *)

\* The options of the two checks that poll; the one of the server makes its own.
ModeOf(c) == IF c = "workload_status" THEN mode ELSE "wait"
OkResponsesOf(c) == IF c = "workload_status" THEN OkResponses ELSE 1

\* Validate refuses watch with wait.
Validate(c) == ModeOf(c) # "both"
HasLoop(c) == ModeOf(c) \in {"wait", "watch"}

\* Deviation: an error does not use up a retry.
Counted_Unlimited(p, answer) ==
    [retries |-> p.retries, successes |-> IF answer = "ready" THEN p.successes + 1 ELSE 0]

\* The counters after one answer: an error uses up a retry, and all that is not a
\* success starts the successes over.
Counted(p, answer) ==
    [retries |-> IF answer = "error" THEN p.retries - 1 ELSE p.retries,
     successes |-> IF answer = "ready" THEN p.successes + 1 ELSE 0]

\* What Poll does on an answer: return nil ("done"), an error, or go on.  Without a
\* loop, the answer of the condition is dropped, only its error counts.
Poll(c, answer) ==
    CASE ~Validate(c) -> "error"
      [] ModeOf(c) = "once" -> IF answer = "error" THEN "error" ELSE "done"
      [] HasLoop(c) /\ Retries <= 0 /\ answer = "error" -> "error"
      [] ModeOf(c) = "wait" /\ answer = "ready"
            /\ poll[c].successes + 1 >= OkResponsesOf(c) -> "done"
      [] OTHER -> "more"

\* The retries are used up: the condition is not even asked.
Exhausted(c) == HasLoop(c) /\ Retries > 0 /\ poll[c].retries <= 0

\* checkIkniteServerWithConfig, one request of /healthz.
IkniteServerAnswers ==
    IF checkFileAndContent("iknite_server") THEN {"ready", "error"} ELSE {"error"}

\* WorkloadsReadyConditionWithContextFunc: the states of all the workloads.
NotReady == Workloads \ facts
WorkloadAnswers == {"error", IF NotReady = {} THEN "ready" ELSE "unready"}

\* CheckIkniteServerHealth: the client, then the polls.
CheckIkniteServerHealth(c) ==
    /\ c = "iknite_server_health" /\ Running(c)
    /\ IF ~checkFileAndContent("iknite_local_conf") \/ Exhausted(c)
       THEN Conclude(c, FALSE) /\ UNCHANGED <<poll, erred>>
       ELSE \E answer \in IkniteServerAnswers :
              /\ poll' = [poll EXCEPT ![c] = Counted(@, answer)]
              /\ erred' = IF answer = "error" THEN "yes" ELSE erred
              /\ CASE Poll(c, answer) = "more" -> UNCHANGED reportVars
                   [] OTHER -> Conclude(c, Poll(c, answer) = "done")
    /\ UNCHANGED <<hostVars, held, mode, data, row, lost>>

\* The callback of checkWorkloadsWithConfig: the setters of checkWorkloadData.
SetWorkloads(answer) ==
    IF answer = "error" THEN data
    ELSE [ok |-> IF answer = "ready" THEN "yes" ELSE "no", unready |-> NotReady]

\* Deviation: Poll returned no error, so the workloads are ready.
checkWorkloadsWithConfig_NilIsOk(c, answer) ==
    /\ data' = SetWorkloads(answer)
    /\ CASE Poll(c, answer) = "more" -> UNCHANGED reportVars
         [] OTHER -> Conclude(c, Poll(c, answer) = "done")

\* checkWorkloadsWithConfig, one answer; at the end the verdict is IsOk.
checkWorkloadsWithConfig(c, answer) ==
    /\ data' = SetWorkloads(answer)
    /\ CASE Poll(c, answer) = "more" -> UNCHANGED reportVars
         [] OTHER -> Conclude(c, Poll(c, answer) = "done" /\ data'.ok = "yes")

\* CheckWorkloads: the client, then the polls.
CheckWorkloads(c) ==
    /\ c = "workload_status" /\ Running(c)
    /\ IF ~checkFileAndContent("kubeconfig") \/ Exhausted(c) \/ ~Validate(c)
       THEN Conclude(c, FALSE) /\ UNCHANGED <<poll, data, erred, row>>
       ELSE \E answer \in WorkloadAnswers :
              /\ poll' = [poll EXCEPT ![c] = IF mode = "watch" THEN [Counted(@, answer) EXCEPT !.successes = 0]
                                             ELSE Counted(@, answer)]
              /\ erred' = IF answer = "error" THEN "yes" ELSE erred
              /\ row' = IF answer # "ready" THEN 0 ELSE IF row < 1 \/ row < OkResponses THEN row + 1 ELSE row
              /\ checkWorkloadsWithConfig(c, answer)
    /\ UNCHANGED <<hostVars, held, mode, lost>>

\* The context ends between two polls: Poll returns its error.
PollCancelled(c) ==
    /\ c \in Polling /\ Running(c) /\ cancelled = "yes" /\ HasLoop(c)
    /\ Conclude(c, FALSE)
    /\ UNCHANGED <<hostVars, runVars>>

----------------------------------------------------------------------------
\* The framework: a check is skipped or given up, a phase has its verdict.
Framework(c) ==
    /\ \/ Decide(c, "skipped")
       \/ Phase[c] # {} /\ Decide(c, PhaseVerdict(c))
       \/ Decide(c, "aborted")
    /\ UNCHANGED <<hostVars, runVars>>

StatusGoroutine(c) ==
    \/ Framework(c) \/ CheckOnce(c) \/ ReadPidFile(c) \/ RemovePidFile(c)
    \/ CheckIkniteServerHealth(c) \/ CheckWorkloads(c) \/ PollCancelled(c)

\* A key or a signal ends the context.
Interrupt ==
    /\ changes < MaxChanges /\ changes' = changes + 1
    /\ Cancel
    /\ UNCHANGED <<facts, pid, runVars>>

\* The host changes: a fact comes or goes, the kubelet dies or starts.
FactChanges ==
    /\ changes < MaxChanges /\ changes' = changes + 1
    /\ \E f \in Facts : facts' = IF f \in facts THEN facts \ {f} ELSE facts \cup {f}
    /\ UNCHANGED <<reportVars, pid, runVars>>
KubeletChanges ==
    /\ changes < MaxChanges /\ changes' = changes + 1
    /\ pid' = IF pid = "live" THEN "stale" ELSE "live"
    /\ held' = IF pid # "live" /\ held = "stale" THEN "replaced" ELSE held
    /\ UNCHANGED <<reportVars, facts, mode, poll, data, erred, row, lost>>

StatusNext ==
    \/ \E c \in Checks : StatusGoroutine(c)
    \/ Interrupt \/ FactChanges \/ KubeletChanges

\* Some goroutine that can run does; a poll comes after every interval.
StatusSpec ==
    /\ StatusInit /\ [][StatusNext]_statusVars
    /\ WF_statusVars(\E c \in Checks : StatusGoroutine(c))

----------------------------------------------------------------------------
\* What the phases stand for, fact by fact.
RuntimeFacts ==
    {"softlevel", "iknite_running", "containerd_running", "buildkitd_running", "admin_conf",
     "kubelet_health", "manifest_apiserver", "manifest_controller", "manifest_scheduler",
     "apiserver_health", "iknite_local_conf", "iknite_server"} \cap Facts
ConfigurationFacts ==
    {"ca.crt", "iknite-server.crt", "manifest_backend", "manifest_apiserver",
     "manifest_controller", "manifest_scheduler", "kubelet_conf", "admin_conf",
     "kubelet_config", "kubeadm_flags", "iknite_conf", "kine.db"} \cap Facts

\* The facts each check looks at; the kubelet check looks at the pid file.
LooksAt(c) ==
    CASE c = "pki" -> PkiFiles \cup ExtraPki
      [] c = "manifests" -> {"manifest_backend", "manifest_apiserver", "manifest_controller", "manifest_scheduler"}
      [] c = "api_backend_data" -> {"kine.db"}
      [] c = "openrc" -> {"softlevel"}
      [] c = "kubelet_health" -> {"admin_conf", "kubelet_health"}
      [] c = "apiserver_health" ->
            {"admin_conf", "manifest_apiserver", "manifest_controller", "manifest_scheduler", "apiserver_health"}
      [] c = "iknite_server_health" -> {"iknite_local_conf", "iknite_server"}
      [] OTHER -> {c}

\* An instance has the tree of phases.go, without some of its checks: those of which no
\* fact can fail to hold.
ASSUME StatusTree ==
    /\ {"runtime", "kubelet_running"} \subseteq Checks
    /\ Tops = {"configuration", "runtime", "workload_status"} \cap Checks
    /\ \A c \in Checks : Phase[c] = Range(PhaseList(c)) \cap Checks
    /\ \A c \in Checks : PhaseList(c) # <<>> => Phase[c] # {}
    /\ DependsOn = StatusDependsOn
ASSUME FactsFit ==
    \A p \in {"configuration", "manifests", "runtime"} : \A c \in Range(PhaseList(p)) :
        LooksAt(c) \cap Facts # {} => {p, c} \subseteq Checks

\* Nothing has happened to the host, to a request or to the command.
Undisturbed == changes = 0 /\ erred = "no" /\ cancelled = "no"

\* On a host that does not change, with no failed request and no interruption, the
\* report is right both ways: the configuration phase succeeds exactly when the files
\* of /etc/kubernetes and /var/lib are those that should be there, the runtime phase
\* exactly when every service runs and every endpoint answers, and the workload check
\* exactly when all workloads are ready too (pkg/checkers, waitForSubChecks: a skipped
\* sub-check counts for nothing, so each must be behind a failed one).
ReportIsTrue ==
    Undisturbed =>
        /\ "configuration" \in Checks /\ report["configuration"] # "none" =>
             (report["configuration"] = "success"
                <=> ConfigurationFacts \subseteq facts /\ ExtraPki \cap facts = {})
        /\ report["runtime"] # "none" =>
             (report["runtime"] = "success" <=> RuntimeFacts \subseteq facts /\ pid = "live")
        /\ report["workload_status"] # "none" /\ mode # "both" =>
             (report["workload_status"] = "success"
                <=> /\ report["runtime"] = "success"
                    /\ Workloads \cup ({"kubeconfig"} \cap Facts) \subseteq facts)

\* The workload check reports success only when the last answers all said that every
\* workload is ready, as many of them in a row as were asked for and at least one, or the
\* only one without a loop, and then it lists no workload that is not, whatever the host did
\* meanwhile (Poll drops the answer without a loop; IsOk makes up for it).
SuccessWasAnswered ==
    report["workload_status"] = "success" =>
        /\ row >= 1 /\ (mode = "wait" => row >= OkResponses) /\ data.unready = {}
        /\ mode \in {"once", "wait"}

\* The status command removes the pid file of a live kubelet only when that kubelet
\* wrote it after the command had read the one of a dead kubelet (CheckPidFile reads,
\* signals and removes in three steps).
KeepsPidFile == lost # "yes"

\* The command ends without being interrupted: always without a loop, and when it
\* waits, if the workloads become ready and stay so, however often requests fail
\* meanwhile: Retries failures end the wait.
StatusEnds ==
    <>[](mode \in {"once", "both"} \/ (mode = "wait" /\ NotReady = {}))
        => <>(\A c \in Tops : report[c] # "none")

----------------------------------------------------------------------------
(* The inductive invariants behind KeepsPidFile and SuccessWasAnswered.     *)

\* A kubelet that lives wrote its pid file after the dead one's was read.
PidInv == KeepsPidFile /\ (held = "stale" => pid # "live")

Enough(n) == n <= row \/ row >= OkResponses
AnswerInv ==
    /\ report \in [Checks -> Verdicts \cup {"none"}] /\ mode \in {"wait", "once", "watch", "both"}
    /\ row \in Nat /\ poll \in [Polling -> [retries : Int, successes : Nat]]
    /\ Enough(poll["workload_status"].successes)
    /\ SuccessWasAnswered

\* What the leaves look at, those included that poll or read the pid file.
Holds(c) ==
    CASE c = "kubelet_running" -> pid = "live"
      [] c = "iknite_server_health" ->
            checkFileAndContent("iknite_local_conf") /\ checkFileAndContent("iknite_server")
      [] c = "workload_status" -> checkFileAndContent("kubeconfig") /\ NotReady = {}
      [] OTHER -> Verdict(c)

\* The verdict of c is the right one.
RightVerdict(c) ==
    /\ report[c] # "aborted"
    /\ report[c] = "success" => Met(c)
    /\ report[c] = "skipped" => Skipped(c)
    /\ report[c] \in {"success", "failed"} =>
         IF Phase[c] # {} THEN Ended(c) /\ report[c] = PhaseVerdict(c)
         ELSE (c = "workload_status" /\ mode = "both") \/ (report[c] = "success" <=> Holds(c))

\* With AnswerInv, the inductive invariant behind ReportIsTrue: while nothing has
\* disturbed the checks, no retry is used up, what was read of the pid file is so
\* still, and every verdict is the right one.
ReportInv ==
    /\ changes \in Nat /\ facts \subseteq Facts
    /\ Undisturbed =>
         /\ held \in {"unread", "stale"} /\ (held = "stale" => pid # "live")
         /\ \A c \in Polling : poll[c].retries = Retries
         /\ \A c \in Checks : RightVerdict(c)

----------------------------------------------------------------------------
(* The safety half of StatusEnds.                                           *)

\* c was called, has no verdict, and all it waits for has ended.
CanGoOn(c) ==
    /\ report[c] = "none" /\ Called(c)
    /\ Skipped(c) \/ (Met(c) /\ (Phase[c] = {} \/ Ended(c)))

\* As long as the command has not ended, some check does not wait for another: no phase
\* and no dependency of phases.go waits for itself, whatever is left out of the tree.
NoCircularWait == (\E c \in Tops : report[c] = "none") => \E c \in Checks : CanGoOn(c)
=============================================================================
