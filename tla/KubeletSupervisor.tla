--------------------------- MODULE KubeletSupervisor ---------------------------
(***************************************************************************)
(* "iknite kubelet": StartAndConfigureKubelet starts the kubelet, or       *)
(* adopts a running one, and then selects on five channels: the context,   *)
(* the end of the kubelet, the two health probes and the configuration of  *)
(* the cluster.  The probes run one after the other, so the state of       *)
(* HealthProbe is that of the probe that runs; the second one starts when  *)
(* the first has succeeded, and the configuration when the second has.     *)
(*                                                                         *)
(* TerminateProcess waits for the same child as the goroutine that feeds   *)
(* cmdDone: one of the two waits reaps it and the other one fails.  A      *)
(* kubelet that was adopted is not a child, and Wait fails at once.        *)
(***************************************************************************)
EXTENDS HealthProbe

VARIABLES
    sup,      \* "prepare", "start", "select", "signal", "termWait", "exit" or "returned"
    kubelet,  \* "none", "alive", "zombie" (ended, not waited for) or "gone"
    origin,   \* "child" or "adopted": whose child the kubelet is
    pidFile,  \* "present" or "absent"
    chans,    \* chans[c]: "empty", "nil" or "error", the buffered value
    config,   \* the goroutine of Kustomize: "off", "running" or "done"
    supErr,   \* the error variable of StartAndConfigureKubelet
    failed    \* history: the configuration error was received

supVars == <<sup, kubelet, origin, pidFile, chans, config, supErr, failed>>
allVars == <<vars, supVars>>

Channels == {"cmdDone", "kubeletHealthz", "apiServerHealthz", "configErr"}
Running == sup \notin {"prepare", "start", "returned"}

SupInit ==
    /\ ProbeInit /\ probe = "server"
    /\ sup = "prepare" /\ origin = "adopted" /\ kubelet \in {"none", "alive"}
    /\ pidFile = (IF kubelet = "alive" THEN "present" ELSE "absent")
    /\ chans = [c \in Channels |-> "empty"]
    /\ config = "off" /\ supErr = "nil" /\ failed = "no"

----------------------------------------------------------------------------
\* performKubelet: the client and the preparation of the host, which may fail.
Prepare ==
    /\ sup = "prepare"
    /\ \/ sup' = "start" /\ UNCHANGED supErr
       \/ sup' = "returned" /\ supErr' = "error"
    /\ UNCHANGED <<vars, kubelet, origin, pidFile, chans, config, failed>>

\* StartKubelet, and the two goroutines that are started after it.  The pid file of a
\* child may not be written, which is only logged.
StartKubelet ==
    /\ sup = "start"
    /\ \/ sup' = "returned" /\ supErr' = "error" /\ UNCHANGED <<kubelet, origin, pidFile>>
       \/ sup' = "select" /\ kubelet = "alive" /\ UNCHANGED <<kubelet, origin, pidFile, supErr>>
       \/ /\ sup' = "select" /\ kubelet # "alive" /\ kubelet' = "alive" /\ origin' = "child"
          /\ pidFile' \in {"present", "absent"} /\ UNCHANGED supErr
    /\ UNCHANGED <<vars, chans, config, failed>>

\* The kubelet ends by itself or because of a signal, from iknite or from elsewhere.
KubeletEnds ==
    /\ kubelet = "alive"
    /\ kubelet' = IF origin = "child" THEN "zombie" ELSE "gone"
    /\ UNCHANGED <<vars, sup, origin, pidFile, chans, config, supErr, failed>>

\* process.Wait blocks on a child that is alive and returns nil to the first that waits.
CanWait == origin = "adopted" \/ kubelet # "alive"
WaitResult == IF origin = "child" /\ kubelet = "zombie" THEN "nil" ELSE "error"
Reaped == IF kubelet = "zombie" THEN "gone" ELSE kubelet

\* The goroutine that waits for the kubelet.
WaitGoroutine ==
    /\ Running /\ chans["cmdDone"] = "empty" /\ CanWait
    /\ chans' = [chans EXCEPT !["cmdDone"] = WaitResult]
    /\ kubelet' = Reaped
    /\ UNCHANGED <<vars, sup, origin, pidFile, config, supErr, failed>>

\* A step of the probe that runs.
ProbeStep == Running /\ (Loop \/ Wait \/ Request) /\ UNCHANGED supVars

\* The channel the running probe answers on.
ProbeChannel == IF probe = "server" THEN "kubeletHealthz" ELSE "apiServerHealthz"

\* The goroutine of a probe sends its result, once.
ProbeAnswers ==
    /\ Running /\ pc = "returned" /\ chans[ProbeChannel] = "empty"
    /\ chans' = [chans EXCEPT ![ProbeChannel] = err]
    /\ UNCHANGED <<vars, sup, kubelet, origin, pidFile, config, supErr, failed>>

\* The goroutine of Kustomize sends its result.
ConfigAnswers ==
    /\ Running /\ config = "running" /\ config' = "done"
    /\ \E r \in {"nil", "error"} : chans' = [chans EXCEPT !["configErr"] = r]
    /\ UNCHANGED <<vars, sup, kubelet, origin, pidFile, supErr, failed>>

\* A stop signal.
StopSignal == Running /\ Cancel /\ UNCHANGED supVars

----------------------------------------------------------------------------
\* The select: the context is done.
SelectCtx ==
    /\ sup = "select" /\ runCtx = "done" /\ sup' = "signal"
    /\ UNCHANGED <<vars, kubelet, origin, pidFile, chans, config, supErr, failed>>

\* What is received from a channel is marked "taken": each goroutine sends one value.
Take(c) == chans' = [chans EXCEPT ![c] = "taken"]
Ready(c) == sup = "select" /\ chans[c] \in {"nil", "error"}

\* The select: the kubelet has stopped, or could not be waited for.
SelectCmdDone ==
    /\ Ready("cmdDone") /\ Take("cmdDone") /\ sup' = "exit"
    /\ UNCHANGED <<vars, kubelet, origin, pidFile, config, supErr, failed>>

\* The select: the kubelet is healthy, and the probe of the API server starts (the
\* REST client it needs may not be created), or it is not and is stopped.
SelectKubeletHealthz ==
    /\ Ready("kubeletHealthz") /\ Take("kubeletHealthz")
    /\ IF chans["kubeletHealthz"] = "nil"
       THEN /\ probe' = "cluster" /\ retries' = Retries /\ asked' = 0 /\ okTries' = 0
            /\ \/ err' = "nil" /\ pc' = "loop"
               \/ err' = "error" /\ pc' = "returned"
            /\ UNCHANGED <<runCtx, sup>>
       ELSE sup' = "signal" /\ UNCHANGED vars
    /\ UNCHANGED <<kubelet, origin, pidFile, config, supErr, failed>>

\* Deviation: the configuration starts whatever the API server answered.
SelectApiServerHealthz_Ignored ==
    /\ Ready("apiServerHealthz") /\ Take("apiServerHealthz") /\ config' = "running"
    /\ UNCHANGED <<vars, sup, kubelet, origin, pidFile, supErr, failed>>

\* The select: the API server is healthy, and the configuration starts, or it is not.
SelectApiServerHealthz ==
    /\ Ready("apiServerHealthz") /\ Take("apiServerHealthz")
    /\ IF chans["apiServerHealthz"] = "nil"
       THEN config' = "running" /\ UNCHANGED sup
       ELSE sup' = "signal" /\ UNCHANGED config
    /\ UNCHANGED <<vars, kubelet, origin, pidFile, supErr, failed>>

\* The select: the cluster is configured, or its configuration failed.
SelectConfigErr ==
    /\ Ready("configErr") /\ Take("configErr")
    /\ IF chans["configErr"] = "nil"
       THEN UNCHANGED <<sup, supErr, failed>>
       ELSE sup' = "signal" /\ supErr' = "error" /\ failed' = "yes"
    /\ UNCHANGED <<vars, kubelet, origin, pidFile, config>>

\* Deviation: a signal that fails leaves alive as it was, and the loop goes on.
Signal_KeepsAlive ==
    /\ sup = "signal"
    /\ IF kubelet = "gone" THEN sup' = "select" /\ supErr' = "error"
                           ELSE sup' = "termWait" /\ UNCHANGED supErr
    /\ UNCHANGED <<vars, kubelet, origin, pidFile, chans, config, failed>>

\* TerminateProcess: SIGTERM; it fails when the process has been waited for.  The
\* loop ends either way.
Signal ==
    /\ sup = "signal"
    /\ IF kubelet = "gone" THEN sup' = "exit" /\ supErr' = "error"
                           ELSE sup' = "termWait" /\ UNCHANGED supErr
    /\ UNCHANGED <<vars, kubelet, origin, pidFile, chans, config, failed>>

\* Deviation: the process is signalled and not waited for.
TermWait_NoWait ==
    /\ sup = "termWait" /\ sup' = "exit"
    /\ UNCHANGED <<vars, kubelet, origin, pidFile, chans, config, supErr, failed>>

\* TerminateProcess: Wait.  The error of a configuration is kept, with that of Wait.
TermWait ==
    /\ sup = "termWait" /\ CanWait /\ sup' = "exit"
    /\ kubelet' = Reaped
    /\ supErr' = IF failed = "yes" THEN "error" ELSE WaitResult
    /\ UNCHANGED <<vars, origin, pidFile, chans, config, failed>>

\* StartAndConfigureKubelet returns; the deferred RemovePidFile only logs a failure.
Exit ==
    /\ sup = "exit" /\ sup' = "returned"
    /\ pidFile' \in {"absent", pidFile}
    /\ UNCHANGED <<vars, kubelet, origin, chans, config, supErr, failed>>

SelectLoop ==
    SelectCtx \/ SelectCmdDone \/ SelectKubeletHealthz \/ SelectApiServerHealthz \/ SelectConfigErr
Supervisor == Prepare \/ StartKubelet \/ SelectLoop \/ Signal \/ TermWait \/ Exit
Goroutines == WaitGoroutine \/ ProbeStep \/ ProbeAnswers \/ ConfigAnswers

SupNext == Supervisor \/ Goroutines \/ KubeletEnds \/ StopSignal

SupSpec == SupInit /\ [][SupNext]_allVars

\* Goroutines that can run do; a kubelet that was sent SIGTERM ends, which is an
\* assumption about the kubelet.
SupFairSpec ==
    /\ SupSpec
    /\ WF_allVars(Supervisor) /\ WF_allVars(WaitGoroutine) /\ WF_allVars(ProbeStep)
    /\ WF_allVars(sup = "termWait" /\ KubeletEnds)

----------------------------------------------------------------------------
\* When StartAndConfigureKubelet removes the pid file and returns, the kubelet it
\* started has ended, whichever of the five channels ended the loop and whichever of
\* the two waits reaped it: the next start cannot meet a kubelet nobody knows of.
LeavesNoKubelet == sup \in {"exit", "returned"} /\ origin = "child" => kubelet # "alive"

\* The cluster is configured only after the kubelet and then the API server answered:
\* no configuration runs with a probe that failed, was cancelled or still runs.
ConfiguresHealthyCluster ==
    config # "off" => /\ probe = "cluster" /\ pc = "returned" /\ err = "nil"
                      /\ chans["kubeletHealthz"] = "taken"
                      /\ chans["apiServerHealthz"] = "taken"

\* The probe of the API server runs only after the one of the kubelet succeeded.
ProbesInOrder == [][probe' # probe => pc = "returned" /\ err = "nil"]_allVars

\* A configuration that failed is reported, whatever stopping the kubelet returns.
ConfigErrorReported == sup = "returned" /\ failed = "yes" => supErr = "error"

\* After a stop signal iknite kubelet ends, also when an answer of a probe or the end
\* of the kubelet is taken first; without one its probes still return, whatever the
\* servers answer.
SupervisorEnds ==
    /\ runCtx = "done" /\ sup = "select" ~> sup = "returned"
    /\ pc # "returned" ~> pc = "returned" \/ sup = "returned"

----------------------------------------------------------------------------
SupTypeOK ==
    /\ sup \in {"prepare", "start", "select", "signal", "termWait", "exit", "returned"}
    /\ kubelet \in {"none", "alive", "zombie", "gone"}
    /\ origin \in {"child", "adopted"}
    /\ pidFile \in {"present", "absent"}
    /\ chans \in [Channels -> {"empty", "nil", "error", "taken"}]
    /\ config \in {"off", "running", "done"}
    /\ supErr \in {"nil", "error"}
    /\ failed \in {"no", "yes"}

\* What is buffered or taken tells how far the goroutines have come: the end of the
\* kubelet is sent after it ended, the API server is asked after the kubelet answered,
\* and a configuration error that was received stays in the error variable.
SupInv ==
    /\ IndInv /\ SupTypeOK
    /\ sup \in {"prepare", "start"} =>
          origin = "adopted" /\ chans["cmdDone"] = "empty" /\ config = "off"
    /\ chans["cmdDone"] # "empty" /\ origin = "child" => kubelet # "alive"
    /\ LeavesNoKubelet
    /\ probe = "cluster" => chans["kubeletHealthz"] = "taken"
    /\ chans["kubeletHealthz"] \in {"nil", "error"} =>
          pc = "returned" /\ err = chans["kubeletHealthz"]
    /\ chans["apiServerHealthz"] # "empty" => probe = "cluster" /\ pc = "returned"
    /\ chans["apiServerHealthz"] \in {"nil", "error"} => err = chans["apiServerHealthz"]
    /\ ConfiguresHealthyCluster
    /\ failed = "yes" => supErr = "error"
=============================================================================
