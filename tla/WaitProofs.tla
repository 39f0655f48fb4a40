------------------------------ MODULE WaitProofs ------------------------------
(***************************************************************************)
(* Proofs about the two commands that wait.                                *)
(*                                                                         *)
(* iknite kubelet, for every number of retries and of good answers asked   *)
(* for: the probe that runs keeps the invariant of HealthProbe, and SupInv *)
(* relates what it answered, what was received and what was started        *)
(* because of it.                                                          *)
(*                                                                         *)
(* kubewait, for any number of resources, of pollers, of types and of      *)
(* namespaces: WaiterInv holds for the waiter by itself; the command is    *)
(* shown to implement the waiter, and so inherits it.                      *)
(***************************************************************************)
EXTENDS KubeletSupervisor, Kubewait, FiniteSetTheorems, TLAPS

----------------------------------------------------------------------------
(* The probes of the kubelet and the API server.                            *)

\* The loop starts with all its requests and at least one good answer to wait for.
LEMMA InitInd == ASSUME ProbeInit PROVE IndInv
    BY ProbeParameters DEF ProbeInit, IndInv, TypeOK, EnoughIsSuccess, EarlySuccess

\* The loop condition keeps the counters; it ends the loop when no request is left.
LEMMA LoopInd == ASSUME IndInv, Loop PROVE IndInv'
    BY ProbeParameters DEF Loop, IndInv, TypeOK, EnoughIsSuccess, EarlySuccess

\* The wait either goes on to a request or fails because the context is done.
LEMMA WaitInd == ASSUME IndInv, Wait PROVE IndInv'
    BY ProbeParameters DEF Wait, IndInv, TypeOK, EnoughIsSuccess, EarlySuccess

\* A request uses up one turn of the loop, or is the good answer that ends it.
LEMMA RequestInd == ASSUME IndInv, Request PROVE IndInv'
<1>1. CASE okTries' = okTries + 1 /\ err' = "nil"
    BY <1>1, ProbeParameters DEF Request, IndInv, TypeOK, EnoughIsSuccess, EarlySuccess
<1>2. CASE err' = "error" /\ retries' = retries - 1 /\ pc' = "loop" /\ okTries' = okTries
    BY <1>2, ProbeParameters DEF Request, IndInv, TypeOK, EnoughIsSuccess, EarlySuccess
<1>3. QED
    BY <1>1, <1>2 DEF Request

\* Every step keeps the invariant; a cancelled context touches none of it.
LEMMA NextInd == ASSUME IndInv, [ProbeNext]_vars PROVE IndInv'
<1>1. CASE Cancel
    BY <1>1 DEF Cancel, IndInv, TypeOK, EnoughIsSuccess, EarlySuccess
<1>2. CASE UNCHANGED vars
    BY <1>2 DEF vars, IndInv, TypeOK, EnoughIsSuccess, EarlySuccess
<1>3. QED
    BY <1>1, <1>2, LoopInd, WaitInd, RequestInd DEF ProbeNext

\* The loops of CheckServerRunning and CheckClusterRunning keep IndInv.
THEOREM ProbeInvariance == ProbeSpec => []IndInv
    BY InitInd, NextInd, PTL DEF ProbeSpec

\* At most Retries requests are made and at most OkResponses good answers counted.
THEOREM ProbeTypeCorrect == ProbeSpec => []TypeOK
<1>1. IndInv => TypeOK
    BY DEF IndInv
<1>2. QED
    BY <1>1, ProbeInvariance, PTL

\* OkResponses good answers are a success, whatever came before them.
THEOREM EnoughGoodAnswersSucceed == ProbeSpec => []EnoughIsSuccess
<1>1. IndInv => EnoughIsSuccess
    BY DEF IndInv
<1>2. QED
    BY <1>1, ProbeInvariance, PTL

\* A probe that stops asking early and succeeds had all its good answers.
THEOREM EarlySuccessIsReal == ProbeSpec => []EarlySuccess
<1>1. IndInv => EarlySuccess
    BY DEF IndInv
<1>2. QED
    BY <1>1, ProbeInvariance, PTL

\* The verdict of a probe is right in both directions, for any number of retries and of
\* good answers asked for.
THEOREM ProbeVerdictIsRight == ProbeSpec => []ProbeVerdict
<1>1. IndInv => ProbeVerdict
    BY DEF IndInv, ProbeVerdict
<1>2. QED
    BY <1>1, ProbeInvariance, PTL

----------------------------------------------------------------------------
(* The supervisor.                                                          *)

\* Nothing was started: every channel is empty.
LEMMA SupInitInd == ASSUME SupInit PROVE SupInv
<1>1. IndInv
    BY InitInd DEF SupInit
<1>2. SupTypeOK
    BY DEF SupInit, SupTypeOK, Channels
<1>3. QED
    BY <1>1, <1>2 DEF SupInit, SupInv, LeavesNoKubelet, ConfiguresHealthyCluster, Channels

\* A step that leaves the probe's variables alone keeps its invariant.
LEMMA ProbeStays == ASSUME IndInv, UNCHANGED vars PROVE IndInv'
    BY NextInd

\* Preparing the host, starting or adopting the kubelet.
LEMMA StartInd == ASSUME SupInv, Prepare \/ StartKubelet PROVE SupInv'
<1>1. IndInv'
    BY ProbeStays DEF SupInv, Prepare, StartKubelet
<1>2. SupTypeOK'
    BY DEF SupInv, SupTypeOK, Prepare, StartKubelet
<1>3. QED
    BY <1>1, <1>2 DEF SupInv, SupTypeOK, Prepare, StartKubelet, LeavesNoKubelet,
                      ConfiguresHealthyCluster, vars

\* The kubelet ends, or the goroutine that waits for it has its result.
LEMMA KubeletInd == ASSUME SupInv, KubeletEnds \/ WaitGoroutine PROVE SupInv'
<1>1. IndInv' /\ UNCHANGED vars
    BY ProbeStays DEF SupInv, KubeletEnds, WaitGoroutine
<1>2. CASE KubeletEnds
    <2>1. SupTypeOK'
        BY <1>2 DEF SupInv, SupTypeOK, KubeletEnds
    <2>2. QED
        BY <1>1, <1>2, <2>1 DEF SupInv, SupTypeOK, KubeletEnds, LeavesNoKubelet,
                                ConfiguresHealthyCluster, vars
<1>3. CASE WaitGoroutine
    <2>1. /\ kubelet' \in {"none", "alive", "zombie", "gone"}
          /\ kubelet' = "alive" => kubelet = "alive" /\ origin = "adopted"
        BY <1>3 DEF SupInv, SupTypeOK, WaitGoroutine, Reaped, CanWait
    <2>2. WaitResult \in {"nil", "error"}
        BY DEF WaitResult
    <2>3. /\ chans'["cmdDone"] = WaitResult
          /\ \A c \in Channels : c # "cmdDone" => chans'[c] = chans[c]
          /\ chans' \in [Channels -> {"empty", "nil", "error", "taken"}]
        BY <1>3, <2>2 DEF SupInv, SupTypeOK, WaitGoroutine, Channels
    <2>4. SupTypeOK'
        BY <1>3, <2>1, <2>3 DEF SupInv, SupTypeOK, WaitGoroutine
    <2>5. QED
        BY <1>1, <1>3, <2>1, <2>3, <2>4 DEF SupInv, WaitGoroutine, Running, LeavesNoKubelet,
                                            ConfiguresHealthyCluster, vars, Channels
<1>4. QED
    BY <1>2, <1>3

\* A step of the probe that runs: it has not answered, so nothing rests on it yet.
LEMMA ProbeStepInd == ASSUME SupInv, ProbeStep PROVE SupInv'
<1>1. IndInv' /\ pc # "returned" /\ probe' = probe
    BY LoopInd, WaitInd, RequestInd DEF SupInv, ProbeStep, Loop, Wait, Request
<1>2. UNCHANGED supVars
    BY DEF ProbeStep
<1>3. QED
    BY <1>1, <1>2 DEF SupInv, SupTypeOK, supVars, LeavesNoKubelet, ConfiguresHealthyCluster

\* A stop signal changes the context only.
LEMMA StopSignalInd == ASSUME SupInv, StopSignal PROVE SupInv'
<1>1. IndInv' /\ UNCHANGED <<probe, err, pc>>
    BY NextInd DEF SupInv, StopSignal, Cancel, ProbeNext
<1>2. UNCHANGED supVars
    BY DEF StopSignal
<1>3. QED
    BY <1>1, <1>2 DEF SupInv, SupTypeOK, supVars, LeavesNoKubelet, ConfiguresHealthyCluster

\* The goroutine of a probe, or of the configuration, sends its result.
LEMMA AnswerInd == ASSUME SupInv, ProbeAnswers \/ ConfigAnswers PROVE SupInv'
<1>1. IndInv' /\ UNCHANGED vars
    BY ProbeStays DEF SupInv, ProbeAnswers, ConfigAnswers
<1>2. CASE ProbeAnswers
    <2>1. /\ pc = "returned" /\ chans[ProbeChannel] = "empty" /\ sup \notin {"prepare", "start"}
          /\ chans' = [chans EXCEPT ![ProbeChannel] = err]
          /\ UNCHANGED <<sup, kubelet, origin, pidFile, config, supErr, failed>>
        BY <1>2 DEF ProbeAnswers, Running
    <2>2. err \in {"nil", "error"} /\ chans \in [Channels -> {"empty", "nil", "error", "taken"}]
        BY DEF SupInv, SupTypeOK, IndInv, TypeOK
    <2>3. SupTypeOK'
        BY <2>1, <2>2 DEF SupInv, SupTypeOK, ProbeChannel, Channels
    <2>4. CASE probe = "server"
        <3>1. /\ chans["kubeletHealthz"] = "empty" /\ chans'["kubeletHealthz"] = err
              /\ \A c \in Channels : c # "kubeletHealthz" => chans'[c] = chans[c]
            BY <2>1, <2>2, <2>4 DEF ProbeChannel, Channels
        <3>2. QED
            BY <1>1, <2>1, <2>2, <2>3, <2>4, <3>1
            DEF SupInv, LeavesNoKubelet, ConfiguresHealthyCluster, vars, Channels
    <2>5. CASE probe # "server"
        <3>1. /\ chans["apiServerHealthz"] = "empty" /\ chans'["apiServerHealthz"] = err
              /\ \A c \in Channels : c # "apiServerHealthz" => chans'[c] = chans[c]
            BY <2>1, <2>2, <2>5 DEF ProbeChannel, Channels
        <3>2. probe = "cluster"
            BY <2>5 DEF SupInv, IndInv, TypeOK
        <3>3. QED
            BY <1>1, <2>1, <2>2, <2>3, <3>1, <3>2
            DEF SupInv, LeavesNoKubelet, ConfiguresHealthyCluster, vars, Channels
    <2>6. QED
        BY <2>4, <2>5
<1>3. CASE ConfigAnswers
    <2>1. /\ \A c \in Channels : c # "configErr" => chans'[c] = chans[c]
          /\ chans' \in [Channels -> {"empty", "nil", "error", "taken"}]
        BY <1>3 DEF SupInv, SupTypeOK, ConfigAnswers, Channels
    <2>2. /\ config = "running" /\ config' = "done" /\ sup \notin {"prepare", "start"}
          /\ UNCHANGED <<sup, kubelet, origin, pidFile, supErr, failed>>
        BY <1>3 DEF ConfigAnswers, Running
    <2>3. SupTypeOK'
        BY <2>1, <2>2 DEF SupInv, SupTypeOK
    <2>4. QED
        BY <1>1, <2>1, <2>2, <2>3
        DEF SupInv, LeavesNoKubelet, ConfiguresHealthyCluster, vars, Channels
<1>4. QED
    BY <1>2, <1>3

\* What a receive from channel c does to the channels.
LEMMA TakeFacts ==
    ASSUME SupInv, NEW c \in Channels, Take(c)
    PROVE  /\ chans'[c] = "taken"
           /\ \A d \in Channels : d # c => chans'[d] = chans[d]
           /\ chans' \in [Channels -> {"empty", "nil", "error", "taken"}]
    BY DEF SupInv, SupTypeOK, Take

\* The select takes the context, the end of the kubelet or the configuration's result.
LEMMA SelectInd ==
    ASSUME SupInv, SelectCtx \/ SelectCmdDone \/ SelectConfigErr
    PROVE  SupInv'
<1>1. IndInv' /\ UNCHANGED vars
    BY ProbeStays DEF SupInv, SelectCtx, SelectCmdDone, SelectConfigErr
<1>2. CASE SelectCtx
    <2>1. SupTypeOK'
        BY <1>2 DEF SupInv, SupTypeOK, SelectCtx
    <2>2. QED
        BY <1>1, <1>2, <2>1 DEF SupInv, SelectCtx, LeavesNoKubelet, ConfiguresHealthyCluster, vars
<1>3. CASE SelectCmdDone
    <2>1. "cmdDone" \in Channels /\ Take("cmdDone") /\ chans["cmdDone"] \in {"nil", "error"}
        BY <1>3 DEF SelectCmdDone, Ready, Channels
    <2>2. SupTypeOK'
        BY <1>3, <2>1, TakeFacts DEF SupInv, SupTypeOK, SelectCmdDone
    <2>3. QED
        BY <1>1, <1>3, <2>1, <2>2, TakeFacts
        DEF SupInv, SelectCmdDone, LeavesNoKubelet, ConfiguresHealthyCluster, vars, Channels
<1>4. CASE SelectConfigErr
    <2>1. "configErr" \in Channels /\ Take("configErr") /\ sup = "select"
        BY <1>4 DEF SelectConfigErr, Ready, Channels
    <2>2. /\ sup' \in {"select", "signal"} /\ supErr' \in {"nil", "error"}
          /\ failed' \in {"no", "yes"} /\ (failed' = "yes" => supErr' = "error")
          /\ UNCHANGED <<kubelet, origin, pidFile, config>>
        BY <1>4, <2>1 DEF SelectConfigErr, SupInv, SupTypeOK
    <2>3. SupTypeOK'
        BY <2>1, <2>2, TakeFacts DEF SupInv, SupTypeOK
    <2>4. QED
        BY <1>1, <2>1, <2>2, <2>3, TakeFacts
        DEF SupInv, LeavesNoKubelet, ConfiguresHealthyCluster, vars, Channels
<1>5. QED
    BY <1>2, <1>3, <1>4

\* The select takes the answer of the kubelet: a new probe starts from nothing.
LEMMA SelectKubeletInd == ASSUME SupInv, SelectKubeletHealthz PROVE SupInv'
<1>1. /\ "kubeletHealthz" \in Channels /\ Take("kubeletHealthz") /\ sup = "select"
      /\ chans["kubeletHealthz"] \in {"nil", "error"}
      /\ UNCHANGED <<kubelet, origin, pidFile, config, supErr, failed>>
    BY DEF SelectKubeletHealthz, Ready, Channels
<1>2. probe # "cluster" /\ chans["apiServerHealthz"] = "empty" /\ config = "off"
    BY <1>1 DEF SupInv, SupTypeOK, ConfiguresHealthyCluster
<1>3. IndInv' /\ sup' \in {"select", "signal"}
    <2>1. CASE chans["kubeletHealthz"] = "nil"
        BY <1>1, <2>1, ProbeParameters
        DEF SupInv, SelectKubeletHealthz, IndInv, TypeOK, EnoughIsSuccess, EarlySuccess
    <2>2. CASE chans["kubeletHealthz"] # "nil"
        BY <2>2, ProbeStays DEF SupInv, SelectKubeletHealthz
    <2>3. QED
        BY <2>1, <2>2
<1>4. SupTypeOK'
    BY <1>1, <1>3, TakeFacts DEF SupInv, SupTypeOK
<1>5. QED
    BY <1>1, <1>2, <1>3, <1>4, TakeFacts
    DEF SupInv, LeavesNoKubelet, ConfiguresHealthyCluster, Channels

\* The select takes the answer of the API server: only success starts the configuration.
LEMMA SelectApiServerInd == ASSUME SupInv, SelectApiServerHealthz PROVE SupInv'
<1>1. /\ "apiServerHealthz" \in Channels /\ Take("apiServerHealthz") /\ sup = "select"
      /\ chans["apiServerHealthz"] \in {"nil", "error"}
      /\ UNCHANGED <<vars, kubelet, origin, pidFile, supErr, failed>>
    BY DEF SelectApiServerHealthz, Ready, Channels
<1>2. \/ config' = "running" /\ sup' = sup /\ chans["apiServerHealthz"] = "nil"
      \/ config' = config /\ sup' = "signal"
    BY DEF SelectApiServerHealthz
<1>3. /\ probe = "cluster" /\ pc = "returned" /\ chans["kubeletHealthz"] = "taken"
      /\ err = chans["apiServerHealthz"] /\ config = "off"
    BY <1>1 DEF SupInv, SupTypeOK, ConfiguresHealthyCluster
<1>4. IndInv' /\ SupTypeOK'
    BY <1>1, <1>2, TakeFacts, ProbeStays DEF SupInv, SupTypeOK
<1>5. QED
    BY <1>1, <1>2, <1>3, <1>4, TakeFacts
    DEF SupInv, LeavesNoKubelet, ConfiguresHealthyCluster, Channels, vars

\* TerminateProcess and the return.
LEMMA EndInd == ASSUME SupInv, Signal \/ TermWait \/ Exit PROVE SupInv'
<1>1. IndInv' /\ UNCHANGED <<vars, chans, config>>
    BY ProbeStays DEF SupInv, Signal, TermWait, Exit
<1>2. CASE Signal \/ Exit
    <2>1. /\ UNCHANGED <<kubelet, origin, failed>> /\ supErr' \in {supErr, "error"}
          /\ sup \in {"signal", "exit"} /\ sup' \in {"exit", "termWait", "returned"}
          /\ sup' = "exit" => kubelet = "gone"
          /\ sup' = "returned" => sup = "exit"
        BY <1>2 DEF Signal, Exit
    <2>2. SupTypeOK'
        BY <1>1, <1>2, <2>1 DEF SupInv, SupTypeOK, Exit, Signal
    <2>3. LeavesNoKubelet'
        BY <2>1 DEF SupInv, LeavesNoKubelet
    <2>4. QED
        BY <1>1, <2>1, <2>2, <2>3 DEF SupInv, SupTypeOK, ConfiguresHealthyCluster, vars
<1>3. CASE TermWait
    <2>1. SupTypeOK'
        BY <1>3 DEF SupInv, SupTypeOK, TermWait, Reaped, WaitResult
    <2>2. kubelet' = "alive" => origin = "adopted"
        BY <1>3 DEF TermWait, Reaped, CanWait
    <2>3. QED
        BY <1>1, <1>3, <2>1, <2>2 DEF SupInv, SupTypeOK, TermWait, LeavesNoKubelet,
                                      ConfiguresHealthyCluster, vars
<1>4. QED
    BY <1>2, <1>3

\* Every step keeps the invariant.
LEMMA SupNextInd == ASSUME SupInv, [SupNext]_allVars PROVE SupInv'
<1>1. CASE UNCHANGED allVars
    <2>1. IndInv'
        BY <1>1, ProbeStays DEF SupInv, allVars
    <2>2. /\ UNCHANGED <<sup, kubelet, origin, pidFile, chans, config, supErr, failed>>
          /\ UNCHANGED <<probe, pc, err>>
        BY <1>1 DEF allVars, vars, supVars
    <2>3. SupTypeOK' /\ LeavesNoKubelet' /\ ConfiguresHealthyCluster'
        BY <2>2 DEF SupInv, SupTypeOK, LeavesNoKubelet, ConfiguresHealthyCluster
    <2>4. QED
        BY <2>1, <2>2, <2>3 DEF SupInv
<1>2. CASE SupNext
    BY <1>2, StartInd, KubeletInd, ProbeStepInd, StopSignalInd, AnswerInd, SelectInd,
       SelectKubeletInd, SelectApiServerInd, EndInd
    DEF SupNext, Supervisor, Goroutines, SelectLoop
<1>3. QED
    BY <1>1, <1>2

----------------------------------------------------------------------------
\* StartAndConfigureKubelet and its goroutines keep SupInv.
THEOREM SupervisorInvariance == SupSpec => []SupInv
    BY SupInitInd, SupNextInd, PTL DEF SupSpec

\* A kubelet that iknite started has ended when StartAndConfigureKubelet returns.
THEOREM NoKubeletLeft == SupSpec => []LeavesNoKubelet
<1>1. SupInv => LeavesNoKubelet
    BY DEF SupInv
<1>2. QED
    BY <1>1, SupervisorInvariance, PTL

\* Both probes give the right verdict inside StartAndConfigureKubelet too, which starts
\* the second one with fresh counters and lets them run on while it stops the kubelet.
THEOREM SupervisedProbeVerdict == SupSpec => []ProbeVerdict
<1>1. SupInv => ProbeVerdict
    BY DEF SupInv, IndInv, ProbeVerdict
<1>2. QED
    BY <1>1, SupervisorInvariance, PTL

\* Kustomize starts only when both probes have succeeded.
THEOREM HealthyBeforeConfiguration == SupSpec => []ConfiguresHealthyCluster
<1>1. SupInv => ConfiguresHealthyCluster
    BY DEF SupInv
<1>2. QED
    BY <1>1, SupervisorInvariance, PTL

\* The error of a configuration outlives the termination of the kubelet.
THEOREM ConfigurationErrorKept == SupSpec => []ConfigErrorReported
<1>1. SupInv => ConfigErrorReported
    BY DEF SupInv, ConfigErrorReported
<1>2. QED
    BY <1>1, SupervisorInvariance, PTL

\* The API server is probed only after the probe of the kubelet has succeeded.
THEOREM ProbeOrder == SupSpec => ProbesInOrder
<1>1. SupInv /\ [SupNext]_allVars => [probe' # probe => pc = "returned" /\ err = "nil"]_allVars
    <2>1. SUFFICES ASSUME SupInv, SupNext, probe' # probe PROVE pc = "returned" /\ err = "nil"
        BY DEF allVars, vars
    <2>2. ~(UNCHANGED vars) /\ ~ProbeStep /\ ~StopSignal
        BY <2>1 DEF vars, ProbeStep, Loop, Wait, Request, StopSignal, Cancel
    <2>3. SelectKubeletHealthz
        BY <2>1, <2>2
        DEF SupNext, Supervisor, Goroutines, SelectLoop, Prepare, StartKubelet, SelectCtx,
            SelectCmdDone, SelectApiServerHealthz, SelectConfigErr, Signal, TermWait, Exit,
            WaitGoroutine, ProbeAnswers, ConfigAnswers, KubeletEnds
    <2>4. chans["kubeletHealthz"] = "nil"
        BY <2>2, <2>3 DEF SelectKubeletHealthz
    <2>5. QED
        BY <2>1, <2>4 DEF SupInv
<1>2. QED
    BY <1>1, SupervisorInvariance, PTL DEF SupSpec, ProbesInOrder

----------------------------------------------------------------------------
(* The pollers.                                                             *)

\* The pollers are numbered from one.
LEMMA GensFacts ==
    ASSUME WaiterTypeOK
    PROVE  /\ DOMAIN pollers = Gens /\ Cardinality(Gens) \in Nat
           /\ Gens = 1..Cardinality(Gens)
<1>1. Cardinality(DOMAIN pollers) \in Nat /\ DOMAIN pollers = Gens
    BY FS_CardinalityType DEF WaiterTypeOK
<1>2. QED
    BY <1>1 DEF Gens

\* The first m numbers stay the numbers of the pollers.
LEMMA Numbered ==
    ASSUME NEW m \in Nat, pollers' \in [1..m -> PollerStates]
    PROVE  Gens' = 1..m /\ IsFiniteSet(DOMAIN pollers') /\ pollers' \in [Gens' -> PollerStates]
<1>1. DOMAIN pollers' = 1..m
    OBVIOUS
<1>2. IsFiniteSet(1..m) /\ Cardinality(1..m) = m
    BY FS_Interval
<1>3. QED
    BY <1>1, <1>2 DEF Gens

\* A poller does something by itself, which leaves its context alone.
LEMMA PollerMoves ==
    ASSUME WaiterTypeOK, NEW g \in Gens, NEW q \in PollerStates, q.ctx = pollers[g].ctx,
           pollers' = [pollers EXCEPT ![g] = q]
    PROVE  /\ Gens' = Gens /\ IsFiniteSet(DOMAIN pollers') /\ pollers' \in [Gens' -> PollerStates]
           /\ \A h \in Gens : pollers'[h].ctx = pollers[h].ctx
<1>1. pollers \in [Gens -> PollerStates]
    BY DEF WaiterTypeOK
<1>2. pollers' \in [Gens -> PollerStates] /\ \A h \in Gens : pollers'[h].ctx = pollers[h].ctx
    BY <1>1
<1>3. QED
    BY <1>2, GensFacts, Numbered

\* restartPolling, first half: whatever poller there was is cancelled.
LEMMA RestartStopFacts ==
    ASSUME WaiterInv, RestartStop
    PROVE  /\ Gens' = Gens /\ IsFiniteSet(DOMAIN pollers') /\ pollers' \in [Gens' -> PollerStates]
           /\ \A g \in Gens' : pollers'[g].ctx # "live"
           /\ polling' = 0 /\ cur' = held /\ basis' = basis
<1>1. pollers \in [Gens -> PollerStates] /\ WaiterTypeOK
    BY DEF WaiterInv, WaiterTypeOK
<1>2. \A g \in Gens : /\ [pollers[g] EXCEPT !.ctx = "cancelled"] \in PollerStates
                      /\ [pollers[g] EXCEPT !.ctx = "cancelled"].ctx = "cancelled"
    BY <1>1 DEF PollerStates
<1>3. /\ pollers' \in [Gens -> PollerStates]
      /\ \A g \in Gens : pollers'[g].ctx # "live"
    BY <1>1, <1>2 DEF RestartStop, WaiterInv
<1>4. QED
    BY <1>1, <1>3, GensFacts, Numbered DEF RestartStop

\* restartPolling, second half: a new poller is the only one.
LEMMA RestartStartFacts ==
    ASSUME WaiterInv, polling = 0, RestartStart
    PROVE  /\ IsFiniteSet(DOMAIN pollers') /\ pollers' \in [Gens' -> PollerStates]
           /\ \A g \in Gens' : pollers'[g].ctx = "live" => g = polling'
           /\ basis'.seen = basis'.set
<1>1. pollers \in [Gens -> PollerStates] /\ cur \in SUBSET Objects /\ WaiterTypeOK
    BY DEF WaiterInv, WaiterTypeOK
<1>2. basis'.seen = basis'.set
    <2>1. basis' = basis \/ basis' = NoBasis
        BY DEF RestartStart, StartSettleTimer
    <2>2. QED
        BY <2>1 DEF NoBasis, WaiterInv
<1>3. CASE cur = {}
    BY <1>2, <1>3 DEF RestartStart, WaiterInv, WaiterTypeOK, Gens
<1>4. CASE cur # {}
    <2>1. DEFINE m == Cardinality(Gens) + 1
                 new == [set |-> cur, known |-> {}, seen |-> {}, event |-> "none",
                         ctx |-> "live", run |-> "on"]
    <2>2. m \in Nat /\ Gens = 1..(m - 1)
        BY <1>1, GensFacts
    <2>3. polling' = m /\ pollers' = [g \in 1..m |-> IF g \in Gens THEN pollers[g] ELSE new]
        BY <1>4 DEF RestartStart
    <2>4. new \in PollerStates
        BY <1>1 DEF PollerStates
    <2>5. \A g \in Gens : pollers[g].ctx # "live"
        BY <2>2 DEF WaiterInv
    <2> HIDE DEF m, new
    <2>6. pollers' \in [1..m -> PollerStates]
        BY <1>1, <2>3, <2>4
    <2>7. \A g \in 1..m : pollers'[g].ctx = "live" => g = polling'
        BY <2>2, <2>3, <2>5
    <2>8. QED
        BY <1>2, <2>2, <2>6, <2>7, Numbered
<1>5. QED
    BY <1>3, <1>4

----------------------------------------------------------------------------
(* Every step of the waiter keeps WaiterInv.                                *)

\* There is no poller at first.
LEMMA InitWaiter == ASSUME Init PROVE WaiterInv
<1>1. DOMAIN pollers = {}
    BY DEF Init
<1>2. Gens = {} /\ IsFiniteSet(DOMAIN pollers)
    BY <1>1, FS_EmptySet DEF Gens
<1>3. pollers \in [Gens -> PollerStates]
    BY <1>1, <1>2 DEF Init
<1>4. QED
    BY <1>2, <1>3 DEF Init, WaiterInv, WaiterTypeOK, NoBasis

\* The steps that leave the pollers alone.
LEMMA QuietWaiter ==
    ASSUME WaiterInv, UNCHANGED <<pollers, polling, basis>>,
           /\ objs' \in SUBSET Objects /\ cur' \in SUBSET Objects /\ held' \in SUBSET Objects
           /\ ctx' \in {"live", "done"}
           /\ wpc' \in {"namespace", "refresh", "stop", "start", "watch", "select", "returned"}
           /\ result' \in {"none", "nil", "error"} /\ endCh' \in {"empty", "nil", "error"}
           /\ watcher' \in {"off", "idle", "refreshed", "stop", "start", "ended"},
           wpc' # "start" \/ wpc = "start", watcher' # "start" \/ watcher = "start",
           watcher' # "off" => wpc' \in {"select", "returned"},
           wpc' = "returned" => result' # "none", result' = "nil" => endCh' = "nil"
    PROVE  WaiterInv'
<1>1. WaiterTypeOK' /\ Gens' = Gens
    BY DEF WaiterInv, WaiterTypeOK, Gens
<1>2. QED
    BY <1>1 DEF WaiterInv

\* The namespace changes, or the time is over.
LEMMA WorldWaiter ==
    ASSUME WaiterInv, Timeout \/ \E o \in Objects : Change(o)
    PROVE  WaiterInv'
<1>1. /\ objs' \in SUBSET Objects /\ ctx' \in {"live", "done"}
      /\ UNCHANGED <<wpc, result, cur, held, watcher, pollers, polling, endCh, basis>>
    BY DEF WaiterInv, WaiterTypeOK, Timeout, Change, world, waiterVars
<1>2. QED
    BY <1>1, QuietWaiter DEF WaiterInv, WaiterTypeOK

\* waitNamespaceResources, outside restartPolling.
LEMMA MainWaiter ==
    ASSUME WaiterInv, WaitNamespace \/ Refresh \/ StartWatch \/ Select
    PROVE  WaiterInv'
<1>1. CASE WaitNamespace \/ Refresh
    <2>1. /\ UNCHANGED <<objs, ctx, cur, watcher, pollers, polling, endCh, basis>>
          /\ held' \in {held, objs} /\ watcher = "off"
          /\ \/ wpc' \in {"refresh", "stop"} /\ result' = result
             \/ wpc' = "returned" /\ result' = "error"
        BY <1>1 DEF WaitNamespace, Refresh, Return, world, WaiterInv
    <2>2. QED
        BY <2>1, QuietWaiter DEF WaiterInv, WaiterTypeOK
<1>2. CASE StartWatch
    <2>1. /\ UNCHANGED <<objs, ctx, cur, held, pollers, polling, result, endCh, basis>>
          /\ watcher' \in {"idle", "ended"} /\ wpc' = "select"
        BY <1>2 DEF StartWatch, world
    <2>2. QED
        BY <2>1, QuietWaiter DEF WaiterInv, WaiterTypeOK
<1>3. CASE Select
    <2>1. /\ UNCHANGED <<objs, ctx, cur, held, watcher, pollers, polling, endCh, basis>>
          /\ wpc' = "returned" /\ (result' = "error" \/ (endCh # "empty" /\ result' = endCh))
        BY <1>3 DEF Select, Return, world
    <2>2. QED
        BY <2>1, QuietWaiter DEF WaiterInv, WaiterTypeOK
<1>4. QED
    BY <1>1, <1>2, <1>3

\* watchDataSetChanges, outside restartPolling, and the settle timer.
LEMMA WatcherWaiter ==
    ASSUME WaiterInv, WatchEnds \/ WatchTick \/ WatchCompare \/ TimerFires \/ Callback
    PROVE  WaiterInv'
<1>1. /\ UNCHANGED <<objs, ctx, wpc, cur, pollers, polling, result, basis>>
      /\ held' \in {held, objs}
      /\ endCh' \in {endCh, "nil", "error"} /\ (endCh' # endCh => endCh = "empty")
      /\ \/ watcher' = watcher
         \/ watcher \in {"idle", "refreshed"} /\ watcher' \in {"idle", "refreshed", "stop", "ended"}
    <2>1. CASE WatchEnds \/ WatchCompare
        BY <2>1 DEF WatchEnds, WatchCompare, world
    <2>2. CASE WatchTick
        BY <2>2 DEF WatchTick, ReportDone, world
    <2>3. CASE TimerFires \/ Callback
        BY <2>3 DEF TimerFires, Callback, ReportDone, world
    <2>4. QED
        BY <2>1, <2>2, <2>3
<1>2. /\ held' \in SUBSET Objects /\ endCh' \in {"empty", "nil", "error"}
      /\ watcher' \in {"off", "idle", "refreshed", "stop", "start", "ended"}
    BY <1>1 DEF WaiterInv, WaiterTypeOK
<1>3. /\ watcher' # "start" \/ watcher = "start"
      /\ watcher' # "off" => wpc' \in {"select", "returned"}
    BY <1>1 DEF WaiterInv
<1>4. (wpc' = "returned" => result' # "none") /\ (result' = "nil" => endCh' = "nil")
    BY <1>1 DEF WaiterInv
<1>5. /\ objs' \in SUBSET Objects /\ cur' \in SUBSET Objects /\ ctx' \in {"live", "done"}
      /\ wpc' \in {"namespace", "refresh", "stop", "start", "watch", "select", "returned"}
      /\ result' \in {"none", "nil", "error"} /\ (wpc' # "start" \/ wpc = "start")
    BY <1>1 DEF WaiterInv, WaiterTypeOK
<1>6. QED
    BY <1>1, <1>2, <1>3, <1>4, <1>5, QuietWaiter

\* restartPolling, called by Start and by the watcher.
LEMMA RestartWaiter ==
    ASSUME WaiterInv, StartStop \/ StartStart \/ WatchStop \/ WatchStart
    PROVE  WaiterInv'
<1>1. UNCHANGED <<objs, ctx, held, result, endCh>>
    BY DEF StartStop, StartStart, WatchStop, WatchStart, world
<1>2. \/ wpc \in {"stop", "start"} /\ watcher' = watcher
      \/ watcher \in {"stop", "start"} /\ wpc' = wpc
    BY DEF StartStop, StartStart, WatchStop, WatchStart
<1>3. CASE StartStop \/ WatchStop
    <2>1. RestartStop /\ (wpc' = "start" \/ wpc' = wpc) /\ (watcher' = "start" \/ watcher' = watcher)
        BY <1>3 DEF StartStop, WatchStop
    <2>2. WaiterTypeOK'
        BY <1>1, <2>1, RestartStopFacts DEF WaiterInv, WaiterTypeOK
    <2>3. watcher' # "off" => wpc' \in {"select", "returned"}
        BY <1>3 DEF StartStop, WatchStop, WaiterInv
    <2>4. wpc' = "returned" => result' # "none"
        BY <1>1, <2>1 DEF WaiterInv
    <2>5. QED
        BY <1>1, <2>1, <2>2, <2>3, <2>4, RestartStopFacts DEF WaiterInv
<1>4. CASE StartStart \/ WatchStart
    <2>1. /\ RestartStart /\ polling = 0 /\ cur' = cur
          /\ (wpc' = "watch" \/ wpc' = wpc) /\ (watcher' = "idle" \/ watcher' = watcher)
          /\ wpc' # "start" /\ watcher' # "start"
        BY <1>4 DEF StartStart, WatchStart, WaiterInv
    <2>2. WaiterTypeOK'
        BY <1>1, <2>1, RestartStartFacts DEF WaiterInv, WaiterTypeOK
    <2>3. watcher' # "off" => wpc' \in {"select", "returned"}
        BY <1>4 DEF StartStart, WatchStart, WaiterInv
    <2>4. wpc' = "returned" => result' # "none"
        BY <1>1, <2>1 DEF WaiterInv
    <2>5. QED
        BY <1>1, <2>1, <2>2, <2>3, <2>4, RestartStartFacts DEF WaiterInv
<1>5. QED
    BY <1>3, <1>4

\* A poller polls, its event is processed, or it ends.  Only a list of which all was seen
\* starts the timer.
LEMMA PollerWaiter ==
    ASSUME WaiterInv, NEW g \in Gens, Poller(g) \/ PollEnds(g)
    PROVE  WaiterInv'
<1>1. pollers[g] \in PollerStates /\ pollers \in [Gens -> PollerStates] /\ WaiterTypeOK
    BY DEF WaiterInv, WaiterTypeOK
<1>2. /\ UNCHANGED <<objs, ctx, wpc, result, cur, held, watcher, polling>>
      /\ endCh' \in {endCh, "nil", "error"} /\ (endCh' # endCh => endCh = "empty")
    BY DEF Poller, PollEvent, ProcessEvent, PollEnds, ReportDone, world
<1>3. PICK q \in PollerStates : q.ctx = pollers[g].ctx /\ pollers' = [pollers EXCEPT ![g] = q]
    <2>1. CASE \E o \in Objects : PollEvent(g, o)
        <3>1. PICK o \in Objects : PollEvent(g, o)
            BY <2>1
        <3>2. DEFINE s == IF o \in ready THEN pollers[g].seen \cup {o} ELSE pollers[g].seen \ {o}
                     q == [pollers[g] EXCEPT !.known = @ \cup {o}, !.seen = s, !.event = "sent"]
        <3>3. pollers' = [pollers EXCEPT ![g] = q]
            BY <3>1 DEF PollEvent
        <3>4. q \in PollerStates /\ q.ctx = pollers[g].ctx
            BY <1>1 DEF PollerStates
        <3>5. QED
            BY <3>3, <3>4
    <2>2. CASE ProcessEvent(g)
        <3>1. [pollers[g] EXCEPT !.event = "none"] \in PollerStates
            BY <1>1 DEF PollerStates
        <3>2. [pollers[g] EXCEPT !.event = "none"].ctx = pollers[g].ctx
            BY <1>1 DEF PollerStates
        <3>3. pollers' = [pollers EXCEPT ![g] = [pollers[g] EXCEPT !.event = "none"]]
            BY <2>2 DEF ProcessEvent
        <3>4. QED
            BY <3>1, <3>2, <3>3
    <2>3. CASE PollEnds(g)
        <3>1. [pollers[g] EXCEPT !.run = "ended"] \in PollerStates
            BY <1>1 DEF PollerStates
        <3>2. [pollers[g] EXCEPT !.run = "ended"].ctx = pollers[g].ctx
            BY <1>1 DEF PollerStates
        <3>3. pollers' = [pollers EXCEPT ![g] = [pollers[g] EXCEPT !.run = "ended"]]
            BY <2>3 DEF PollEnds
        <3>4. QED
            BY <3>1, <3>2, <3>3
    <2>4. QED
        BY <2>1, <2>2, <2>3 DEF Poller
<1>4. basis' = basis \/ basis' = [set |-> pollers[g].set, seen |-> pollers[g].set]
    BY DEF Poller, PollEvent, ProcessEvent, PollEnds, AllCurrent, StartSettleTimer
<1>5. basis'.seen = basis'.set
    <2>1. CASE basis' = basis
        BY <2>1 DEF WaiterInv
    <2>2. CASE basis' = [set |-> pollers[g].set, seen |-> pollers[g].set]
        BY <2>2
    <2>3. QED
        BY <1>4, <2>1, <2>2
<1>6. /\ Gens' = Gens /\ IsFiniteSet(DOMAIN pollers') /\ pollers' \in [Gens' -> PollerStates]
      /\ \A h \in Gens : pollers'[h].ctx = pollers[h].ctx
    BY <1>1, <1>3, PollerMoves
<1>7. WaiterTypeOK' /\ \A h \in Gens' : pollers'[h].ctx = "live" => h = polling'
    BY <1>2, <1>6 DEF WaiterInv, WaiterTypeOK
<1>8. QED
    BY <1>2, <1>5, <1>7 DEF WaiterInv

\* Every step of the waiter keeps the invariant.
LEMMA NextWaiter == ASSUME WaiterInv, [WaiterNext]_wvars PROVE WaiterInv'
<1>1. CASE UNCHANGED wvars
    <2>1. UNCHANGED <<objs, ctx, wpc, result, cur, held, watcher, pollers, polling, endCh, basis>>
        BY <1>1 DEF wvars, world, waiterVars
    <2>2. QED
        BY <2>1 DEF WaiterInv, WaiterTypeOK, Gens
<1>2. CASE WaiterNext
    BY <1>2, WorldWaiter, MainWaiter, WatcherWaiter, RestartWaiter, PollerWaiter
    DEF WaiterNext, Main, Watcher
<1>3. QED
    BY <1>1, <1>2

----------------------------------------------------------------------------
(* The command.                                                             *)

\* Whatever the command does is a step of the waiter or none: the end of its wait is the
\* end of the waiter's context.
LEMMA WaiterSteps == ASSUME WaiterInv, [KNext]_kvars PROVE [WaiterNext]_wvars
<1>1. CASE UNCHANGED wvars
    BY <1>1
<1>2. CASE WaiterStep
    BY <1>2 DEF WaiterStep, Step, WaiterNext
<1>3. CASE Join
    <2>1. ctx' = "done" /\ UNCHANGED <<world, waiterVars>>
        BY <1>3 DEF Join
    <2>2. CASE ctx = "live"
        BY <2>1, <2>2 DEF WaiterNext, Timeout
    <2>3. CASE ctx = "done"
        BY <2>1, <2>3 DEF wvars
    <2>4. QED
        BY <2>2, <2>3 DEF WaiterInv, WaiterTypeOK
<1>4. QED
    BY <1>1, <1>2, <1>3
    DEF KNext, kvars, Command, Start, Validate, Resolve, ListNamespaces, Bootstrap,
        ExtractDomain, EnsureSSHKnownHost, RemoveRepo, GitClone, RunScript, OtherReturns

\* kubewait uses the waiter of a namespace as it is meant to be: what RunKubewait does
\* with its goroutines is a behaviour of ResourceWaiter.
THEOREM CommandUsesWaiter == KSpec => Spec
<1>1. KInit => Init
    BY DEF KInit
<1>2. QED
    BY <1>1, InitWaiter, NextWaiter, WaiterSteps, PTL DEF KSpec, Spec

\* The waiter of a namespace keeps WaiterInv.
THEOREM WaiterInvariance == Spec => []WaiterInv
    BY InitWaiter, NextWaiter, PTL DEF Spec

\* However often the list of the resources changes, restartPolling cancels the poller it
\* replaces: there is never a second one that was not cancelled.
THEOREM AtMostOnePoller == Spec => []OnePoller
<1>1. WaiterInv => OnePoller
    BY DEF WaiterInv, OnePoller
<1>2. QED
    BY <1>1, WaiterInvariance, PTL

\* A namespace is reported ready only on a settle timer that was started when every
\* object of its list had been seen Current (processEvent, StartSettleTimer).
THEOREM ReportedReadyWasSeen == Spec => []ReadyWasSeen
<1>1. WaiterInv => ReadyWasSeen
    BY DEF WaiterInv, ReadyWasSeen
<1>2. QED
    BY <1>1, WaiterInvariance, PTL

\* A wait that has returned does not return again.
LEMMA ReturnedOnce ==
    ASSUME wpc = "returned", [WaiterNext]_wvars
    PROVE  UNCHANGED <<wpc, result>>
    BY DEF WaiterNext, wvars, waiterVars, world, Main, WaitNamespace, Refresh, StartStop, StartStart,
           StartWatch, Select, Watcher, WatchEnds, WatchTick, WatchCompare, WatchStop, WatchStart,
           TimerFires, Callback, Timeout, Change, Poller, PollEvent, ProcessEvent, PollEnds

\* The join sees the result of every goroutine.
LEMMA JoinKubewait == ASSUME WaiterInv, KubewaitInv, Join PROVE KubewaitInv'
<1>1. UNCHANGED <<wpc, result, skipped, clone, others, repo, script>> /\ kpc = "wait"
    BY DEF Join, waiterVars
<1>2. CASE kpc' = "done"
    BY <1>1, <1>2 DEF KubewaitInv, Waited
<1>3. CASE kpc' = "bootstrap"
    <2>1. /\ wpc = "returned" /\ result # "error"
          /\ \A n \in Others : others[n] \notin {"error", "running"}
        BY <1>1, <1>3 DEF Join, Finish, Goto
    <2>2. Waited'
        BY <1>1, <2>1 DEF Waited, KubewaitInv, WaiterInv, WaiterTypeOK
    <2>3. QED
        BY <1>1, <1>3, <2>2 DEF KubewaitInv
<1>4. QED
    BY <1>2, <1>3 DEF Join, Finish, Goto

\* The command before and during the wait.
LEMMA BeforeKubewait ==
    ASSUME WaiterInv, KubewaitInv,
           Start \/ Validate \/ Resolve \/ ListNamespaces \/ \E n \in Others : OtherReturns(n)
    PROVE  KubewaitInv'
<1>1. UNCHANGED <<wpc, result, clone, repo, script>> /\ script # "ran" /\ clone = "no"
    BY DEF Start, Validate, Resolve, ListNamespaces, OtherReturns, wvars, waiterVars, KubewaitInv
<1>2. CASE Start
    BY <1>1, <1>2 DEF Start, Goto, KubewaitInv, Waited
<1>3. CASE Validate
    BY <1>1, <1>3 DEF Validate, Goto, Finish, KubewaitInv
<1>4. CASE Resolve \/ ListNamespaces
    <2>1. \/ kpc' \in {"list", "done"} /\ others' = others
          \/ /\ kpc' = "wait"
             /\ \E S \in SUBSET Others :
                   others' = [n \in Others |-> IF n \in S THEN "running" ELSE "nil"]
        BY <1>4 DEF Resolve, ListNamespaces, StartGoroutines, Goto, Finish
    <2>2. QED
        BY <1>1, <2>1 DEF KubewaitInv
<1>5. CASE \E n \in Others : OtherReturns(n)
    BY <1>1, <1>5 DEF OtherReturns, KubewaitInv
<1>6. QED
    BY <1>2, <1>3, <1>4, <1>5

\* runBootstrap.
LEMMA BootstrapKubewait ==
    ASSUME WaiterInv, KubewaitInv,
           Bootstrap \/ ExtractDomain \/ EnsureSSHKnownHost \/ RemoveRepo \/ GitClone \/ RunScript
    PROVE  KubewaitInv'
<1>1. UNCHANGED <<wpc, result, skipped, others>> /\ script # "ran" /\ Waited
    BY DEF Bootstrap, ExtractDomain, EnsureSSHKnownHost, RemoveRepo, GitClone, RunScript, wvars,
           waiterVars, KubewaitInv
<1>2. Waited'
    BY <1>1 DEF Waited
<1>3. CASE Bootstrap
    BY <1>1, <1>2, <1>3 DEF Bootstrap, Goto, Finish, KubewaitInv
<1>4. CASE ExtractDomain \/ EnsureSSHKnownHost \/ RemoveRepo
    BY <1>1, <1>2, <1>4 DEF ExtractDomain, EnsureSSHKnownHost, RemoveRepo, Goto, Finish, KubewaitInv
<1>5. CASE GitClone
    BY <1>1, <1>2, <1>5 DEF GitClone, Goto, Finish, KubewaitInv
<1>6. CASE RunScript
    BY <1>1, <1>2, <1>6 DEF RunScript, Goto, Finish, KubewaitInv
<1>7. QED
    BY <1>3, <1>4, <1>5, <1>6

\* Every step of kubewait keeps its invariant.
LEMMA NextKubewait == ASSUME WaiterInv, KubewaitInv, [KNext]_kvars PROVE KubewaitInv'
<1>1. CASE UNCHANGED kwVars
    <2>1. Waited => Waited'
        BY <1>1, WaiterSteps, ReturnedOnce DEF Waited, kwVars
    <2>2. QED
        BY <1>1, <2>1 DEF KubewaitInv, kwVars
<1>2. QED
    BY <1>1, JoinKubewait, BeforeKubewait, BootstrapKubewait
    DEF KNext, kvars, Command, WaiterStep, Step

\* For any namespaces, the bootstrap script runs only when all of them reported that they
\* are ready or the wait was skipped, and from the clone of this run when one was asked
\* for (RunKubewait, waitForResources, runBootstrap).
THEOREM ScriptRunsAfterReady == KSpec => []BootstrapAfterReady
<1>1. KInit => KubewaitInv
    BY DEF KInit, KubewaitInv
<1>2. KubewaitInv => BootstrapAfterReady
    BY DEF KubewaitInv, Waited, BootstrapAfterReady
<1>3. QED
    BY <1>1, <1>2, NextKubewait, CommandUsesWaiter, WaiterInvariance, PTL DEF KSpec
=============================================================================
