------------------------------ MODULE InitDaemon ------------------------------
(***************************************************************************)
(* The kubelet under "iknite init", over restarts of iknite.               *)
(*                                                                         *)
(* OpenRC's supervise-daemon runs "iknite init".  The kubelet-start phase  *)
(* starts the kubelet, or adopts the one named by /run/kubelet.pid; the    *)
(* phases after it may fail; the daemonize phase waits for the kubelet or  *)
(* for a stop signal, cleans the host and returns; PostRunE stops what is  *)
(* left.  Three goroutines act on the kubelet: the workflow, the goroutine *)
(* of WaitForKubelet that calls Wait, and the one exec.CommandContext      *)
(* starts, which kills the process when the context ends.                  *)
(*                                                                         *)
(* Kubelet k is the one started by run k of iknite, so k = run says that   *)
(* it is a child of the running iknite, the only process whose end Wait    *)
(* reports; for any other, Wait fails at once (ECHILD).  Of two Waits for  *)
(* one child the second fails.  An orphan that exits is reaped by init.    *)
(***************************************************************************)
EXTENDS Integers, FiniteSets

CONSTANT MaxRuns    \* bound on the runs of iknite

ASSUME RunsBound == MaxRuns \in Nat \ {0}

VARIABLES
    kub,      \* kub[k]: "none", "alive", "zombie" or "gone"
    termed,   \* the kubelets that were sent SIGTERM
    pidFile,  \* NoPid, TornPid or the kubelet /run/kubelet.pid names
    run,      \* the number of the current or last run
    pc,       \* where the workflow is; "down": iknite does not run
    ctx,      \* "live", or "done" after a stop signal
    proc,     \* initData.kubeletProcess, 0 for nil
    waiter,   \* the goroutine of WaitForKubelet: "off", "waiting", "ok" or "err"
    waited,   \* the process that goroutine waits for
    exit,     \* how the last run ended; "stale": well, but the pid file stayed
    lostPid   \* history: "yes" once a kubelet was started without its pid on file

Runs == 1..MaxRuns
NoPid == 0
TornPid == -1

hostVars == <<kub, termed, pidFile>>
vars == <<kub, termed, pidFile, run, pc, ctx, proc, waiter, waited, exit, lostPid>>

AliveKubelets == {k \in Runs : kub[k] = "alive"}

DaemonInit ==
    /\ kub = [k \in Runs |-> "none"] /\ termed = {} /\ pidFile = NoPid
    /\ run = 0 /\ pc = "down" /\ ctx = "live" /\ proc = 0 /\ waiter = "off" /\ waited = 0
    /\ exit = "none" /\ lostPid = "no"

----------------------------------------------------------------------------
(* The kubelet processes.                                                   *)

\* What becomes of kubelet k when it ends: a child waits to be reaped.
Ended(k) == IF k = run /\ pc # "down" THEN "zombie" ELSE "gone"

\* A kubelet ends, by itself or because of a SIGTERM.
KubeletExits(k) ==
    /\ kub[k] = "alive"
    /\ kub' = [kub EXCEPT ![k] = Ended(k)]
    /\ UNCHANGED <<termed, pidFile, run, pc, ctx, proc, waiter, waited, exit, lostPid>>

\* exec.CommandContext kills the child when the context is done.
ContextKill ==
    /\ pc # "down" /\ ctx = "done" /\ run \in Runs /\ kub[run] = "alive"
    /\ kub' = [kub EXCEPT ![run] = "zombie"]
    /\ UNCHANGED <<termed, pidFile, run, pc, ctx, proc, waiter, waited, exit, lostPid>>

\* When iknite is gone, init reaps what it had not reaped.
Orphaned == [k \in Runs |-> IF kub[k] = "zombie" THEN "gone" ELSE kub[k]]

\* The end of the iknite process.
Exit(code) == pc' = "down" /\ exit' = code /\ kub' = Orphaned /\ waiter' = "off"

\* Deviation: the second Wait for a child blocks instead of failing.
WaitReturns_SecondBlocks(k, r) ==
    \/ /\ k = run /\ kub[k] = "zombie" /\ r = "ok"
       /\ kub' = [kub EXCEPT ![k] = "gone"]
    \/ k # run /\ r = "err" /\ UNCHANGED kub

\* process.Wait of k returns r.
WaitReturns(k, r) ==
    \/ /\ k = run /\ kub[k] = "zombie" /\ r = "ok"
       /\ kub' = [kub EXCEPT ![k] = "gone"]
    \/ /\ (k # run \/ kub[k] = "gone") /\ r = "err"
       /\ UNCHANGED kub

----------------------------------------------------------------------------
(* iknite init.                                                             *)

\* supervise-daemon, or an operator, starts iknite again.
Respawn ==
    /\ pc = "down" /\ run < MaxRuns
    /\ run' = run + 1 /\ pc' = "phases" /\ ctx' = "live" /\ proc' = 0 /\ exit' = "none"
    /\ UNCHANGED <<hostVars, waiter, waited, lostPid>>

\* SIGTERM or SIGINT to iknite: signal.NotifyContext cancels the context.
Signal ==
    /\ pc # "down" /\ ctx = "live" /\ ctx' = "done"
    /\ UNCHANGED <<hostVars, run, pc, proc, waiter, waited, exit, lostPid>>

\* The phases before kubelet-start all succeed, or one returns an error.
PhasesBefore ==
    /\ pc = "phases"
    /\ \/ pc' = "checkPid" /\ UNCHANGED <<kub, exit, waiter>>
       \/ Exit("error")
    /\ UNCHANGED <<termed, pidFile, run, ctx, proc, waited, lostPid>>

\* Deviation: the pid file is not looked at.
CheckPidFile_Ignored ==
    /\ pc = "checkPid" /\ pc' = "startCommand"
    /\ UNCHANGED <<hostVars, proc, run, ctx, waiter, waited, exit, lostPid>>

\* StartKubelet, CheckPidFile: signal 0 tells whether the process is there.  A pid
\* that is not a number is an error, and so is a file that cannot be read or removed.
CheckPidFile ==
    /\ pc = "checkPid"
    /\ \/ /\ pidFile \in Runs /\ kub[pidFile] = "alive"
          /\ proc' = pidFile /\ pc' = "phasesAfter" /\ UNCHANGED <<pidFile, kub, exit, waiter>>
       \/ /\ pidFile = NoPid \/ (pidFile \in Runs /\ kub[pidFile] # "alive")
          /\ pidFile' = NoPid /\ pc' = "startCommand" /\ UNCHANGED <<proc, kub, exit, waiter>>
       \/ pidFile # NoPid /\ Exit("error") /\ UNCHANGED <<pidFile, proc>>
    /\ UNCHANGED <<termed, run, ctx, waited, lostPid>>

\* StartKubelet, StartCommand: fails when the context is done or the command cannot
\* be run.
StartCommand ==
    /\ pc = "startCommand"
    /\ \/ /\ ctx = "live" /\ pc' = "openPid"
          /\ kub' = [kub EXCEPT ![run] = "alive"] /\ UNCHANGED <<exit, waiter>>
       \/ Exit("error")
    /\ UNCHANGED <<termed, pidFile, run, ctx, proc, waited, lostPid>>

\* StartKubelet, WriteFile of the pid: the file is created empty; a failure is only
\* logged.
OpenPid ==
    /\ pc = "openPid"
    /\ \/ pidFile' = TornPid /\ pc' = "writePid" /\ UNCHANGED <<proc, lostPid>>
       \/ /\ pc' = "phasesAfter" /\ proc' = run /\ lostPid' = "yes" /\ UNCHANGED pidFile
    /\ UNCHANGED <<kub, termed, run, ctx, waiter, waited, exit>>

\* StartKubelet, WriteFile of the pid, which may fail too; SetKubeletProcess.
WritePid ==
    /\ pc = "writePid"
    /\ \/ pidFile' = run /\ UNCHANGED lostPid
       \/ lostPid' = "yes" /\ UNCHANGED pidFile
    /\ proc' = run /\ pc' = "phasesAfter"
    /\ UNCHANGED <<kub, termed, run, ctx, waiter, waited, exit>>

\* The phases from kubelet-start to daemonize.  An error of one ends RunE, and then
\* PostRunE does not run.  runDaemonize starts the goroutine that waits.
PhasesAfter ==
    /\ pc = "phasesAfter"
    /\ \/ pc' = "select" /\ waiter' = "waiting" /\ waited' = proc /\ UNCHANGED <<kub, exit>>
       \/ Exit("error") /\ UNCHANGED waited
    /\ UNCHANGED <<termed, pidFile, run, ctx, proc, lostPid>>

\* The goroutine of WaitForKubelet.
Waiter ==
    /\ pc # "down" /\ waiter = "waiting"
    /\ waiter' \in {"ok", "err"} /\ WaitReturns(waited, waiter')
    /\ UNCHANGED <<termed, pidFile, run, pc, ctx, proc, waited, exit, lostPid>>

\* After WaitForKubelet: the process is forgotten unless there was an error; the
\* shutdown hooks run; CleanAll follows.
Stopping(err) == pc' = "clean" /\ proc' = IF err = "ok" THEN 0 ELSE proc

\* WaitForKubelet, the child has ended.
SelectDone ==
    /\ pc = "select" /\ waiter \in {"ok", "err"}
    /\ Stopping(waiter)
    /\ UNCHANGED <<hostVars, run, ctx, waiter, waited, exit, lostPid>>

\* Deviation: after the SIGTERM nobody waits.
SelectTerm_NoWait ==
    /\ pc = "select" /\ ctx = "done"
    /\ termed' = termed \cup {proc} /\ Stopping("ok")
    /\ UNCHANGED <<kub, pidFile, run, ctx, waiter, waited, exit, lostPid>>

\* WaitForKubelet, the context is done: TerminateProcess signals; signalling a
\* process that is gone is an error.
SelectTerm ==
    /\ pc = "select" /\ ctx = "done"
    /\ IF kub[proc] = "gone"
       THEN Stopping("err") /\ UNCHANGED termed
       ELSE pc' = "termWait" /\ termed' = termed \cup {proc} /\ UNCHANGED proc
    /\ UNCHANGED <<kub, pidFile, run, ctx, waiter, waited, exit, lostPid>>

\* TerminateProcess waits, beside the goroutine that already does.
TermWait ==
    /\ pc = "termWait"
    /\ \E r \in {"ok", "err"} : WaitReturns(proc, r) /\ Stopping(r)
    /\ UNCHANGED <<termed, pidFile, run, ctx, waiter, waited, exit, lostPid>>

\* CleanAll (errors are logged), the Stopped status and the hooks of PostRunE.
CleanAll ==
    /\ pc = "clean" /\ pc' = "post"
    /\ UNCHANGED <<hostVars, run, ctx, proc, waiter, waited, exit, lostPid>>

\* RemovePidFile and the end of PostRunE: a failure to remove is only logged.
RemovePidFile ==
    \/ pidFile' = NoPid /\ Exit("ok")
    \/ UNCHANGED pidFile /\ Exit("stale")

\* PostRunE: no process is left, or it is signalled once more.
PostRun ==
    /\ pc = "post"
    /\ IF proc = 0 THEN RemovePidFile /\ UNCHANGED termed
       ELSE IF kub[proc] = "gone" THEN Exit("error") /\ UNCHANGED <<pidFile, termed>>
       ELSE /\ pc' = "postWait" /\ termed' = termed \cup {proc}
            /\ UNCHANGED <<kub, pidFile, waiter, exit>>
    /\ UNCHANGED <<run, ctx, proc, waited, lostPid>>

\* Deviation: the pid file is removed whether or not the wait failed.
PostWait_RemovesPid ==
    /\ pc = "postWait"
    /\ \/ proc = run /\ kub[proc] = "zombie" /\ Exit("ok")
       \/ (proc # run \/ kub[proc] = "gone") /\ Exit("error")
    /\ pidFile' = NoPid
    /\ UNCHANGED <<termed, run, ctx, proc, waited, lostPid>>

\* PostRunE waits for the process it signalled.
PostWait ==
    /\ pc = "postWait"
    /\ \/ proc = run /\ kub[proc] = "zombie" /\ RemovePidFile
       \/ /\ proc # run \/ kub[proc] = "gone"
          /\ Exit("error") /\ UNCHANGED pidFile
    /\ UNCHANGED <<termed, run, ctx, proc, waited, lostPid>>

\* iknite is killed.  A kubelet whose pid is not yet on file is lost.
Crash ==
    /\ pc # "down" /\ Exit("crash")
    /\ lostPid' = IF pc \in {"openPid", "writePid"} THEN "yes" ELSE lostPid
    /\ UNCHANGED <<termed, pidFile, run, ctx, proc, waited>>

Workflow ==
    \/ PhasesBefore \/ CheckPidFile \/ StartCommand \/ OpenPid \/ WritePid \/ PhasesAfter
    \/ SelectDone \/ SelectTerm \/ TermWait \/ CleanAll \/ PostRun \/ PostWait

DaemonNext ==
    \/ Workflow \/ Waiter \/ ContextKill \/ Respawn \/ Signal \/ Crash
    \/ \E k \in Runs : KubeletExits(k)

DaemonSpec == DaemonInit /\ [][DaemonNext]_vars

\* Phases return (they have time limits), goroutines that can run do, and a kubelet
\* that was sent SIGTERM ends.
DaemonFairSpec ==
    /\ DaemonSpec
    /\ WF_vars(Workflow) /\ WF_vars(ContextKill)
    /\ \A k \in Runs : WF_vars(k \in termed /\ KubeletExits(k))

----------------------------------------------------------------------------
Steps == {"down", "phases", "checkPid", "startCommand", "openPid", "writePid", "phasesAfter",
          "select", "termWait", "clean", "post", "postWait"}

DaemonTypeOK ==
    /\ kub \in [Runs -> {"none", "alive", "zombie", "gone"}]
    /\ termed \in SUBSET Runs
    /\ pidFile \in Runs \cup {NoPid, TornPid}
    /\ run \in 0..MaxRuns
    /\ pc \in Steps
    /\ ctx \in {"live", "done"}
    /\ proc \in 0..run
    /\ waiter \in {"off", "waiting", "ok", "err"}
    /\ waited \in 0..run
    /\ exit \in {"none", "ok", "stale", "error", "crash"}
    /\ lostPid \in {"yes", "no"}

\* There is never a second kubelet, over crashes, failed phases and restarts of
\* iknite, unless a crash or a failed write kept a pid from the pid file.
OneKubelet ==
    lostPid = "no" => \A j, k \in AliveKubelets : j = k

\* When this run started its kubelet itself, runDaemonize cleans the host only after
\* that kubelet has ended, and so with no kubelet running: neither the race of the
\* two Waits nor a failed signal lets CleanAll run under a live kubelet.
CleansAfterKubelet ==
    pc \in {"clean", "post", "postWait"} /\ proc \in {0, run} /\ lostPid = "no"
        => AliveKubelets = {}

\* An init that ends without an error leaves neither a kubelet nor, unless it could
\* not be removed, a pid file.
CleanExit ==
    lostPid = "no" =>
        /\ exit = "ok" => pidFile = NoPid
        /\ exit \in {"ok", "stale"} => AliveKubelets = {}

\* While the kubelet it names lives, the pid file is neither removed nor changed, by
\* this or a later run: the next run can find that kubelet.
PidFileKept ==
    [][(pidFile \in Runs /\ kub[pidFile] = "alive") => pidFile' = pidFile]_vars

\* "Prevent double stop" (pkg/k8s/phases/init/daemonize.go): PostRunE stops a kubelet of
\* this run only after a stop signal, when the Wait of the goroutine has beaten that of
\* TerminateProcess; one that ended by itself is not signalled again.
StopsOnce == pc \in {"clean", "post", "postWait"} /\ proc = run => ctx = "done"

\* A stop is orderly, whoever reaps the kubelet and whatever fails on the way: the host is
\* cleaned under no kubelet of this run, a kubelet that has ended by itself is not stopped
\* again, and an init that reports no error leaves nothing behind (WaitForKubelet,
\* runDaemonize, PostRunE).
OrderlyStop == CleansAfterKubelet /\ StopsOnce /\ CleanExit

\* A stop signal ends iknite, whatever the workflow and the kubelet were doing.
StopSignalEnds == ctx = "done" /\ pc # "down" ~> pc = "down"

----------------------------------------------------------------------------
(* The inductive invariant behind the safety properties.                    *)

Before == {"phases", "checkPid"}
After == {"phasesAfter", "select", "termWait", "clean", "post", "postWait"}

\* Runs to come have no kubelet, and this one has none before it starts it.
KubeletsByRun ==
    /\ \A k \in Runs : k > run => kub[k] = "none"
    /\ pc # "down" => run \in Runs
    /\ pc \in Before \cup {"startCommand"} => kub[run] = "none"
    /\ pc \in {"openPid", "writePid"} => kub[run] # "none"
    /\ \A k \in Runs : kub[k] = "zombie" => k = run /\ pc # "down"

\* A live kubelet is the one the pid file names or the one about to be written there.
LiveIsKnown ==
    lostPid = "no" =>
        /\ \A k \in AliveKubelets :
              pidFile = k \/ (k = run /\ pc \in {"openPid", "writePid"})
        /\ pc = "startCommand" => AliveKubelets = {}

\* After kubelet-start the process is the one on file; once it was seen to end it is
\* dead, and it is a child that can be waited for only if this run started it.
ProcIsKnown ==
    /\ pc \in {"phasesAfter", "select", "termWait", "postWait"} => proc # 0
    /\ lostPid = "no" /\ pc \in After /\ proc # 0 => pidFile = proc
    /\ pc \in After /\ proc # 0 => kub[proc] # "none"
    /\ pc \in After /\ proc = 0 => waited = run /\ kub[run] = "gone"
    /\ pc \in {"clean", "post", "postWait"} /\ proc \in {0, run} => kub[run] # "alive"
    /\ pc \in {"clean", "post", "postWait"} /\ proc = 0 /\ lostPid = "no" => pidFile = run
    /\ waiter # "off" <=> pc \in After \ {"phasesAfter"}
    /\ waiter # "off" => waited # 0 /\ (proc # 0 => waited = proc)
    /\ waiter = "ok" => waited = run /\ kub[run] = "gone"
    /\ waiter = "err" /\ waited = run => kub[run] = "gone"

\* Whatever was lost, the pid on file is that of the kubelet this run started or
\* adopted: a run that starts one has found none on file.
PidFileIsOurs ==
    /\ pc \in {"startCommand", "openPid", "writePid"} => pidFile \in {NoPid, TornPid}
    /\ pc \in After /\ pidFile \in Runs => pidFile = IF proc = 0 THEN run ELSE proc

ExitIsClean ==
    exit # "none" => pc = "down"

DaemonInv ==
    /\ DaemonTypeOK /\ KubeletsByRun /\ LiveIsKnown /\ ProcIsKnown /\ PidFileIsOurs
    /\ ExitIsClean /\ CleanExit

\* The child is reaped by the goroutine that waits for it, unless TerminateProcess waits
\* too; that is after a stop signal.
ReapedByWaiter ==
    /\ StopsOnce
    /\ pc = "termWait" => ctx = "done"
    /\ pc \in {"openPid", "writePid", "phasesAfter"} => kub[run] # "gone"
    /\ pc = "select" /\ proc = run /\ waiter # "ok" => waiter = "waiting" /\ kub[run] # "gone"
=============================================================================
