---------------------------- MODULE StatusPipeline ----------------------------
(***************************************************************************)
(* The way of a cluster status inside "iknite init" and out of it.         *)
(*                                                                         *)
(* Two goroutines call initData.UpdateIkniteCluster: the init workflow     *)
(* (before each phase, and twice while it stops) and, once the workloads   *)
(* phase has run, the workloads monitor (at each tick).  The call changes  *)
(* the cluster in memory, writes status.json, copies the cluster and       *)
(* publishes the copy on the EventBus; no lock is held.  The listener of   *)
(* the serve phase hands the copies to the status server; "iknite start",  *)
(* another process, polls status.json.                                     *)
(*                                                                         *)
(* A status is abstracted to the number of the update that wrote each of   *)
(* its halves: the state, phase and timestamp on the one hand, the         *)
(* workloads on the other, since Update assigns them one after the other.  *)
(***************************************************************************)
EXTENDS Integers, Sequences

CONSTANTS
    MaxPhases,   \* bound on the phases before the workloads phase
    MaxTicks     \* bound on the ticks of the workloads monitor

ASSUME PipelineBounds == MaxPhases \in Nat /\ MaxTicks \in Nat

Main == "main"
Monitor == "monitor"
Writers == {Main, Monitor}
Listener == "serve"

VARIABLES
    at,        \* where the init workflow is
    monitor,   \* "off", "running" or "ended"
    wpc,       \* wpc[w]: where w is inside UpdateIkniteCluster
    version,   \* how many updates have begun
    cluster,   \* the cluster in memory
    mine,      \* mine[w]: the update in the hands of w
    json,      \* json[w]: what w has marshalled
    file,      \* status.json: Absent, Empty, Mixed or a status
    served,    \* what GET /status answers
    server,    \* "off", "up" or "down"
    sent,      \* sent[w]: the copies w has published
    excuses,   \* history: "overlap", "unwritten" and "dropped"
    subs, born, chan, closes, pubPc, todo, count, last   \* of the bus

Bus == INSTANCE EventBus WITH
    Publishers <- Writers, Subscribers <- {Listener}, Capacity <- 1,
    MaxEvents <- MaxPhases + MaxTicks + 3

busVars == <<subs, born, chan, closes, pubPc, todo, count, last>>
procVars == <<at, monitor, server>>
updVars == <<version, mine>>
vars == <<procVars, updVars, wpc, cluster, json, file, served, sent, excuses, busVars>>

Status(a, b) == [state |-> a, work |-> b]
Absent == Status(-1, -1)
Empty == Status(-2, -2)
Mixed == Status(-3, -3)

\* IsIkniteReady of "iknite start" at this moment: a file that is not JSON is an
\* error, which ends the poll; no file is an answer (not ready yet).
IsIkniteReady == IF file \in {Empty, Mixed} THEN "error" ELSE "answer"

Idle(w) == wpc[w] = "idle"
Alive == at # "exited" /\ \A w \in Writers : pubPc[w] # "panicked"

Init ==
    /\ at = "phases" /\ monitor = "off" /\ server = "off"
    /\ wpc = [w \in Writers |-> "idle"]
    /\ version = 0 /\ mine = [w \in Writers |-> 0]
    /\ cluster = Status(0, 0)
    /\ json = [w \in Writers |-> Status(0, 0)]
    /\ file = Absent /\ served = Absent
    /\ sent = [w \in Writers |-> <<>>] /\ excuses = {}
    /\ Bus!Init

----------------------------------------------------------------------------
(* UpdateIkniteCluster, step by step.                                       *)

\* UpdateIkniteCluster is entered; IkniteCluster.Update, first half.
BeginUpdate(w) ==
    /\ Alive /\ Idle(w)
    /\ wpc' = [wpc EXCEPT ![w] = "update"]
    /\ version' = version + 1
    /\ mine' = [mine EXCEPT ![w] = version']
    /\ cluster' = [cluster EXCEPT !.state = version']
    /\ excuses' = IF \A o \in Writers : Idle(o) THEN excuses ELSE excuses \cup {"overlap"}
    /\ UNCHANGED <<json, file, sent>>

\* IkniteCluster.Update, second half.
Update(w) ==
    /\ wpc[w] = "update"
    /\ wpc' = [wpc EXCEPT ![w] = "marshal"]
    /\ cluster' = [cluster EXCEPT !.work = mine[w]]
    /\ UNCHANGED <<updVars, json, file, served, sent, excuses, busVars>>

\* Persist: the marshalling.
Marshal(w) ==
    /\ wpc[w] = "marshal"
    /\ wpc' = [wpc EXCEPT ![w] = "truncate"]
    /\ json' = [json EXCEPT ![w] = cluster]
    /\ UNCHANGED <<updVars, cluster, file, served, sent, excuses, busVars>>

\* Deviation: the write is left out when a file is already there.
Truncate_KeepsFile(w) ==
    /\ wpc[w] = "truncate"
    /\ IF file = Absent
       THEN file' = Empty /\ wpc' = [wpc EXCEPT ![w] = "write"]
       ELSE wpc' = [wpc EXCEPT ![w] = "copy"] /\ UNCHANGED file
    /\ UNCHANGED <<updVars, cluster, json, served, sent, excuses, busVars>>

\* Persist: WriteFile opens the file with O_TRUNC, or the directory or the file
\* cannot be written, which is only logged.
Truncate(w) ==
    /\ wpc[w] = "truncate"
    /\ \/ file' = Empty /\ wpc' = [wpc EXCEPT ![w] = "write"] /\ UNCHANGED excuses
       \/ /\ excuses' = excuses \cup {"unwritten"}
          /\ wpc' = [wpc EXCEPT ![w] = "copy"] /\ UNCHANGED file
    /\ UNCHANGED <<updVars, cluster, json, served, sent, busVars>>

\* Persist: WriteFile writes from offset 0.  When the other writer has truncated and
\* written in between, a longer text keeps its tail behind a shorter one.  An error of
\* the write is only logged.
Write(w) ==
    /\ wpc[w] = "write"
    /\ wpc' = [wpc EXCEPT ![w] = "copy"]
    /\ \/ file' \in {json[w]} \cup (IF file = Empty THEN {} ELSE {Mixed}) /\ UNCHANGED excuses
       \/ excuses' = excuses \cup {"unwritten"} /\ UNCHANGED file
    /\ UNCHANGED <<updVars, cluster, json, served, sent, busVars>>

\* DeepCopy, and Publish up to the copy of the subscribers.
Publish(w) ==
    /\ wpc[w] = "copy"
    /\ wpc' = [wpc EXCEPT ![w] = "publish"]
    /\ sent' = [sent EXCEPT ![w] = Append(@, cluster)]
    /\ Bus!Publish(w)
    /\ UNCHANGED <<updVars, cluster, json, file, served, excuses>>

\* The sends of Publish; one to a full channel is lost.
Send(w) ==
    /\ wpc[w] = "publish" /\ Bus!Send(w, Listener)
    /\ excuses' = excuses \cup (IF chan' = chan THEN {"dropped"} ELSE {})
    /\ UNCHANGED <<updVars, wpc, cluster, json, file, served, sent>>

\* UpdateIkniteCluster returns.
Return(w) ==
    /\ wpc[w] = "publish" /\ Bus!Return(w)
    /\ wpc' = [wpc EXCEPT ![w] = "idle"]
    /\ mine' = [mine EXCEPT ![w] = 0] /\ json' = [json EXCEPT ![w] = Status(0, 0)]
    /\ UNCHANGED <<version, cluster, file, served, sent, excuses>>

UpdateStep(w) ==
    /\ Alive
    /\ \/ Update(w) \/ Marshal(w) \/ Truncate(w) \/ Write(w)
       \/ Publish(w) \/ Send(w) \/ Return(w)
    /\ UNCHANGED procVars

----------------------------------------------------------------------------
(* The init workflow.                                                       *)

MainAt(from, to) == Alive /\ Idle(Main) /\ at = from /\ at' = to

\* WrapPhase of a phase before the serve phase, or between it and the workloads phase.
WrapPhase ==
    /\ MainAt("phases", "phases") \/ MainAt("served", "served")
    /\ version < MaxPhases
    /\ BeginUpdate(Main)
    /\ UNCHANGED <<monitor, server, served, busVars>>

\* Deviation: the server starts without a cluster and waits for the first event.
Serve_NoCluster ==
    /\ MainAt("phases", "served")
    /\ server' = "up"
    /\ Bus!Subscribe(Listener)
    /\ UNCHANGED <<monitor, updVars, wpc, cluster, json, file, served, sent, excuses>>

\* runServe: StartIkniteServer serves the cluster as it is, then the listener
\* registers.
Serve ==
    /\ MainAt("phases", "served")
    /\ server' = "up" /\ served' = cluster
    /\ Bus!Subscribe(Listener)
    /\ UNCHANGED <<monitor, updVars, wpc, cluster, json, file, sent, excuses>>

\* A phase before daemonize returns an error: RunE does too, and then neither the
\* hooks nor PostRunE run.
PhaseFails ==
    /\ MainAt("phases", "exited") \/ MainAt("served", "exited")
    /\ UNCHANGED <<monitor, server, updVars, wpc, cluster, json, file, served, sent,
                   excuses, busVars>>

\* runMonitorWorkloads starts the monitor.
RunMonitorWorkloads ==
    /\ MainAt("served", "daemonize")
    /\ monitor' = "running"
    /\ UNCHANGED <<server, updVars, wpc, cluster, json, file, served, sent,
                   excuses, busVars>>

\* WrapPhase of the daemonize phase; the workflow then waits for the kubelet.
Daemonize ==
    /\ MainAt("daemonize", "waiting")
    /\ BeginUpdate(Main)
    /\ UNCHANGED <<monitor, server, served, busVars>>

\* runDaemonize after the kubelet stopped, by itself or because of the signal.
Stopping ==
    /\ MainAt("waiting", "stopping")
    /\ BeginUpdate(Main)
    /\ UNCHANGED <<monitor, server, served, busVars>>

\* Deviation: the hook waits for the monitor, which nothing may have told to end.
Hooks_WaitForMonitor(from, to) ==
    /\ MainAt(from, to)
    /\ monitor # "running"
    /\ Bus!Unsubscribe(Listener)
    /\ server' = "down"
    /\ UNCHANGED <<monitor, updVars, wpc, cluster, json, file, served, sent, excuses>>

\* Deviation: the hook closes the channel and leaves it registered.
Hooks_CloseOnly(from, to) ==
    /\ MainAt(from, to)
    /\ closes' = [closes EXCEPT ![Listener] = @ + 1]
    /\ server' = "down"
    /\ UNCHANGED <<monitor, updVars, wpc, cluster, json, file, served, sent, excuses,
                   subs, born, chan, pubPc, todo, count, last>>

\* Deviation: the hook takes the status back to the initial one.
Hooks_Reset(from, to) ==
    /\ MainAt(from, to)
    /\ Bus!Unsubscribe(Listener)
    /\ server' = "down" /\ served' = Status(0, 0)
    /\ UNCHANGED <<monitor, updVars, wpc, cluster, json, file, sent, excuses>>

\* RunShutdownHooks: the "serve" hook unregisters the listener and shuts the server
\* down.  runDaemonize and PostRunE both run it.
Hooks(from, to) ==
    /\ MainAt(from, to)
    /\ Bus!Unsubscribe(Listener)
    /\ server' = "down"
    /\ UNCHANGED <<monitor, updVars, wpc, cluster, json, file, served, sent,
                   excuses>>

\* The end of runDaemonize.
Stopped ==
    /\ MainAt("hooked", "stopped")
    /\ BeginUpdate(Main)
    /\ UNCHANGED <<monitor, server, served, busVars>>

\* The phases and the end of the workflow.
InitWorkflow ==
    \/ WrapPhase \/ Serve \/ PhaseFails \/ RunMonitorWorkloads \/ Daemonize \/ Stopping \/ Stopped
    \/ Hooks("stopping", "hooked") \/ Hooks("stopped", "exited")

----------------------------------------------------------------------------
(* The monitor and the listener.                                            *)

\* A tick, also chosen when the context is done at the same time.
Tick ==
    /\ monitor = "running" /\ Len(sent[Monitor]) < MaxTicks
    /\ BeginUpdate(Monitor)
    /\ UNCHANGED <<procVars, served, busVars>>

\* The monitor ends on the context or on an error of the API server.
MonitorEnds ==
    /\ Alive /\ monitor = "running" /\ Idle(Monitor)
    /\ monitor' = "ended"
    /\ UNCHANGED <<at, server, updVars, wpc, cluster, json, file, served, sent,
                   excuses, busVars>>

\* The goroutine of runServe: range over the channel, SetCluster.
Listen ==
    /\ Alive /\ Bus!Receive(Listener)
    /\ LET e == Head(chan[Listener]) IN served' = sent[e.from][e.n]
    /\ UNCHANGED <<procVars, updVars, wpc, cluster, json, file, sent, excuses>>

Next ==
    \/ InitWorkflow \/ Tick \/ MonitorEnds \/ Listen
    \/ \E w \in Writers : UpdateStep(w)

Spec == Init /\ [][Next]_vars

\* Runnable goroutines run.  Nothing makes the kubelet stop, a phase return or the
\* monitor end.
StopSequence == Hooks("stopping", "hooked") \/ Stopped \/ Hooks("stopped", "exited")
FairSpec ==
    /\ Spec
    /\ WF_vars(StopSequence)
    /\ \A w \in Writers : WF_vars(UpdateStep(w))

----------------------------------------------------------------------------
\* Without overlapping calls the served status never goes back to an older update,
\* whatever the bus loses.
ServedForward ==
    [][("overlap" \notin excuses' /\ served # Absent)
          => served'.state >= served.state /\ served'.work >= served.work]_vars

\* Once the kubelet has stopped, init ends: neither the bus, whose listener may never
\* receive, nor the monitor, which may be inside an update or never end, holds it up.
StopCompletes == at = "stopping" ~> ~Alive

\* The bus used this way is the bus of EventBus.
BusSpec == Bus!Spec

\* "subsequent /status requests serve the latest in-memory state" (SetCluster,
\* pkg/server/server.go): the server serves statuses that one update wrote as a whole
\* and, when no update is under way and nothing is left to deliver, the cluster in
\* memory.  There are two exceptions, overlapping calls of UpdateIkniteCluster and a
\* full channel, which loses the update.
ServesLatest ==
    "overlap" \notin excuses =>
        /\ served.state = served.work
        /\ (server = "up" /\ "dropped" \notin excuses
              /\ (\A w \in Writers : Idle(w)) /\ chan[Listener] = <<>>)
             => served = cluster

\* What "iknite start" polls (pkg/cmd/start.go), unless a write failed or two calls of
\* UpdateIkniteCluster overlapped: status.json holds a status that one update wrote as
\* a whole, the last one when nobody is inside UpdateIkniteCluster; and IsIkniteReady
\* meets an error, which ends the poll, only between the truncation of the file and its
\* write.
StartReadsStatus ==
    excuses \subseteq {"dropped"} =>
        /\ file.state = file.work /\ file # Mixed
        /\ version > 0 /\ (\A w \in Writers : Idle(w)) => file = cluster
        /\ IsIkniteReady = "error" => \E w \in Writers : wpc[w] = "write"

----------------------------------------------------------------------------
(* The inductive invariant behind ServedForward, ServesLatest and           *)
(* StartReadsStatus.                                                        *)

Statuses == [state : Int, work : Int]
PipelineTypeOK ==
    /\ server \in {"off", "up", "down"} /\ monitor \in {"off", "running", "ended"}
    /\ wpc \in [Writers -> {"idle", "update", "marshal", "truncate", "write", "copy", "publish"}]
    /\ version \in Nat /\ mine \in [Writers -> Nat]
    /\ cluster \in Statuses /\ json \in [Writers -> Statuses]
    /\ file \in Statuses /\ served \in Statuses /\ sent \in [Writers -> Seq(Statuses)]
    /\ chan \in [{Listener} -> Seq([from : Writers, n : Nat])]
    /\ count \in [Writers -> Nat] /\ todo \in [Writers -> SUBSET {Listener}] /\ subs \subseteq {Listener}

\* What waits in the channel was published; before the serve phase nothing was, and
\* while the server is up every update is for the listener.
MailInv ==
    /\ \A w \in Writers : /\ count[w] = Len(sent[w])
                          /\ IF wpc[w] = "publish" THEN count[w] > 0 ELSE todo[w] = {}
    /\ Len(chan[Listener]) < 2
    /\ chan[Listener] # <<>> =>
          LET e == Head(chan[Listener]) IN e.n \in 1..Len(sent[e.from])
    /\ monitor = "off" => Idle(Monitor)
    /\ at = "phases" => /\ monitor = "off" /\ served = Absent /\ subs = {} /\ chan[Listener] = <<>>
                        /\ server = "off" /\ \A w \in Writers : todo[w] = {}
    /\ server = "up" => subs = {Listener}

\* What is served once the channel is drained.
Latest ==
    IF chan[Listener] = <<>> THEN served
    ELSE LET e == Head(chan[Listener]) IN sent[e.from][e.n]

\* Whoever is inside UpdateIkniteCluster has handed on all it has to.
HandedOn == \A w \in Writers : Idle(w) \/ (wpc[w] = "publish" /\ todo[w] = {})

\* One update at a time: what the writer that is under way has done so far.
OneUpdate == \A w, v \in Writers : ~Idle(w) /\ ~Idle(v) => w = v
Progress ==
    /\ (\A w \in Writers : wpc[w] # "update") => cluster = Status(version, version)
    /\ \A w \in Writers :
          /\ ~Idle(w) => version > 0
          /\ wpc[w] = "update" => cluster.state = version /\ mine[w] = version
          /\ wpc[w] \in {"truncate", "write"} => json[w] = cluster
          /\ wpc[w] = "publish" => sent[w][count[w]] = cluster

\* Published statuses are whole; what is served is no newer than what waits, and is
\* up to date once all has been handed on.
SentWhole ==
    \A w \in Writers : \A i \in 1..Len(sent[w]) :
        sent[w][i].state = sent[w][i].work /\ sent[w][i].state <= version
ServedInv ==
    /\ served.state = served.work
    /\ served.state <= Latest.state /\ Latest.state <= version
    /\ server = "up" /\ "dropped" \notin excuses /\ HandedOn => Latest = cluster

UpdateInv == OneUpdate /\ Progress /\ SentWhole /\ ServedInv

FileInv ==
    /\ (\A w \in Writers : Idle(w)) => file = (IF version = 0 THEN Absent ELSE cluster)
    /\ \A w \in Writers :
          /\ wpc[w] \in {"update", "marshal", "truncate"} => file.state = file.work /\ file.state >= -1
          /\ wpc[w] = "write" => file = Empty
          /\ wpc[w] \in {"copy", "publish"} => file = cluster

PipelineInv ==
    /\ PipelineTypeOK /\ MailInv
    /\ "overlap" \notin excuses => UpdateInv
    /\ excuses \subseteq {"dropped"} => FileInv
=============================================================================
