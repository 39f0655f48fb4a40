---------------------------- MODULE ResourceWaiter ----------------------------
(***************************************************************************)
(* One namespace of kubewait: waitNamespaceResources and its               *)
(* resourceWaiter (pkg/kubewait/resources.go).                             *)
(*                                                                         *)
(* Four kinds of goroutines share the waiter: the one that waits and       *)
(* returns, the watcher that lists the resources of the namespace at each  *)
(* interval and restarts the poller when the list changed, the pollers     *)
(* with the observer processEvent, and the callback of the settle timer.   *)
(* The mutex protects single fields, so between two calls of one goroutine *)
(* the others may run.  A poller that was cancelled can still be inside    *)
(* processEvent with an event it had sent before, and Stop does not stop a *)
(* timer whose callback has begun.                                         *)
(*                                                                         *)
(* The poller of kstatus (external) reports an object when it sees it for  *)
(* the first time and when its status changes, and nothing in between.     *)
(***************************************************************************)
EXTENDS Integers, FiniteSets

CONSTANTS
    Objects,      \* the resources the namespace may contain
    MaxChanges,   \* bound on the changes of the namespace
    MaxPollers    \* bound on the pollers that are started

VARIABLES
    objs,      \* the resources of the namespace
    ready,     \* those whose status is Current
    changes,   \* how often the namespace has changed
    ctx,       \* the context with the time limit: "live" or "done"
    wpc,       \* where waitNamespaceResources is
    result,    \* what it returned: "none", "nil" or "error"
    cur,       \* currentDataSet
    held,      \* the list a restart is about to use
    watcher,   \* watchDataSetChanges: "off", "idle", "refreshed", "stop", "start", "ended"
    watchCtx,  \* watchDatasetCancel: "unset", "live" or "cancelled"
    pollers,   \* the pollers started so far, with the state of their collectors
    polling,   \* the poller pollCancel cancels, 0 for nil
    timer,     \* settleTimer: "nil", "armed" or "fired"
    callbacks, \* callbacks of the timer that have not reported yet
    endCh,     \* endChannel: "empty", "nil" or "error"
    basis      \* history: what the armed timer rests on: [set, seen]

world == <<objs, ready, changes>>
waiterVars == <<wpc, result, cur, held, watcher, watchCtx, pollers, polling, timer,
                callbacks, endCh, basis>>
wvars == <<world, ctx, waiterVars>>

Gens == 1..Cardinality(DOMAIN pollers)
NoBasis == [set |-> {}, seen |-> {}]

\* The context of the waiter: cancelled by the time limit and by the deferred cancel.
Cancelled == ctx = "done" \/ wpc = "returned"
WatchCancelled == Cancelled \/ watchCtx = "cancelled"
PollCancelled(g) == Cancelled \/ pollers[g].ctx = "cancelled"

Init ==
    /\ objs \in SUBSET Objects /\ ready \in SUBSET objs /\ changes = 0
    /\ ctx = "live" /\ wpc = "namespace" /\ result = "none"
    /\ cur = {} /\ held = {} /\ watcher = "off" /\ watchCtx = "unset"
    /\ pollers = <<>> /\ polling = 0 /\ timer = "nil" /\ callbacks = 0
    /\ endCh = "empty" /\ basis = NoBasis

----------------------------------------------------------------------------
(* The namespace and the time limit.                                        *)

\* An object is created, deleted, or its status changes.
Change(o) ==
    /\ wpc # "returned" /\ changes < MaxChanges /\ changes' = changes + 1
    /\ \/ o \notin objs /\ objs' = objs \cup {o} /\ UNCHANGED ready
       \/ o \in objs /\ objs' = objs \ {o} /\ ready' = ready \ {o}
       \/ o \in objs \ ready /\ ready' = ready \cup {o} /\ UNCHANGED objs
       \/ o \in ready /\ ready' = ready \ {o} /\ UNCHANGED objs
    /\ UNCHANGED <<ctx, waiterVars>>

\* The time limit is reached, or a signal arrives.
Timeout == ctx = "live" /\ ctx' = "done" /\ UNCHANGED <<world, waiterVars>>

----------------------------------------------------------------------------
(* The fields of the waiter, each changed under the mutex.                  *)

\* StartSettleTimer: a timer that exists is left alone.
StartSettleTimer(b) ==
    IF timer = "nil" THEN timer' = "armed" /\ basis' = b ELSE UNCHANGED <<timer, basis>>

\* StopSettleTimer: the callback of a timer that has fired goes on.
StopSettleTimer == timer' = "nil"

\* reportDone: the watch is cancelled, and the first report is kept.
ReportDone(r) ==
    /\ watchCtx' = IF watchCtx = "live" THEN "cancelled" ELSE watchCtx
    /\ endCh' = IF endCh = "empty" THEN r ELSE endCh

\* Deviation: restartPolling forgets to cancel the poller it replaces.
RestartStop_KeepsPoller ==
    /\ polling' = 0 /\ StopSettleTimer /\ cur' = held
    /\ UNCHANGED <<basis, pollers>>

\* restartPolling, up to setCurrentDataSet.
RestartStop ==
    /\ pollers' = [g \in Gens |-> IF g = polling THEN [pollers[g] EXCEPT !.ctx = "cancelled"]
                                                  ELSE pollers[g]]
    /\ polling' = 0 /\ StopSettleTimer /\ cur' = held
    /\ UNCHANGED basis

\* restartPolling: the settle timer for an empty namespace, or startPolling.
RestartStart ==
    IF cur = {}
    THEN StartSettleTimer(NoBasis) /\ UNCHANGED <<pollers, polling>>
    ELSE /\ Cardinality(Gens) < MaxPollers
         /\ polling' = Cardinality(Gens) + 1
         /\ pollers' = [g \in 1..polling' |->
                          IF g \in Gens THEN pollers[g]
                          ELSE [set |-> cur, known |-> {}, seen |-> {}, event |-> "none",
                                ctx |-> "live", run |-> "on"]]
         /\ UNCHANGED <<timer, basis>>

----------------------------------------------------------------------------
(* waitNamespaceResources and Start.                                        *)

Return(r) == wpc' = "returned" /\ result' = r

\* The namespace is polled for, then the grace period; both end with the context.  An
\* answer other than NotFound, and a client or poller that cannot be made, end the wait.
WaitNamespace ==
    /\ wpc = "namespace"
    /\ \/ wpc' = "refresh" /\ UNCHANGED result
       \/ Return("error")
    /\ UNCHANGED <<world, ctx, cur, held, watcher, watchCtx, pollers, polling, timer, callbacks,
                   endCh, basis>>

\* Start lists the resources; ObjectMetadataSetForNamespace gives up after three errors.
Refresh ==
    /\ wpc = "refresh"
    /\ \/ wpc' = "stop" /\ held' = objs /\ UNCHANGED result
       \/ Return("error") /\ UNCHANGED held
    /\ UNCHANGED <<world, ctx, cur, watcher, watchCtx, pollers, polling, timer, callbacks, endCh, basis>>

StartStop ==
    /\ wpc = "stop" /\ wpc' = "start" /\ RestartStop
    /\ UNCHANGED <<world, ctx, result, held, watcher, watchCtx, callbacks, endCh>>

StartStart ==
    /\ wpc = "start" /\ wpc' = "watch" /\ RestartStart
    /\ UNCHANGED <<world, ctx, result, cur, held, watcher, watchCtx, callbacks, endCh>>

\* The watcher is started last; without an interval it ends at once.
StartWatch ==
    /\ wpc = "watch" /\ wpc' = "select"
    /\ watchCtx' = "live" /\ watcher' \in {"idle", "ended"}
    /\ UNCHANGED <<world, ctx, result, cur, held, pollers, polling, timer, callbacks, endCh, basis>>

\* The final select: the end of the context, or the first report.
Select ==
    /\ wpc = "select"
    /\ \/ ctx = "done" /\ Return("error")
       \/ endCh # "empty" /\ Return(endCh)
    /\ UNCHANGED <<world, ctx, cur, held, watcher, watchCtx, pollers, polling, timer, callbacks,
                   endCh, basis>>

Main == WaitNamespace \/ Refresh \/ StartStop \/ StartStart \/ StartWatch \/ Select

----------------------------------------------------------------------------
(* watchDataSetChanges.                                                     *)

\* Deviation: the watcher is bound to its own context and not to that of the wait.
WatchEnds_OwnContext ==
    /\ watcher = "idle" /\ watchCtx = "cancelled" /\ watcher' = "ended"
    /\ UNCHANGED <<world, ctx, wpc, result, cur, held, watchCtx, pollers, polling, timer, callbacks,
                   endCh, basis>>

\* The context of the watcher ends it.
WatchEnds ==
    /\ watcher = "idle" /\ WatchCancelled /\ watcher' = "ended"
    /\ UNCHANGED <<world, ctx, wpc, result, cur, held, watchCtx, pollers, polling, timer, callbacks,
                   endCh, basis>>

\* The interval has passed: the resources are listed, or cannot be, which is reported.
WatchTick ==
    /\ watcher = "idle"
    /\ \/ /\ watcher' = "refreshed" /\ held' = objs /\ UNCHANGED <<watchCtx, endCh>>
       \/ /\ watcher' = "ended" /\ ReportDone("error") /\ UNCHANGED held
    /\ UNCHANGED <<world, ctx, wpc, result, cur, pollers, polling, timer, callbacks, basis>>

\* The new list is compared with the current one; a context that has ended is noticed.
WatchCompare ==
    /\ watcher = "refreshed"
    /\ watcher' = IF held = cur THEN "idle" ELSE IF WatchCancelled THEN "ended" ELSE "stop"
    /\ UNCHANGED <<world, ctx, wpc, result, cur, held, watchCtx, pollers, polling, timer, callbacks,
                   endCh, basis>>

WatchStop ==
    /\ watcher = "stop" /\ watcher' = "start" /\ RestartStop
    /\ UNCHANGED <<world, ctx, wpc, result, held, watchCtx, callbacks, endCh>>

WatchStart ==
    /\ watcher = "start" /\ watcher' = "idle" /\ RestartStart
    /\ UNCHANGED <<world, ctx, wpc, result, cur, held, watchCtx, callbacks, endCh>>

Watcher == WatchEnds \/ WatchTick \/ WatchCompare \/ WatchStop \/ WatchStart

----------------------------------------------------------------------------
(* The pollers and the settle timer.                                        *)

\* The status a reader gives: Current or not, of an Application too (Synced and Healthy).
StatusChanged(p, o) == o \notin p.known \/ ((o \in p.seen) # (o \in ready))

\* The poller sees an object for the first time or with another status.
PollEvent(g, o) ==
    LET p == pollers[g]
        s == IF o \in ready THEN p.seen \cup {o} ELSE p.seen \ {o}
    IN  /\ p.run = "on" /\ p.event = "none" /\ ~PollCancelled(g)
        /\ o \in p.set /\ StatusChanged(p, o)
        /\ pollers' = [pollers EXCEPT ![g] = [p EXCEPT !.known = @ \cup {o}, !.seen = s,
                                                       !.event = "sent"]]
        /\ UNCHANGED <<world, ctx, wpc, result, cur, held, watcher, watchCtx, polling, timer,
                       callbacks, endCh, basis>>

\* AggregateStatus: Current when every object is; one that was not seen yet is Unknown.
AllCurrent(p) == p.seen = p.set

\* Deviation: the objects that were not polled yet are not counted.
ProcessEvent_Known(g) ==
    LET p == pollers[g] IN
    /\ p.event = "sent"
    /\ pollers' = [pollers EXCEPT ![g].event = "none"]
    /\ IF p.seen = p.known
       THEN StartSettleTimer([set |-> p.set, seen |-> p.seen])
       ELSE StopSettleTimer /\ UNCHANGED basis
    /\ UNCHANGED <<world, ctx, wpc, result, cur, held, watcher, watchCtx, polling, callbacks, endCh>>

\* processEvent: the timer is started when all is Current and stopped when it is not.
ProcessEvent(g) ==
    LET p == pollers[g] IN
    /\ p.event = "sent"
    /\ pollers' = [pollers EXCEPT ![g].event = "none"]
    /\ IF AllCurrent(p)
       THEN StartSettleTimer([set |-> p.set, seen |-> p.seen])
       ELSE StopSettleTimer /\ UNCHANGED basis
    /\ UNCHANGED <<world, ctx, wpc, result, cur, held, watcher, watchCtx, polling, callbacks, endCh>>

\* The poller fails, which is reported, or ends because it was cancelled.
PollEnds(g) ==
    /\ pollers[g].run = "on" /\ pollers[g].event = "none"
    /\ pollers' = [pollers EXCEPT ![g].run = "ended"]
    /\ \/ PollCancelled(g) /\ UNCHANGED <<watchCtx, endCh>>
       \/ ~PollCancelled(g) /\ ReportDone("error")
    /\ UNCHANGED <<world, ctx, wpc, result, cur, held, watcher, polling, timer, callbacks, basis>>

\* The settle period is over: the callback begins.
TimerFires ==
    /\ timer = "armed" /\ timer' = "fired" /\ callbacks' = callbacks + 1
    /\ UNCHANGED <<world, ctx, wpc, result, cur, held, watcher, watchCtx, pollers, polling, endCh, basis>>

\* The callback reports the end.
Callback ==
    /\ callbacks > 0 /\ callbacks' = callbacks - 1 /\ ReportDone("nil")
    /\ UNCHANGED <<world, ctx, wpc, result, cur, held, watcher, pollers, polling, timer, basis>>

Poller(g) == (\E o \in Objects : PollEvent(g, o)) \/ ProcessEvent(g)

WaiterNext ==
    \/ Main \/ Watcher \/ TimerFires \/ Callback \/ Timeout
    \/ \E o \in Objects : Change(o)
    \/ \E g \in Gens : Poller(g) \/ PollEnds(g)

Spec == Init /\ [][WaiterNext]_wvars

\* Goroutines that can run do, the poller polls, the timer fires when nothing stops it.
\* The watcher's select sees a cancelled context before the interval has passed again.
Fairness ==
    /\ WF_wvars(Main) /\ WF_wvars(Watcher) /\ SF_wvars(WatchEnds)
    /\ WF_wvars(TimerFires) /\ WF_wvars(Callback)
    /\ \A g \in 1..MaxPollers : WF_wvars(g \in Gens /\ Poller(g))
    /\ \A g \in 1..MaxPollers : WF_wvars(g \in Gens /\ PollCancelled(g) /\ PollEnds(g))

FairSpec == Spec /\ Fairness

----------------------------------------------------------------------------
\* A namespace is reported ready only on a settle timer that was started when every
\* object of the list it was started for had been seen Current.
ReadyWasSeen == endCh = "nil" => basis.seen = basis.set

\* There is at most one poller that was not cancelled, so at most one whose later
\* events can start or stop the settle timer.
OnePoller == \A g, h \in Gens : pollers[g].ctx = "live" /\ pollers[h].ctx = "live" => g = h

\* Once the wait has returned, its watcher and its pollers end: kubewait goes on to the
\* bootstrap with none of them running.
NoLeak == wpc = "returned" ~> /\ watcher \in {"off", "ended"}
                              /\ \A g \in Gens : pollers[g].run = "ended"

\* "polls until every resource in that namespace is ready" (the comment of
\* waitNamespaceResources, pkg/kubewait/resources.go): when the namespace has come to
\* rest, every resource is ready and the waiter has the right list, the wait ends.
PollsUntilReady == <>[](objs = ready /\ cur = objs) => <>(wpc = "returned")

----------------------------------------------------------------------------
(* The inductive invariant.                                                 *)

PollerStates == [set : SUBSET Objects, known : SUBSET Objects, seen : SUBSET Objects,
                 event : {"none", "sent"}, ctx : {"live", "cancelled"}, run : {"on", "ended"}]

WaiterTypeOK ==
    /\ objs \in SUBSET Objects /\ cur \in SUBSET Objects /\ held \in SUBSET Objects
    /\ ctx \in {"live", "done"}
    /\ wpc \in {"namespace", "refresh", "stop", "start", "watch", "select", "returned"}
    /\ result \in {"none", "nil", "error"} /\ endCh \in {"empty", "nil", "error"}
    /\ watcher \in {"off", "idle", "refreshed", "stop", "start", "ended"}
    /\ IsFiniteSet(DOMAIN pollers) /\ pollers \in [Gens -> PollerStates]

\* Only the poller pollCancel cancels is live, and there is none between the two halves
\* of restartPolling; the watcher runs once Start has ended; the wait returns what was
\* reported, and every timer rests on a list of which all was seen.
WaiterInv ==
    /\ WaiterTypeOK
    /\ \A g \in Gens : pollers[g].ctx = "live" => g = polling
    /\ wpc = "start" \/ watcher = "start" => polling = 0
    /\ watcher # "off" => wpc \in {"select", "returned"}
    /\ (wpc = "returned" => result # "none") /\ (result = "nil" => endCh = "nil")
    /\ basis.seen = basis.set
=============================================================================
