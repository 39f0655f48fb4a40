----------------------------- MODULE ClusterConfig -----------------------------
(***************************************************************************)
(* The base configuration of the cluster: Kustomize (pkg/k8s/config.go),   *)
(* run by the kustomize phase of init and by "iknite kustomize", which     *)
(* then waits for the workloads (WaitOptions.Poll, pkg/utils/wait.go); and *)
(* the watch of the set-lb-ip phase, which gives the load balancers their  *)
(* address.  The runs share the API server and nothing else: there is no   *)
(* lock, a request can fail with or without effect, and a run can die.     *)
(***************************************************************************)
EXTENDS Integers, Sequences, FiniteSets

CONSTANTS
    Cluster, Namespaced,  \* the resources of the kustomization, by scope
    Services,             \* the services of type LoadBalancer
    Retries, OkResponses, \* the options of the wait; Retries is 0 for none
    MaxRuns,              \* bound on the runs of each runner
    MaxChanges,           \* bound on the times a resource becomes ready or unready
    MaxEdits              \* bound on the edits of a service by others

ASSUME DisjointScopes == Cluster \cap Namespaced = {}
ASSUME FiniteServices == IsFiniteSet(Services)

VARIABLES
    applied,   \* the resources in the cluster
    ready,     \* those that are ready
    cmap,      \* the ConfigMap iknite-config: its version (0: there is none) and field
    pc,        \* pc[r]: where the runner r is
    held,      \* held[r]: the ConfigMap it has read
    left,      \* left[r]: the resources it has still to apply
    outcome,   \* outcome[r]: how its last run ended
    runs,      \* runs[r]: how often it has run
    poll,      \* the wait: errors left, successes, and (history) the answers in a row
    changes,
    svc,       \* svc[s]: annotation, address and version of a service
    stream,    \* the events of the watch that have not been handled
    watch,     \* "none", "open", "closed" or "failed"
    missed,    \* an update of a service has failed for another reason than a conflict
    edits, patches

kustVars == <<applied, ready, cmap, pc, held, left, outcome, runs, poll, changes>>
lbVars == <<svc, stream, watch, missed, edits, patches>>
vars == <<kustVars, lbVars>>

Runners == {"init", "cmd"}
Resources == Cluster \cup Namespaced
NoMap == [rv |-> 0, configured |-> "no"]

Init ==
    /\ applied = {} /\ ready = {} /\ cmap = NoMap
    /\ pc = [r \in Runners |-> "idle"] /\ held = [r \in Runners |-> NoMap]
    /\ left = [r \in Runners |-> {}] /\ outcome = [r \in Runners |-> "none"]
    /\ runs = [r \in Runners |-> 0]
    /\ poll = [errors |-> 0, successes |-> 0, row |-> 0] /\ changes = 0
    /\ svc \in [Services -> [ann : {"yes", "no"}, ip : {"none"}, rv : {1}]]
    /\ stream = <<>> /\ watch = "none" /\ missed = "no" /\ edits = 0 /\ patches = 0

Goto(r, p) == pc' = [pc EXCEPT ![r] = p] /\ UNCHANGED outcome
End(r, o) == pc' = [pc EXCEPT ![r] = "idle"] /\ outcome' = [outcome EXCEPT ![r] = o]

----------------------------------------------------------------------------
(* Kustomize.                                                               *)

\* A run begins; a client that cannot be made, or for the command a cluster that does
\* not run, ends it.  The wait starts from nothing.
Begin(r) ==
    /\ pc[r] = "idle" /\ runs[r] < MaxRuns /\ runs' = [runs EXCEPT ![r] = @ + 1]
    /\ \/ pc' = [pc EXCEPT ![r] = "read"] /\ outcome' = [outcome EXCEPT ![r] = "none"]
       \/ End(r, "error")
    /\ poll' = IF r = "cmd" THEN [errors |-> Retries, successes |-> 0, row |-> 0] ELSE poll
    /\ UNCHANGED <<applied, ready, cmap, held, left, changes, lbVars>>

\* The phase of init, and the command, which waits for the workloads afterwards.
RunKustomizePhase == Begin("init")
PerformKustomize == Begin("cmd")
Success(r) == IF r = "cmd" THEN Goto(r, "poll") ELSE End(r, "nil")

\* A map that is not found counts as one that says no.
GetIkniteConfigMap(r) == held' = [held EXCEPT ![r] = cmap]
GetBaseKustomizationResources(r) == left' = [left EXCEPT ![r] = Resources]

\* Kustomize up to the resources.  An empty kustomization is nothing to do; a cluster that
\* is configured is configured again only if that is forced.
ReadMap(r) ==
    /\ pc[r] = "read"
    /\ \/ Success(r) /\ UNCHANGED <<held, left>>
       \/ GetIkniteConfigMap(r) /\ cmap.configured = "yes" /\ Success(r) /\ UNCHANGED left
       \/ GetIkniteConfigMap(r) /\ GetBaseKustomizationResources(r) /\ Goto(r, "apply")
       \/ End(r, "error") /\ UNCHANGED <<held, left>>
    /\ UNCHANGED <<applied, ready, cmap, runs, poll, changes, lbVars>>

\* ApplyResMapWithServerSideApply: the cluster-scoped resources first.
Pass(r) == IF left[r] \cap Cluster # {} THEN left[r] \cap Cluster ELSE left[r]

\* ApplyResourceInfosServerSide: the first error ends it, and the request that failed may
\* have had its effect.
Apply(r, x) ==
    /\ pc[r] = "apply" /\ x \in Pass(r)
    /\ \/ /\ applied' = applied \cup {x} /\ left' = [left EXCEPT ![r] = @ \ {x}]
          /\ UNCHANGED <<pc, outcome>>
       \/ /\ applied' \in {applied, applied \cup {x}} /\ left' = [left EXCEPT ![r] = {}]
          /\ End(r, "error")
    /\ UNCHANGED <<ready, cmap, held, runs, poll, changes, lbVars>>

Marked == [rv |-> cmap.rv + 1, configured |-> "yes"]

\* Deviation: the map is written when the configuration starts, to keep others out.
WriteMap_Early(r) ==
    /\ pc[r] = "apply" /\ left[r] = Resources /\ cmap # Marked
    /\ held[r].rv = cmap.rv /\ cmap' = Marked /\ UNCHANGED <<pc, outcome>>
    /\ UNCHANGED <<applied, ready, held, left, runs, poll, changes, lbVars>>

\* Deviation: the map that was read is written back as it was, with a new version.
WriteMap_Unconditional(r) ==
    /\ pc[r] = "apply" /\ left[r] = {}
    /\ \/ held[r].rv = cmap.rv /\ cmap' = [Marked EXCEPT !.configured = held[r].configured] /\ Success(r)
       \/ held[r].rv # cmap.rv /\ UNCHANGED cmap /\ End(r, "conflict")
    /\ UNCHANGED <<applied, ready, held, left, runs, poll, changes, lbVars>>

\* WriteIkniteConfigMap: a map that was not found is created, another one is updated;
\* the API server refuses both when there has been another write meanwhile.
WriteMap(r) ==
    /\ pc[r] = "apply" /\ left[r] = {}
    /\ \/ held[r].rv = cmap.rv /\ cmap' = Marked /\ Success(r)
       \/ held[r].rv # cmap.rv /\ UNCHANGED cmap /\ End(r, "conflict")
       \/ cmap' \in {cmap} \cup {m \in {Marked} : held[r].rv = cmap.rv} /\ End(r, "error")
    /\ UNCHANGED <<applied, ready, held, left, runs, poll, changes, lbVars>>

Kustomize(r) == ReadMap(r) \/ (\E x \in Resources : Apply(r, x)) \/ WriteMap(r)

Die(r) ==
    /\ pc[r] # "idle" /\ End(r, "died")
    /\ UNCHANGED <<applied, ready, cmap, held, left, runs, poll, changes, lbVars>>

Change(x) ==
    /\ x \in applied /\ changes < MaxChanges /\ changes' = changes + 1
    /\ ready' = IF x \in ready THEN ready \ {x} ELSE ready \cup {x}
    /\ UNCHANGED <<applied, cmap, pc, held, left, outcome, runs, poll, lbVars>>

----------------------------------------------------------------------------
(* WaitOptions.Poll over WorkloadsReadyConditionWithContextFunc.            *)

\* AllWorkloadStates, and the condition built on it.
AllReady == applied \subseteq ready
WorkloadsReadyCondition == {"error", IF AllReady THEN "ready" ELSE "unready"}

\* One answer of the condition.  The wrapper for the retries turns an error into "not
\* yet"; the one for the successes starts again at everything that is not a success.
PollOnce(answer) ==
    [errors |-> IF answer = "error" THEN poll.errors - 1 ELSE poll.errors,
     successes |-> IF answer = "ready" THEN poll.successes + 1 ELSE 0,
     row |-> IF answer = "ready" THEN poll.row + 1 ELSE 0]

\* Without retries the first error ends the wait; with them it is the call after the
\* last one, and the condition is not asked again.  The context can end at any time.
PollStep ==
    /\ pc["cmd"] = "poll"
    /\ \/ /\ Retries > 0 /\ poll.errors = 0 /\ End("cmd", "retries") /\ UNCHANGED poll
       \/ /\ Retries = 0 \/ poll.errors > 0
          /\ \E answer \in WorkloadsReadyCondition :
                /\ poll' = PollOnce(answer)
                /\ CASE answer = "error" /\ Retries = 0 -> End("cmd", "error")
                     [] poll'.successes >= OkResponses -> End("cmd", "ready")
                     [] OTHER -> UNCHANGED <<pc, outcome>>
       \/ End("cmd", "timeout") /\ UNCHANGED poll
    /\ UNCHANGED <<applied, ready, cmap, held, left, runs, changes, lbVars>>

----------------------------------------------------------------------------
(* The set-lb-ip phase.                                                     *)

Event(s, v) == [s |-> s, v |-> v]
Sent(s, v) == IF watch = "open" THEN Append(stream, Event(s, v)) ELSE stream

\* runSetLBIP, once init has configured the cluster: the watch begins with an event for
\* every service there is.
WatchStarts ==
    /\ watch = "none" /\ outcome["init"] = "nil"
    /\ \/ /\ watch' = "open"
          /\ \E order \in [1..Cardinality(Services) -> Services] :
                /\ \A s \in Services : \E i \in DOMAIN order : order[i] = s
                /\ stream' = [i \in DOMAIN order |-> Event(order[i], svc[order[i]])]
       \/ watch' = "failed" /\ UNCHANGED stream
    /\ UNCHANGED <<kustVars, svc, missed, edits, patches>>

\* Somebody else annotates a service, or takes its address away.
Edit(s) ==
    /\ edits < MaxEdits /\ edits' = edits + 1
    /\ \E a \in {"yes", "no"}, i \in {svc[s].ip, "none"} :
          LET v == [ann |-> a, ip |-> i, rv |-> svc[s].rv + 1]
          IN svc' = [svc EXCEPT ![s] = v] /\ stream' = Sent(s, v)
    /\ UNCHANGED <<kustVars, watch, missed, patches>>

\* Deviation: the address the service already has is not looked at.
ShouldPatch_Always(v) == v.ann = "yes"

\* Deviation: the addresses are compared the wrong way round.
ShouldPatch_Inverted(v) == v.ann = "yes" /\ v.ip = "ours"

\* shouldPatchServiceLBIP
ShouldPatch(v) == v.ann = "yes" /\ v.ip # "ours"

\* Deviation: the update is made with the version of the service now.
Update_LastWins(e) ==
    LET v == [ann |-> e.v.ann, ip |-> "ours", rv |-> svc[e.s].rv + 1]
    IN /\ svc' = [svc EXCEPT ![e.s] = v] /\ patches' = patches + 1
       /\ stream' = Append(Tail(stream), Event(e.s, v)) /\ UNCHANGED missed

\* patchServiceLBIP on the service of the event.  An error is logged, and nothing is
\* tried again: a conflict means that the event of another change is on its way.
Update(e) ==
    \/ /\ svc[e.s].rv = e.v.rv
       /\ LET v == [ann |-> e.v.ann, ip |-> "ours", rv |-> e.v.rv + 1]
          IN svc' = [svc EXCEPT ![e.s] = v] /\ stream' = Append(Tail(stream), Event(e.s, v))
       /\ patches' = patches + 1 /\ UNCHANGED missed
    \/ svc[e.s].rv # e.v.rv /\ stream' = Tail(stream) /\ UNCHANGED <<svc, patches, missed>>
    \/ missed' = "yes" /\ stream' = Tail(stream) /\ UNCHANGED <<svc, patches>>

\* watchSetLBIPServices, one event.
HandleEvent ==
    /\ watch = "open" /\ stream # <<>>
    /\ \/ ShouldPatch(Head(stream).v) /\ Update(Head(stream))
       \/ /\ ~ShouldPatch(Head(stream).v) /\ stream' = Tail(stream)
          /\ UNCHANGED <<svc, patches, missed>>
    /\ UNCHANGED <<kustVars, watch, edits>>

\* The channel is closed, or delivers an error; the goroutine ends.
WatchEnds ==
    /\ watch = "open" /\ watch' \in {"closed", "failed"} /\ stream' = <<>>
    /\ UNCHANGED <<kustVars, svc, missed, edits, patches>>

Next ==
    \/ RunKustomizePhase \/ PerformKustomize \/ PollStep
    \/ WatchStarts \/ HandleEvent \/ WatchEnds
    \/ \E r \in Runners : Kustomize(r) \/ Die(r)
    \/ \E x \in Resources : Change(x)
    \/ \E s \in Services : Edit(s)

Spec == Init /\ [][Next]_vars

\* The goroutine of the watch goes on as long as there are events.
FairSpec == Spec /\ WF_vars(HandleEvent)

----------------------------------------------------------------------------
\* A cluster that is marked as configured has every resource of the kustomization: a
\* run that fails or dies on the way leaves the mark away, whatever the other run does.
ConfiguredMeansApplied == cmap.configured = "yes" => Resources \subseteq applied

\* No namespaced resource is in a cluster that lacks one of the cluster-scoped.
ClusterScopedFirst == applied \cap Namespaced # {} => Cluster \subseteq applied

\* A run that fails because of another write of the map fails for nothing: the cluster
\* is configured.  There is no other loser of the race.
ConflictMeansConfigured ==
    \A r \in Runners : outcome[r] = "conflict" => cmap.configured = "yes"

\* What a run reports is so: the loser of the race leaves a configured cluster, and "iknite
\* kustomize" calls the workloads ready only after as many answers in a row as it was told
\* to wait for, with errors and unready answers in any order before them.
OutcomeIsTrue ==
    /\ ConflictMeansConfigured
    /\ outcome["cmd"] = "ready" => poll.row >= OkResponses

\* Every update of a service is an answer to what others have done: the event of an
\* update by iknite causes no other.
PatchesAreCaused == patches <= edits + Cardinality(Services)

\* An edit by others is never undone: an update with an old copy of a service is refused.
KeepsEdits == [][\A s \in Services : svc'[s].ann # svc[s].ann => edits' # edits]_vars

\* A service that asks for the address gets it, however edits and updates interleave,
\* unless an update fails or the watch ends.
AddressIsSet ==
    \A s \in Services :
        watch = "open" /\ svc[s].ann = "yes" /\ svc[s].ip = "none"
            ~> svc[s].ip = "ours" \/ svc[s].ann = "no" \/ watch # "open" \/ missed = "yes"

----------------------------------------------------------------------------
(* The inductive invariants.                                                *)

Maps == [rv : Nat, configured : {"yes", "no"}]

KustTypeOK ==
    /\ applied \in SUBSET Resources
    /\ cmap \in Maps
    /\ pc \in [Runners -> {"idle", "read", "apply", "poll"}]
    /\ held \in [Runners -> Maps]
    /\ left \in [Runners -> SUBSET Resources]
    /\ outcome \in [Runners -> {"none", "nil", "error", "conflict", "died", "ready", "retries", "timeout"}]

\* A run that applies has applied what it has not left, and holds a map that is not
\* newer than the one there is; every version but the first says that it is configured.
KustInv ==
    /\ KustTypeOK
    /\ \A r \in Runners : pc[r] = "apply" => /\ Resources \ left[r] \subseteq applied
                                             /\ held[r].rv <= cmap.rv
    /\ cmap.rv > 0 => cmap.configured = "yes"
    /\ ConfiguredMeansApplied /\ ClusterScopedFirst /\ ConflictMeansConfigured

Versions == [ann : {"yes", "no"}, ip : {"none", "ours"}, rv : Nat]
Events == [s : Services, v : Versions]

\* An event holds a version of its service that is older than the service, or its equal.
EventIsVersion(e) ==
    e.v.rv <= svc[e.s].rv /\ (e.v.rv = svc[e.s].rv => e.v = svc[e.s])

WatchInv ==
    /\ svc \in [Services -> Versions]
    /\ stream \in Seq(Events)
    /\ \A i \in 1..Len(stream) : EventIsVersion(stream[i])

\* A wait that goes on has no outcome yet, and counts every answer of the row.
PollInv ==
    /\ poll.successes = poll.row
    /\ pc["cmd"] # "idle" => outcome["cmd"] = "none"
    /\ outcome["cmd"] = "ready" => poll.row >= OkResponses

\* The services an update could still be made for.
Unset == {s \in Services : svc[s].ip # "ours"}

\* An update takes one of them away, and only an edit makes one again.
CauseInv ==
    /\ patches \in Nat /\ edits \in Nat
    /\ patches + Cardinality(Unset) <= edits + Cardinality(Services)
=============================================================================
