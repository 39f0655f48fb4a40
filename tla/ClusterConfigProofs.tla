-------------------------- MODULE ClusterConfigProofs --------------------------
(***************************************************************************)
(* Proofs about the base configuration and the load balancer watch, for    *)
(* every kustomization, every number of runs and every number of edits.    *)
(***************************************************************************)
EXTENDS ClusterConfig, FiniteSetTheorems, TLAPS

\* No run has begun.
LEMMA InitKust == ASSUME Init PROVE KustInv
<1>1. KustTypeOK
    BY DEF Init, KustTypeOK, Maps, NoMap, Resources
<1>2. QED
    BY <1>1 DEF Init, KustInv, NoMap, ConfiguredMeansApplied, ClusterScopedFirst,
                ConflictMeansConfigured

\* What KustInv says about a runner that a step does not touch, or that it ends.
\* The cluster and the map only grow.
LEMMA KeepsRuns ==
    ASSUME KustInv, KustTypeOK', applied \subseteq applied', cmap' = cmap,
           ClusterScopedFirst',
           \A r \in Runners :
               /\ pc'[r] = "apply" =>
                     /\ Resources \ left'[r] \subseteq applied'
                     /\ held'[r].rv <= cmap.rv
               /\ outcome'[r] = "conflict" => outcome[r] = "conflict" \/ cmap.configured = "yes"
    PROVE  KustInv'
<1>1. ConfiguredMeansApplied' /\ ConflictMeansConfigured'
    BY DEF KustInv, ConfiguredMeansApplied, ConflictMeansConfigured
<1>2. QED
    BY <1>1 DEF KustInv

\* A run begins.
LEMMA BeginKust == ASSUME KustInv, NEW r \in Runners, Begin(r) PROVE KustInv'
<1>1. UNCHANGED <<applied, cmap, held, left>>
    BY DEF Begin
<1>2. /\ pc' \in [Runners -> {"idle", "read", "apply", "poll"}]
      /\ outcome' \in [Runners -> {"none", "nil", "error", "conflict", "died", "ready",
                                   "retries", "timeout"}]
      /\ \A q \in Runners : /\ pc'[q] = "apply" => pc[q] = "apply"
                            /\ outcome'[q] = "conflict" => outcome[q] = "conflict"
    BY DEF KustInv, KustTypeOK, Begin, End
<1>3. KustTypeOK' /\ ClusterScopedFirst'
    BY <1>1, <1>2 DEF KustInv, KustTypeOK, ClusterScopedFirst
<1>4. QED
    BY <1>1, <1>2, <1>3, KeepsRuns DEF KustInv

\* A run reads the map, and has all the resources to apply or none.
LEMMA ReadKust == ASSUME KustInv, NEW r \in Runners, ReadMap(r) PROVE KustInv'
<1>1. UNCHANGED <<applied, cmap>> /\ pc[r] = "read"
    BY DEF ReadMap
<1>2. /\ held' = held \/ held' = [held EXCEPT ![r] = cmap]
      /\ left' = left \/ left' = [left EXCEPT ![r] = Resources]
    BY DEF ReadMap, GetIkniteConfigMap, GetBaseKustomizationResources
<1>3. \/ End(r, "nil") \/ End(r, "error") \/ Goto(r, "poll")
      \/ /\ Goto(r, "apply") /\ held' = [held EXCEPT ![r] = cmap]
         /\ left' = [left EXCEPT ![r] = Resources]
    BY DEF ReadMap, Success, GetIkniteConfigMap, GetBaseKustomizationResources
<1>4. /\ pc' \in [Runners -> {"idle", "read", "apply", "poll"}]
      /\ outcome' \in [Runners -> {"none", "nil", "error", "conflict", "died", "ready",
                                   "retries", "timeout"}]
      /\ \A q \in Runners : q # r => pc'[q] = pc[q] /\ outcome'[q] = outcome[q]
      /\ outcome'[r] \in {"nil", "error", outcome[r]}
      /\ pc'[r] = "apply" => held'[r] = cmap /\ left'[r] = Resources
    <2>1. CASE End(r, "nil") \/ End(r, "error")
        BY <2>1 DEF End, KustInv, KustTypeOK
    <2>2. CASE Goto(r, "poll")
        BY <2>2 DEF Goto, KustInv, KustTypeOK
    <2>3. CASE /\ Goto(r, "apply") /\ held' = [held EXCEPT ![r] = cmap]
               /\ left' = [left EXCEPT ![r] = Resources]
        BY <2>3 DEF Goto, KustInv, KustTypeOK
    <2>4. QED
        BY <1>3, <2>1, <2>2, <2>3
<1>5. KustTypeOK' /\ ClusterScopedFirst'
    BY <1>1, <1>2, <1>4 DEF KustInv, KustTypeOK, ClusterScopedFirst
<1>6. \A q \in Runners : q # r => held'[q] = held[q] /\ left'[q] = left[q]
    BY <1>2 DEF KustInv, KustTypeOK
<1>7. \A q \in Runners : pc'[q] = "apply" => /\ Resources \ left'[q] \subseteq applied'
                                             /\ held'[q].rv <= cmap.rv
    BY <1>1, <1>4, <1>6 DEF KustInv, KustTypeOK, Maps
<1>8. \A q \in Runners : outcome'[q] = "conflict" => outcome[q] = "conflict"
    BY <1>4
<1>9. QED
    BY <1>1, <1>5, <1>7, <1>8, KeepsRuns

\* One resource is applied, or its request fails and ends the run.
LEMMA ApplyKust ==
    ASSUME KustInv, NEW r \in Runners, NEW x \in Resources, Apply(r, x)
    PROVE  KustInv'
<1>1. /\ pc[r] = "apply" /\ x \in Pass(r) /\ UNCHANGED <<cmap, held>>
      /\ applied \subseteq applied' /\ applied' \subseteq applied \cup {x}
    BY DEF Apply
<1>2. \/ x \in applied' /\ left' = [left EXCEPT ![r] = left[r] \ {x}] /\ UNCHANGED <<pc, outcome>>
      \/ left' = [left EXCEPT ![r] = {}] /\ End(r, "error")
    BY DEF Apply
<1>3. KustTypeOK'
    BY <1>1, <1>2 DEF KustInv, KustTypeOK, End
<1>4. ClusterScopedFirst'
    <2>1. CASE left[r] \cap Cluster # {}
        <3>1. x \notin Namespaced
            BY <1>1, <2>1, DisjointScopes DEF Pass
        <3>2. QED
            BY <1>1, <3>1 DEF KustInv, ClusterScopedFirst
    <2>2. CASE left[r] \cap Cluster = {}
        <3>1. Cluster \subseteq applied
            BY <1>1, <2>2 DEF KustInv, Resources
        <3>2. QED
            BY <1>1, <3>1 DEF ClusterScopedFirst
    <2>3. QED
        BY <2>1, <2>2
<1>5. \A q \in Runners :
          /\ pc'[q] = "apply" => /\ Resources \ left'[q] \subseteq applied'
                                 /\ held'[q].rv <= cmap.rv
          /\ outcome'[q] = "conflict" => outcome[q] = "conflict"
    <2>1. CASE /\ x \in applied' /\ left' = [left EXCEPT ![r] = left[r] \ {x}]
               /\ UNCHANGED <<pc, outcome>>
        BY <1>1, <2>1 DEF KustInv, KustTypeOK
    <2>2. CASE left' = [left EXCEPT ![r] = {}] /\ End(r, "error")
        BY <1>1, <2>2 DEF KustInv, KustTypeOK, End
    <2>3. QED
        BY <1>2, <2>1, <2>2
<1>6. QED
    BY <1>1, <1>3, <1>4, <1>5, KeepsRuns

\* The map is written, by a run that has applied everything, or the write is refused.
LEMMA WriteKust == ASSUME KustInv, NEW r \in Runners, WriteMap(r) PROVE KustInv'
<1>1. /\ pc[r] = "apply" /\ left[r] = {} /\ UNCHANGED <<applied, held, left>>
      /\ Resources \subseteq applied
    BY DEF WriteMap, KustInv, KustTypeOK
<1>2. \/ cmap' = Marked /\ (End(r, "nil") \/ End(r, "error") \/ Goto(r, "poll"))
      \/ cmap' = cmap /\ End(r, "error")
      \/ cmap' = cmap /\ End(r, "conflict") /\ held[r].rv # cmap.rv
    BY DEF WriteMap, Success
<1>3. /\ pc' \in [Runners -> {"idle", "read", "apply", "poll"}]
      /\ outcome' \in [Runners -> {"none", "nil", "error", "conflict", "died", "ready",
                                   "retries", "timeout"}]
      /\ \A q \in Runners : q # r => pc'[q] = pc[q] /\ outcome'[q] = outcome[q]
      /\ pc'[r] # "apply"
    <2>1. CASE End(r, "nil") \/ End(r, "error") \/ End(r, "conflict")
        BY <2>1 DEF KustInv, KustTypeOK, End
    <2>2. CASE Goto(r, "poll")
        BY <2>2 DEF KustInv, KustTypeOK, Goto
    <2>3. QED
        BY <1>2, <2>1, <2>2
<1>4. CASE cmap' = Marked
    <2>1. cmap' \in Maps /\ cmap'.configured = "yes" /\ cmap'.rv = cmap.rv + 1
        BY <1>4 DEF Marked, Maps, KustInv, KustTypeOK
    <2>2. KustTypeOK'
        BY <1>1, <1>3, <2>1 DEF KustInv, KustTypeOK
    <2>3. \A q \in Runners : pc'[q] = "apply" => /\ Resources \ left'[q] \subseteq applied'
                                                 /\ held'[q].rv <= cmap'.rv
        BY <1>1, <1>3, <2>1 DEF KustInv, KustTypeOK, Maps
    <2>4. ConfiguredMeansApplied' /\ ClusterScopedFirst' /\ ConflictMeansConfigured'
        BY <1>1, <2>1 DEF KustInv, ConfiguredMeansApplied, ClusterScopedFirst,
                          ConflictMeansConfigured
    <2>5. QED
        BY <2>1, <2>2, <2>3, <2>4 DEF KustInv
<1>5. CASE cmap' = cmap
    <2>1. KustTypeOK' /\ ClusterScopedFirst'
        BY <1>1, <1>3, <1>5 DEF KustInv, KustTypeOK, ClusterScopedFirst
    <2>2. outcome'[r] = "conflict" => outcome[r] = "conflict" \/ cmap.configured = "yes"
        <3>1. CASE held[r].rv # cmap.rv
            BY <1>1, <3>1 DEF KustInv, KustTypeOK, Maps
        <3>2. CASE End(r, "nil") \/ End(r, "error") \/ Goto(r, "poll")
            BY <3>2 DEF End, Goto, KustInv, KustTypeOK
        <3>3. QED
            BY <1>2, <3>1, <3>2
    <2>3. \A q \in Runners :
              /\ pc'[q] = "apply" => /\ Resources \ left'[q] \subseteq applied'
                                     /\ held'[q].rv <= cmap.rv
              /\ outcome'[q] = "conflict" => outcome[q] = "conflict" \/ cmap.configured = "yes"
        BY <1>1, <1>3, <2>2 DEF KustInv
    <2>4. QED
        BY <1>1, <1>5, <2>1, <2>3, KeepsRuns
<1>6. QED
    BY <1>2, <1>4, <1>5

\* A run dies, or the command waits for the workloads: the cluster does not change.
LEMMA EndKust ==
    ASSUME KustInv, PollStep \/ \E r \in Runners : Die(r)
    PROVE  KustInv'
<1>1. UNCHANGED <<applied, cmap, held, left>>
    BY DEF PollStep, Die
<1>2. /\ pc' \in [Runners -> {"idle", "read", "apply", "poll"}]
      /\ outcome' \in [Runners -> {"none", "nil", "error", "conflict", "died", "ready",
                                   "retries", "timeout"}]
      /\ \A q \in Runners : /\ pc'[q] = "apply" => pc[q] = "apply"
                            /\ outcome'[q] = "conflict" => outcome[q] = "conflict"
    <2>1. \/ UNCHANGED <<pc, outcome>>
          \/ \E r \in Runners, o \in {"error", "died", "ready", "retries", "timeout"} : End(r, o)
        BY DEF PollStep, Die, Runners
    <2>2. QED
        BY <2>1 DEF KustInv, KustTypeOK, End
<1>3. KustTypeOK' /\ ClusterScopedFirst'
    BY <1>1, <1>2 DEF KustInv, KustTypeOK, ClusterScopedFirst
<1>4. QED
    BY <1>1, <1>2, <1>3, KeepsRuns DEF KustInv

\* Every step keeps the invariant of the configuration; those of the watch and of the
\* workloads do not touch it.
LEMMA NextKust == ASSUME KustInv, [Next]_vars PROVE KustInv'
<1>1. CASE UNCHANGED <<applied, cmap, pc, held, left, outcome>>
    <2>1. KustTypeOK' /\ ClusterScopedFirst'
        BY <1>1 DEF KustInv, KustTypeOK, ClusterScopedFirst
    <2>2. QED
        BY <1>1, <2>1, KeepsRuns DEF KustInv
<1>2. CASE RunKustomizePhase \/ PerformKustomize
    BY <1>2, BeginKust DEF RunKustomizePhase, PerformKustomize, Runners
<1>3. CASE \E r \in Runners : Kustomize(r)
    BY <1>3, ReadKust, ApplyKust, WriteKust DEF Kustomize
<1>4. CASE PollStep \/ \E r \in Runners : Die(r)
    BY <1>4, EndKust
<1>5. QED
    BY <1>1, <1>2, <1>3, <1>4 DEF Next, vars, kustVars, WatchStarts, HandleEvent, WatchEnds,
                                  Change, Edit

----------------------------------------------------------------------------
(* The watch of the services.                                               *)

\* There is no event before the watch starts.
LEMMA InitWatch == ASSUME Init PROVE WatchInv
    BY DEF Init, WatchInv, Versions

\* Taking the first event away keeps what is known of the others.
LEMMA TailWatch ==
    ASSUME WatchInv, stream # <<>>, NEW t, t = Tail(stream)
    PROVE  /\ t \in Seq(Events)
           /\ \A i \in 1..Len(t) : EventIsVersion(t[i])
    BY DEF WatchInv

\* A service gets its next version, which is sent to those that watch.
LEMMA NewVersion ==
    ASSUME WatchInv, NEW s \in Services, NEW v \in Versions, v.rv = svc[s].rv + 1,
           svc' = [svc EXCEPT ![s] = v],
           NEW t \in Seq(Events),
           \A i \in 1..Len(t) : EventIsVersion(t[i]),
           stream' = Append(t, Event(s, v)) \/ stream' = t
    PROVE  WatchInv'
<1>1. svc' \in [Services -> Versions] /\ svc'[s] = v
    BY DEF WatchInv
<1>2. Event(s, v) \in Events /\ Event(s, v).s = s /\ Event(s, v).v = v
    BY DEF Event, Events
<1>3. \A i \in 1..Len(t) : EventIsVersion(t[i])'
    <2>1. SUFFICES ASSUME NEW i \in 1..Len(t)
                   PROVE  /\ t[i].v.rv <= svc'[t[i].s].rv
                          /\ t[i].v.rv = svc'[t[i].s].rv => t[i].v = svc'[t[i].s]
        BY DEF EventIsVersion
    <2>2. t[i] \in Events /\ EventIsVersion(t[i])
        BY <2>1
    <2>3. CASE t[i].s = s
        <3>1. t[i].v.rv \in Nat /\ svc[s].rv \in Nat /\ v.rv \in Nat
            BY <2>2, <2>3 DEF WatchInv, Events, Versions
        <3>2. t[i].v.rv <= svc[s].rv
            BY <2>2, <2>3 DEF EventIsVersion
        <3>3. QED
            BY <1>1, <2>3, <3>1, <3>2
    <2>4. CASE t[i].s # s
        BY <2>2, <2>4 DEF EventIsVersion, WatchInv, Events
    <2>5. QED
        BY <2>3, <2>4
<1>4. CASE stream' = t
    BY <1>1, <1>3, <1>4 DEF WatchInv
<1>5. CASE stream' = Append(t, Event(s, v))
    <2>1. stream' \in Seq(Events) /\ Len(stream') = Len(t) + 1
        BY <1>2, <1>5
    <2>2. \A i \in 1..Len(stream') : stream'[i] = IF i <= Len(t) THEN t[i] ELSE Event(s, v)
        BY <1>2, <1>5
    <2>3. EventIsVersion(Event(s, v))'
        <3>1. v.rv \in Nat
            BY DEF Versions
        <3>2. QED
            BY <1>1, <1>2, <3>1 DEF EventIsVersion
    <2>4. (\A i \in 1..Len(stream) : EventIsVersion(stream[i]))'
        <3>1. SUFFICES ASSUME NEW i \in 1..Len(stream') PROVE EventIsVersion(stream[i])'
            OBVIOUS
        <3>2. CASE i \in 1..Len(t)
            <4>1. stream'[i] = t[i]
                BY <2>2, <3>2
            <4>2. QED
                BY <1>3, <3>2, <4>1 DEF EventIsVersion
        <3>3. CASE i = Len(t) + 1
            <4>1. stream'[i] = Event(s, v)
                BY <2>2, <3>3
            <4>2. QED
                BY <2>3, <4>1 DEF EventIsVersion
        <3>4. QED
            BY <2>1, <3>2, <3>3
    <2>5. QED
        BY <1>1, <2>1, <2>4 DEF WatchInv
<1>6. QED
    BY <1>4, <1>5

\* The watch begins with the versions there are.
LEMMA StartWatch == ASSUME WatchInv, WatchStarts PROVE WatchInv'
<1>1. svc' = svc
    BY DEF WatchStarts
<1>2. CASE stream' = stream
    BY <1>1, <1>2 DEF WatchInv, EventIsVersion
<1>3. CASE stream' # stream
    <2>1. PICK order \in [1..Cardinality(Services) -> Services] :
              stream' = [i \in DOMAIN order |-> Event(order[i], svc[order[i]])]
        BY <1>3 DEF WatchStarts
    <2>2. DEFINE n == Cardinality(Services)
    <2>3. n \in Nat
        BY FiniteServices, FS_CardinalityType
    <2>4. stream' = [i \in 1..n |-> Event(order[i], svc[order[i]])]
        BY <2>1
    <2>5. \A i \in 1..n : /\ Event(order[i], svc[order[i]]) \in Events
                          /\ Event(order[i], svc[order[i]]).v = svc[order[i]]
                          /\ Event(order[i], svc[order[i]]).s = order[i]
                          /\ svc[order[i]].rv \in Nat
        BY <2>1 DEF Event, Events, WatchInv, Versions
    <2> HIDE DEF n
    <2>6. stream' \in Seq(Events) /\ Len(stream') = n
        BY <2>3, <2>4, <2>5
    <2>7. (\A i \in 1..Len(stream) : EventIsVersion(stream[i]))'
        <3>1. SUFFICES ASSUME NEW i \in 1..n
                       PROVE  /\ stream'[i].v.rv <= svc[stream'[i].s].rv
                              /\ stream'[i].v = svc[stream'[i].s]
            BY <1>1, <2>6 DEF EventIsVersion
        <3>2. stream'[i] = Event(order[i], svc[order[i]])
            BY <2>4, <3>1
        <3>3. stream'[i].v = svc[order[i]] /\ stream'[i].s = order[i] /\ svc[order[i]].rv \in Nat
            BY <2>5, <3>1, <3>2
        <3>4. QED
            BY <3>3
    <2>8. QED
        BY <1>1, <2>6, <2>7 DEF WatchInv
<1>4. QED
    BY <1>2, <1>3

\* Somebody edits a service.
LEMMA EditWatch == ASSUME WatchInv, NEW s \in Services, Edit(s) PROVE WatchInv'
<1>1. PICK ann \in {"yes", "no"}, ip \in {svc[s].ip, "none"} :
          /\ svc' = [svc EXCEPT ![s] = [ann |-> ann, ip |-> ip, rv |-> svc[s].rv + 1]]
          /\ stream' = Sent(s, [ann |-> ann, ip |-> ip, rv |-> svc[s].rv + 1])
    BY DEF Edit
<1>2. DEFINE v == [ann |-> ann, ip |-> ip, rv |-> svc[s].rv + 1]
<1>3. v \in Versions /\ v.rv = svc[s].rv + 1
    BY DEF WatchInv, Versions
<1>4. svc' = [svc EXCEPT ![s] = v] /\ (stream' = Append(stream, Event(s, v)) \/ stream' = stream)
    BY <1>1 DEF Sent
<1> HIDE DEF v
<1>5. stream \in Seq(Events) /\ \A i \in 1..Len(stream) : EventIsVersion(stream[i])
    BY DEF WatchInv
<1>6. QED
    BY <1>3, <1>4, <1>5, NewVersion

\* An event is handled: the service has the version of the event, and gets the next, or
\* it stays as it is.
LEMMA HandleFacts ==
    ASSUME WatchInv, HandleEvent
    PROVE  \/ svc' = svc /\ stream' = Tail(stream)
           \/ \E s \in Services, v \in Versions :
                  /\ svc' = [svc EXCEPT ![s] = v] /\ v.rv = svc[s].rv + 1 /\ v.ann = svc[s].ann
                  /\ stream' = Append(Tail(stream), Event(s, v))
<1>1. CASE svc' = svc /\ stream' = Tail(stream)
    BY <1>1
<1>2. CASE ~(svc' = svc /\ stream' = Tail(stream))
    <2>1. DEFINE e == Head(stream)
    <2>2. e \in Events /\ EventIsVersion(e)
        <3>1. stream # <<>> /\ stream \in Seq(Events)
            BY DEF WatchInv, HandleEvent
        <3>2. 1 \in 1..Len(stream) /\ e = stream[1]
            BY <3>1
        <3>3. QED
            BY <3>1, <3>2 DEF WatchInv
    <2>3. DEFINE v == [ann |-> e.v.ann, ip |-> "ours", rv |-> e.v.rv + 1]
    <2>4. /\ svc[e.s].rv = e.v.rv /\ svc' = [svc EXCEPT ![e.s] = v]
          /\ stream' = Append(Tail(stream), Event(e.s, v))
        BY <1>2 DEF HandleEvent, Update
    <2> HIDE DEF e
    <2>5. e.s \in Services /\ e.v \in Versions /\ e.v = svc[e.s]
        BY <2>2, <2>4 DEF Events, EventIsVersion
    <2>6. v \in Versions /\ v.rv = svc[e.s].rv + 1 /\ v.ann = svc[e.s].ann
        BY <2>5 DEF Versions
    <2> HIDE DEF v
    <2>7. QED
        BY <2>4, <2>5, <2>6
<1>3. QED
    BY <1>1, <1>2

\* Handling an event keeps the invariant.
LEMMA HandleWatch == ASSUME WatchInv, HandleEvent PROVE WatchInv'
<1>1. stream # <<>>
    BY DEF HandleEvent
<1>2. Tail(stream) \in Seq(Events) /\ \A i \in 1..Len(Tail(stream)) : EventIsVersion(Tail(stream)[i])
    BY <1>1, TailWatch
<1>3. CASE svc' = svc /\ stream' = Tail(stream)
    BY <1>2, <1>3 DEF WatchInv, EventIsVersion
<1>4. CASE ~(svc' = svc /\ stream' = Tail(stream))
    BY <1>2, <1>4, HandleFacts, NewVersion
<1>5. QED
    BY <1>3, <1>4

\* Every step keeps the invariant of the watch.
LEMMA NextWatch == ASSUME WatchInv, [Next]_vars PROVE WatchInv'
<1>1. CASE UNCHANGED <<svc, stream>>
    BY <1>1 DEF WatchInv, EventIsVersion
<1>2. CASE WatchEnds
    BY <1>2 DEF WatchEnds, WatchInv
<1>3. CASE WatchStarts \/ HandleEvent \/ \E s \in Services : Edit(s)
    BY <1>3, StartWatch, HandleWatch, EditWatch
<1>4. QED
    BY <1>1, <1>2, <1>3
    DEF Next, vars, lbVars, RunKustomizePhase, PerformKustomize, Begin, PollStep, Kustomize,
        ReadMap, Apply, WriteMap, Die, Change

----------------------------------------------------------------------------
\* Kustomize, from init and from the command, keeps KustInv.
THEOREM ConfigurationInvariance == Spec => []KustInv
    BY InitKust, NextKust, PTL DEF Spec

\* The ConfigMap says that the cluster is configured only when it is.
THEOREM MarkedAfterApplied == Spec => []ConfiguredMeansApplied
<1>1. KustInv => ConfiguredMeansApplied
    BY DEF KustInv
<1>2. QED
    BY <1>1, ConfigurationInvariance, PTL

\* ApplyResMapWithServerSideApply keeps its order in the cluster, with two runs at once.
THEOREM ScopesInOrder == Spec => []ClusterScopedFirst
<1>1. KustInv => ClusterScopedFirst
    BY DEF KustInv
<1>2. QED
    BY <1>1, ConfigurationInvariance, PTL

\* A refused write of the ConfigMap leaves a cluster that is configured.
THEOREM ConflictIsHarmless == Spec => []ConflictMeansConfigured
<1>1. KustInv => ConflictMeansConfigured
    BY DEF KustInv
<1>2. QED
    BY <1>1, ConfigurationInvariance, PTL

\* patchServiceLBIP never undoes an annotation that was made after its event was sent.
THEOREM EditsAreKept == Spec => KeepsEdits
<1>1. WatchInv /\ edits \in Nat /\ [Next]_vars =>
          [\A s \in Services : svc'[s].ann # svc[s].ann => edits' # edits]_vars
    <2>1. SUFFICES ASSUME WatchInv, edits \in Nat, Next, edits' = edits, NEW s \in Services
                   PROVE  svc'[s].ann = svc[s].ann
        OBVIOUS
    <2>2. CASE svc' = svc
        BY <2>2
    <2>3. CASE HandleEvent
        BY <2>1, <2>3, HandleFacts DEF WatchInv
    <2>4. CASE \E t \in Services : Edit(t)
        BY <2>1, <2>4 DEF Edit
    <2>5. QED
        BY <2>1, <2>2, <2>3, <2>4
        DEF Next, lbVars, RunKustomizePhase, PerformKustomize, Begin, PollStep, Kustomize,
            ReadMap, Apply, WriteMap, Die, Change, WatchStarts, WatchEnds
<1>2. Spec => []WatchInv
    BY InitWatch, NextWatch, PTL DEF Spec
<1>3. Spec => [](edits \in Nat)
    <2>1. Init => edits \in Nat
        BY DEF Init
    <2>2. edits \in Nat /\ [Next]_vars => (edits \in Nat)'
        <3>1. SUFFICES ASSUME edits \in Nat, [Next]_vars PROVE edits' \in Nat
            OBVIOUS
        <3>2. CASE \E s \in Services : Edit(s)
            BY <3>1, <3>2 DEF Edit
        <3>3. CASE edits' = edits
            BY <3>1, <3>3
        <3>4. QED
            BY <3>1, <3>2, <3>3
            DEF Next, vars, lbVars, RunKustomizePhase, PerformKustomize, Begin, PollStep,
                Kustomize, ReadMap, Apply, WriteMap, Die, Change, WatchStarts, HandleEvent,
                WatchEnds
    <2>3. QED
        BY <2>1, <2>2, PTL DEF Spec
<1>4. QED
    BY <1>1, <1>2, <1>3, PTL DEF Spec, KeepsEdits

----------------------------------------------------------------------------
(* The wait for the workloads.                                              *)

\* One answer of WaitOptions.Poll: the successes it counts are the answers in a row, and
\* it ends as ready only when there are enough of them.
LEMMA PollStepPoll == ASSUME KustTypeOK, PollInv, PollStep PROVE PollInv'
<1>1. pc["cmd"] = "poll" /\ outcome["cmd"] = "none"
    BY DEF PollStep, PollInv
<1>2. \A o : End("cmd", o) => pc'["cmd"] = "idle" /\ outcome'["cmd"] = o
    BY DEF End, KustTypeOK, Runners
<1>3. CASE UNCHANGED poll
    <2>1. End("cmd", "retries") \/ End("cmd", "timeout") \/ End("cmd", "error")
            \/ End("cmd", "ready") \/ UNCHANGED <<pc, outcome>>
        BY DEF PollStep
    <2>2. CASE End("cmd", "ready") /\ poll'.successes >= OkResponses
        BY <1>2, <1>3, <2>2 DEF PollInv
    <2>3. CASE End("cmd", "retries") \/ End("cmd", "timeout") \/ End("cmd", "error")
        BY <1>2, <1>3, <2>3 DEF PollInv
    <2>4. CASE UNCHANGED <<pc, outcome>>
        BY <1>3, <2>4 DEF PollInv
    <2>5. End("cmd", "ready") => poll'.successes >= OkResponses
        BY <1>2 DEF PollStep
    <2>6. QED
        BY <2>1, <2>2, <2>3, <2>4, <2>5
<1>4. ASSUME NEW answer, poll' = PollOnce(answer),
             \/ End("cmd", "error")
             \/ poll'.successes >= OkResponses /\ End("cmd", "ready")
             \/ UNCHANGED <<pc, outcome>>
      PROVE  PollInv'
    <2>1. poll'.successes = poll'.row
        BY <1>4 DEF PollOnce, PollInv
    <2>2. QED
        BY <1>1, <1>2, <1>4, <2>1 DEF PollInv
<1>5. QED
    BY <1>3, <1>4 DEF PollStep

\* The other steps leave the answers alone, and start a wait from nothing.
LEMMA NextPoll == ASSUME KustInv, PollInv, [Next]_vars PROVE PollInv'
<1>1. CASE UNCHANGED <<poll, pc, outcome>>
    BY <1>1 DEF PollInv
<1>2. CASE PollStep
    BY <1>2, PollStepPoll DEF KustInv
<1>3. ASSUME NEW r \in Runners, Begin(r)
      PROVE  PollInv'
    <2>1. CASE r = "cmd"
        <3>1. poll'.successes = poll'.row
            BY <1>3, <2>1 DEF Begin
        <3>2. \/ pc'["cmd"] = "read" /\ outcome'["cmd"] = "none"
              \/ pc'["cmd"] = "idle" /\ outcome'["cmd"] = "error"
            BY <1>3, <2>1 DEF Begin, End, KustInv, KustTypeOK
        <3>3. QED
            BY <3>1, <3>2 DEF PollInv
    <2>2. CASE r # "cmd"
        <3>1. poll' = poll /\ pc'["cmd"] = pc["cmd"] /\ outcome'["cmd"] = outcome["cmd"]
            BY <1>3, <2>2 DEF Begin, End, KustInv, KustTypeOK, Runners
        <3>2. QED
            BY <3>1 DEF PollInv
    <2>3. QED
        BY <2>1, <2>2
<1>4. ASSUME NEW r \in Runners, Kustomize(r) \/ Die(r)
      PROVE  PollInv'
    <2>1. poll' = poll /\ pc[r] # "idle"
        BY <1>4 DEF Kustomize, ReadMap, Apply, WriteMap, Die
    <2>2. \/ UNCHANGED <<pc, outcome>>
          \/ \E q \in {"poll", "apply"} : Goto(r, q)
          \/ \E o \in {"nil", "error", "conflict", "died"} : End(r, o)
        BY <1>4 DEF Kustomize, ReadMap, Apply, WriteMap, Die, Success
    <2>3. \/ pc'["cmd"] = pc["cmd"] /\ outcome'["cmd"] = outcome["cmd"]
          \/ pc["cmd"] # "idle" /\ outcome'["cmd"] = outcome["cmd"]
          \/ pc'["cmd"] = "idle" /\ outcome'["cmd"] \in {"nil", "error", "conflict", "died"}
        BY <2>1, <2>2 DEF Goto, End, KustInv, KustTypeOK, Runners
    <2>4. QED
        BY <2>1, <2>3 DEF PollInv
<1>5. QED
    BY <1>1, <1>2, <1>3, <1>4
    DEF Next, vars, kustVars, RunKustomizePhase, PerformKustomize, Runners, WatchStarts,
        HandleEvent, WatchEnds, Change, Edit

\* What Kustomize and the wait report is so: a refused write leaves a configured cluster,
\* and "iknite kustomize" ends as ready only after OkResponses answers in a row
\* (pkg/k8s/config.go, WaitOptions.Poll in pkg/utils/wait.go).
THEOREM OutcomesAreTrue == Spec => []OutcomeIsTrue
<1>1. Init => PollInv
    BY DEF Init, PollInv, Runners
<1>2. KustInv /\ PollInv => OutcomeIsTrue
    BY DEF KustInv, PollInv, OutcomeIsTrue
<1>3. QED
    BY <1>1, <1>2, NextPoll, ConfigurationInvariance, PTL DEF Spec

----------------------------------------------------------------------------
(* The number of updates.                                                   *)

\* The services without the address are among a finite number of services.
LEMMA UnsetFinite ==
    /\ IsFiniteSet(Unset) /\ Cardinality(Unset) \in Nat
    /\ Cardinality(Services) \in Nat /\ Cardinality(Unset) <= Cardinality(Services)
<1>1. Unset \in SUBSET Services
    BY DEF Unset
<1>2. QED
    BY <1>1, FiniteServices, FS_Subset, FS_CardinalityType

\* An update is made for a service without the address, and gives it one.
LEMMA UpdateCause ==
    ASSUME WatchInv, CauseInv, HandleEvent
    PROVE  CauseInv'
<1>1. edits' = edits
    BY DEF HandleEvent
<1>2. CASE svc' = svc /\ patches' = patches
    BY <1>1, <1>2 DEF CauseInv, Unset
<1>3. CASE ~(svc' = svc /\ patches' = patches)
    <2>1. DEFINE e == Head(stream)
    <2>2. e \in Events /\ EventIsVersion(e)
        <3>1. stream # <<>> /\ stream \in Seq(Events)
            BY DEF WatchInv, HandleEvent
        <3>2. 1 \in 1..Len(stream) /\ e = stream[1]
            BY <3>1
        <3>3. QED
            BY <3>1, <3>2 DEF WatchInv
    <2>3. DEFINE v == [ann |-> e.v.ann, ip |-> "ours", rv |-> e.v.rv + 1]
    <2>4. /\ svc[e.s].rv = e.v.rv /\ svc' = [svc EXCEPT ![e.s] = v] /\ patches' = patches + 1
          /\ e.v.ip # "ours"
        BY <1>3 DEF HandleEvent, Update, ShouldPatch
    <2> HIDE DEF e
    <2>5. e.s \in Services /\ e.v = svc[e.s]
        BY <2>2, <2>4 DEF Events, EventIsVersion
    <2>6. v.ip = "ours"
        OBVIOUS
    <2> HIDE DEF v
    <2>7. Unset' = Unset \ {e.s} /\ e.s \in Unset
        BY <2>4, <2>5, <2>6 DEF Unset, WatchInv
    <2>8. Cardinality(Unset') = Cardinality(Unset) - 1
        BY <2>7, UnsetFinite, FS_RemoveElement
    <2>9. QED
        BY <1>1, <2>4, <2>8, UnsetFinite DEF CauseInv
<1>4. QED
    BY <1>2, <1>3

\* An edit takes at most one address away.
LEMMA EditCause == ASSUME WatchInv, CauseInv, NEW s \in Services, Edit(s) PROVE CauseInv'
<1>1. edits' = edits + 1 /\ patches' = patches
    BY DEF Edit
<1>2. PICK v : svc' = [svc EXCEPT ![s] = v]
    BY DEF Edit
<1>3. Unset' \in SUBSET (Unset \cup {s})
    BY <1>2 DEF Unset, WatchInv
<1>4. /\ IsFiniteSet(Unset \cup {s})
      /\ Cardinality(Unset \cup {s}) \in {Cardinality(Unset), Cardinality(Unset) + 1}
    BY UnsetFinite, FS_AddElement
<1>5. Cardinality(Unset') <= Cardinality(Unset \cup {s}) /\ Cardinality(Unset') \in Nat
    BY <1>3, <1>4, FS_Subset, FS_CardinalityType
<1>6. QED
    BY <1>1, <1>4, <1>5, UnsetFinite DEF CauseInv

\* For any number of services and edits, the watch of set-lb-ip makes at most one update
\* for each service and one for each edit of somebody else: the events of its own updates
\* cause none (shouldPatchServiceLBIP, patchServiceLBIP).
THEOREM UpdatesAreCaused == Spec => []PatchesAreCaused
<1>1. Init => CauseInv
    BY UnsetFinite DEF Init, CauseInv
<1>2. WatchInv /\ CauseInv /\ [Next]_vars => CauseInv'
    <2>1. SUFFICES ASSUME WatchInv, CauseInv, [Next]_vars PROVE CauseInv'
        OBVIOUS
    <2>2. CASE UNCHANGED <<svc, edits, patches>>
        BY <2>1, <2>2 DEF CauseInv, Unset
    <2>3. CASE HandleEvent \/ \E s \in Services : Edit(s)
        BY <2>1, <2>3, UpdateCause, EditCause
    <2>4. QED
        BY <2>1, <2>2, <2>3
        DEF Next, vars, lbVars, RunKustomizePhase, PerformKustomize, Begin, PollStep, Kustomize,
            ReadMap, Apply, WriteMap, Die, Change, WatchStarts, WatchEnds
<1>3. CauseInv => PatchesAreCaused
    BY UnsetFinite DEF CauseInv, PatchesAreCaused
<1>4. Spec => []WatchInv
    BY InitWatch, NextWatch, PTL DEF Spec
<1>5. QED
    BY <1>1, <1>2, <1>3, <1>4, PTL DEF Spec
================================================================================
