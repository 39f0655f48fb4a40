------------------------- MODULE StatusPipelineProofs -------------------------
(***************************************************************************)
(* The way of a status from the init workflow to GET /status and to        *)
(* status.json, for any number of phases and of ticks: init uses the bus   *)
(* as EventBus specifies it, and PipelineInv says which update each copy   *)
(* of the status is from.                                                  *)
(***************************************************************************)
EXTENDS StatusPipeline, TLAPS

\* Each step of init is a step of the bus or leaves it alone.
LEMMA BusStep ==
    ASSUME Next
    PROVE  Bus!Next \/ UNCHANGED busVars
<1>1. CASE WrapPhase \/ PhaseFails \/ RunMonitorWorkloads \/ Daemonize \/ Stopping \/ Stopped
  BY <1>1 DEF WrapPhase, PhaseFails, RunMonitorWorkloads, Daemonize, Stopping, Stopped, busVars
<1>2. CASE Serve
  <2>1. Bus!Subscribe(Listener)
    BY <1>2 DEF Serve
  <2> QED BY <2>1 DEF Bus!Next
<1>3. ASSUME NEW from, NEW to, Hooks(from, to) PROVE Bus!Next
  <2>1. Bus!Unsubscribe(Listener)
    BY <1>3 DEF Hooks
  <2> QED BY <2>1 DEF Bus!Next
<1>4. CASE Tick \/ MonitorEnds
  BY <1>4 DEF Tick, MonitorEnds, busVars
<1>5. CASE Listen
  <2>1. Bus!Receive(Listener)
    BY <1>5 DEF Listen
  <2> QED BY <2>1 DEF Bus!Next
<1>6. ASSUME NEW w \in Writers, UpdateStep(w) PROVE Bus!Next \/ UNCHANGED busVars
  <2>1. \/ UNCHANGED busVars \/ Bus!Publish(w) \/ Bus!Send(w, Listener) \/ Bus!Return(w)
    BY <1>6 DEF UpdateStep, Update, Marshal, Truncate, Write, Publish, Send, Return, busVars
  <2> QED BY <2>1 DEF Bus!Next, Bus!Publishing
<1> QED BY <1>1, <1>2, <1>3, <1>4, <1>5, <1>6 DEF Next, InitWorkflow

\* init uses the bus as EventBus models it, however its goroutines interleave.
THEOREM PipelineUsesBus == Spec => BusSpec
<1>1. Init => Bus!Init
  BY DEF Init
<1>2. [Next]_vars => [Bus!Next]_(Bus!busVars)
  <2> SUFFICES ASSUME [Next]_vars PROVE Bus!Next \/ UNCHANGED busVars
    BY DEF busVars, Bus!busVars
  <2>1. CASE Next
    BY <2>1, BusStep
  <2>2. CASE UNCHANGED vars
    BY <2>2 DEF vars, busVars
  <2> QED BY <2>1, <2>2
<1> QED BY <1>1, <1>2, PTL DEF Spec, BusSpec, Bus!Spec

\* Facts about sequences.
LEMMA Appended ==
    ASSUME NEW S, NEW s \in Seq(S), NEW e \in S
    PROVE  /\ Append(s, e) \in Seq(S) /\ Len(Append(s, e)) = Len(s) + 1
           /\ \A i \in 1..Len(s) : Append(s, e)[i] = s[i]
           /\ Append(s, e)[Len(s) + 1] = e /\ Append(s, e) # <<>>
OBVIOUS

LEMMA AtMostOne ==
    ASSUME NEW S, NEW s \in Seq(S), Len(s) < 2
    PROVE  /\ s # <<>> => Tail(s) = <<>> /\ Head(s) \in S /\ Len(s) = 1
           /\ s = <<>> <=> Len(s) < 1
           /\ \A e \in S : s = <<>> => Head(Append(s, e)) = e /\ Len(Append(s, e)) = 1
<1>1. s = <<>> <=> Len(s) < 1
  OBVIOUS
<1>2. ASSUME s # <<>> PROVE Tail(s) = <<>> /\ Head(s) \in S /\ Len(s) = 1
  <2>1. Len(s) >= 1 /\ Len(s) \in Nat
    BY <1>2
  <2>2. Len(s) = 1
    <3>1. \A n \in Nat : n >= 1 /\ n < 2 => n = 1
      OBVIOUS
    <3> QED BY <2>1, <3>1, Zenon
  <2>3. Head(s) \in S /\ Tail(s) \in Seq(S) /\ Len(Tail(s)) = 0
    BY <1>2, <2>2
  <2>4. \A t \in Seq(S) : Len(t) = 0 => t = <<>>
    OBVIOUS
  <2> QED BY <2>2, <2>3, <2>4, Zenon
<1>3. ASSUME NEW e \in S, s = <<>> PROVE Head(Append(s, e)) = e /\ Len(Append(s, e)) = 1
  <2>1. Append(s, e)[1] = e /\ Len(Append(s, e)) = 1
    BY <1>3
  <2> QED BY <2>1
<1> QED BY <1>1, <1>2, <1>3

LEMMA InitInd == Init => PipelineInv
<1> SUFFICES ASSUME Init PROVE PipelineInv
  OBVIOUS
<1>1. /\ chan = [s \in {Listener} |-> <<>>] /\ todo = [p \in Writers |-> {}]
      /\ count = [p \in Writers |-> 0] /\ subs = {}
  BY DEF Init, Bus!Init
<1>2. PipelineTypeOK
  BY <1>1 DEF Init, PipelineTypeOK, Statuses, Status, Absent
<1>3. MailInv
  BY <1>1 DEF Init, MailInv, Idle, Writers, Monitor
<1>4. UpdateInv
  BY <1>1 DEF Init, UpdateInv, OneUpdate, Progress, SentWhole, ServedInv, Latest, HandedOn, Idle,
     Status, Absent
<1>5. FileInv
  BY DEF Init, FileInv, Idle
<1> QED BY <1>2, <1>3, <1>4, <1>5 DEF PipelineInv

\* What a step that publishes and delivers nothing keeps.
LEMMA MailKept ==
    ASSUME PipelineTypeOK, MailInv,
           monitor' = monitor, server' = server, served' = served, sent' = sent,
           chan' = chan, count' = count, todo' = todo, subs' = subs,
           at' = "phases" => at = "phases",
           \A v \in Writers : wpc'[v] = wpc[v] \/ (wpc'[v] # "publish" /\ todo[v] = {}),
           monitor = "off" => wpc'[Monitor] = wpc[Monitor]
    PROVE  MailInv' /\ Latest' = Latest
BY DEF MailInv, Latest, Idle

LEMMA SentKept ==
    ASSUME PipelineTypeOK, SentWhole, sent' = sent, version' \in Nat, version <= version'
    PROVE  SentWhole'
<1> SUFFICES ASSUME NEW w \in Writers, NEW i \in 1..Len(sent[w])
             PROVE  sent[w][i].state = sent[w][i].work /\ sent[w][i].state <= version'
  BY DEF SentWhole
<1>1. sent[w] \in Seq(Statuses) /\ version \in Nat
  BY DEF PipelineTypeOK
<1>2. sent[w][i] \in Statuses
  BY <1>1
<1>3. sent[w][i].state \in Int
  BY <1>2 DEF Statuses
<1> QED BY <1>1, <1>3 DEF SentWhole

LEMMA LatestType ==
    ASSUME PipelineTypeOK, MailInv
    PROVE  Latest \in Statuses /\ Latest.state \in Int
<1>1. CASE chan[Listener] = <<>>
  BY <1>1 DEF Latest, PipelineTypeOK, Statuses
<1>2. CASE chan[Listener] # <<>>
  <2>1. chan[Listener] \in Seq([from : Writers, n : Nat])
    BY DEF PipelineTypeOK
  <2>2. PICK e \in [from : Writers, n : Nat] : e = Head(chan[Listener])
    BY <1>2, <2>1, AtMostOne, Zenon DEF MailInv
  <2>3. sent[e.from] \in Seq(Statuses) /\ e.n \in 1..Len(sent[e.from])
    BY <1>2, <2>2 DEF PipelineTypeOK, MailInv
  <2>4. sent[e.from][e.n] \in Statuses
    BY <2>3
  <2> QED BY <1>2, <2>2, <2>4 DEF Latest, Statuses
<1> QED BY <1>1, <1>2

\* A writer enters UpdateIkniteCluster.
LEMMA BeginUpdateInd ==
    ASSUME PipelineInv, NEW w \in Writers, BeginUpdate(w),
           monitor' = monitor, server' = server, served' = served,
           chan' = chan, count' = count, todo' = todo, subs' = subs,
           at' = "phases" => at = "phases", w = Monitor => monitor # "off"
    PROVE  PipelineInv'
<1> USE DEF Idle
<1>1. PipelineTypeOK /\ MailInv
  BY DEF PipelineInv
<1>2. /\ wpc[w] = "idle" /\ wpc' = [wpc EXCEPT ![w] = "update"]
      /\ version' = version + 1 /\ mine' = [mine EXCEPT ![w] = version + 1]
      /\ cluster' = [cluster EXCEPT !.state = version + 1]
      /\ json' = json /\ file' = file /\ sent' = sent
  BY DEF BeginUpdate
<1>3. excuses' = IF \A o \in Writers : wpc[o] = "idle" THEN excuses ELSE excuses \cup {"overlap"}
  BY DEF BeginUpdate
<1>4. wpc'[w] = "update" /\ \A v \in Writers : v # w => wpc'[v] = wpc[v]
  BY <1>1, <1>2 DEF PipelineTypeOK
<1>5. /\ cluster' \in Statuses /\ cluster'.state = version' /\ mine'[w] = version'
      /\ version' \in Nat /\ version' > 0 /\ version <= version'
  <2>1. version \in Nat /\ cluster \in Statuses /\ mine \in [Writers -> Nat]
    BY <1>1 DEF PipelineTypeOK
  <2>2. version' \in Nat /\ version' > 0 /\ version < version' /\ version <= version'
    BY <1>2, <2>1
  <2>3. cluster' \in Statuses /\ cluster'.state = version + 1
    BY <1>2, <2>1 DEF Statuses
  <2> QED BY <1>2, <2>1, <2>2, <2>3
<1>6. PipelineTypeOK'
  BY <1>1, <1>2, <1>5 DEF PipelineTypeOK
<1>7. MailInv' /\ Latest' = Latest
  <2>1. todo[w] = {}
    BY <1>1, <1>2 DEF MailInv
  <2>2. \A v \in Writers : wpc'[v] = wpc[v] \/ (wpc'[v] # "publish" /\ todo[v] = {})
    BY <1>4, <2>1
  <2>3. monitor = "off" => wpc'[Monitor] = wpc[Monitor]
    BY <1>4 DEF Writers
  <2> QED BY <1>1, <1>2, <2>2, <2>3, MailKept
<1>8. ASSUME "overlap" \notin excuses' PROVE UpdateInv'
  <2>1. UpdateInv /\ \A v \in Writers : wpc[v] = "idle"
    BY <1>3, <1>8 DEF PipelineInv
  <2>2. OneUpdate' /\ Progress' /\ ~HandedOn'
    BY <1>4, <1>5, <2>1 DEF OneUpdate, Progress, HandedOn
  <2>3. SentWhole'
    BY <1>1, <1>2, <1>5, <2>1, SentKept DEF UpdateInv
  <2>4. ServedInv'
    <3>1. Latest.state \in Int /\ Latest.state <= version /\ version \in Nat
      BY <1>1, <2>1, LatestType DEF UpdateInv, ServedInv, PipelineTypeOK
    <3>2. Latest'.state <= version'
      BY <1>5, <1>7, <3>1
    <3> QED BY <1>7, <2>1, <2>2, <3>2 DEF UpdateInv, ServedInv
  <2> QED BY <2>2, <2>3, <2>4 DEF UpdateInv
<1>9. ASSUME excuses' \subseteq {"dropped"} PROVE FileInv'
  <2>1. FileInv /\ UpdateInv /\ \A v \in Writers : wpc[v] = "idle"
    BY <1>3, <1>9 DEF PipelineInv
  <2>2. file.state = file.work /\ file.state >= -1
    <3>1. cluster = Status(version, version) /\ version \in Nat
      BY <1>1, <2>1 DEF UpdateInv, Progress, PipelineTypeOK
    <3>2. file = IF version = 0 THEN Absent ELSE cluster
      BY <2>1 DEF FileInv
    <3> QED BY <3>1, <3>2 DEF Absent, Status
  <2> QED BY <1>2, <1>4, <2>1, <2>2 DEF FileInv
<1> QED BY <1>6, <1>7, <1>8, <1>9 DEF PipelineInv

\* While one writer is inside UpdateIkniteCluster, the others are not.
LEMMA OthersIdle ==
    ASSUME OneUpdate, NEW w \in Writers, ~Idle(w)
    PROVE  \A v \in Writers : v # w => wpc[v] = "idle"
BY DEF OneUpdate, Idle

\* A step of UpdateIkniteCluster up to the copy: the bus, the server and the history of
\* what was published stay as they are, and the writer is not done.
LEMMA InsideInd ==
    ASSUME PipelineInv, NEW w \in Writers, NEW s \in {"marshal", "truncate", "write", "copy"},
           wpc[w] \in {"update", "marshal", "truncate", "write"}, wpc' = [wpc EXCEPT ![w] = s],
           monitor' = monitor, server' = server, served' = served, at' = at,
           chan' = chan, count' = count, todo' = todo, subs' = subs,
           version' = version, sent' = sent, "overlap" \notin excuses' => "overlap" \notin excuses
    PROVE  /\ wpc'[w] = s /\ \A v \in Writers : v # w => wpc'[v] = wpc[v]
           /\ MailInv'
           /\ "overlap" \notin excuses' => /\ UpdateInv /\ OneUpdate' /\ SentWhole' /\ ServedInv'
                                           /\ \A v \in Writers : v # w => wpc'[v] = "idle"
<1>1. PipelineTypeOK /\ MailInv
  BY DEF PipelineInv
<1>2. wpc'[w] = s /\ \A v \in Writers : v # w => wpc'[v] = wpc[v]
  BY <1>1 DEF PipelineTypeOK
<1>3. monitor = "off" => wpc[Monitor] = "idle"
  BY <1>1 DEF MailInv, Idle
<1>4. MailInv' /\ Latest' = Latest
  <2>1. todo[w] = {}
    BY <1>1 DEF MailInv
  <2>2. \A v \in Writers : wpc'[v] = wpc[v] \/ (wpc'[v] # "publish" /\ todo[v] = {})
    BY <1>2, <2>1
  <2>3. monitor = "off" => wpc'[Monitor] = wpc[Monitor]
    BY <1>2, <1>3 DEF Writers
  <2> QED BY <1>1, <2>2, <2>3, MailKept
<1>5. ASSUME "overlap" \notin excuses'
      PROVE  /\ UpdateInv /\ OneUpdate' /\ SentWhole' /\ ServedInv'
             /\ \A v \in Writers : v # w => wpc'[v] = "idle"
  <2>1. UpdateInv
    BY <1>5 DEF PipelineInv
  <2>2. \A v \in Writers : v # w => wpc'[v] = "idle"
    BY <1>2, <2>1, OthersIdle DEF UpdateInv, Idle
  <2>3. OneUpdate' /\ ~HandedOn'
    BY <1>2, <2>2 DEF OneUpdate, HandedOn, Idle
  <2>4. SentWhole'
    BY <1>1, <2>1, SentKept DEF UpdateInv, PipelineTypeOK
  <2>5. ServedInv'
    BY <1>4, <2>1, <2>3 DEF UpdateInv, ServedInv
  <2> QED BY <2>1, <2>2, <2>3, <2>4, <2>5
<1> QED BY <1>2, <1>4, <1>5

LEMMA StatusIs ==
    ASSUME NEW c \in Statuses
    PROVE  c = Status(c.state, c.work)
BY DEF Statuses, Status

LEMMA UpdateInd ==
    ASSUME PipelineInv, NEW w \in Writers, Update(w), UNCHANGED procVars
    PROVE  PipelineInv'
<1>1. /\ wpc[w] = "update" /\ wpc' = [wpc EXCEPT ![w] = "marshal"]
      /\ cluster' = [cluster EXCEPT !.work = mine[w]]
      /\ version' = version /\ mine' = mine /\ json' = json /\ file' = file /\ served' = served
      /\ sent' = sent /\ excuses' = excuses /\ chan' = chan /\ count' = count /\ todo' = todo
      /\ subs' = subs /\ monitor' = monitor /\ server' = server /\ at' = at
  BY DEF Update, procVars, updVars, busVars
<1>2. PipelineTypeOK
  BY DEF PipelineInv
<1>3. PipelineTypeOK'
  <2>1. cluster \in Statuses /\ mine[w] \in Int
    BY <1>2 DEF PipelineTypeOK
  <2>2. cluster' \in Statuses
    BY <1>1, <2>1 DEF Statuses
  <2> QED BY <1>1, <1>2, <2>2 DEF PipelineTypeOK
<1>4. /\ wpc'[w] = "marshal" /\ \A v \in Writers : v # w => wpc'[v] = wpc[v]
      /\ MailInv'
      /\ "overlap" \notin excuses' => /\ UpdateInv /\ OneUpdate' /\ SentWhole' /\ ServedInv'
                                      /\ \A v \in Writers : v # w => wpc'[v] = "idle"
  BY <1>1, InsideInd, Zenon
<1>5. ASSUME "overlap" \notin excuses' PROVE UpdateInv'
  <2>1. cluster.state = version /\ mine[w] = version /\ version > 0
    BY <1>1, <1>4, <1>5 DEF UpdateInv, Progress, Idle
  <2>2. cluster' = Status(version', version')
    <3>1. cluster \in Statuses /\ cluster' \in Statuses
      BY <1>2, <1>3 DEF PipelineTypeOK
    <3>2. cluster'.state = cluster.state /\ cluster'.work = mine[w]
      BY <1>1, <3>1 DEF Statuses
    <3>3. cluster' = Status(cluster'.state, cluster'.work)
      BY <3>1, StatusIs
    <3>4. cluster'.state = version' /\ cluster'.work = version'
      BY <1>1, <2>1, <3>2
    <3> QED BY <3>3, <3>4
  <2>3. Progress'
    BY <1>1, <1>4, <1>5, <2>1, <2>2 DEF Progress, Idle
  <2> QED BY <1>4, <1>5, <2>3 DEF UpdateInv
<1>6. ASSUME excuses' \subseteq {"dropped"} PROVE FileInv'
  <2>1. FileInv
    BY <1>1, <1>6 DEF PipelineInv
  <2>2. file.state = file.work /\ file.state >= -1
    BY <1>1, <2>1 DEF FileInv
  <2>3. \A v \in Writers : v # w => wpc'[v] = "idle"
    BY <1>4, <1>6
  <2> QED BY <1>1, <1>4, <2>2, <2>3 DEF FileInv, Idle
<1> QED BY <1>3, <1>4, <1>5, <1>6 DEF PipelineInv

LEMMA MarshalInd ==
    ASSUME PipelineInv, NEW w \in Writers, Marshal(w), UNCHANGED procVars
    PROVE  PipelineInv'
<1>1. /\ wpc[w] = "marshal" /\ wpc' = [wpc EXCEPT ![w] = "truncate"]
      /\ json' = [json EXCEPT ![w] = cluster]
      /\ version' = version /\ mine' = mine /\ cluster' = cluster /\ file' = file /\ served' = served
      /\ sent' = sent /\ excuses' = excuses /\ chan' = chan /\ count' = count /\ todo' = todo
      /\ subs' = subs /\ monitor' = monitor /\ server' = server /\ at' = at
  BY DEF Marshal, procVars, updVars, busVars
<1>2. PipelineTypeOK
  BY DEF PipelineInv
<1>3. PipelineTypeOK' /\ json'[w] = cluster
  BY <1>1, <1>2 DEF PipelineTypeOK
<1>4. /\ wpc'[w] = "truncate" /\ \A v \in Writers : v # w => wpc'[v] = wpc[v]
      /\ MailInv'
      /\ "overlap" \notin excuses' => /\ UpdateInv /\ OneUpdate' /\ SentWhole' /\ ServedInv'
                                      /\ \A v \in Writers : v # w => wpc'[v] = "idle"
  BY <1>1, InsideInd, Zenon
<1>5. ASSUME "overlap" \notin excuses' PROVE UpdateInv'
  <2>1. Progress /\ \A v \in Writers : v # w => wpc[v] = "idle" /\ wpc'[v] = "idle"
    BY <1>4, <1>5 DEF UpdateInv
  <2>2. cluster = Status(version, version) /\ version > 0
    BY <1>1, <2>1 DEF Progress, Idle
  <2>3. Progress'
    BY <1>1, <1>3, <1>4, <2>1, <2>2 DEF Progress, Idle
  <2> QED BY <1>4, <1>5, <2>3 DEF UpdateInv
<1>6. ASSUME excuses' \subseteq {"dropped"} PROVE FileInv'
  <2>1. FileInv
    BY <1>1, <1>6 DEF PipelineInv
  <2>2. file.state = file.work /\ file.state >= -1
    BY <1>1, <2>1 DEF FileInv
  <2>3. \A v \in Writers : v # w => wpc'[v] = "idle"
    BY <1>4, <1>6
  <2> QED BY <1>1, <1>4, <2>2, <2>3 DEF FileInv, Idle
<1> QED BY <1>3, <1>4, <1>5, <1>6 DEF PipelineInv

\* The two steps of WriteFile, which may both fail.
LEMMA PersistInd ==
    ASSUME PipelineInv, NEW w \in Writers, Truncate(w) \/ Write(w), UNCHANGED procVars
    PROVE  PipelineInv'
<1>1. /\ wpc[w] \in {"truncate", "write"}
      /\ version' = version /\ mine' = mine /\ cluster' = cluster /\ json' = json /\ served' = served
      /\ sent' = sent /\ chan' = chan /\ count' = count /\ todo' = todo
      /\ subs' = subs /\ monitor' = monitor /\ server' = server /\ at' = at
  BY DEF Truncate, Write, procVars, updVars, busVars
<1>2. PICK s \in {"write", "copy"} : wpc' = [wpc EXCEPT ![w] = s]
  BY DEF Truncate, Write
<1>3. excuses' = excuses \/ excuses' = excuses \cup {"unwritten"}
  BY DEF Truncate, Write
<1>4. PipelineTypeOK
  BY DEF PipelineInv
<1>5. file' \in {file, Empty, Mixed, json[w]}
  BY DEF Truncate, Write
<1>6. PipelineTypeOK'
  <2>1. file' \in Statuses
    <3>1. file \in Statuses /\ json[w] \in Statuses
      BY <1>4 DEF PipelineTypeOK
    <3>2. Empty \in Statuses /\ Mixed \in Statuses
      BY DEF Statuses, Empty, Mixed, Status
    <3> QED BY <1>5, <3>1, <3>2
  <2> QED BY <1>1, <1>2, <1>4, <2>1 DEF PipelineTypeOK
<1>7. /\ wpc'[w] = s /\ \A v \in Writers : v # w => wpc'[v] = wpc[v]
      /\ MailInv'
      /\ "overlap" \notin excuses' => /\ UpdateInv /\ OneUpdate' /\ SentWhole' /\ ServedInv'
                                      /\ \A v \in Writers : v # w => wpc'[v] = "idle"
  BY <1>1, <1>2, <1>3, InsideInd, Zenon
<1>8. ASSUME "overlap" \notin excuses' PROVE UpdateInv'
  <2>1. Progress /\ \A v \in Writers : v # w => wpc[v] = "idle" /\ wpc'[v] = "idle"
    BY <1>7, <1>8 DEF UpdateInv
  <2>2. cluster = Status(version, version) /\ version > 0 /\ json[w] = cluster
    BY <1>1, <2>1 DEF Progress, Idle
  <2>3. Progress'
    BY <1>1, <1>7, <2>1, <2>2 DEF Progress, Idle
  <2> QED BY <1>7, <1>8, <2>3 DEF UpdateInv
<1>9. ASSUME excuses' \subseteq {"dropped"} PROVE FileInv'
  <2>1. excuses' = excuses /\ FileInv /\ "overlap" \notin excuses'
    BY <1>3, <1>9, Zenon DEF PipelineInv
  <2>2. json[w] = cluster /\ \A v \in Writers : v # w => wpc'[v] = "idle"
    BY <1>1, <1>7, <2>1 DEF UpdateInv, Progress
  <2>3. CASE Truncate(w)
    <3>1. file' = Empty /\ wpc' = [wpc EXCEPT ![w] = "write"]
      BY <1>9, <2>3 DEF Truncate
    <3>2. wpc'[w] = "write"
      BY <1>4, <3>1 DEF PipelineTypeOK
    <3> QED BY <2>2, <3>1, <3>2 DEF FileInv, Idle
  <2>4. CASE Write(w)
    <3>1. file = Empty
      BY <2>1, <2>4 DEF FileInv, Write
    <3>2. file' = json[w] /\ wpc' = [wpc EXCEPT ![w] = "copy"]
      BY <1>9, <2>4, <3>1 DEF Write
    <3>3. wpc'[w] = "copy"
      BY <1>4, <3>2 DEF PipelineTypeOK
    <3> QED BY <1>1, <2>2, <3>2, <3>3 DEF FileInv, Idle
  <2> QED BY <2>3, <2>4
<1> QED BY <1>6, <1>7, <1>8, <1>9 DEF PipelineInv

LEMMA PublishInd ==
    ASSUME PipelineInv, NEW w \in Writers, Publish(w), UNCHANGED procVars
    PROVE  PipelineInv'
<1>1. /\ wpc[w] = "copy" /\ wpc' = [wpc EXCEPT ![w] = "publish"]
      /\ sent' = [sent EXCEPT ![w] = Append(@, cluster)]
      /\ version' = version /\ mine' = mine /\ cluster' = cluster /\ json' = json
      /\ file' = file /\ served' = served /\ excuses' = excuses
      /\ monitor' = monitor /\ server' = server /\ at' = at
  BY DEF Publish, procVars, updVars
<1>2. /\ count' = [count EXCEPT ![w] = @ + 1] /\ todo' = [todo EXCEPT ![w] = subs]
      /\ subs' = subs /\ chan' = chan
  BY DEF Publish, Bus!Publish
<1>3. PipelineTypeOK /\ MailInv
  BY DEF PipelineInv
<1>4. /\ sent[w] \in Seq(Statuses) /\ cluster \in Statuses /\ count[w] = Len(sent[w])
      /\ sent \in [Writers -> Seq(Statuses)] /\ count \in [Writers -> Nat] /\ count[w] \in Nat
  BY <1>3 DEF PipelineTypeOK, MailInv
<1>5. /\ sent'[w] = Append(sent[w], cluster) /\ sent'[w] \in Seq(Statuses)
      /\ Len(sent'[w]) = Len(sent[w]) + 1 /\ sent'[w][Len(sent[w]) + 1] = cluster
      /\ \A i \in 1..Len(sent[w]) : sent'[w][i] = sent[w][i]
      /\ \A v \in Writers : v # w => sent'[v] = sent[v]
      /\ sent' \in [Writers -> Seq(Statuses)]
  BY <1>1, <1>4, Appended
<1>6. /\ wpc'[w] = "publish" /\ count'[w] = count[w] + 1 /\ todo'[w] = subs
      /\ \A v \in Writers : v # w => wpc'[v] = wpc[v] /\ count'[v] = count[v] /\ todo'[v] = todo[v]
  BY <1>1, <1>2, <1>3 DEF PipelineTypeOK
<1>7. PipelineTypeOK'
  BY <1>1, <1>2, <1>3, <1>5 DEF PipelineTypeOK
<1>8. chan[Listener] # <<>> =>
         LET e == Head(chan[Listener]) IN e.n \in 1..Len(sent'[e.from]) /\ sent'[e.from][e.n] = sent[e.from][e.n]
  <2> SUFFICES ASSUME chan[Listener] # <<>>
               PROVE  LET e == Head(chan[Listener])
                      IN e.n \in 1..Len(sent'[e.from]) /\ sent'[e.from][e.n] = sent[e.from][e.n]
    OBVIOUS
  <2>1. PICK e \in [from : Writers, n : Nat] : e = Head(chan[Listener])
    BY <1>3, AtMostOne, Zenon DEF MailInv, PipelineTypeOK
  <2>2. e.from \in Writers /\ e.n \in 1..Len(sent[e.from])
    BY <1>3, <2>1 DEF MailInv
  <2>3. CASE e.from = w
    <3>1. e.n \in 1..Len(sent[w]) /\ Len(sent[w]) \in Nat
      BY <1>4, <2>2, <2>3
    <3>2. sent'[w][e.n] = sent[w][e.n]
      BY <1>5, <3>1
    <3>3. e.n \in 1..(Len(sent[w]) + 1)
      BY <3>1
    <3> QED BY <1>5, <2>1, <2>3, <3>2, <3>3
  <2>4. CASE e.from # w
    BY <1>5, <2>1, <2>2, <2>4
  <2> QED BY <2>3, <2>4
<1>9. MailInv' /\ Latest' = Latest
  <2>1. \A v \in Writers : /\ count'[v] = Len(sent'[v])
                           /\ IF wpc'[v] = "publish" THEN count'[v] > 0 ELSE todo'[v] = {}
    <3> SUFFICES ASSUME NEW v \in Writers
                 PROVE  /\ count'[v] = Len(sent'[v])
                        /\ IF wpc'[v] = "publish" THEN count'[v] > 0 ELSE todo'[v] = {}
      OBVIOUS
    <3>1. CASE v = w
      <4>1. count'[w] = Len(sent'[w])
        BY <1>4, <1>5, <1>6
      <4>2. count'[w] > 0
        BY <1>4, <1>6
      <4> QED BY <1>6, <3>1, <4>1, <4>2
    <3>2. CASE v # w
      BY <1>3, <1>5, <1>6, <3>2, Zenon DEF MailInv
    <3> QED BY <3>1, <3>2
  <2>2. monitor = "off" => wpc'[Monitor] = "idle"
    BY <1>1, <1>3, <1>6 DEF MailInv, Idle, Writers
  <2>3. at = "phases" => \A v \in Writers : todo'[v] = {}
    BY <1>3, <1>6 DEF MailInv
  <2>4. MailInv'
    BY <1>1, <1>2, <1>3, <1>8, <2>1, <2>2, <2>3, Zenon DEF MailInv, Idle
  <2> QED BY <1>1, <1>2, <1>8, <2>4 DEF Latest
<1>10. ASSUME "overlap" \notin excuses' PROVE UpdateInv'
  <2>1. UpdateInv /\ \A v \in Writers : v # w => wpc'[v] = "idle" /\ wpc[v] = "idle"
    BY <1>1, <1>6, <1>10, OthersIdle DEF PipelineInv, UpdateInv, Idle
  <2>2. cluster = Status(version, version) /\ version > 0
    BY <1>1, <2>1 DEF UpdateInv, Progress, Idle
  <2>3. OneUpdate'
    BY <1>6, <2>1 DEF OneUpdate, Idle
  <2>4. Progress'
    <3>1. sent'[w][count'[w]] = cluster
      BY <1>4, <1>5, <1>6
    <3> QED BY <1>1, <1>6, <2>1, <2>2, <3>1, Zenon DEF Progress, Idle
  <2>5. SentWhole'
    <3>1. cluster.state = cluster.work /\ cluster.state <= version
      BY <1>3, <2>2 DEF Status, PipelineTypeOK
    <3> SUFFICES ASSUME NEW v \in Writers, NEW i \in 1..Len(sent'[v])
                 PROVE  sent'[v][i].state = sent'[v][i].work /\ sent'[v][i].state <= version
      BY <1>1 DEF SentWhole
    <3>2. CASE v = w
      <4>1. i \in 1..Len(sent[w]) \/ i = Len(sent[w]) + 1
        BY <1>4, <1>5, <3>2
      <4> QED BY <1>5, <2>1, <3>1, <3>2, <4>1 DEF UpdateInv, SentWhole
    <3>3. CASE v # w
      BY <1>5, <2>1, <3>3 DEF UpdateInv, SentWhole
    <3> QED BY <3>2, <3>3
  <2>6. ServedInv'
    <3>1. server = "up" => ~HandedOn'
      BY <1>3, <1>6 DEF HandedOn, MailInv, Idle
    <3> QED BY <1>1, <1>9, <2>1, <3>1 DEF UpdateInv, ServedInv
  <2> QED BY <2>3, <2>4, <2>5, <2>6 DEF UpdateInv
<1>11. ASSUME excuses' \subseteq {"dropped"} PROVE FileInv'
  <2>1. FileInv /\ OneUpdate
    BY <1>1, <1>11 DEF PipelineInv, UpdateInv
  <2>2. file = cluster /\ \A v \in Writers : v # w => wpc'[v] = "idle"
    BY <1>1, <1>6, <2>1, OthersIdle DEF FileInv, Idle
  <2> QED BY <1>1, <1>6, <2>2 DEF FileInv, Idle
<1> QED BY <1>7, <1>9, <1>10, <1>11 DEF PipelineInv

\* One send of Publish: the update reaches the empty channel, or a loss is noted.
LEMMA SendInd ==
    ASSUME PipelineInv, NEW w \in Writers, Send(w), UNCHANGED procVars
    PROVE  PipelineInv'
<1>1. /\ wpc[w] = "publish" /\ wpc' = wpc
      /\ version' = version /\ mine' = mine /\ cluster' = cluster /\ json' = json
      /\ file' = file /\ served' = served /\ sent' = sent
      /\ monitor' = monitor /\ server' = server /\ at' = at
      /\ excuses' = excuses \cup (IF chan' = chan THEN {"dropped"} ELSE {})
  BY DEF Send, procVars, updVars
<1>2. Listener \in todo[w] /\ count' = count /\ subs' = subs
  BY DEF Send, Bus!Send
<1>3. /\ todo' = todo \/ todo' = [todo EXCEPT ![w] = @ \ {Listener}]
      /\ \/ chan' = chan
         \/ /\ Len(chan[Listener]) < 1
            /\ chan' = [chan EXCEPT ![Listener] = Append(@, [from |-> w, n |-> count[w]])]
            /\ todo' = [todo EXCEPT ![w] = @ \ {Listener}]
  BY DEF Send, Bus!Send, Bus!Event
<1>4. PipelineTypeOK /\ MailInv
  BY DEF PipelineInv
<1>5. /\ chan[Listener] \in Seq([from : Writers, n : Nat]) /\ count[w] \in Nat /\ Len(chan[Listener]) < 2
      /\ [from |-> w, n |-> count[w]] \in [from : Writers, n : Nat]
  BY <1>4 DEF PipelineTypeOK, MailInv
<1>6. todo' \in [Writers -> SUBSET {Listener}] /\ \A v \in Writers : v # w => todo'[v] = todo[v]
  <2>1. todo \in [Writers -> SUBSET {Listener}]
    BY <1>4 DEF PipelineTypeOK
  <2>2. CASE todo' = todo
    BY <2>1, <2>2
  <2>3. CASE todo' = [todo EXCEPT ![w] = @ \ {Listener}]
    BY <2>1, <2>3
  <2> QED BY <1>3, <2>2, <2>3
<1>7. \A v \in Writers : IF wpc'[v] = "publish" THEN count'[v] > 0 ELSE todo'[v] = {}
  BY <1>1, <1>2, <1>4, <1>6 DEF MailInv
<1>8. at # "phases"
  BY <1>2, <1>4 DEF MailInv
<1>9. CASE chan' = chan
  <2>1. PipelineTypeOK' /\ MailInv' /\ Latest' = Latest
    <3>1. PipelineTypeOK'
      BY <1>1, <1>2, <1>4, <1>6, <1>9 DEF PipelineTypeOK
    <3>2. MailInv'
      BY <1>1, <1>2, <1>4, <1>7, <1>8, <1>9 DEF MailInv, Idle
    <3> QED BY <1>1, <1>9, <3>1, <3>2 DEF Latest
  <2>2. "dropped" \in excuses' /\ ("overlap" \notin excuses' => "overlap" \notin excuses)
    BY <1>1, <1>9
  <2>3. ASSUME "overlap" \notin excuses' PROVE UpdateInv'
    <3>1. UpdateInv
      BY <2>2, <2>3 DEF PipelineInv
    <3>2. OneUpdate' /\ Progress' /\ SentWhole'
      BY <1>1, <1>2, <3>1 DEF UpdateInv, OneUpdate, Progress, SentWhole, Idle
    <3>3. ServedInv'
      BY <1>1, <2>1, <2>2, <3>1 DEF UpdateInv, ServedInv
    <3> QED BY <3>2, <3>3 DEF UpdateInv
  <2>4. excuses' \subseteq {"dropped"} => FileInv'
    BY <1>1 DEF PipelineInv, FileInv, Idle
  <2> QED BY <2>1, <2>3, <2>4 DEF PipelineInv
<1>10. CASE chan' # chan
  <2>1. /\ chan[Listener] = <<>>
        /\ chan' = [chan EXCEPT ![Listener] = Append(@, [from |-> w, n |-> count[w]])]
    BY <1>3, <1>5, <1>10, AtMostOne
  <2>2. chan'[Listener] = Append(chan[Listener], [from |-> w, n |-> count[w]])
    BY <1>4, <2>1 DEF PipelineTypeOK
  <2>3. /\ chan'[Listener] # <<>> /\ Len(chan'[Listener]) < 2
        /\ Head(chan'[Listener]) = [from |-> w, n |-> count[w]]
        /\ chan'[Listener] \in Seq([from : Writers, n : Nat])
    <3>1. Len(chan'[Listener]) = 1 /\ Head(chan'[Listener]) = [from |-> w, n |-> count[w]]
      BY <1>5, <2>1, <2>2, AtMostOne
    <3>2. chan'[Listener] # <<>> /\ chan'[Listener] \in Seq([from : Writers, n : Nat])
      BY <1>5, <2>2, Appended
    <3> QED BY <3>1, <3>2
  <2>4. PipelineTypeOK'
    <3>1. chan' \in [{Listener} -> Seq([from : Writers, n : Nat])]
      BY <1>4, <2>1, <2>2, <2>3 DEF PipelineTypeOK
    <3> QED BY <1>1, <1>2, <1>4, <1>6, <3>1 DEF PipelineTypeOK
  <2>5. Head(chan'[Listener]).from = w /\ Head(chan'[Listener]).n = count[w]
    <3>1. [from |-> w, n |-> count[w]].from = w /\ [from |-> w, n |-> count[w]].n = count[w]
      OBVIOUS
    <3> QED BY <2>3, <3>1, Zenon
  <2>6. Latest' = sent[w][count[w]]
    BY <1>1, <2>3, <2>5, Zenon DEF Latest
  <2>7. excuses' = excuses
    BY <1>1, <1>10
  <2>8. MailInv'
    <3>1. count[w] \in 1..Len(sent[w])
      <4>1. count[w] > 0 /\ count[w] = Len(sent[w])
        BY <1>1, <1>4 DEF MailInv
      <4>2. count[w] \in 1..count[w]
        BY <1>5, <4>1
      <4> QED BY <4>1, <4>2
    <3>2. LET e == Head(chan'[Listener]) IN e.n \in 1..Len(sent'[e.from])
      BY <1>1, <2>5, <3>1
    <3>3. \A v \in Writers : count'[v] = Len(sent'[v])
      BY <1>1, <1>2, <1>4 DEF MailInv
    <3>4. /\ monitor' = "off" => wpc'[Monitor] = "idle"
          /\ server' = "up" => subs' = {Listener}
      BY <1>1, <1>2, <1>4 DEF MailInv, Idle
    <3> QED BY <1>1, <1>7, <1>8, <2>3, <3>2, <3>3, <3>4 DEF MailInv, Idle
  <2>9. ASSUME "overlap" \notin excuses' PROVE UpdateInv'
    <3>1. UpdateInv
      BY <2>7, <2>9 DEF PipelineInv
    <3>2. OneUpdate' /\ Progress' /\ SentWhole'
      BY <1>1, <1>2, <3>1 DEF UpdateInv, OneUpdate, Progress, SentWhole, Idle
    <3>3. Latest' = cluster /\ cluster = Status(version, version)
      BY <1>1, <2>6, <3>1, OthersIdle DEF UpdateInv, Progress, Idle
    <3>4. served.state = served.work /\ served.state <= version /\ version \in Nat
      <4>1. Latest.state \in Int /\ served.state \in Int /\ version \in Nat
        BY <1>4, LatestType DEF PipelineTypeOK, Statuses
      <4> QED BY <3>1, <4>1 DEF UpdateInv, ServedInv
    <3>5. ServedInv'
      BY <1>1, <3>3, <3>4 DEF ServedInv, Status
    <3> QED BY <3>2, <3>5 DEF UpdateInv
  <2>10. excuses' \subseteq {"dropped"} => FileInv'
    BY <1>1 DEF PipelineInv, FileInv, Idle
  <2> QED BY <2>4, <2>8, <2>9, <2>10 DEF PipelineInv
<1> QED BY <1>9, <1>10

LEMMA ReturnInd ==
    ASSUME PipelineInv, NEW w \in Writers, Return(w), UNCHANGED procVars
    PROVE  PipelineInv'
<1>1. /\ wpc[w] = "publish" /\ wpc' = [wpc EXCEPT ![w] = "idle"]
      /\ mine' = [mine EXCEPT ![w] = 0] /\ json' = [json EXCEPT ![w] = Status(0, 0)]
      /\ version' = version /\ cluster' = cluster
      /\ file' = file /\ served' = served /\ sent' = sent /\ excuses' = excuses
      /\ monitor' = monitor /\ server' = server /\ at' = at
  BY DEF Return, procVars
<1>2. todo[w] = {} /\ todo' = todo /\ chan' = chan /\ subs' = subs /\ count' = count
  BY DEF Return, Bus!Return
<1>3. PipelineTypeOK /\ MailInv
  BY DEF PipelineInv
<1>4. wpc'[w] = "idle" /\ \A v \in Writers : v # w => wpc'[v] = wpc[v]
  BY <1>1, <1>3 DEF PipelineTypeOK
<1>5. PipelineTypeOK'
  <2>1. Status(0, 0) \in Statuses
    BY DEF Status, Statuses
  <2>2. json' \in [Writers -> Statuses] /\ mine' \in [Writers -> Nat]
    BY <1>1, <1>3, <2>1 DEF PipelineTypeOK
  <2>3. wpc' \in [Writers -> {"idle", "update", "marshal", "truncate", "write", "copy", "publish"}]
    BY <1>1, <1>3 DEF PipelineTypeOK
  <2> QED BY <1>1, <1>2, <1>3, <2>2, <2>3 DEF PipelineTypeOK
<1>6. MailInv' /\ Latest' = Latest
  <2>1. \A v \in Writers : wpc'[v] = wpc[v] \/ (wpc'[v] # "publish" /\ todo[v] = {})
    BY <1>2, <1>4
  <2>2. monitor = "off" => wpc'[Monitor] = wpc[Monitor]
    BY <1>1, <1>3, <1>4 DEF MailInv, Idle, Writers
  <2> QED BY <1>1, <1>2, <1>3, <2>1, <2>2, MailKept
<1>7. ASSUME "overlap" \notin excuses' PROVE UpdateInv' /\ \A v \in Writers : wpc'[v] = "idle"
  <2>1. UpdateInv
    BY <1>1, <1>7 DEF PipelineInv
  <2>2. \A v \in Writers : wpc'[v] = "idle" /\ (v # w => wpc[v] = "idle")
    BY <1>1, <1>4, <2>1, OthersIdle DEF UpdateInv, Idle
  <2>3. cluster = Status(version, version) /\ HandedOn
    BY <1>1, <1>2, <2>1, <2>2 DEF UpdateInv, Progress, HandedOn, Idle
  <2>4. OneUpdate' /\ Progress'
    BY <1>1, <2>2, <2>3 DEF OneUpdate, Progress, Idle
  <2>5. SentWhole'
    BY <1>1, <2>1 DEF UpdateInv, SentWhole
  <2>6. ServedInv'
    BY <1>1, <1>6, <2>1, <2>3 DEF UpdateInv, ServedInv
  <2> QED BY <2>2, <2>4, <2>5, <2>6 DEF UpdateInv
<1>8. ASSUME excuses' \subseteq {"dropped"} PROVE FileInv'
  <2>1. FileInv /\ UpdateInv /\ \A v \in Writers : wpc'[v] = "idle"
    BY <1>1, <1>7, <1>8 DEF PipelineInv
  <2>2. file = cluster /\ version > 0
    BY <1>1, <2>1 DEF FileInv, UpdateInv, Progress, Idle
  <2> QED BY <1>1, <2>1, <2>2 DEF FileInv, Idle
<1> QED BY <1>5, <1>6, <1>7, <1>8 DEF PipelineInv

\* A step of init or of the monitor outside UpdateIkniteCluster that leaves the bus and
\* the server alone.
LEMMA ControlInd ==
    ASSUME PipelineInv, at' # "phases", server' = server, monitor' \in {"off", "running", "ended"},
           monitor' = "off" => monitor = "off",
           UNCHANGED <<updVars, wpc, cluster, json, file, served, sent, excuses, busVars>>
    PROVE  PipelineInv'
<1>1. /\ version' = version /\ mine' = mine /\ wpc' = wpc /\ cluster' = cluster /\ json' = json
      /\ file' = file /\ served' = served /\ sent' = sent /\ excuses' = excuses
      /\ chan' = chan /\ count' = count /\ todo' = todo /\ subs' = subs
  BY DEF updVars, busVars
<1>2. PipelineTypeOK' /\ MailInv'
  BY <1>1 DEF PipelineInv, PipelineTypeOK, MailInv, Idle
<1>3. UpdateInv => UpdateInv'
  <2>1. Latest' = Latest /\ (HandedOn' <=> HandedOn)
    BY <1>1 DEF Latest, HandedOn, Idle
  <2>2. ServedInv => ServedInv'
    BY <1>1, <2>1 DEF ServedInv
  <2>3. OneUpdate /\ Progress /\ SentWhole => OneUpdate' /\ Progress' /\ SentWhole'
    <3>1. OneUpdate => OneUpdate'
      BY <1>1 DEF OneUpdate, Idle
    <3>2. Progress => Progress'
      BY <1>1 DEF Progress, Idle
    <3>3. SentWhole => SentWhole'
      BY <1>1 DEF SentWhole
    <3> QED BY <3>1, <3>2, <3>3
  <2> QED BY <2>2, <2>3 DEF UpdateInv
<1>4. FileInv => FileInv'
  BY <1>1 DEF FileInv, Idle
<1> QED BY <1>1, <1>2, <1>3, <1>4 DEF PipelineInv

\* The serve phase: what is served is the cluster in memory.
LEMMA ServeInd ==
    ASSUME PipelineInv, Serve
    PROVE  PipelineInv'
<1>1. /\ at = "phases" /\ at' = "served" /\ server' = "up" /\ served' = cluster /\ wpc[Main] = "idle"
      /\ version' = version /\ mine' = mine /\ wpc' = wpc /\ cluster' = cluster /\ json' = json
      /\ file' = file /\ sent' = sent /\ excuses' = excuses /\ monitor' = monitor
  BY DEF Serve, MainAt, updVars, Idle
<1>2. /\ subs' = subs \cup {Listener} /\ chan' = chan /\ count' = count /\ todo' = todo
  BY DEF Serve, Bus!Subscribe
<1>3. PipelineTypeOK /\ MailInv
  BY DEF PipelineInv
<1>4. chan[Listener] = <<>> /\ subs' = {Listener} /\ \A w \in Writers : wpc[w] = "idle"
  BY <1>1, <1>2, <1>3 DEF MailInv, Idle, Writers
<1>5. PipelineTypeOK' /\ MailInv'
  BY <1>1, <1>2, <1>3, <1>4 DEF PipelineTypeOK, MailInv, Idle
<1>6. ASSUME "overlap" \notin excuses' PROVE UpdateInv'
  <2>1. OneUpdate /\ Progress /\ SentWhole /\ cluster = Status(version, version)
    BY <1>1, <1>4, <1>6 DEF PipelineInv, UpdateInv, Progress
  <2>2. OneUpdate' /\ Progress' /\ SentWhole'
    BY <1>1, <1>2, <2>1 DEF OneUpdate, Progress, SentWhole, Idle
  <2>3. Latest' = cluster /\ version \in Nat
    BY <1>1, <1>2, <1>3, <1>4 DEF Latest, PipelineTypeOK
  <2>4. ServedInv'
    BY <1>1, <2>1, <2>3 DEF ServedInv, Status
  <2> QED BY <2>2, <2>4 DEF UpdateInv
<1>7. FileInv => FileInv'
  BY <1>1 DEF FileInv, Idle
<1> QED BY <1>1, <1>5, <1>6, <1>7 DEF PipelineInv

LEMMA HooksInd ==
    ASSUME PipelineInv, NEW from, NEW to, Hooks(from, to), to # "phases"
    PROVE  PipelineInv'
<1>1. /\ at' = to /\ server' = "down" /\ served' = served
      /\ version' = version /\ mine' = mine /\ wpc' = wpc /\ cluster' = cluster /\ json' = json
      /\ file' = file /\ sent' = sent /\ excuses' = excuses /\ monitor' = monitor
  BY DEF Hooks, MainAt, updVars
<1>2. subs' \subseteq subs /\ chan' = chan /\ count' = count /\ todo' = todo
  BY DEF Hooks, Bus!Unsubscribe
<1>3. PipelineTypeOK' /\ MailInv'
  BY <1>1, <1>2 DEF PipelineInv, PipelineTypeOK, MailInv, Idle
<1>4. UpdateInv => UpdateInv'
  BY <1>1, <1>2, Zenon DEF UpdateInv, OneUpdate, Progress, SentWhole, ServedInv, Latest, Idle
<1>5. FileInv => FileInv'
  BY <1>1 DEF FileInv, Idle
<1> QED BY <1>1, <1>3, <1>4, <1>5 DEF PipelineInv

\* The listener takes an update off the channel and serves it: nothing of what is
\* served or still waits is lost, and what is served does not go back.
LEMMA ListenInd ==
    ASSUME PipelineInv, Listen
    PROVE  /\ PipelineInv'
           /\ "overlap" \notin excuses' => /\ served'.state = served'.work
                                           /\ served'.state >= served.state
<1>1. /\ chan[Listener] # <<>> /\ served' = Latest
      /\ version' = version /\ mine' = mine /\ wpc' = wpc /\ cluster' = cluster /\ json' = json
      /\ file' = file /\ sent' = sent /\ excuses' = excuses
      /\ at' = at /\ monitor' = monitor /\ server' = server
  BY DEF Listen, Latest, Bus!Receive, procVars, updVars
<1>2. /\ chan' = [chan EXCEPT ![Listener] = Tail(@)]
      /\ subs' = subs /\ count' = count /\ todo' = todo
  BY DEF Listen, Bus!Receive
<1>3. PipelineTypeOK /\ MailInv
  BY DEF PipelineInv
<1>4. chan'[Listener] = <<>> /\ chan' \in [{Listener} -> Seq([from : Writers, n : Nat])]
  <2>1. /\ chan \in [{Listener} -> Seq([from : Writers, n : Nat])]
        /\ chan[Listener] \in Seq([from : Writers, n : Nat]) /\ Len(chan[Listener]) < 2
    BY <1>3 DEF PipelineTypeOK, MailInv
  <2>2. Tail(chan[Listener]) = <<>>
    BY <1>1, <2>1, AtMostOne
  <2>3. <<>> \in Seq([from : Writers, n : Nat]) /\ chan' = [chan EXCEPT ![Listener] = <<>>]
    <3>1. <<>> \in Seq([from : Writers, n : Nat])
      OBVIOUS
    <3>2. chan' = [chan EXCEPT ![Listener] = Tail(chan[Listener])]
      BY <1>2
    <3> QED BY <2>2, <3>1, <3>2, Zenon
  <2> QED BY <2>1, <2>3
<1>5. Latest' = Latest /\ Latest \in Statuses
  BY <1>1, <1>3, <1>4, LatestType, Zenon DEF Latest
<1>6. PipelineTypeOK'
  BY <1>1, <1>2, <1>3, <1>4, <1>5 DEF PipelineTypeOK
<1>7. MailInv'
  <2>1. at # "phases" /\ Len(chan'[Listener]) < 2
    <3>1. Len(<<>>) < 2
      OBVIOUS
    <3> QED BY <1>1, <1>3, <1>4, <3>1 DEF MailInv
  <2> QED BY <1>1, <1>2, <1>3, <1>4, <2>1 DEF MailInv, Idle
<1>8. ASSUME "overlap" \notin excuses'
      PROVE  /\ UpdateInv' /\ served'.state = served'.work /\ served'.state >= served.state
  <2>1. UpdateInv
    BY <1>1, <1>8 DEF PipelineInv
  <2>2. Latest.state = Latest.work
    <3>1. chan[Listener] \in Seq([from : Writers, n : Nat]) /\ Len(chan[Listener]) < 2
      BY <1>3 DEF PipelineTypeOK, MailInv
    <3>2. PICK e \in [from : Writers, n : Nat] : e = Head(chan[Listener])
      BY <1>1, <3>1, AtMostOne, Zenon
    <3>3. e.n \in 1..Len(sent[e.from]) /\ Latest = sent[e.from][e.n] /\ e.from \in Writers
      BY <1>1, <1>3, <3>2 DEF MailInv, Latest
    <3> QED BY <2>1, <3>3 DEF UpdateInv, SentWhole
  <2>3. served.state <= Latest.state /\ Latest.state <= version /\ served.state \in Int /\ Latest.state \in Int
    BY <1>3, <1>5, <2>1 DEF UpdateInv, ServedInv, PipelineTypeOK, Statuses
  <2>4. OneUpdate' /\ Progress' /\ SentWhole' /\ (HandedOn' <=> HandedOn)
    <3>1. OneUpdate' /\ (HandedOn' <=> HandedOn)
      BY <1>1, <1>2, <2>1 DEF UpdateInv, OneUpdate, HandedOn, Idle
    <3>2. Progress'
      BY <1>1, <1>2, <2>1 DEF UpdateInv, Progress, Idle
    <3>3. SentWhole'
      BY <1>1, <2>1 DEF UpdateInv, SentWhole
    <3> QED BY <3>1, <3>2, <3>3
  <2>5. ServedInv'
    BY <1>1, <1>5, <2>1, <2>2, <2>3, <2>4 DEF UpdateInv, ServedInv
  <2> QED BY <1>1, <2>2, <2>3, <2>4, <2>5 DEF UpdateInv
<1>9. FileInv => FileInv'
  BY <1>1 DEF FileInv, Idle
<1> QED BY <1>1, <1>6, <1>7, <1>8, <1>9 DEF PipelineInv

\* The calls of UpdateIkniteCluster.
LEMMA CallInd ==
    ASSUME PipelineInv, WrapPhase \/ Daemonize \/ Stopping \/ Stopped \/ Tick
    PROVE  PipelineInv' /\ served' = served
<1>1. PICK w \in Writers : /\ BeginUpdate(w) /\ (w = Monitor => monitor # "off")
                           /\ at' = "phases" => at = "phases"
                           /\ UNCHANGED <<monitor, server, served, busVars>>
  BY DEF WrapPhase, Daemonize, Stopping, Stopped, Tick, MainAt, Writers, Main, Monitor, procVars
<1>2. /\ monitor' = monitor /\ server' = server /\ served' = served
      /\ chan' = chan /\ count' = count /\ todo' = todo /\ subs' = subs
  BY <1>1 DEF busVars
<1> QED BY <1>1, <1>2, BeginUpdateInd

\* The steps inside UpdateIkniteCluster.
LEMMA UpdateStepInd ==
    ASSUME PipelineInv, NEW w \in Writers, UpdateStep(w)
    PROVE  PipelineInv' /\ served' = served
<1>1. UNCHANGED procVars /\ (\/ Update(w) \/ Marshal(w) \/ Truncate(w) \/ Write(w)
                             \/ Publish(w) \/ Send(w) \/ Return(w))
  BY DEF UpdateStep
<1>2. served' = served
  BY <1>1 DEF Update, Marshal, Truncate, Write, Publish, Send, Return
<1> QED BY <1>1, <1>2, UpdateInd, MarshalInd, PersistInd, PublishInd, SendInd, ReturnInd

\* The invariant is kept, and without overlapping calls the served status goes forward
\* from the moment the server is up.
LEMMA PipelineStep ==
    ASSUME PipelineInv, Next
    PROVE  /\ PipelineInv'
           /\ \/ served' = served \/ served = Absent
              \/ /\ "overlap" \notin excuses' => /\ served'.state = served'.work
                                                 /\ served'.state >= served.state
<1>1. CASE WrapPhase \/ Daemonize \/ Stopping \/ Stopped \/ Tick
  BY <1>1, CallInd
<1>2. CASE PhaseFails \/ RunMonitorWorkloads \/ MonitorEnds
  <2>1. /\ at' # "phases" /\ server' = server /\ monitor' \in {"off", "running", "ended"}
        /\ monitor' = "off" => monitor = "off"
        /\ UNCHANGED <<updVars, wpc, cluster, json, file, served, sent, excuses, busVars>>
    <3>1. monitor \in {"off", "running", "ended"} /\ (at = "phases" => monitor = "off")
      BY DEF PipelineInv, PipelineTypeOK, MailInv
    <3> QED BY <1>2, <3>1 DEF PhaseFails, RunMonitorWorkloads, MonitorEnds, MainAt
  <2> QED BY <2>1, ControlInd
<1>3. CASE Serve
  <2>1. served = Absent
    BY <1>3 DEF Serve, MainAt, PipelineInv, MailInv
  <2> QED BY <1>3, <2>1, ServeInd
<1>4. CASE Hooks("stopping", "hooked") \/ Hooks("stopped", "exited")
  <2>1. served' = served
    BY <1>4 DEF Hooks
  <2> QED BY <1>4, <2>1, HooksInd
<1>5. CASE Listen
  BY <1>5, ListenInd
<1>6. ASSUME NEW w \in Writers, UpdateStep(w) PROVE PipelineInv' /\ served' = served
  BY <1>6, UpdateStepInd
<1> QED BY <1>1, <1>2, <1>3, <1>4, <1>5, <1>6 DEF Next, InitWorkflow

\* The history only grows.
LEMMA ExcusesGrow ==
    ASSUME Next
    PROVE  excuses \subseteq excuses'
<1>1. CASE WrapPhase \/ Daemonize \/ Stopping \/ Stopped \/ Tick
  BY <1>1 DEF WrapPhase, Daemonize, Stopping, Stopped, Tick, BeginUpdate
<1>2. CASE PhaseFails \/ RunMonitorWorkloads \/ MonitorEnds \/ Serve \/ Listen
  BY <1>2 DEF PhaseFails, RunMonitorWorkloads, MonitorEnds, Serve, Listen
<1>3. CASE Hooks("stopping", "hooked") \/ Hooks("stopped", "exited")
  BY <1>3 DEF Hooks
<1>4. ASSUME NEW w \in Writers, UpdateStep(w) PROVE excuses \subseteq excuses'
  BY <1>4 DEF UpdateStep, Update, Marshal, Truncate, Write, Publish, Send, Return
<1> QED BY <1>1, <1>2, <1>3, <1>4 DEF Next, InitWorkflow

\* PipelineInv holds throughout, however many phases and ticks there are.
THEOREM PipelineInvariance == Spec => []PipelineInv
<1>1. PipelineInv /\ [Next]_vars => PipelineInv'
  <2> SUFFICES ASSUME PipelineInv, [Next]_vars PROVE PipelineInv'
    OBVIOUS
  <2>1. CASE Next
    BY <2>1, PipelineStep
  <2>2. CASE UNCHANGED vars
    <3>1. /\ at' = at /\ server' = server /\ monitor' = monitor
          /\ version' = version /\ mine' = mine /\ wpc' = wpc /\ cluster' = cluster /\ json' = json
          /\ file' = file /\ served' = served /\ sent' = sent /\ excuses' = excuses
          /\ chan' = chan /\ count' = count /\ todo' = todo /\ subs' = subs
      BY <2>2 DEF vars, procVars, updVars, busVars
    <3>2. PipelineTypeOK' /\ MailInv' /\ Latest' = Latest
      BY <3>1 DEF PipelineInv, PipelineTypeOK, MailInv, Latest, Idle
    <3>3. UpdateInv => UpdateInv'
      BY <3>1, <3>2 DEF UpdateInv, OneUpdate, Progress, SentWhole, ServedInv, HandedOn, Idle
    <3>4. FileInv => FileInv'
      BY <3>1 DEF FileInv, Idle
    <3> QED BY <3>1, <3>2, <3>3, <3>4 DEF PipelineInv
  <2> QED BY <2>1, <2>2
<1> QED BY <1>1, InitInd, PTL DEF Spec

\* GET /status answers with whole statuses, and with the cluster in memory once all is
\* delivered, unless calls of UpdateIkniteCluster overlap or the channel was full.
THEOREM LatestIsServed == Spec => []ServesLatest
<1>1. PipelineInv => ServesLatest
  <2> SUFFICES ASSUME PipelineInv, "overlap" \notin excuses
               PROVE  /\ served.state = served.work
                      /\ (server = "up" /\ "dropped" \notin excuses
                            /\ (\A w \in Writers : Idle(w)) /\ chan[Listener] = <<>>)
                           => served = cluster
    BY DEF ServesLatest
  <2>1. ServedInv
    BY DEF PipelineInv, UpdateInv
  <2> QED BY <2>1 DEF ServedInv, Latest, HandedOn
<1> QED BY <1>1, PipelineInvariance, PTL

\* The served status never goes back to an older update unless calls overlap, whatever
\* the bus loses and however many updates there are.
THEOREM ServedGoesForward == Spec => ServedForward
<1>1. PipelineInv /\ [Next]_vars =>
         [("overlap" \notin excuses' /\ served # Absent)
             => served'.state >= served.state /\ served'.work >= served.work]_vars
  <2> SUFFICES ASSUME PipelineInv, Next, "overlap" \notin excuses', served # Absent
               PROVE  served'.state >= served.state /\ served'.work >= served.work
    BY DEF vars
  <2>1. CASE served' = served
    <3>1. served.state \in Int /\ served.work \in Int
      BY DEF PipelineInv, PipelineTypeOK, Statuses
    <3> QED BY <2>1, <3>1
  <2>2. CASE served' # served
    <3>1. served'.state = served'.work /\ served'.state >= served.state
      BY <2>2, PipelineStep
    <3>2. "overlap" \notin excuses
      BY ExcusesGrow
    <3>3. served.state = served.work
      BY <3>2 DEF PipelineInv, UpdateInv, ServedInv
    <3> QED BY <3>1, <3>3
  <2> QED BY <2>1, <2>2
<1> QED BY <1>1, PipelineInvariance, PTL DEF Spec, ServedForward

\* "iknite start" reads whole statuses from status.json and fails on it only between the
\* truncation and the write, unless a write failed or calls overlapped.
THEOREM StartReadsWhole == Spec => []StartReadsStatus
<1>1. PipelineInv => StartReadsStatus
  <2> SUFFICES ASSUME PipelineInv, excuses \subseteq {"dropped"} PROVE StartReadsStatus
    BY DEF StartReadsStatus
  <2>1. FileInv /\ OneUpdate /\ Progress /\ version \in Nat
    BY DEF PipelineInv, UpdateInv, PipelineTypeOK
  <2>2. CASE \A w \in Writers : wpc[w] = "idle"
    <3>1. cluster = Status(version, version) /\ file = IF version = 0 THEN Absent ELSE cluster
      BY <2>1, <2>2 DEF Progress, FileInv, Idle
    <3>2. file.state = file.work /\ file.state >= -1
      BY <2>1, <3>1 DEF Absent, Status
    <3>3. file # Mixed /\ file # Empty
      BY <3>2 DEF Mixed, Empty, Status
    <3> QED BY <2>1, <3>1, <3>2, <3>3 DEF StartReadsStatus, IsIkniteReady
  <2>3. ASSUME NEW w \in Writers, wpc[w] # "idle" PROVE StartReadsStatus
    <3>0. ~(\A v \in Writers : Idle(v))
      BY <2>3 DEF Idle
    <3>1. CASE wpc[w] = "write"
      <4>1. file = Empty /\ Empty.state = Empty.work /\ Empty # Mixed
        BY <2>1, <3>1 DEF FileInv, Empty, Mixed, Status
      <4> QED BY <3>0, <3>1, <4>1 DEF StartReadsStatus
    <3>2. CASE wpc[w] # "write"
      <4>1. file.state = file.work /\ file.state >= -1
        <5>1. CASE wpc[w] \in {"update", "marshal", "truncate"}
          BY <2>1, <5>1 DEF FileInv
        <5>2. CASE wpc[w] \in {"copy", "publish"}
          <6>1. file = cluster /\ cluster = Status(version, version)
            BY <2>1, <2>3, <5>2, OthersIdle DEF FileInv, Progress, Idle
          <6> QED BY <2>1, <6>1 DEF Status
        <5> QED BY <2>3, <3>2, <5>1, <5>2 DEF PipelineInv, PipelineTypeOK
      <4>2. file # Mixed /\ file # Empty
        BY <4>1 DEF Mixed, Empty, Status
      <4> QED BY <3>0, <4>1, <4>2 DEF StartReadsStatus, IsIkniteReady
    <3> QED BY <3>1, <3>2
  <2> QED BY <2>2, <2>3
<1> QED BY <1>1, PipelineInvariance, PTL
=============================================================================
