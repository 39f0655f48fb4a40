-------------------------- MODULE HostLifecycleProofs --------------------------
(***************************************************************************)
(* Proofs about the host over any number of starts, kills and commands:    *)
(* the cleanings (VolumeInv, ThoroughInv) and the preparation (PrepInv).   *)
(***************************************************************************)
EXTENDS HostLifecycle, TLAPS

----------------------------------------------------------------------------
(* The lists of steps.                                                      *)

\* Unmounts the volumes, before it removes what is below them.
Unmounts(q) == q \in Seq(StepNames) /\ Has(q, "unmount") /\ UnmountsFirst(q)

\* Neither removes what is below the volumes, nor unmounts them.
Neutral(q) == ~Has(q, "unmount") /\ ~Has(q, "kubeletFiles") /\ ~Has(q, "config")

\* What two lists do one after the other.
LEMMA ConcatFacts ==
    ASSUME NEW p \in Seq(StepNames), NEW q \in Seq(StepNames)
    PROVE  /\ p \o q \in Seq(StepNames)
           /\ \A s : Has(p \o q, s) <=> Has(p, s) \/ Has(q, s)
           /\ UnmountsFirst(p) /\ UnmountsFirst(q)
                /\ (Neutral(p) \/ ~Has(q, "unmount")) => UnmountsFirst(p \o q)
<1>1. DEFINE r == p \o q
<1>2. /\ r \in Seq(StepNames) /\ DOMAIN r = 1..(Len(p) + Len(q))
      /\ DOMAIN p = 1..Len(p) /\ DOMAIN q = 1..Len(q) /\ Len(p) \in Nat /\ Len(q) \in Nat
    OBVIOUS
<1>3. /\ \A i \in 1..Len(p) : r[i] = p[i]
      /\ \A i \in 1..Len(q) : r[i + Len(p)] = q[i]
    OBVIOUS
<1> HIDE DEF r
<1>4. ASSUME NEW i \in DOMAIN r
      PROVE  \/ i \in DOMAIN p /\ r[i] = p[i]
             \/ i - Len(p) \in DOMAIN q /\ r[i] = q[i - Len(p)]
    <2>1. i \in 1..Len(p) \/ (i - Len(p) \in 1..Len(q) /\ (i - Len(p)) + Len(p) = i)
        BY <1>2
    <2>2. QED
        BY <1>2, <1>3, <2>1
<1>5. \A i \in DOMAIN q : i + Len(p) \in DOMAIN r
    BY <1>2
<1>6. \A i \in DOMAIN p : i \in DOMAIN r
    BY <1>2
<1>7. \A s : Has(r, s) => Has(p, s) \/ Has(q, s)
    BY <1>4 DEF Has
<1>8. \A s : Has(p, s) \/ Has(q, s) => Has(r, s)
    BY <1>2, <1>3, <1>5, <1>6 DEF Has
<1>9. ASSUME UnmountsFirst(p), UnmountsFirst(q), Neutral(p) \/ ~Has(q, "unmount"),
             NEW i \in DOMAIN r, NEW j \in DOMAIN r, i <= j,
             r[i] \in {"kubeletFiles", "config"}, r[j] = "unmount"
      PROVE  FALSE
    <2>1. CASE i \in DOMAIN p /\ r[i] = p[i] /\ j \in DOMAIN p /\ r[j] = p[j]
        BY <1>9, <2>1 DEF UnmountsFirst
    <2>2. CASE i \in DOMAIN p /\ r[i] = p[i] /\ j - Len(p) \in DOMAIN q /\ r[j] = q[j - Len(p)]
        BY <1>9, <2>2 DEF Neutral, Has
    <2>3. CASE i - Len(p) \in DOMAIN q /\ j \in DOMAIN p
        BY <1>2, <1>9, <2>3
    <2>4. CASE /\ i - Len(p) \in DOMAIN q /\ r[i] = q[i - Len(p)]
               /\ j - Len(p) \in DOMAIN q /\ r[j] = q[j - Len(p)]
        <3>1. i - Len(p) <= j - Len(p)
            BY <1>2, <1>9
        <3>2. QED
            BY <1>9, <2>4, <3>1 DEF UnmountsFirst
    <2>5. QED
        BY <1>4, <1>9, <2>1, <2>2, <2>3, <2>4
<1>10. /\ UnmountsFirst(p) /\ UnmountsFirst(q) /\ (Neutral(p) \/ ~Has(q, "unmount"))
       => UnmountsFirst(r)
    BY <1>9 DEF UnmountsFirst
<1>11. QED
    BY <1>2, <1>7, <1>8, <1>10 DEF r

\* Steps before a list that unmounts.
LEMMA Preceded ==
    ASSUME NEW p \in Seq(StepNames), Neutral(p), NEW q, Unmounts(q)
    PROVE  Unmounts(p \o q) /\ \A s : Has(q, s) => Has(p \o q, s)
<1>1. UnmountsFirst(p)
    BY DEF Neutral, UnmountsFirst, Has
<1>2. QED
    BY <1>1, ConcatFacts DEF Unmounts

\* Steps after it.
LEMMA Extended ==
    ASSUME NEW q, Unmounts(q), NEW r \in Seq(StepNames), ~Has(r, "unmount")
    PROVE  Unmounts(q \o r) /\ \A s : Has(q, s) \/ Has(r, s) => Has(q \o r, s)
<1>1. UnmountsFirst(r)
    BY DEF UnmountsFirst, Has
<1>2. QED
    BY <1>1, ConcatFacts DEF Unmounts

LEMMA UnmountingFacts == Unmounts(Unmounting)
BY DEF Unmounts, Unmounting, StepNames, Has, UnmountsFirst

LEMMA NetworkFacts ==
    /\ Network \in Seq(StepNames) /\ ~Has(Network, "unmount")
    /\ Has(Network, "netns") /\ Has(Network, "links")
BY DEF Network, StepNames, Has

\* The lists that begin with the containers.
LEMMA CommonSteps ==
    ASSUME NEW p \in Seq(StepNames), Neutral(p)
    PROVE  /\ Unmounts(p \o Unmounting \o Network)
           /\ Has(p \o Unmounting \o Network, "netns") /\ Has(p \o Unmounting \o Network, "links")
<1>1. Unmounts(p \o Unmounting)
    BY UnmountingFacts, Preceded
<1>2. QED
    BY <1>1, NetworkFacts, Extended

LEMMA ShortFacts ==
    /\ <<>> \in Seq(StepNames) /\ ~Has(<<>>, "unmount")
    /\ <<"rules">> \in Seq(StepNames) /\ ~Has(<<"rules">>, "unmount")
    /\ <<"ip">> \in Seq(StepNames) /\ ~Has(<<"ip">>, "unmount")
    /\ <<"config">> \in Seq(StepNames) /\ ~Has(<<"config">>, "unmount")
    /\ <<"service">> \in Seq(StepNames) /\ Neutral(<<"service">>)
    /\ <<"containers">> \in Seq(StepNames) /\ Neutral(<<"containers">>)
BY DEF StepNames, Neutral, Has

\* CleanAll unmounts, whatever its flags.
LEMMA CleanAllFacts ==
    ASSUME NEW resetIp \in BOOLEAN, NEW resetTables \in BOOLEAN
    PROVE  Unmounts(CleanAll(resetIp, resetTables))
<1>1. DEFINE t == IF resetTables THEN <<"rules">> ELSE <<>>
             i == IF resetIp THEN <<"ip">> ELSE <<>>
             c == <<"containers">> \o Unmounting \o Network
<1>3. Unmounts(c)
    BY ShortFacts, CommonSteps
<1>4. t \in Seq(StepNames) /\ ~Has(t, "unmount")
    BY ShortFacts
<1>5. i \in Seq(StepNames) /\ ~Has(i, "unmount")
    BY ShortFacts
<1>6. CleanAll(resetIp, resetTables) = c \o t \o i
    BY DEF CleanAll
<1> HIDE DEF t, i, c
<1>7. Unmounts(c \o t)
    BY <1>3, <1>4, Extended
<1>8. Unmounts(c \o t \o i)
    BY <1>5, <1>7, Extended
<1>9. QED
    BY <1>6, <1>8

\* Every list unmounts the volumes before it removes what is below them, and the one
\* with every option removes all that it should.
LEMMA StepsFacts ==
    ASSUME NEW j \in Jobs
    PROVE  /\ Unmounts(Steps(j))
           /\ j = "cleanAll" => \A s \in Removable : Has(Steps(j), s)
<1>1. CASE j = "cleanAll"
    <2>1. DEFINE p == <<"containers", "containerd">>
                 r == <<"rules", "ip", "data", "config", "rootConfig", "kubelet">>
                 c == p \o Unmounting \o Network
    <2>2. p \in Seq(StepNames) /\ Neutral(p)
        BY DEF StepNames, Neutral, Has
    <2>3. r \in Seq(StepNames) /\ ~Has(r, "unmount")
        BY DEF StepNames, Has
    <2>4. Has(r, "rules") /\ Has(r, "data") /\ Has(r, "rootConfig")
        BY DEF Has
    <2>5. Unmounts(c) /\ Has(c, "netns") /\ Has(c, "links")
        BY <2>2, CommonSteps
    <2>6. Steps(j) = c \o r
        BY <1>1 DEF Steps
    <2> HIDE DEF p, r, c
    <2>7. Unmounts(c \o r) /\ \A s : Has(c, s) \/ Has(r, s) => Has(c \o r, s)
        BY <2>3, <2>5, Extended
    <2>8. QED
        BY <2>4, <2>5, <2>6, <2>7 DEF Removable
<1>2. CASE j = "clean"
    <2>1. DEFINE r == <<"rules", "kubelet">>
                 c == <<"containers">> \o Unmounting \o Network
    <2>2. r \in Seq(StepNames) /\ ~Has(r, "unmount")
        BY DEF StepNames, Has
    <2>3. Unmounts(c)
        BY ShortFacts, CommonSteps
    <2>4. Steps(j) = c \o r
        BY <1>2 DEF Steps
    <2> HIDE DEF r, c
    <2>5. Unmounts(c \o r)
        BY <2>2, <2>3, Extended
    <2>6. QED
        BY <1>2, <2>4, <2>5
<1>3. CASE j = "reset"
    <2>1. Unmounts(<<"service">> \o CleanAll(TRUE, TRUE))
        BY CleanAllFacts, ShortFacts, Preceded
    <2>2. Unmounts(<<"service">> \o CleanAll(TRUE, TRUE) \o <<"config">>)
        BY <2>1, ShortFacts, Extended
    <2>3. QED
        BY <1>3, <2>2 DEF Steps
<1>4. CASE j = "preclean"
    BY <1>4, CleanAllFacts DEF Steps
<1>5. CASE j = "daemonize"
    BY <1>5, CleanAllFacts DEF Steps
<1>6. QED
    BY <1>1, <1>2, <1>3, <1>4, <1>5 DEF Jobs

\* What is left of a list when its first step is done.
LEMMA TailFacts ==
    ASSUME NEW q \in Seq(StepNames), q # <<>>
    PROVE  /\ Tail(q) \in Seq(StepNames)
           /\ UnmountsFirst(q) => UnmountsFirst(Tail(q))
           /\ \A s : s # Head(q) /\ Has(q, s) => Has(Tail(q), s)
           /\ \A s : Has(Tail(q), s) => Has(q, s)
<1>1. /\ Tail(q) \in Seq(StepNames) /\ Len(q) \in Nat /\ Len(q) > 0
      /\ DOMAIN Tail(q) = 1..(Len(q) - 1) /\ DOMAIN q = 1..Len(q) /\ Head(q) = q[1]
    OBVIOUS
<1>2. \A i \in 1..(Len(q) - 1) : Tail(q)[i] = q[i + 1]
    OBVIOUS
<1>3. ASSUME UnmountsFirst(q), NEW i \in DOMAIN Tail(q), NEW j \in DOMAIN Tail(q), i <= j,
             Tail(q)[i] \in {"kubeletFiles", "config"}
      PROVE  Tail(q)[j] # "unmount"
    <2>1. i + 1 \in DOMAIN q /\ j + 1 \in DOMAIN q /\ i + 1 <= j + 1
        BY <1>1, <1>3
    <2>2. QED
        BY <1>1, <1>2, <1>3, <2>1 DEF UnmountsFirst
<1>4. ASSUME NEW s, s # Head(q), Has(q, s)
      PROVE  Has(Tail(q), s)
    <2>1. PICK i \in 1..Len(q) : q[i] = s
        BY <1>1, <1>4 DEF Has
    <2>2. i - 1 \in 1..(Len(q) - 1) /\ (i - 1) + 1 = i
        BY <1>1, <1>4, <2>1
    <2>3. Tail(q)[i - 1] = s
        BY <1>2, <2>1, <2>2
    <2>4. QED
        BY <1>1, <2>2, <2>3 DEF Has
<1>5. ASSUME NEW s, Has(Tail(q), s)
      PROVE  Has(q, s)
    <2>1. PICK i \in 1..(Len(q) - 1) : Tail(q)[i] = s
        BY <1>1, <1>5 DEF Has
    <2>2. i + 1 \in 1..Len(q) /\ q[i + 1] = s
        BY <1>1, <1>2, <2>1
    <2>3. QED
        BY <1>1, <2>2 DEF Has
<1>6. UnmountsFirst(q) => UnmountsFirst(Tail(q))
    BY <1>3 DEF UnmountsFirst
<1>7. QED
    BY <1>1, <1>4, <1>5, <1>6

\* A list whose first step removes what is below the volumes has unmounted them.
LEMMA PastUnmount ==
    ASSUME NEW q \in Seq(StepNames), q # <<>>, UnmountsFirst(q),
           Head(q) \in {"kubeletFiles", "config"}
    PROVE  ~Has(q, "unmount")
<1>1. Len(q) > 0 /\ DOMAIN q = 1..Len(q) /\ Head(q) = q[1] /\ Len(q) \in Nat
    OBVIOUS
<1>2. \A i \in DOMAIN q : 1 <= i /\ 1 \in DOMAIN q
    BY <1>1
<1>3. QED
    BY <1>1, <1>2 DEF UnmountsFirst, Has

----------------------------------------------------------------------------
(* The cleanings.                                                           *)

CleanInv == JobInv /\ VolumeInv /\ ThoroughInv

\* A step of a cleaning that ends: it goes on to the next one, or the cleaning ends.
LEMMA MoveFacts ==
    ASSUME JobInv, NEW a \in Actors, todo[a] # <<>>, Done(a) \/ Failed(a)
    PROVE  /\ JobInv' /\ job' = job
           /\ \A b \in Actors : b # a => todo'[b] = todo[b] /\ result'[b] = result[b]
           /\ \/ /\ todo'[a] = Tail(todo[a]) /\ result'[a] = result[a]
                 /\ Done(a) \/ ~Fatal(job[a], Head(todo[a]))
              \/ todo'[a] = <<>> /\ result'[a] = "error"
<1>1. /\ todo[a] \in Seq(StepNames) /\ Tail(todo[a]) \in Seq(StepNames)
      /\ <<>> \in Seq(StepNames)
    BY TailFacts DEF JobInv
<1>2. CASE Done(a)
    BY <1>1, <1>2 DEF Done, JobInv
<1>3. CASE Failed(a) /\ Fatal(job[a], Head(todo[a]))
    BY <1>1, <1>3 DEF Failed, JobInv
<1>4. CASE Failed(a) /\ ~Fatal(job[a], Head(todo[a]))
    BY <1>2, <1>4 DEF Failed
<1>5. QED
    BY <1>2, <1>3, <1>4

\* What keeps VolumeInv: a list only loses its first step, and loses the unmounting when
\* the volume is gone or there is an excuse.
LEMMA KeepVolume ==
    ASSUME JobInv, VolumeInv, Excused => Excused',
           \A b \in Actors :
               \/ todo'[b] = todo[b] \/ todo'[b] = <<>> \/ Unmounts(todo'[b])
               \/ /\ todo[b] # <<>> /\ todo'[b] = Tail(todo[b])
                  /\ Head(todo[b]) = "unmount" => volume' = "none" \/ Excused',
           \/ volume' \in {volume, "none"} \/ Excused'
           \/ volume' = "mounted" /\ \A b \in Actors : todo'[b] = <<>>
    PROVE  VolumeInv'
<1>1. ASSUME NEW b \in Actors
      PROVE  UnmountsFirst(todo'[b])
    <2>1. todo[b] \in Seq(StepNames) /\ UnmountsFirst(todo[b])
        BY DEF JobInv, VolumeInv
    <2>2. UnmountsFirst(<<>>)
        BY DEF UnmountsFirst
    <2>3. QED
        BY <2>1, <2>2, TailFacts DEF Unmounts
<1>2. ASSUME NEW b \in Actors, todo'[b] # <<>>, ~Has(todo'[b], "unmount"), volume' # "none",
             ~Excused'
      PROVE  FALSE
    <2>1. volume' = volume
        BY <1>2
    <2>2. todo[b] \in Seq(StepNames)
        BY DEF JobInv
    <2>3. todo[b] # <<>> /\ ~Has(todo[b], "unmount")
        <3>1. CASE todo'[b] = todo[b]
            BY <1>2, <3>1
        <3>2. CASE Unmounts(todo'[b])
            BY <1>2, <3>2 DEF Unmounts
        <3>3. CASE /\ todo[b] # <<>> /\ todo'[b] = Tail(todo[b])
                   /\ Head(todo[b]) = "unmount" => volume' = "none" \/ Excused'
            BY <1>2, <2>2, <3>3, TailFacts
        <3>4. QED
            BY <1>2, <3>1, <3>2, <3>3
    <2>4. Excused
        BY <1>2, <2>1, <2>3 DEF VolumeInv
    <2>5. QED
        BY <1>2, <2>4
<1>3. KeepsVolumes'
    BY DEF VolumeInv, KeepsVolumes, Excused
<1>4. QED
    BY <1>1, <1>2, <1>3 DEF VolumeInv

\* What keeps ThoroughInv: what is left on the host is left in the list.
LEMMA KeepThorough ==
    ASSUME JobInv, ThoroughInv, job'["cmd"] = job["cmd"],
           "since" \in excuses => "since" \in excuses',
           residue' \subseteq residue \/ "since" \in excuses',
           result'["cmd"] \in {"running", "nil"} => result["cmd"] \in {"running", "nil"},
           \/ todo'["cmd"] = todo["cmd"] \/ result'["cmd"] \notin {"running", "nil"}
           \/ /\ todo["cmd"] # <<>> /\ todo'["cmd"] = Tail(todo["cmd"])
              /\ job["cmd"] = "cleanAll" => Head(todo["cmd"]) \notin residue' \cap Removable
    PROVE  ThoroughInv'
<1>1. SUFFICES ASSUME job'["cmd"] = "cleanAll", result'["cmd"] \in {"running", "nil"},
                      "since" \notin excuses', NEW s \in residue' \cap Removable
               PROVE  Has(todo'["cmd"], s)
    BY DEF ThoroughInv
<1>2. Has(todo["cmd"], s)
    BY <1>1 DEF ThoroughInv
<1>3. todo["cmd"] \in Seq(StepNames)
    BY DEF JobInv, Actors
<1>4. QED
    BY <1>1, <1>2, <1>3, TailFacts

\* A step of a cleaning keeps both.
LEMMA MoveClean ==
    ASSUME CleanInv, NEW a \in Actors, todo[a] # <<>>,
           excuses \subseteq excuses', residue' \subseteq residue,
           \/ Done(a) /\ Head(todo[a]) \notin residue' \cap Removable
           \/ Failed(a),
           volume' \in {volume, "none"} \/ Excused',
           Head(todo[a]) = "unmount" => volume' = "none" \/ Excused'
    PROVE  CleanInv'
<1>1. JobInv /\ VolumeInv /\ ThoroughInv
    BY DEF CleanInv
<1>2. /\ JobInv' /\ job' = job
      /\ \A b \in Actors : b # a => todo'[b] = todo[b] /\ result'[b] = result[b]
      /\ \/ /\ todo'[a] = Tail(todo[a]) /\ result'[a] = result[a]
            /\ Done(a) \/ ~Fatal(job[a], Head(todo[a]))
         \/ todo'[a] = <<>> /\ result'[a] = "error"
    BY <1>1, MoveFacts
<1>3. Excused => Excused'
    BY DEF Excused
<1>4. VolumeInv'
    BY <1>1, <1>2, <1>3, KeepVolume
<1>5. \A s \in Removable : Fatal("cleanAll", s)
    BY DEF Removable, Fatal
<1>6. todo'[a] = Tail(todo[a]) /\ job[a] = "cleanAll" /\ result'[a] # "error"
        => Head(todo[a]) \notin residue' \cap Removable
    <2>1. CASE Failed(a) /\ Fatal(job[a], Head(todo[a]))
        BY <1>1, <2>1 DEF Failed, JobInv
    <2>2. CASE Failed(a) /\ ~Fatal(job[a], Head(todo[a]))
        BY <1>5, <2>2
    <2>3. QED
        BY <2>1, <2>2
<1>7. ThoroughInv'
    <2>1. CASE a = "cmd"
        BY <1>1, <1>2, <1>6, <2>1, KeepThorough
    <2>2. CASE a # "cmd"
        BY <1>1, <1>2, <2>2, KeepThorough DEF Actors
    <2>3. QED
        BY <2>1, <2>2
<1>8. QED
    BY <1>2, <1>4, <1>7 DEF CleanInv

\* A step that touches no job, list, result, excuse, volume or residue.
LEMMA QuietClean ==
    ASSUME CleanInv, UNCHANGED <<job, todo, result, excuses, volume, residue>>
    PROVE  CleanInv'
<1>1. JobInv'
    BY DEF CleanInv, JobInv
<1>2. VolumeInv'
    BY DEF CleanInv, VolumeInv, Excused, KeepsVolumes
<1>3. ThoroughInv'
    BY DEF CleanInv, ThoroughInv
<1>4. QED
    BY <1>1, <1>2, <1>3 DEF CleanInv

\* The steps that remove one kind of residue.
LEMMA RemoveClean ==
    ASSUME CleanInv, NEW a \in Actors, NEW s \in StepNames \ {"unmount"}, Remove(a, s)
    PROVE  CleanInv'
<1>1. todo[a] # <<>> /\ Head(todo[a]) = s
    BY DEF Remove, At
<1>2. excuses' = excuses /\ volume' = volume /\ residue' \subseteq residue
    BY DEF Remove
<1>3. (Done(a) /\ s \notin residue') \/ Failed(a)
    BY DEF Remove
<1>4. QED
    BY <1>1, <1>2, <1>3, MoveClean

LEMMA UnmountClean ==
    ASSUME CleanInv, NEW a \in Actors, UnmountPaths(a)
    PROVE  CleanInv'
<1>1. todo[a] # <<>> /\ Head(todo[a]) = "unmount"
    BY DEF UnmountPaths, At
<1>2. excuses \subseteq excuses' /\ residue' = residue
    BY DEF UnmountPaths, ProcessMounts
<1>3. volume' = "none" \/ Excused'
    BY DEF UnmountPaths, ProcessMounts, Excused
<1>4. Done(a) \/ Failed(a)
    BY DEF UnmountPaths
<1>5. Head(todo[a]) \notin Removable
    BY <1>1 DEF Removable
<1>6. QED
    BY <1>1, <1>2, <1>3, <1>4, <1>5, MoveClean

\* What is below the volumes is removed when there is none, or an excuse.
LEMMA EmptiedFacts ==
    ASSUME CleanInv, NEW a \in Actors, todo[a] # <<>>, Head(todo[a]) \in {"kubeletFiles", "config"}
    PROVE  volume = "none" \/ Excused
<1>1. todo[a] \in Seq(StepNames) /\ UnmountsFirst(todo[a])
    BY DEF CleanInv, JobInv, VolumeInv
<1>2. ~Has(todo[a], "unmount")
    BY <1>1, PastUnmount
<1>3. QED
    BY <1>2 DEF CleanInv, VolumeInv

LEMMA KubeletFilesClean ==
    ASSUME CleanInv, NEW a \in Actors, RemoveKubeletFiles(a)
    PROVE  CleanInv'
<1>1. todo[a] # <<>> /\ Head(todo[a]) = "kubeletFiles"
    BY DEF RemoveKubeletFiles, At
<1>2. excuses' = excuses /\ residue' = residue /\ (Done(a) \/ Failed(a))
    BY DEF RemoveKubeletFiles
<1>3. volume' = "none" \/ Excused'
    BY <1>1, <1>2, EmptiedFacts DEF RemoveKubeletFiles, Emptied, Excused
<1>4. Head(todo[a]) \notin Removable
    BY <1>1 DEF Removable
<1>5. QED
    BY <1>1, <1>2, <1>3, <1>4, MoveClean

LEMMA ConfigClean ==
    ASSUME CleanInv, NEW a \in Actors, CleanConfig(a)
    PROVE  CleanInv'
<1>1. todo[a] # <<>> /\ Head(todo[a]) = "config"
    BY DEF CleanConfig, At
<1>2. excuses' = excuses /\ residue' \subseteq residue /\ Done(a)
    BY DEF CleanConfig
<1>3. volume' \in {volume, "none"} \/ Excused'
    BY <1>1, <1>2, EmptiedFacts DEF CleanConfig, Emptied, Excused
<1>4. Head(todo[a]) \notin Removable
    BY <1>1 DEF Removable
<1>5. QED
    BY <1>1, <1>2, <1>3, <1>4, MoveClean

\* The steps that touch neither the residue nor the volume.
LEMMA OtherClean ==
    ASSUME CleanInv, NEW a \in Actors,
           StopContainerd(a) \/ ResetIPAddress(a) \/ StopKubelet(a) \/ StopIknite(a)
    PROVE  CleanInv'
<1>1. /\ todo[a] # <<>> /\ Head(todo[a]) \in {"containerd", "ip", "kubelet", "service"}
    BY DEF StopContainerd, ResetIPAddress, StopKubelet, StopIknite, At
<1>2. volume' = volume /\ residue' = residue
    BY DEF StopContainerd, ResetIPAddress, StopKubelet, StopIknite
<1>3. excuses \subseteq excuses'
    BY DEF StopContainerd, ResetIPAddress, StopKubelet, StopIknite
<1>4. Head(todo[a]) \notin Removable /\ Head(todo[a]) # "unmount"
    BY <1>1 DEF Removable
<1>5. \/ Done(a) \/ Failed(a)
      \/ UNCHANGED <<todo, job, result>> /\ excuses' = excuses
    <2>1. CASE StopContainerd(a) \/ StopKubelet(a)
        BY <2>1 DEF StopContainerd, StopKubelet
    <2>2. CASE ResetIPAddress(a)
        BY <2>2 DEF ResetIPAddress
    <2>3. CASE StopIknite(a)
        BY <2>3 DEF StopIknite
    <2>4. QED
        BY <2>1, <2>2, <2>3
<1>6. CASE Done(a) \/ Failed(a)
    BY <1>1, <1>2, <1>3, <1>4, <1>6, MoveClean
<1>7. CASE UNCHANGED <<todo, job, result>> /\ excuses' = excuses
    BY <1>2, <1>7, QuietClean
<1>8. QED
    BY <1>5, <1>6, <1>7

LEMMA ReturnsClean ==
    ASSUME CleanInv, NEW a \in Actors, JobReturns(a)
    PROVE  CleanInv'
<1>1. /\ UNCHANGED <<job, todo, excuses, volume, residue>> /\ todo[a] = <<>>
      /\ result[a] = "running" /\ result' = [result EXCEPT ![a] = "nil"]
    BY DEF JobReturns
<1>2. JobInv'
    BY <1>1 DEF CleanInv, JobInv
<1>3. VolumeInv'
    BY <1>1 DEF CleanInv, VolumeInv, Excused, KeepsVolumes
<1>4. result'["cmd"] \in {"running", "nil"} => result["cmd"] \in {"running", "nil"}
    BY <1>1 DEF CleanInv, JobInv, Actors
<1>5. ThoroughInv'
    BY <1>1, <1>4, KeepThorough DEF CleanInv
<1>6. QED
    BY <1>2, <1>3, <1>5 DEF CleanInv

\* Every step of a cleaning keeps the invariant.
LEMMA JobStepClean ==
    ASSUME CleanInv, NEW a \in Actors, JobStep(a)
    PROVE  CleanInv'
<1>1. CASE StopAllContainers(a)
    BY <1>1, RemoveClean DEF StopAllContainers, StepNames
<1>2. CASE DeleteCniNamespaces(a) \/ DeleteNetworkInterfaces(a) \/ ResetIPTables(a)
    BY <1>2, RemoveClean DEF DeleteCniNamespaces, DeleteNetworkInterfaces, ResetIPTables, StepNames
<1>3. CASE DeleteAPIBackendData(a) \/ RemoveRootConfig(a)
    BY <1>3, RemoveClean DEF DeleteAPIBackendData, RemoveRootConfig, StepNames
<1>4. QED
    BY <1>1, <1>2, <1>3, UnmountClean, KubeletFilesClean, ConfigClean, OtherClean, ReturnsClean
    DEF JobStep

\* A job that begins, with a list that unmounts.
LEMMA BeginClean ==
    ASSUME CleanInv, NEW a \in Actors, NEW j \in Jobs, NEW q, Unmounts(q), Begin(a, j, q),
           j = "cleanAll" => \A s \in Removable : Has(q, s),
           a = "cmd" \/ j # "cleanAll", excuses' \in {excuses, excuses \ {"since"}},
           excuses' = excuses \/ a = "cmd", volume' = volume, residue' = residue
    PROVE  CleanInv'
<1>1. q \in Seq(StepNames)
    BY DEF Unmounts
<1>2. /\ job' = [job EXCEPT ![a] = j] /\ todo' = [todo EXCEPT ![a] = q]
      /\ result' = [result EXCEPT ![a] = "running"]
    BY DEF Begin
<1>3. JobInv'
    BY <1>1, <1>2 DEF CleanInv, JobInv
<1>4. Excused => Excused'
    BY DEF Excused
<1>5. \A b \in Actors : todo'[b] = todo[b] \/ Unmounts(todo'[b])
    BY <1>2 DEF CleanInv, JobInv
<1>6. VolumeInv'
    BY <1>4, <1>5, KeepVolume DEF CleanInv
<1>7. CASE a = "cmd"
    <2>1. job'["cmd"] = j /\ todo'["cmd"] = q
        BY <1>2, <1>7 DEF CleanInv, JobInv
    <2>2. ThoroughInv'
        BY <2>1 DEF ThoroughInv
    <2>3. QED
        BY <1>3, <1>6, <2>2 DEF CleanInv
<1>8. CASE a # "cmd"
    <2>1. /\ job'["cmd"] = job["cmd"] /\ todo'["cmd"] = todo["cmd"]
          /\ result'["cmd"] = result["cmd"] /\ excuses' = excuses
        BY <1>2, <1>8 DEF CleanInv, JobInv, Actors
    <2>2. ThoroughInv'
        BY <2>1 DEF CleanInv, ThoroughInv
    <2>3. QED
        BY <1>3, <1>6, <2>2 DEF CleanInv
<1>9. QED
    BY <1>7, <1>8

LEMMA CleanCommandClean ==
    ASSUME CleanInv, CleanCommand
    PROVE  CleanInv'
<1>1. /\ excuses' = excuses \ {"since"} /\ volume' = volume /\ residue' = residue
    BY DEF CleanCommand
<1>2. PICK j \in {"clean", "cleanAll"} :
          \/ /\ job' = [job EXCEPT !["cmd"] = j] /\ result' = [result EXCEPT !["cmd"] = "error"]
             /\ UNCHANGED todo
          \/ Begin("cmd", j, (IF status = "Running" THEN <<"service">> ELSE <<>>) \o Steps(j))
    BY DEF CleanCommand
<1>3. CASE /\ job' = [job EXCEPT !["cmd"] = j] /\ result' = [result EXCEPT !["cmd"] = "error"]
           /\ UNCHANGED todo
    <2>1. JobInv' /\ result'["cmd"] = "error"
        BY <1>3 DEF CleanCommand, Free, CleanInv, JobInv, Actors, Jobs
    <2>2. Excused => Excused'
        BY <1>1 DEF Excused
    <2>3. VolumeInv'
        BY <1>1, <1>3, <2>2, KeepVolume DEF CleanInv
    <2>4. ThoroughInv'
        BY <2>1 DEF ThoroughInv
    <2>5. QED
        BY <2>1, <2>3, <2>4 DEF CleanInv
<1>4. CASE Begin("cmd", j, (IF status = "Running" THEN <<"service">> ELSE <<>>) \o Steps(j))
    <2>1. DEFINE p == IF status = "Running" THEN <<"service">> ELSE <<>>
    <2>2. Neutral(<<>>)
        BY DEF Neutral, Has
    <2>3. p \in Seq(StepNames) /\ Neutral(p)
        BY <2>2, ShortFacts
    <2>4. j \in Jobs /\ "cmd" \in Actors
        BY DEF Jobs, Actors
    <2>5. Unmounts(Steps(j)) /\ (j = "cleanAll" => \A s \in Removable : Has(Steps(j), s))
        BY <2>4, StepsFacts
    <2>6. Begin("cmd", j, p \o Steps(j))
        BY <1>4
    <2> HIDE DEF p
    <2>7. Unmounts(p \o Steps(j)) /\ \A s : Has(Steps(j), s) => Has(p \o Steps(j), s)
        BY <2>3, <2>5, Preceded
    <2>8. j = "cleanAll" => \A s \in Removable : Has(p \o Steps(j), s)
        BY <2>5, <2>7
    <2>9. QED
        BY <1>1, <2>4, <2>6, <2>7, <2>8, BeginClean
<1>5. QED
    BY <1>2, <1>3, <1>4

\* The cluster comes up, or its kubelet mounts: an excuse, if somebody cleans.
LEMMA MountsClean ==
    ASSUME CleanInv, ClusterUp \/ KubeletMounts
    PROVE  CleanInv'
<1>1. UNCHANGED <<job, todo, result>>
    BY DEF ClusterUp, KubeletMounts
<1>2. volume' = "mounted" /\ excuses \subseteq excuses' /\ Meanwhile \subseteq excuses'
    BY DEF ClusterUp, KubeletMounts
<1>3. residue' = residue \/ "since" \in excuses'
    BY DEF ClusterUp, KubeletMounts
<1>4. Excused => Excused'
    BY <1>2 DEF Excused
<1>5. Excused' \/ \A b \in Actors : todo'[b] = <<>>
    BY <1>1, <1>2 DEF Meanwhile, Excused
<1>6. JobInv'
    BY <1>1 DEF CleanInv, JobInv
<1>7. VolumeInv'
    BY <1>1, <1>2, <1>4, <1>5, KeepVolume DEF CleanInv
<1>8. ThoroughInv'
    BY <1>1, <1>2, <1>3, KeepThorough DEF CleanInv
<1>9. QED
    BY <1>6, <1>7, <1>8 DEF CleanInv

LEMMA KilledClean ==
    ASSUME CleanInv, InitKilled
    PROVE  CleanInv'
<1>1. /\ todo' = [todo EXCEPT !["init"] = <<>>] /\ result' = [result EXCEPT !["init"] = "none"]
      /\ UNCHANGED <<job, excuses, volume, residue>>
    BY DEF InitKilled
<1>2. JobInv'
    BY <1>1, ShortFacts DEF CleanInv, JobInv
<1>3. \A b \in Actors : todo'[b] = todo[b] \/ todo'[b] = <<>>
    BY <1>1 DEF CleanInv, JobInv
<1>4. Excused => Excused'
    BY <1>1 DEF Excused
<1>5. VolumeInv'
    BY <1>1, <1>3, <1>4, KeepVolume DEF CleanInv
<1>6. todo'["cmd"] = todo["cmd"] /\ result'["cmd"] = result["cmd"]
    BY <1>1 DEF CleanInv, JobInv, Actors
<1>7. ThoroughInv'
    BY <1>1, <1>6, KeepThorough DEF CleanInv
<1>8. QED
    BY <1>2, <1>5, <1>7 DEF CleanInv

LEMMA BeginsClean ==
    ASSUME CleanInv, ResetCommand \/ InitPreCleans \/ InitStops
    PROVE  CleanInv'
<1>1. "cmd" \in Actors /\ "init" \in Actors /\ {"reset", "preclean", "daemonize"} \subseteq Jobs
    BY DEF Actors, Jobs
<1>2. CASE ResetCommand
    <2>1. /\ Begin("cmd", "reset", Steps("reset")) /\ excuses' = excuses \ {"since"}
          /\ volume' = volume /\ residue' = residue
        BY <1>2 DEF ResetCommand
    <2>2. QED
        BY <1>1, <2>1, StepsFacts, BeginClean
<1>3. CASE InitPreCleans
    <2>1. Begin("init", "preclean", Steps("preclean")) /\ UNCHANGED <<excuses, volume, residue>>
        BY <1>3 DEF InitPreCleans
    <2>2. QED
        BY <1>1, <2>1, StepsFacts, BeginClean
<1>4. CASE InitStops
    <2>1. Begin("init", "daemonize", Steps("daemonize")) /\ UNCHANGED <<excuses, volume, residue>>
        BY <1>4 DEF InitStops
    <2>2. QED
        BY <1>1, <2>1, StepsFacts, BeginClean
<1>5. QED
    BY <1>2, <1>3, <1>4

LEMMA InitClean == Init => CleanInv
<1>1. SUFFICES ASSUME Init PROVE CleanInv
    OBVIOUS
<1>2. JobInv
    BY <1>1, ShortFacts DEF Init, JobInv
<1>3. VolumeInv
    BY <1>1 DEF Init, VolumeInv, KeepsVolumes, UnmountsFirst
<1>4. ThoroughInv
    BY <1>1 DEF Init, ThoroughInv
<1>5. QED
    BY <1>2, <1>3, <1>4 DEF CleanInv

LEMMA NextClean == CleanInv /\ [Next]_vars => CleanInv'
<1>1. SUFFICES ASSUME CleanInv, [Next]_vars
               PROVE  CleanInv'
    OBVIOUS
<1>2. CASE Preparation
    BY <1>1, <1>2, QuietClean DEF Preparation, hostVars
<1>3. CASE InitStarts \/ InitFails \/ InitPersists \/ InitEnds
    <2>1. UNCHANGED <<job, todo, result, excuses, volume, residue>>
        BY <1>3 DEF InitStarts, InitFails, InitPersists, InitEnds
    <2>2. QED
        BY <1>1, <2>1, QuietClean
<1>4. CASE ServiceStarts \/ ServiceStops \/ PrepareCommand
    <2>1. UNCHANGED <<job, todo, result, excuses, volume, residue>>
        BY <1>4 DEF ServiceStarts, ServiceStops, PrepareCommand
    <2>2. QED
        BY <1>1, <2>1, QuietClean
<1>5. CASE UNCHANGED vars
    BY <1>1, <1>5, QuietClean DEF vars, hostVars
<1>6. CASE Service
    BY <1>1, <1>3, <1>6, BeginsClean, MountsClean, KilledClean DEF Service
<1>7. CASE Commands
    BY <1>1, <1>4, <1>7, BeginsClean, CleanCommandClean DEF Commands
<1>8. QED
    BY <1>1, <1>2, <1>5, <1>6, <1>7, MountsClean, JobStepClean DEF Next

\* The lists and the results of the cleanings, over any number of starts, kills and
\* commands.
THEOREM CleanInvariance == Spec => []CleanInv
BY InitClean, NextClean, PTL DEF Spec

\* No cleaning of pkg/k8s/clean.go removes what a mounted volume holds, unless an unmount
\* had failed, or the cluster or its kubelet mounted it while the cleaning ran.
THEOREM VolumesAreKept == Spec => []KeepsVolumes
<1>1. CleanInv => KeepsVolumes
    BY DEF CleanInv, VolumeInv
<1>2. QED
    BY <1>1, CleanInvariance, PTL

\* performClean with every option returns nil only when what it should remove is removed,
\* whatever the earlier cleanings, starts and kills had left, unless the cluster came up
\* while it ran.
THEOREM CleaningIsThorough == Spec => []SuccessIsThorough
<1>1. CleanInv => SuccessIsThorough
    <2>1. SUFFICES ASSUME CleanInv, job["cmd"] = "cleanAll", result["cmd"] = "nil",
                          "since" \notin excuses, NEW s \in residue \cap Removable
                   PROVE  FALSE
        BY DEF SuccessIsThorough, Removable
    <2>2. Has(todo["cmd"], s)
        BY <2>1 DEF CleanInv, ThoroughInv
    <2>3. todo["cmd"] = <<>>
        BY <2>1 DEF CleanInv, JobInv, Actors
    <2>4. QED
        BY <2>2, <2>3 DEF Has
<1>2. QED
    BY <1>1, CleanInvariance, PTL

----------------------------------------------------------------------------
(* The preparation.                                                         *)

LEMMA NetFilterPrep ==
    ASSUME PrepInv, excuses' = excuses, EnsureNetFilter
    PROVE  PrepInv'
<1>1. PrepFilesInv'
    BY DEF PrepInv, PrepFilesInv, EnsureNetFilter, Goto, Fail,
           FromIp, FromHosts, FromMapped, FromEnable, FromCrictl, Generated, Exists
<1>2. PrepLinesInv'
    BY DEF PrepInv, PrepLinesInv, EnsureNetFilter, Goto, Fail,
           FromHosts, FromMapped, FromEnable, FromCrictl, Lines, UserLines, HasLine
<1>3. PrepHostInv'
    BY DEF PrepInv, PrepHostInv, EnsureNetFilter, Goto, Fail,
           FromCgroup, FromMachineId, FromIp, FromHosts, FromMapped, FromEnable, FromCrictl
<1>4. PrepAddressInv'
    BY DEF PrepInv, PrepAddressInv, EnsureNetFilter, Goto, Fail,
           FromHosts, FromMapped, FromEnable, FromCrictl, CheckIpExists, IsHostMapped
<1>5. QED
    BY <1>1, <1>2, <1>3, <1>4 DEF PrepInv

LEMMA CGroupPrep ==
    ASSUME PrepInv, excuses' = excuses, EnableCGroupSubtreeControl
    PROVE  PrepInv'
<1>1. PrepFilesInv'
    BY DEF PrepInv, PrepFilesInv, EnableCGroupSubtreeControl, Goto, Fail,
           FromIp, FromHosts, FromMapped, FromEnable, FromCrictl, Generated, Exists
<1>2. PrepLinesInv'
    BY DEF PrepInv, PrepLinesInv, EnableCGroupSubtreeControl, Goto, Fail,
           FromHosts, FromMapped, FromEnable, FromCrictl, Lines, UserLines, HasLine
<1>3. PrepHostInv'
    BY DEF PrepInv, PrepHostInv, EnableCGroupSubtreeControl, Goto, Fail,
           FromCgroup, FromMachineId, FromIp, FromHosts, FromMapped, FromEnable, FromCrictl
<1>4. PrepAddressInv'
    BY DEF PrepInv, PrepAddressInv, EnableCGroupSubtreeControl, Goto, Fail,
           FromHosts, FromMapped, FromEnable, FromCrictl, CheckIpExists, IsHostMapped
<1>5. QED
    BY <1>1, <1>2, <1>3, <1>4 DEF PrepInv

LEMMA MachineIdPrep ==
    ASSUME PrepInv, excuses' = excuses, EnsureMachineID
    PROVE  PrepInv'
<1>1. PrepFilesInv'
    BY DEF PrepInv, PrepFilesInv, EnsureMachineID, EnsureFile, Goto, Fail,
           FromIp, FromHosts, FromMapped, FromEnable, FromCrictl, Generated, Exists
<1>2. PrepLinesInv'
    BY DEF PrepInv, PrepLinesInv, EnsureMachineID, EnsureFile, Goto, Fail,
           FromHosts, FromMapped, FromEnable, FromCrictl, Lines, UserLines, HasLine
<1>3. PrepHostInv'
    BY DEF PrepInv, PrepHostInv, EnsureMachineID, EnsureFile, Goto, Fail,
           FromCgroup, FromMachineId, FromIp, FromHosts, FromMapped, FromEnable, FromCrictl
<1>4. PrepAddressInv'
    BY DEF PrepInv, PrepAddressInv, EnsureMachineID, EnsureFile, Goto, Fail,
           FromHosts, FromMapped, FromEnable, FromCrictl, CheckIpExists, IsHostMapped
<1>5. QED
    BY <1>1, <1>2, <1>3, <1>4 DEF PrepInv

LEMMA IpPrep ==
    ASSUME PrepInv, excuses' = excuses, EnsureIpConfiguration
    PROVE  PrepInv'
<1>1. PrepFilesInv'
    BY DEF PrepInv, PrepFilesInv, EnsureIpConfiguration, AddIpAddress, Goto, Fail,
           FromIp, FromHosts, FromMapped, FromEnable, FromCrictl, Generated, Exists
<1>2. PrepLinesInv'
    BY DEF PrepInv, PrepLinesInv, EnsureIpConfiguration, AddIpAddress, Goto, Fail,
           FromHosts, FromMapped, FromEnable, FromCrictl, Lines, UserLines, HasLine
<1>3. PrepHostInv'
    BY DEF PrepInv, PrepHostInv, EnsureIpConfiguration, AddIpAddress, Goto, Fail,
           FromCgroup, FromMachineId, FromIp, FromHosts, FromMapped, FromEnable, FromCrictl
<1>4. PrepAddressInv'
    BY DEF PrepInv, PrepAddressInv, EnsureIpConfiguration, AddIpAddress, Goto, Fail,
           FromHosts, FromMapped, FromEnable, FromCrictl, CheckIpExists, IsHostMapped
<1>5. QED
    BY <1>1, <1>2, <1>3, <1>4 DEF PrepInv

LEMMA NetworkPrep ==
    ASSUME PrepInv, excuses' = excuses, NeedNetworking
    PROVE  PrepInv'
<1>1. PrepFilesInv'
    BY DEF PrepInv, PrepFilesInv, NeedNetworking, EnsureLine, Goto, Fail,
           FromIp, FromHosts, FromMapped, FromEnable, FromCrictl, Generated, Exists
<1>2. PrepLinesInv'
    BY DEF PrepInv, PrepLinesInv, NeedNetworking, EnsureLine, Goto, Fail,
           FromHosts, FromMapped, FromEnable, FromCrictl, Lines, UserLines, HasLine
<1>3. PrepHostInv'
    BY DEF PrepInv, PrepHostInv, NeedNetworking, EnsureLine, Goto, Fail,
           FromCgroup, FromMachineId, FromIp, FromHosts, FromMapped, FromEnable, FromCrictl
<1>4. PrepAddressInv'
    BY DEF PrepInv, PrepAddressInv, NeedNetworking, EnsureLine, Goto, Fail,
           FromHosts, FromMapped, FromEnable, FromCrictl, CheckIpExists, IsHostMapped
<1>5. QED
    BY <1>1, <1>2, <1>3, <1>4 DEF PrepInv

LEMMA MappingPrep ==
    ASSUME PrepInv, excuses' = excuses, EnsureMapping
    PROVE  PrepInv'
<1>1. PrepFilesInv'
    BY DEF PrepInv, PrepFilesInv, EnsureMapping, AddIpMapping, Goto, Fail,
           FromIp, FromHosts, FromMapped, FromEnable, FromCrictl, Generated, Exists
<1>2. PrepLinesInv'
    BY DEF PrepInv, PrepLinesInv, EnsureMapping, AddIpMapping, Goto, Fail,
           FromHosts, FromMapped, FromEnable, FromCrictl, Lines, UserLines, HasLine
<1>3. PrepHostInv'
    BY DEF PrepInv, PrepHostInv, EnsureMapping, AddIpMapping, Goto, Fail,
           FromCgroup, FromMachineId, FromIp, FromHosts, FromMapped, FromEnable, FromCrictl
<1>4. PrepAddressInv'
    BY DEF PrepInv, PrepAddressInv, EnsureMapping, AddIpMapping, Goto, Fail,
           FromHosts, FromMapped, FromEnable, FromCrictl, CheckIpExists, IsHostMapped
<1>5. QED
    BY <1>1, <1>2, <1>3, <1>4 DEF PrepInv

LEMMA KubeletPrep ==
    ASSUME PrepInv, excuses' = excuses, PreventKubelet
    PROVE  PrepInv'
<1>1. PrepFilesInv'
    BY DEF PrepInv, PrepFilesInv, PreventKubelet, EnsureLine, Goto, Fail,
           FromIp, FromHosts, FromMapped, FromEnable, FromCrictl, Generated, Exists
<1>2. PrepLinesInv'
    BY DEF PrepInv, PrepLinesInv, PreventKubelet, EnsureLine, Goto, Fail,
           FromHosts, FromMapped, FromEnable, FromCrictl, Lines, UserLines, HasLine
<1>3. PrepHostInv'
    BY DEF PrepInv, PrepHostInv, PreventKubelet, EnsureLine, Goto, Fail,
           FromCgroup, FromMachineId, FromIp, FromHosts, FromMapped, FromEnable, FromCrictl
<1>4. PrepAddressInv'
    BY DEF PrepInv, PrepAddressInv, PreventKubelet, EnsureLine, Goto, Fail,
           FromHosts, FromMapped, FromEnable, FromCrictl, CheckIpExists, IsHostMapped
<1>5. QED
    BY <1>1, <1>2, <1>3, <1>4 DEF PrepInv

LEMMA EnablePrep ==
    ASSUME PrepInv, excuses' = excuses, EnableIknite
    PROVE  PrepInv'
<1>1. PrepFilesInv'
    BY DEF PrepInv, PrepFilesInv, EnableIknite, Goto, Fail,
           FromIp, FromHosts, FromMapped, FromEnable, FromCrictl, Generated, Exists
<1>2. PrepLinesInv'
    BY DEF PrepInv, PrepLinesInv, EnableIknite, Goto, Fail,
           FromHosts, FromMapped, FromEnable, FromCrictl, Lines, UserLines, HasLine
<1>3. PrepHostInv'
    BY DEF PrepInv, PrepHostInv, EnableIknite, Goto, Fail,
           FromCgroup, FromMachineId, FromIp, FromHosts, FromMapped, FromEnable, FromCrictl
<1>4. PrepAddressInv'
    BY DEF PrepInv, PrepAddressInv, EnableIknite, Goto, Fail,
           FromHosts, FromMapped, FromEnable, FromCrictl, CheckIpExists, IsHostMapped
<1>5. QED
    BY <1>1, <1>2, <1>3, <1>4 DEF PrepInv

LEMMA CrictlPrep ==
    ASSUME PrepInv, excuses' = excuses, EnsureCrictl
    PROVE  PrepInv'
<1>1. PrepFilesInv'
    BY DEF PrepInv, PrepFilesInv, EnsureCrictl, EnsureFile, Goto, Fail,
           FromIp, FromHosts, FromMapped, FromEnable, FromCrictl, Generated, Exists
<1>2. PrepLinesInv'
    BY DEF PrepInv, PrepLinesInv, EnsureCrictl, EnsureFile, Goto, Fail,
           FromHosts, FromMapped, FromEnable, FromCrictl, Lines, UserLines, HasLine
<1>3. PrepHostInv'
    BY DEF PrepInv, PrepHostInv, EnsureCrictl, EnsureFile, Goto, Fail,
           FromCgroup, FromMachineId, FromIp, FromHosts, FromMapped, FromEnable, FromCrictl
<1>4. PrepAddressInv'
    BY DEF PrepInv, PrepAddressInv, EnsureCrictl, EnsureFile, Goto, Fail,
           FromHosts, FromMapped, FromEnable, FromCrictl, CheckIpExists, IsHostMapped
<1>5. QED
    BY <1>1, <1>2, <1>3, <1>4 DEF PrepInv

LEMMA ReturnsPrep ==
    ASSUME PrepInv, excuses' = excuses, PrepareReturns
    PROVE  PrepInv'
<1>1. PrepFilesInv'
    BY DEF PrepInv, PrepFilesInv, PrepareReturns,
           FromIp, FromHosts, FromMapped, FromEnable, FromCrictl, Generated, Exists
<1>2. PrepLinesInv'
    BY DEF PrepInv, PrepLinesInv, PrepareReturns,
           FromHosts, FromMapped, FromEnable, FromCrictl, Lines, UserLines, HasLine
<1>3. PrepHostInv'
    BY DEF PrepInv, PrepHostInv, PrepareReturns,
           FromCgroup, FromMachineId, FromIp, FromHosts, FromMapped, FromEnable, FromCrictl
<1>4. PrepAddressInv'
    BY DEF PrepInv, PrepAddressInv, PrepareReturns,
           FromHosts, FromMapped, FromEnable, FromCrictl, CheckIpExists, IsHostMapped
<1>5. QED
    BY <1>1, <1>2, <1>3, <1>4 DEF PrepInv

LEMMA BeginsPrep ==
    ASSUME PrepInv, excuses' = excuses, Prepare
    PROVE  PrepInv'
<1>1. PrepFilesInv'
    BY DEF PrepInv, PrepFilesInv, Prepare,
           FromIp, FromHosts, FromMapped, FromEnable, FromCrictl, Generated, Exists
<1>2. PrepLinesInv'
    BY DEF PrepInv, PrepLinesInv, Prepare,
           FromHosts, FromMapped, FromEnable, FromCrictl, Lines, UserLines, HasLine
<1>3. PrepHostInv'
    BY DEF PrepInv, PrepHostInv, Prepare,
           FromCgroup, FromMachineId, FromIp, FromHosts, FromMapped, FromEnable, FromCrictl
<1>4. PrepAddressInv'
    BY DEF PrepInv, PrepAddressInv, Prepare,
           FromHosts, FromMapped, FromEnable, FromCrictl, CheckIpExists, IsHostMapped
<1>5. QED
    BY <1>1, <1>2, <1>3, <1>4 DEF PrepInv

\* A process that prepares is killed, anywhere.
LEMMA AbandonedPrep ==
    ASSUME PrepInv, excuses' = excuses, kills' = kills + 1, ppc' = "idle", prepared' = "none",
           UNCHANGED <<netfilter, cgroup, files, rcLines, enabled, address, hosts, network, dns>>
    PROVE  PrepInv'
<1>1. kills' \in Nat /\ kills' > 0
    BY DEF PrepInv, PrepFilesInv
<1>2. /\ ppc' \notin FromIp /\ ppc' \notin FromHosts /\ ppc' \notin FromMapped
      /\ ppc' \notin FromEnable /\ ppc' \notin FromCrictl
    BY DEF FromIp, FromHosts, FromMapped, FromEnable, FromCrictl
<1>3. ppc' \notin FromCgroup /\ ppc' \notin FromMachineId
    BY <1>2 DEF FromCgroup, FromMachineId
<1>4. PrepFilesInv'
    BY <1>1, <1>2 DEF PrepInv, PrepFilesInv
<1>5. PrepLinesInv'
    BY <1>1, <1>2 DEF PrepLinesInv
<1>6. PrepHostInv'
    BY <1>2, <1>3 DEF PrepHostInv
<1>7. PrepAddressInv'
    BY <1>2 DEF PrepInv, PrepAddressInv
<1>8. QED
    BY <1>4, <1>5, <1>6, <1>7 DEF PrepInv

LEMMA KilledPrep ==
    ASSUME PrepInv, excuses' = excuses, PrepareKilled
    PROVE  PrepInv'
BY AbandonedPrep DEF PrepareKilled

\* init is killed while it prepares, or later.
LEMMA InitKilledPrep ==
    ASSUME PrepInv, excuses' = excuses, InitKilled
    PROVE  PrepInv'
<1>1. /\ UNCHANGED <<netfilter, cgroup, files, rcLines, enabled, address, hosts, network, dns>>
      /\ kills' = kills + 1
    BY DEF InitKilled
<1>2. CASE init = "prepare"
    BY <1>1, <1>2, AbandonedPrep DEF InitKilled
<1>3. CASE init # "prepare"
    <2>1. UNCHANGED <<ppc, prepared, rcHeld>>
        BY <1>3 DEF InitKilled
    <2>2. kills' \in Nat /\ kills' > 0
        BY <1>1 DEF PrepInv, PrepFilesInv
    <2>3. PrepFilesInv'
        BY <1>1, <2>1, <2>2 DEF PrepInv, PrepFilesInv, Exists
    <2>4. PrepLinesInv'
        BY <1>1, <2>1, <2>2 DEF PrepInv, PrepLinesInv, Lines
    <2>5. PrepHostInv'
        BY <1>1, <2>1 DEF PrepInv, PrepHostInv
    <2>6. PrepAddressInv'
        BY <1>1, <2>1 DEF PrepInv, PrepAddressInv, CheckIpExists, IsHostMapped
    <2>7. QED
        BY <2>3, <2>4, <2>5, <2>6 DEF PrepInv
<1>4. QED
    BY <1>2, <1>3

\* A cleaning resets the address; the preparation that runs meanwhile is excused.
LEMMA ResetPrep ==
    ASSUME PrepInv, NEW a \in Actors, ResetIPAddress(a)
    PROVE  PrepInv'
<1>1. /\ UNCHANGED <<netfilter, cgroup, files, rcLines, rcHeld, enabled, ppc, prepared, network,
                    dns, kills>>
      /\ ppc # "idle" => "address" \in excuses'
    BY DEF ResetIPAddress
<1>2. \/ address' \in {address, AfterDelete} /\ hosts' = hosts
      \/ address' = AfterDelete /\ hosts' = "none"
    BY DEF ResetIPAddress
<1>3. PrepFilesInv'
    BY <1>1 DEF PrepInv, PrepFilesInv, Exists
<1>4. PrepLinesInv'
    BY <1>1 DEF PrepInv, PrepLinesInv, Lines
<1>5. PrepHostInv'
    BY <1>1 DEF PrepInv, PrepHostInv
<1>6. PrepAddressInv'
    BY <1>1, <1>2 DEF PrepInv, PrepAddressInv, AfterDelete,
                FromHosts, FromMapped, FromEnable, FromCrictl
<1>7. QED
    BY <1>3, <1>4, <1>5, <1>6 DEF PrepInv

LEMMA QuietPrep ==
    ASSUME PrepInv, UNCHANGED prepVars, "address" \in excuses => "address" \in excuses'
    PROVE  PrepInv'
<1>1. PrepFilesInv'
    BY DEF PrepInv, PrepFilesInv, Exists, prepVars
<1>2. PrepLinesInv'
    BY DEF PrepInv, PrepLinesInv, Lines, prepVars
<1>3. PrepHostInv'
    BY DEF PrepInv, PrepHostInv, prepVars
<1>4. PrepAddressInv'
    BY DEF PrepInv, PrepAddressInv, CheckIpExists, IsHostMapped, prepVars
<1>5. QED
    BY <1>1, <1>2, <1>3, <1>4 DEF PrepInv

LEMMA JobStepPrep ==
    ASSUME PrepInv, NEW a \in Actors, JobStep(a)
    PROVE  PrepInv'
<1>1. CASE \E s \in StepNames : Remove(a, s)
    BY <1>1, QuietPrep DEF Remove
<1>2. CASE StopContainerd(a) \/ UnmountPaths(a) \/ RemoveKubeletFiles(a)
    BY <1>2, QuietPrep DEF StopContainerd, UnmountPaths, ProcessMounts, RemoveKubeletFiles
<1>3. CASE CleanConfig(a) \/ StopKubelet(a) \/ StopIknite(a) \/ JobReturns(a)
    BY <1>3, QuietPrep DEF CleanConfig, StopKubelet, StopIknite, JobReturns
<1>4. QED
    BY <1>1, <1>2, <1>3, ResetPrep
    DEF JobStep, StepNames, StopAllContainers, DeleteCniNamespaces, DeleteNetworkInterfaces,
        ResetIPTables, DeleteAPIBackendData, RemoveRootConfig

LEMMA InitPrep == Init => PrepInv
<1>1. SUFFICES ASSUME Init PROVE PrepInv
    OBVIOUS
<1>2. PrepFilesInv
    BY <1>1 DEF Init, PrepInit, PrepFilesInv, Generated, Exists,
                FromIp, FromHosts, FromMapped, FromEnable, FromCrictl
<1>3. PrepLinesInv
    BY <1>1 DEF Init, PrepInit, PrepLinesInv, Lines, FromHosts, FromMapped, FromEnable, FromCrictl
<1>4. PrepHostInv
    BY <1>1 DEF Init, PrepInit, PrepHostInv, FromCgroup, FromMachineId, FromIp, FromHosts,
                FromMapped, FromEnable, FromCrictl
<1>5. PrepAddressInv
    BY <1>1 DEF Init, PrepInit, PrepAddressInv, FromHosts, FromMapped, FromEnable, FromCrictl
<1>6. QED
    BY <1>2, <1>3, <1>4, <1>5 DEF PrepInv

LEMMA NextPrep == PrepInv /\ [Next]_vars => PrepInv'
<1>1. SUFFICES ASSUME PrepInv, [Next]_vars
               PROVE  PrepInv'
    OBVIOUS
<1>2. CASE Preparation
    <2>1. excuses' = excuses
        BY <1>2 DEF Preparation, hostVars
    <2>2. QED
        BY <1>1, <1>2, <2>1, NetFilterPrep, CGroupPrep, MachineIdPrep, IpPrep, NetworkPrep,
           MappingPrep, KubeletPrep, EnablePrep, CrictlPrep, ReturnsPrep, KilledPrep
        DEF Preparation, PrepareStep
<1>3. CASE InitStarts \/ PrepareCommand
    <2>1. excuses' = excuses /\ Prepare
        BY <1>3 DEF InitStarts, PrepareCommand
    <2>2. QED
        BY <1>1, <2>1, BeginsPrep
<1>4. CASE InitKilled
    <2>1. excuses' = excuses
        BY <1>4 DEF InitKilled
    <2>2. QED
        BY <1>1, <1>4, <2>1, InitKilledPrep
<1>5. CASE InitFails \/ InitPreCleans \/ ClusterUp \/ InitPersists \/ InitStops \/ InitEnds
    <2>1. UNCHANGED prepVars /\ excuses \subseteq excuses'
        BY <1>5 DEF InitFails, InitPreCleans, ClusterUp, InitPersists, InitStops, InitEnds
    <2>2. QED
        BY <1>1, <2>1, QuietPrep
<1>6. CASE ServiceStarts \/ ServiceStops \/ CleanCommand \/ ResetCommand
    <2>1. UNCHANGED prepVars /\ excuses' \in {excuses, excuses \ {"since"}}
        BY <1>6 DEF ServiceStarts, ServiceStops, CleanCommand, ResetCommand
    <2>2. QED
        BY <1>1, <2>1, QuietPrep
<1>7. CASE KubeletMounts
    BY <1>1, <1>7, QuietPrep DEF KubeletMounts
<1>8. CASE UNCHANGED vars
    BY <1>1, <1>8, QuietPrep DEF vars, hostVars
<1>9. CASE \E a \in Actors : JobStep(a)
    BY <1>1, <1>9, JobStepPrep
<1>10. QED
    BY <1>1, <1>2, <1>3, <1>4, <1>5, <1>6, <1>7, <1>8, <1>9 DEF Next, Service, Commands

\* What PrepareKubernetesEnvironment has done, at each of its steps.
THEOREM PrepInvariance == Spec => []PrepInv
BY InitPrep, NextPrep, PTL DEF Spec

\* ResetIPAddress finds the address that iknite added: once a preparation has succeeded,
\* the name is mapped for as long as the address is there.
THEOREM AddedAddressIsFindable == Spec => []AddressIsFindable
<1>1. PrepInv => AddressIsFindable
    BY DEF PrepInv, PrepAddressInv, AddressIsFindable
<1>2. QED
    BY <1>1, PrepInvariance, PTL

\* PrepareKubernetesEnvironment returns nil only on a host that is prepared, whatever the
\* calls before it that failed or were killed had left: everything "iknite status" asks
\* of the environment is there and the lines of the user are kept, but for a file that a
\* kill tore and an address that a cleaning takes away meanwhile.
THEOREM SuccessMeansPrepared == Spec => PreparedHost
<1>1. ASSUME PrepInv, PrepareReturns
      PROVE  /\ cgroup = "on"
             /\ \A f \in Generated : files[f] = "whole" \/ (files[f] = "torn" /\ kills > 0)
             /\ kills = 0 => UserLines \subseteq rcLines
             /\ IF network = "no" THEN HasLine("network")
                ELSE "address" \in excuses \/ EnvironmentCheckPhase
    <2>1. ppc = "return"
        BY <1>1 DEF PrepareReturns
    <2>2. ppc \in FromCrictl /\ ppc \in FromEnable /\ ppc \in FromMapped /\ ppc \in FromHosts
        BY <2>1 DEF FromCrictl, FromEnable, FromMapped, FromHosts
    <2>3. ppc \in FromIp /\ ppc \in FromMachineId /\ ppc \in FromCgroup
        BY <2>2 DEF FromIp, FromMachineId, FromCgroup
    <2>4. cgroup = "on" /\ netfilter = "yes" /\ enabled = "yes"
        BY <1>1, <2>2, <2>3 DEF PrepInv, PrepHostInv
    <2>5. Exists("machineId") /\ Exists("crictl")
        BY <1>1, <2>1, <2>3 DEF PrepInv, PrepFilesInv
    <2>6. \A f \in Generated : files[f] = "whole" \/ (files[f] = "torn" /\ kills > 0)
        BY <1>1, <2>1, <2>5 DEF PrepInv, PrepFilesInv, Generated, Exists
    <2>7. Lines = rcLines
        BY <2>1 DEF Lines
    <2>8. /\ kills = 0 => UserLines \subseteq rcLines
          /\ network = "no" => HasLine("network")
          /\ HasLine("noKubelet")
        BY <1>1, <2>2, <2>7 DEF PrepInv, PrepLinesInv, HasLine
    <2>9. /\ network \in {"yes", "no"}
          /\ network = "yes" /\ "address" \notin excuses => CheckIpExists
          /\ "address" \notin excuses => IsHostMapped
        BY <1>1, <2>2 DEF PrepInv, PrepAddressInv
    <2>10. network # "no" /\ "address" \notin excuses => EnvironmentCheckPhase
        BY <2>4, <2>5, <2>8, <2>9 DEF EnvironmentCheckPhase, Generated, checkServiceIsNotRunnable,
                                      checkIpIsBound, checkDomainName
    <2>11. QED
        BY <2>4, <2>6, <2>8, <2>10
<1>2. QED
    BY <1>1, PrepInvariance, PTL DEF PreparedHost

=============================================================================
