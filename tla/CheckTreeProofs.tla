--------------------------- MODULE CheckTreeProofs ---------------------------
(* Proofs about CheckTree, for every forest of checks and every dependency  *)
(* list, cyclic ones included: what its goroutines do, and that they        *)
(* implement the report of CheckReport.                                     *)
EXTENDS CheckTree, TLAPS

\* The lists of the tree as sets: what the loops over SubResults range over.
LEMMA SubsFacts ==
    ASSUME NEW c \in Checks
    PROVE  /\ SubChecks[c] \in Seq(Checks)
           /\ Len(SubChecks[c]) \in Nat
           /\ Subs(c) \subseteq Checks
           /\ \A i \in 1..Len(SubChecks[c]) : SubChecks[c][i] \in Subs(c)
           /\ \A s \in Subs(c) : \E i \in 1..Len(SubChecks[c]) : s = SubChecks[c][i]
           /\ c \notin Subs(c)
           /\ \A d \in Checks : d # c => Subs(c) \cap Subs(d) = {}
           /\ IsPhase(c) <=> Len(SubChecks[c]) # 0
  <1> DEFINE seq == SubChecks[c]
  <1>1. seq \in Seq(Checks)
    BY CheckForest
  <1>2. Subs(c) = Range(seq)
    BY DEF Subs
  <1>3. c \notin Subs(c) /\ \A d \in Checks : d # c => Subs(c) \cap Subs(d) = {}
    BY CheckForest
  <1>4. IsPhase(c) <=> seq # <<>>
    BY DEF IsPhase
  <1> HIDE DEF seq
  <1>5. Len(seq) \in Nat /\ Range(seq) \subseteq Checks /\ (seq # <<>> <=> Len(seq) # 0)
    BY <1>1 DEF Range
  <1>6. /\ \A i \in 1..Len(seq) : seq[i] \in Range(seq)
        /\ \A p \in Range(seq) : \E i \in 1..Len(seq) : p = seq[i]
    BY <1>1 DEF Range
  <1> QED
    BY <1>1, <1>2, <1>3, <1>4, <1>5, <1>6 DEF seq

\* The same for the loop over ParentResults.
LEMMA ParentFacts ==
    ASSUME NEW c \in Checks
    PROVE  /\ ParentResults(c) \in Seq(Checks)
           /\ Len(ParentResults(c)) \in Nat
           /\ Parents(c) \subseteq Checks
           /\ \A i \in 1..Len(ParentResults(c)) : ParentResults(c)[i] \in Parents(c)
           /\ \A p \in Parents(c) : \E i \in 1..Len(ParentResults(c)) : p = ParentResults(c)[i]
  <1> DEFINE seq == ParentResults(c)
  <1>1. seq \in Seq(Checks)
    BY ParentsAreResults
  <1>2. Parents(c) = Range(seq)
    BY DEF Parents
  <1> HIDE DEF seq
  <1>3. Len(seq) \in Nat /\ Range(seq) \subseteq Checks
    BY <1>1 DEF Range
  <1>4. /\ \A i \in 1..Len(seq) : seq[i] \in Range(seq)
        /\ \A p \in Range(seq) : \E i \in 1..Len(seq) : p = seq[i]
    BY <1>1 DEF Range
  <1> QED
    BY <1>1, <1>2, <1>3, <1>4 DEF seq

\* The top-level results are results.
LEMMA TopsFacts == Tops \subseteq Checks /\ \A c \in Checks : Subs(c) \cap Tops = {}
  BY CheckForest DEF Tops, Range

\* Initially no goroutine has started.
LEMMA InitIndInv == Init => IndInv
  <1> SUFFICES ASSUME Init PROVE IndInv
    OBVIOUS
  <1>1. TypeOK
    BY DEF Init, TypeOK, CheckStatus, PCs
  <1>2. StatusByPC /\ ParentsSeen /\ SubsSeen
    BY DEF Init, StatusByPC, ParentsSeen, SubsSeen
  <1>3. DependenciesHonoured /\ SuccessHidesNoFailure
    BY DEF Init, DependenciesHonoured, SuccessHidesNoFailure
  <1>4. StartedOnce
    BY SubsFacts, TopsFacts DEF Init, StartedOnce
  <1>5. SkipHasCause
    BY SubsFacts DEF Init, SkipHasCause
  <1> QED
    BY <1>1, <1>2, <1>3, <1>4, <1>5 DEF IndInv
----------------------------------------------------------------------------
(* What a step keeps when it leaves finished checks alone.                   *)

\* No step reopens a finished check or rewrites its status.
SettledStays ==
    \A q \in Checks : Done(q) => pc'[q] = "exited" /\ status'[q] = status[q]

\* Every check but c keeps its place, its loop index and its status.
OthersStay(c) ==
    \A d \in Checks \ {c} : pc'[d] = pc[d] /\ pos'[d] = pos[d] /\ status'[d] = status[d]

\* A check that still awaits its parents has still seen the same ones succeed.
LEMMA KeepParentsSeen ==
    ASSUME IndInv, SettledStays, NEW d \in Checks, pc[d] = "deps",
           NEW i \in 1..Len(ParentResults(d)), i < pos[d]
    PROVE  pc'[ParentResults(d)[i]] = "exited" /\ status'[ParentResults(d)[i]] = "success"
  <1>1. ParentResults(d)[i] \in Checks
    BY ParentFacts
  <1>2. Done(ParentResults(d)[i]) /\ status[ParentResults(d)[i]] = "success"
    BY DEF IndInv, ParentsSeen
  <1> QED
    BY <1>1, <1>2 DEF SettledStays

\* A phase that still awaits its sub-checks has still seen the same ones finish.
LEMMA KeepSubsSeen ==
    ASSUME IndInv, SettledStays, NEW d \in Checks, pc[d] = "subs",
           NEW i \in 1..Len(SubChecks[d]), i < pos[d]
    PROVE  /\ pc'[SubChecks[d][i]] = "exited"
           /\ status'[SubChecks[d][i]] = "failed" => d \in failing
  <1>1. SubChecks[d][i] \in Checks
    BY SubsFacts
  <1>2. Done(SubChecks[d][i]) /\ (status[SubChecks[d][i]] = "failed" => d \in failing)
    BY DEF IndInv, SubsSeen
  <1> QED
    BY <1>1, <1>2 DEF SettledStays

\* A check that runs or has a verdict keeps its successful parents.
LEMMA KeepHonoured ==
    ASSUME IndInv, SettledStays, NEW d \in Checks,
           pc[d] \in {"fn", "subs"} \/ status[d] \in {"running", "success", "failed"},
           NEW p \in Parents(d)
    PROVE  pc'[p] = "exited" /\ status'[p] = "success"
  <1>1. p \in Checks
    BY ParentFacts
  <1>2. Done(p) /\ status[p] = "success"
    BY DEF IndInv, DependenciesHonoured
  <1> QED
    BY <1>1, <1>2 DEF SettledStays

\* A successful phase keeps its finished, unfailed sub-checks.
LEMMA KeepSuccess ==
    ASSUME IndInv, SettledStays, NEW d \in Checks, status[d] = "success", NEW s \in Subs(d)
    PROVE  pc'[s] = "exited" /\ status'[s] # "failed"
  <1>1. s \in Checks
    BY SubsFacts
  <1>2. Done(s) /\ status[s] # "failed"
    BY DEF IndInv, SuccessHidesNoFailure
  <1> QED
    BY <1>1, <1>2 DEF SettledStays

\* The part of the invariant that a step of the goroutine of c keeps because it
\* leaves the other checks and the executor alone.
LEMMA OwnStep ==
    ASSUME IndInv, TypeOK', NEW c \in Checks, OthersStay(c), pc[c] \notin {"idle", "exited"},
           pc'[c] # "idle", pc'[c] = "deps" => pc[c] = "deps", executor' = executor
    PROVE  SettledStays /\ StartedOnce'
  <1>1. SettledStays
    BY DEF SettledStays, OthersStay, Done
  <1>2. StartedOnce'
    <2>1. \A d \in Checks : pc'[d] \in {"idle", "deps"} => pc[d] \in {"idle", "deps"}
      BY DEF OthersStay
    <2>2. \A d \in Checks : \A s \in Subs(d) : pc'[d] \in {"idle", "deps"} => pc'[s] = "idle"
      BY <2>1, SubsFacts DEF IndInv, StartedOnce, OthersStay
    <2>3. executor' = "new" => \A t \in Tops : pc'[t] = "idle"
      BY TopsFacts DEF IndInv, StartedOnce, OthersStay
    <2> QED
      BY <2>2, <2>3 DEF StartedOnce
  <1> QED
    BY <1>1, <1>2

----------------------------------------------------------------------------
(* One lemma per action: it preserves the inductive invariant.               *)

\* waitForDependencies receives from a parent's Done.
LEMMA DependencyDoneInd ==
    ASSUME IndInv, NEW c \in Checks, DependencyDone(c)
    PROVE  IndInv'
  <1> DEFINE p == ParentResults(c)[pos[c]]
  <1>a. p \in Parents(c) /\ p \in Checks /\ Done(p) /\ pc[c] = "deps" /\ status[c] = "pending"
    BY ParentFacts DEF IndInv, TypeOK, StatusByPC, DependencyDone
  <1>b. \/ /\ status[p] = "success"
           /\ pos' = [pos EXCEPT ![c] = pos[c] + 1]
           /\ UNCHANGED <<status, pc>>
        \/ /\ status[p] # "success"
           /\ status' = [status EXCEPT ![c] = "skipped"]
           /\ pc' = [pc EXCEPT ![c] = "closing"]
           /\ UNCHANGED pos
    BY DEF DependencyDone
  <1>c. UNCHANGED <<failing, ctx, executor, model>>
    BY DEF DependencyDone
  <1> HIDE DEF p
  <1>1. TypeOK'
    BY <1>b, <1>c DEF IndInv, TypeOK, CheckStatus, PCs
  <1>d. OthersStay(c)
    BY <1>b DEF IndInv, TypeOK, OthersStay
  <1>e. /\ pc'[c] = "deps" /\ pos'[c] = pos[c] + 1 /\ status'[c] = "pending" /\ status[p] = "success"
        \/ /\ pc'[c] = "closing" /\ status'[c] = "skipped" /\ status[p] # "success"
    BY <1>a, <1>b DEF IndInv, TypeOK
  <1>2. SettledStays /\ StartedOnce'
    BY <1>1, <1>a, <1>c, <1>d, <1>e, OwnStep
  <1>3. StatusByPC'
    BY <1>a, <1>c, <1>d, <1>e DEF IndInv, StatusByPC, OthersStay
  <1>4. ParentsSeen'
    <2> SUFFICES ASSUME NEW d \in Checks, pc'[d] = "deps",
                        NEW i \in 1..Len(ParentResults(d)), i < pos'[d]
                 PROVE  pc'[ParentResults(d)[i]] = "exited" /\ status'[ParentResults(d)[i]] = "success"
      BY DEF ParentsSeen, Done
    <2>1. CASE d = c /\ i = pos[c]
      BY <1>a, <1>2, <1>e, <2>1 DEF p, SettledStays
    <2>2. CASE ~(d = c /\ i = pos[c])
      <3>1. pc[d] = "deps" /\ i < pos[d]
        BY <1>a, <1>d, <1>e, <2>2 DEF OthersStay, IndInv, TypeOK
      <3> QED
        BY <1>2, <3>1, KeepParentsSeen
    <2> QED
      BY <2>1, <2>2
  <1>5. SubsSeen'
    BY <1>2, <1>c, <1>d, <1>e, KeepSubsSeen DEF SubsSeen, OthersStay, Done
  <1>6. DependenciesHonoured'
    BY <1>2, <1>d, <1>e, KeepHonoured DEF DependenciesHonoured, OthersStay, Done
  <1>7. SuccessHidesNoFailure'
    BY <1>2, <1>d, <1>e, KeepSuccess DEF SuccessHidesNoFailure, OthersStay, Done
  <1>8. SkipHasCause'
    <2> SUFFICES ASSUME LocalDependencies, ctx = "live",
                        NEW d \in Checks, NEW s \in Subs(d), status'[s] = "skipped"
                 PROVE  \E f \in Subs(d) : status'[f] = "failed"
      BY <1>c DEF SkipHasCause, LocalDependencies
    <2>1. s \in Checks
      BY SubsFacts
    <2>2. \A f \in Checks : status[f] = "failed" => status'[f] = "failed"
      BY <1>a, <1>d DEF OthersStay
    <2>3. CASE status[s] = "skipped"
      BY <2>2, <2>3, SubsFacts DEF IndInv, SkipHasCause
    <2>4. CASE status[s] # "skipped"
      <3>1. s = c /\ status[p] # "success"
        BY <1>d, <1>e, <2>1, <2>4 DEF OthersStay
      <3>2. p \in Subs(d)
        BY <1>a, <3>1 DEF LocalDependencies
      <3>3. status[p] \in {"skipped", "failed"}
        BY <1>a, <3>1 DEF IndInv, StatusByPC, Done
      <3>4. \E f \in Subs(d) : status[f] = "failed"
        BY <3>2, <3>3 DEF IndInv, SkipHasCause
      <3> QED
        BY <2>2, <3>4, SubsFacts
    <2> QED
      BY <2>3, <2>4
  <1> QED
    BY <1>1, <1>2, <1>3, <1>4, <1>5, <1>6, <1>7, <1>8 DEF IndInv
\* The loops are left because the context is done, or Done is closed: only pc[c]
\* changes.
LEMMA LeaveInd ==
    ASSUME IndInv, NEW c \in Checks,
           DependencyCancelled(c) \/ SubCheckCancelled(c) \/ CloseDone(c)
    PROVE  IndInv'
  <1>a. /\ pc[c] \in {"deps", "subs", "closing"}
        /\ pc[c] # "closing" => ctx = "done"
        /\ \E x \in {"closing", "exited"} : pc' = [pc EXCEPT ![c] = x]
        /\ UNCHANGED <<status, pos, failing, ctx, executor, model>>
    BY DEF DependencyCancelled, SubCheckCancelled, CloseDone
  <1>1. TypeOK'
    BY <1>a DEF IndInv, TypeOK, PCs
  <1>b. OthersStay(c) /\ pc'[c] \in {"closing", "exited"} /\ status'[c] = status[c]
    BY <1>a DEF IndInv, TypeOK, OthersStay
  <1>2. SettledStays /\ StartedOnce'
    BY <1>1, <1>a, <1>b, OwnStep
  <1>3. StatusByPC'
    BY <1>a, <1>b DEF IndInv, TypeOK, StatusByPC, OthersStay
  <1>4. ParentsSeen'
    BY <1>2, <1>b, KeepParentsSeen DEF ParentsSeen, OthersStay, Done
  <1>5. SubsSeen'
    BY <1>2, <1>a, <1>b, KeepSubsSeen DEF SubsSeen, OthersStay, Done
  <1>6. DependenciesHonoured'
    BY <1>2, <1>a, <1>b, KeepHonoured DEF DependenciesHonoured, OthersStay, Done
  <1>7. SuccessHidesNoFailure'
    BY <1>2, <1>a, <1>b, KeepSuccess DEF SuccessHidesNoFailure, OthersStay, Done
  <1>8. SkipHasCause'
    BY <1>a DEF IndInv, SkipHasCause, LocalDependencies
  <1> QED
    BY <1>1, <1>2, <1>3, <1>4, <1>5, <1>6, <1>7, <1>8 DEF IndInv

\* A check starts running; a phase starts its sub-checks, which were all idle.
LEMMA StartRunningInd ==
    ASSUME IndInv, NEW c \in Checks, StartRunning(c)
    PROVE  IndInv'
  <1>a. \A s \in Subs(c) : s \in Checks /\ s # c /\ pc[s] = "idle"
    BY SubsFacts DEF IndInv, StartedOnce, StartRunning
  <1>b. pc[c] = "deps" /\ status[c] = "pending" /\ c \notin failing
    BY DEF IndInv, StatusByPC, StartRunning
  <1>c. UNCHANGED <<failing, ctx, executor, model>>
    BY DEF StartRunning
  <1>1. TypeOK'
    BY DEF IndInv, TypeOK, StartRunning, CheckStatus, PCs
  <1>d. /\ pc'[c] \in {"fn", "subs"} /\ status'[c] = "running" /\ pos'[c] = 1
        /\ pc'[c] = "fn" <=> ~IsPhase(c)
    BY DEF IndInv, TypeOK, StartRunning
  <1>e. \A d \in Checks : d # c => /\ status'[d] = status[d] /\ pos'[d] = pos[d]
                                   /\ pc'[d] = IF d \in Subs(c) THEN "deps" ELSE pc[d]
    BY DEF IndInv, TypeOK, StartRunning
  <1>2. SettledStays
    BY <1>a, <1>b, <1>e DEF SettledStays, Done
  <1>3. StatusByPC'
    BY <1>a, <1>b, <1>c, <1>d, <1>e DEF IndInv, StatusByPC, IsPhase
  <1>4. ParentsSeen'
    <2> SUFFICES ASSUME NEW d \in Checks, pc'[d] = "deps",
                        NEW i \in 1..Len(ParentResults(d)), i < pos'[d]
                 PROVE  pc'[ParentResults(d)[i]] = "exited" /\ status'[ParentResults(d)[i]] = "success"
      BY DEF ParentsSeen, Done
    <2>1. d # c /\ pc[d] \in {"idle", "deps"} /\ i < pos[d]
      BY <1>a, <1>d, <1>e
    <2>2. pc[d] = "deps"
      BY <2>1 DEF IndInv, StatusByPC
    <2> QED
      BY <1>2, <2>1, <2>2, KeepParentsSeen
  <1>5. SubsSeen'
    <2> SUFFICES ASSUME NEW d \in Checks, pc'[d] = "subs",
                        NEW i \in 1..Len(SubChecks[d]), i < pos'[d]
                 PROVE  /\ pc'[SubChecks[d][i]] = "exited"
                        /\ status'[SubChecks[d][i]] = "failed" => d \in failing
      BY <1>c DEF SubsSeen, Done
    <2>1. d # c
      BY <1>d
    <2>2. pc[d] = "subs" /\ i < pos[d]
      BY <1>e, <2>1
    <2> QED
      BY <1>2, <2>2, KeepSubsSeen
  <1>6. DependenciesHonoured'
    <2> SUFFICES ASSUME NEW d \in Checks, NEW p \in Parents(d),
                        pc'[d] \in {"fn", "subs"} \/ status'[d] \in {"running", "success", "failed"}
                 PROVE  pc'[p] = "exited" /\ status'[p] = "success"
      BY DEF DependenciesHonoured, Done
    <2>1. CASE d = c
      <3>1. PICK i \in 1..Len(ParentResults(c)) : p = ParentResults(c)[i]
        BY <2>1, ParentFacts
      <3>2. i < pos[c]
        BY ParentFacts DEF IndInv, TypeOK, StartRunning
      <3> QED
        BY <1>2, <1>b, <3>1, <3>2, KeepParentsSeen
    <2>2. CASE d # c
      <3>1. pc[d] \in {"fn", "subs"} \/ status[d] \in {"running", "success", "failed"}
        BY <1>e, <2>2
      <3> QED
        BY <1>2, <3>1, KeepHonoured
    <2> QED
      BY <2>1, <2>2
  <1>7. SuccessHidesNoFailure'
    BY <1>2, <1>d, <1>e, KeepSuccess DEF SuccessHidesNoFailure, Done
  <1>8. StartedOnce'
    <2>1. ASSUME NEW d \in Checks, NEW s \in Subs(d), pc'[d] \in {"idle", "deps"}
          PROVE  pc'[s] = "idle"
      <3>1. d # c /\ pc[d] \in {"idle", "deps"}
        BY <1>a, <1>d, <1>e, <2>1
      <3>2. s \in Checks /\ s \notin Subs(c) /\ pc[s] = "idle"
        BY <3>1, SubsFacts DEF IndInv, StartedOnce
      <3> QED
        BY <1>b, <1>e, <3>2
    <2>2. executor' = "new" => \A t \in Tops : pc'[t] = "idle"
      BY <1>b, <1>c, <1>e, TopsFacts DEF IndInv, StartedOnce
    <2> QED
      BY <2>1, <2>2 DEF StartedOnce
  <1>9. SkipHasCause'
    <2>1. \A d \in Checks : status[d] \in {"failed", "skipped"} <=> status'[d] \in {"failed", "skipped"}
      BY <1>b, <1>d, <1>e
    <2>2. \A d \in Checks : status'[d] \in {"failed", "skipped"} => status'[d] = status[d]
      BY <1>d, <1>e
    <2> QED
      BY <1>c, <2>1, <2>2, SubsFacts DEF IndInv, SkipHasCause, LocalDependencies
  <1> QED
    BY <1>1, <1>2, <1>3, <1>4, <1>5, <1>6, <1>7, <1>8, <1>9 DEF IndInv

\* A check gives its verdict, a success only when none of its sub-checks failed.
LEMMA VerdictInd ==
    ASSUME IndInv, NEW c \in Checks, pc[c] \in {"fn", "subs"},
           NEW v \in {"success", "failed"},
           v = "success" => \A s \in Subs(c) : Done(s) /\ status[s] # "failed",
           status' = [status EXCEPT ![c] = v],
           pc' = [pc EXCEPT ![c] = "closing"],
           UNCHANGED <<pos, failing, ctx, executor, model>>
    PROVE  IndInv'
  <1>1. TypeOK'
    BY DEF IndInv, TypeOK, PCs, CheckStatus
  <1>a. OthersStay(c) /\ pc'[c] = "closing" /\ status'[c] = v /\ status[c] = "running"
    BY DEF IndInv, TypeOK, StatusByPC, OthersStay
  <1>2. SettledStays /\ StartedOnce'
    BY <1>1, <1>a, OwnStep
  <1>3. StatusByPC'
    BY <1>a DEF IndInv, StatusByPC, OthersStay, IsPhase
  <1>4. ParentsSeen'
    BY <1>2, <1>a, KeepParentsSeen DEF ParentsSeen, OthersStay, Done
  <1>5. SubsSeen'
    BY <1>2, <1>a, KeepSubsSeen DEF SubsSeen, OthersStay, Done
  <1>6. DependenciesHonoured'
    BY <1>2, <1>a, KeepHonoured DEF DependenciesHonoured, OthersStay, Done
  <1>7. SuccessHidesNoFailure'
    <2> SUFFICES ASSUME NEW d \in Checks, status'[d] = "success", NEW s \in Subs(d)
                 PROVE  pc'[s] = "exited" /\ status'[s] # "failed"
      BY DEF SuccessHidesNoFailure, Done
    <2>1. CASE d = c
      BY <1>2, <1>a, <2>1, SubsFacts DEF SettledStays, Done
    <2>2. CASE d # c
      BY <1>2, <1>a, <2>2, KeepSuccess DEF OthersStay
    <2> QED
      BY <2>1, <2>2
  <1>8. SkipHasCause'
    <2>1. \A d \in Checks : /\ status[d] = "failed" => status'[d] = "failed"
                            /\ status'[d] = "skipped" => status[d] = "skipped"
      BY <1>a DEF OthersStay
    <2> QED
      BY <2>1, SubsFacts DEF IndInv, SkipHasCause, LocalDependencies
  <1> QED
    BY <1>1, <1>2, <1>3, <1>4, <1>5, <1>6, <1>7, <1>8 DEF IndInv

\* A leaf's function returns, or there is none.
LEMMA CheckFnInd ==
    ASSUME IndInv, NEW c \in Checks, CheckFn(c)
    PROVE  IndInv'
  <1>1. PICK v \in {"success", "failed"} : status' = [status EXCEPT ![c] = v]
    BY DEF CheckFn
  <1>2. /\ pc[c] = "fn" /\ pc' = [pc EXCEPT ![c] = "closing"]
        /\ UNCHANGED <<pos, failing, ctx, executor, model>>
    BY DEF CheckFn
  <1>3. \A s \in Subs(c) : FALSE
    BY <1>2, SubsFacts DEF IndInv, StatusByPC
  <1> QED
    BY <1>1, <1>2, <1>3, VerdictInd

\* A phase has awaited all its sub-checks.
LEMMA SubChecksVerdictInd ==
    ASSUME IndInv, NEW c \in Checks, SubChecksVerdict(c)
    PROVE  IndInv'
  <1> DEFINE v == IF c \in failing THEN "failed" ELSE "success"
  <1>1. /\ pc[c] = "subs" /\ pc' = [pc EXCEPT ![c] = "closing"]
        /\ status' = [status EXCEPT ![c] = v]
        /\ UNCHANGED <<pos, failing, ctx, executor, model>>
    BY DEF SubChecksVerdict
  <1>2. ASSUME v = "success", NEW s \in Subs(c)
        PROVE  Done(s) /\ status[s] # "failed"
    <2>1. PICK i \in 1..Len(SubChecks[c]) : s = SubChecks[c][i]
      BY SubsFacts
    <2>2. i < pos[c]
      BY SubsFacts DEF IndInv, TypeOK, SubChecksVerdict
    <2> QED
      BY <1>1, <1>2, <2>1, <2>2 DEF IndInv, SubsSeen
  <1>3. v \in {"success", "failed"}
    OBVIOUS
  <1> HIDE DEF v
  <1> QED
    BY <1>1, <1>2, <1>3, VerdictInd

\* waitForSubChecks receives from a sub-check's Done.
LEMMA SubCheckDoneInd ==
    ASSUME IndInv, NEW c \in Checks, SubCheckDone(c)
    PROVE  IndInv'
  <1> DEFINE s == SubChecks[c][pos[c]]
  <1>a. s \in Checks /\ Done(s) /\ pc[c] = "subs"
    BY SubsFacts DEF IndInv, TypeOK, SubCheckDone
  <1>b. /\ pos' = [pos EXCEPT ![c] = pos[c] + 1]
        /\ failing' = IF status[s] = "failed" THEN failing \cup {c} ELSE failing
        /\ UNCHANGED <<status, pc, ctx, executor, model>>
    BY DEF SubCheckDone
  <1> HIDE DEF s
  <1>1. TypeOK'
    BY <1>b DEF IndInv, TypeOK
  <1>c. OthersStay(c) /\ pc'[c] = "subs" /\ pos'[c] = pos[c] + 1 /\ failing \subseteq failing'
    BY <1>a, <1>b DEF IndInv, TypeOK, OthersStay
  <1>2. SettledStays /\ StartedOnce'
    BY <1>1, <1>a, <1>b, <1>c, OwnStep
  <1>3. StatusByPC'
    <2>1. \A d \in Checks : d # c => (d \in failing' <=> d \in failing)
      BY <1>b
    <2> QED
      BY <1>a, <1>b, <1>c, <2>1 DEF IndInv, StatusByPC, OthersStay, IsPhase
  <1>4. ParentsSeen'
    BY <1>2, <1>a, <1>c, KeepParentsSeen DEF ParentsSeen, OthersStay, Done
  <1>5. SubsSeen'
    <2> SUFFICES ASSUME NEW d \in Checks, pc'[d] = "subs",
                        NEW i \in 1..Len(SubChecks[d]), i < pos'[d]
                 PROVE  /\ pc'[SubChecks[d][i]] = "exited"
                        /\ status'[SubChecks[d][i]] = "failed" => d \in failing'
      BY DEF SubsSeen, Done
    <2>1. CASE d = c /\ i = pos[c]
      BY <1>a, <1>b, <2>1 DEF s, Done
    <2>2. CASE ~(d = c /\ i = pos[c])
      <3>1. pc[d] = "subs" /\ i < pos[d]
        BY <1>a, <1>c, <2>2 DEF OthersStay, IndInv, TypeOK
      <3> QED
        BY <1>2, <1>c, <3>1, KeepSubsSeen
    <2> QED
      BY <2>1, <2>2
  <1>6. DependenciesHonoured' /\ SuccessHidesNoFailure' /\ SkipHasCause'
    BY <1>b DEF IndInv, DependenciesHonoured, SuccessHidesNoFailure, SkipHasCause,
                LocalDependencies, Done
  <1> QED
    BY <1>1, <1>2, <1>3, <1>4, <1>5, <1>6 DEF IndInv

\* The executor starts the top-level checks, which were all idle.
LEMMA ExecutorStartInd ==
    ASSUME IndInv, ExecutorStart
    PROVE  IndInv'
  <1>a. \A t \in Tops : t \in Checks /\ pc[t] = "idle"
    BY TopsFacts DEF IndInv, StartedOnce, ExecutorStart
  <1>b. \A d \in Checks : pc'[d] = IF d \in Tops THEN "deps" ELSE pc[d]
    BY DEF ExecutorStart
  <1>c. UNCHANGED <<status, pos, failing, ctx, model>> /\ executor' = "waiting"
    BY DEF ExecutorStart
  <1>1. TypeOK'
    BY DEF IndInv, TypeOK, ExecutorStart, PCs
  <1>2. SettledStays
    BY <1>a, <1>b, <1>c DEF SettledStays, Done
  <1>3. StatusByPC'
    BY <1>a, <1>b, <1>c DEF IndInv, StatusByPC, IsPhase
  <1>4. ParentsSeen'
    <2> SUFFICES ASSUME NEW d \in Checks, pc'[d] = "deps",
                        NEW i \in 1..Len(ParentResults(d)), i < pos[d]
                 PROVE  pc'[ParentResults(d)[i]] = "exited" /\ status'[ParentResults(d)[i]] = "success"
      BY <1>c DEF ParentsSeen, Done
    <2>1. pc[d] \in {"idle", "deps"}
      BY <1>a, <1>b
    <2>2. pc[d] = "deps"
      BY <2>1 DEF IndInv, StatusByPC
    <2> QED
      BY <1>2, <2>2, KeepParentsSeen
  <1>5. SubsSeen'
    BY <1>2, <1>a, <1>b, <1>c, KeepSubsSeen DEF SubsSeen, Done
  <1>6. DependenciesHonoured'
    BY <1>2, <1>a, <1>b, <1>c, KeepHonoured DEF DependenciesHonoured, Done
  <1>7. SuccessHidesNoFailure'
    BY <1>2, <1>c, KeepSuccess DEF SuccessHidesNoFailure, Done
  <1>8. StartedOnce'
    <2>1. ASSUME NEW d \in Checks, NEW s \in Subs(d), pc'[d] \in {"idle", "deps"}
          PROVE  pc'[s] = "idle"
      <3>1. pc[d] \in {"idle", "deps"}
        BY <1>a, <1>b, <2>1
      <3>2. s \in Checks /\ s \notin Tops /\ pc[s] = "idle"
        BY <3>1, SubsFacts, TopsFacts DEF IndInv, StartedOnce
      <3> QED
        BY <1>b, <3>2
    <2> QED
      BY <1>c, <2>1 DEF StartedOnce
  <1>9. SkipHasCause'
    BY <1>c DEF IndInv, SkipHasCause, LocalDependencies
  <1> QED
    BY <1>1, <1>2, <1>3, <1>4, <1>5, <1>6, <1>7, <1>8, <1>9 DEF IndInv

\* The executor returns, a key or a signal arrives, or nothing happens: no check moves
\* and the context can only become done.
LEMMA OutsideInd ==
    ASSUME IndInv,
           ExecutorReturn \/ UpdateKey \/ UpdateTick \/ Signal \/ UNCHANGED vars
    PROVE  IndInv'
  <1>a. UNCHANGED <<status, pc, pos, failing>> /\ (ctx' = ctx \/ ctx' = "done")
    BY DEF ExecutorReturn, UpdateKey, UpdateTick, Signal, vars
  <1>b. /\ executor' = executor \/ executor' = "returned"
        /\ model' = model \/ model' = "quit"
    BY DEF ExecutorReturn, UpdateKey, UpdateTick, Signal, vars
  <1>1. TypeOK'
    BY <1>a, <1>b DEF IndInv, TypeOK
  <1>2. StatusByPC' /\ ParentsSeen' /\ SubsSeen'
    <2>1. StatusByPC'
      BY <1>a DEF IndInv, StatusByPC, IsPhase
    <2>2. ParentsSeen'
      BY <1>a DEF IndInv, ParentsSeen, Done
    <2>3. SubsSeen'
      BY <1>a DEF IndInv, SubsSeen, Done
    <2> QED
      BY <2>1, <2>2, <2>3
  <1>3. DependenciesHonoured' /\ SuccessHidesNoFailure' /\ StartedOnce' /\ SkipHasCause'
    BY <1>a, <1>b DEF IndInv, DependenciesHonoured, SuccessHidesNoFailure, StartedOnce,
                      SkipHasCause, LocalDependencies, Done
  <1> QED
    BY <1>1, <1>2, <1>3 DEF IndInv

\* Every step preserves the invariant.
LEMMA NextIndInv == IndInv /\ [Next]_vars => IndInv'
  <1> SUFFICES ASSUME IndInv, [Next]_vars PROVE IndInv'
    OBVIOUS
  <1>1. CASE \E c \in Checks : Goroutine(c)
    BY <1>1, DependencyDoneInd, LeaveInd, StartRunningInd, CheckFnInd, SubCheckDoneInd,
       SubChecksVerdictInd DEF Goroutine
  <1>2. CASE ExecutorStart
    BY <1>2, ExecutorStartInd
  <1>3. CASE ExecutorReturn \/ UpdateKey \/ UpdateTick \/ Signal \/ UNCHANGED vars
    BY <1>3, OutsideInd
  <1> QED
    BY <1>1, <1>2, <1>3 DEF Next

\* No step of the system touches a finished check.
LEMMA NextSettled == IndInv /\ [Next]_vars => SettledStays
  <1> SUFFICES ASSUME IndInv, [Next]_vars PROVE SettledStays
    OBVIOUS
  <1>1. CASE \E c \in Checks : Goroutine(c)
    <2>1. PICK c \in Checks : Goroutine(c)
      BY <1>1
    <2>2. CASE StartRunning(c)
      <3>1. \A s \in Subs(c) : pc[s] = "idle"
        BY <2>2 DEF IndInv, StartedOnce, StartRunning
      <3> QED
        BY <2>2, <3>1 DEF IndInv, TypeOK, StartRunning, SettledStays, Done
    <2>3. CASE DependencyDone(c)
      BY <2>3 DEF IndInv, TypeOK, DependencyDone, SettledStays, Done
    <2>4. CASE CheckFn(c) \/ SubChecksVerdict(c)
      BY <2>4 DEF IndInv, TypeOK, CheckFn, SubChecksVerdict, SettledStays, Done
    <2>5. CASE SubCheckDone(c)
      BY <2>5 DEF IndInv, TypeOK, SubCheckDone, SettledStays, Done
    <2>6. CASE DependencyCancelled(c) \/ SubCheckCancelled(c) \/ CloseDone(c)
      BY <2>6 DEF IndInv, TypeOK, DependencyCancelled, SubCheckCancelled, CloseDone,
                  SettledStays, Done
    <2> QED
      BY <2>1, <2>2, <2>3, <2>4, <2>5, <2>6 DEF Goroutine
  <1>2. CASE ExecutorStart
    <2>1. \A t \in Tops : pc[t] = "idle"
      BY <1>2 DEF IndInv, StartedOnce, ExecutorStart
    <2> QED
      BY <1>2, <2>1 DEF ExecutorStart, SettledStays, Done
  <1>3. CASE ExecutorReturn \/ UpdateKey \/ UpdateTick \/ Signal \/ UNCHANGED vars
    BY <1>3 DEF ExecutorReturn, UpdateKey, UpdateTick, Signal, vars, SettledStays, Done
  <1> QED
    BY <1>1, <1>2, <1>3 DEF Next

----------------------------------------------------------------------------
(* The theorems.                                                             *)

\* The inductive invariant holds in every reachable state of every check forest.
THEOREM Invariance == Spec => []IndInv
  BY InitIndInv, NextIndInv, PTL DEF Spec

\* Type correctness of pkg/check's results and goroutines.
THEOREM TypeCorrect == Spec => []TypeOK
  <1>1. IndInv => TypeOK
    BY DEF IndInv
  <1> QED
    BY <1>1, Invariance, PTL

\* No check runs, and none gives a verdict, before its dependencies have succeeded
\* (CheckResult.Run, waitForDependencies).
THEOREM DependencyOrder == Spec => []DependenciesHonoured
  <1>1. IndInv => DependenciesHonoured
    BY DEF IndInv
  <1> QED
    BY <1>1, Invariance, PTL

\* A phase never reports success over a failed or unfinished sub-check
\* (waitForSubChecks), whether or not the context is cancelled.
THEOREM PhaseSuccess == Spec => []SuccessHidesNoFailure
  <1>1. IndInv => SuccessHidesNoFailure
    BY DEF IndInv
  <1> QED
    BY <1>1, Invariance, PTL

\* In a run nobody cancels, success of a phase means success of all its sub-checks, as
\* long as sub-checks depend only on their siblings.
THEOREM PhaseSuccessIsTotal == Spec => []SuccessIsTotal
  <1>1. IndInv => SuccessIsTotal
    <2> SUFFICES ASSUME IndInv, LocalDependencies, ctx = "live", NEW c \in Checks,
                        status[c] = "success", NEW s \in Subs(c)
                 PROVE  status[s] = "success"
      BY DEF SuccessIsTotal
    <2>1. \A f \in Subs(c) : Done(f) /\ status[f] # "failed"
      BY DEF IndInv, SuccessHidesNoFailure
    <2>2. status[s] # "skipped"
      BY <2>1 DEF IndInv, SkipHasCause
    <2>3. s \in Checks
      BY SubsFacts
    <2> QED
      BY <2>1, <2>2, <2>3 DEF IndInv, StatusByPC, Done
  <1> QED
    BY <1>1, Invariance, PTL

\* Every Done channel is closed at most once: Run is never called on a result that
\* has been started.
THEOREM NoSecondRun == Spec => []StartedOnce
  <1>1. IndInv => StartedOnce
    BY DEF IndInv
  <1> QED
    BY <1>1, Invariance, PTL
\* Once its Done channel is closed, a result is read-only for every goroutine: no step
\* reopens it or changes its status.
THEOREM FinishedIsFinal == Spec => DoneIsFinal
  <1>1. SettledStays =>
          [\A c \in Checks : Done(c) => Done(c)' /\ status'[c] = status[c]]_vars
    BY DEF SettledStays, Done
  <1> QED
    BY <1>1, NextSettled, Invariance, PTL DEF Spec, DoneIsFinal

----------------------------------------------------------------------------
(* The goroutines implement the report.                                     *)

\* The lists of the abstract specification are those of the goroutines.
LEMMA ReportLists ==
    /\ Report!Tops = Tops
    /\ \A c \in Checks : Report!Phase[c] = Subs(c) /\ Report!Needs[c] = Parents(c)
  <1>1. Report!Tops = Tops
    BY DEF Report!Tops, Tops, Range, Report!Range
  <1>2. ASSUME NEW c \in Checks PROVE Report!Phase[c] = Subs(c)
    BY <1>2 DEF Report!Phase, Subs, Range, Report!Range
  <1>3. ASSUME NEW c \in Checks PROVE Report!Needs[c] = Parents(c)
    BY <1>3, ParentsAreResults DEF Report!Needs, Range, Report!Range
  <1> QED
    BY <1>1, <1>2, <1>3

\* A step that leaves finished checks alone keeps the cause of a verdict that it does
\* not itself write.
LEMMA KeepCause ==
    ASSUME RefInv, SettledStays, NEW c \in Checks, status'[c] = status[c],
           c \in failing' => c \in failing
    PROVE  VerdictHasCause(c)'
  <1>1. VerdictHasCause(c) /\ Subs(c) \subseteq Checks /\ Parents(c) \subseteq Checks
    BY SubsFacts, ParentFacts DEF RefInv
  <1>2. c \in failing' => \E s \in Subs(c) : Done(s)' /\ status'[s] = "failed"
    BY <1>1 DEF VerdictHasCause, SettledStays, Done
  <1>3. IsPhase(c) /\ status'[c] = "failed" =>
            (\A s \in Subs(c) : Done(s)') /\ \E s \in Subs(c) : status'[s] = "failed"
    BY <1>1 DEF VerdictHasCause, SettledStays, Done
  <1>4. status'[c] = "skipped" => \E p \in Parents(c) : Done(p)' /\ status'[p] # "success"
    BY <1>1 DEF VerdictHasCause, SettledStays, Done
  <1>5. ~IsPhase(c) /\ status'[c] = "success" => c \in HasCheckFn
    BY <1>1 DEF VerdictHasCause
  <1> QED
    BY <1>2, <1>3, <1>4, <1>5 DEF VerdictHasCause, IsPhase

\* A check that had been started still has its caller when no status falls back.
LEMMA KeepCaller ==
    ASSUME RefInv, NEW c \in Checks, pc[c] # "idle",
           \A p \in Checks : status[p] \in {"running", "success", "failed"}
                                => status'[p] \in {"running", "success", "failed"}
    PROVE  StartedByCaller(c)'
  <1>1. StartedByCaller(c)
    BY DEF RefInv
  <1> QED
    BY <1>1 DEF StartedByCaller

----------------------------------------------------------------------------
(* One lemma per action: it preserves what the refinement needs.             *)

\* A step of the goroutine of c that starts no other goroutine.
LEMMA OwnStepRef ==
    ASSUME RefInv, SettledStays, NEW c \in Checks, OthersStay(c), pc[c] # "idle",
           status[c] \in {"running", "success", "failed"}
                => status'[c] \in {"running", "success", "failed"},
           \A d \in Checks \ {c} : d \in failing' => d \in failing,
           VerdictHasCause(c)'
    PROVE  \A d \in Checks : VerdictHasCause(d)' /\ StartedByCaller(d)'
  <1> SUFFICES ASSUME NEW d \in Checks PROVE VerdictHasCause(d)' /\ StartedByCaller(d)'
    OBVIOUS
  <1>1. VerdictHasCause(d)'
    BY KeepCause DEF OthersStay
  <1>2. \A p \in Checks : status[p] \in {"running", "success", "failed"}
                             => status'[p] \in {"running", "success", "failed"}
    BY DEF OthersStay
  <1>3. CASE pc[d] # "idle"
    BY <1>1, <1>2, <1>3, KeepCaller
  <1>4. CASE pc[d] = "idle"
    BY <1>1, <1>4 DEF StartedByCaller, OthersStay
  <1> QED
    BY <1>3, <1>4

\* waitForDependencies receives from a parent's Done.
LEMMA DependencyDoneRef ==
    ASSUME RefInv, SettledStays, NEW c \in Checks, DependencyDone(c)
    PROVE  \A d \in Checks : VerdictHasCause(d)' /\ StartedByCaller(d)'
  <1> DEFINE p == ParentResults(c)[pos[c]]
  <1>a. p \in Parents(c) /\ p \in Checks /\ Done(p) /\ pc[c] = "deps" /\ status[c] = "pending"
    BY ParentFacts DEF RefInv, IndInv, TypeOK, StatusByPC, DependencyDone
  <1>b. \/ UNCHANGED <<status, pc>> /\ pos' = [pos EXCEPT ![c] = pos[c] + 1]
        \/ /\ status[p] # "success" /\ status' = [status EXCEPT ![c] = "skipped"]
           /\ pc' = [pc EXCEPT ![c] = "closing"] /\ UNCHANGED pos
    BY DEF DependencyDone
  <1>c. failing' = failing /\ c \notin failing
    BY <1>a DEF DependencyDone, RefInv, IndInv, StatusByPC
  <1> HIDE DEF p
  <1>1. OthersStay(c)
    BY <1>b DEF RefInv, IndInv, TypeOK, OthersStay
  <1>2. VerdictHasCause(c)'
    <2>1. CASE UNCHANGED <<status, pc>>
      BY <1>c, <2>1, KeepCause
    <2>2. CASE status[p] # "success" /\ status' = [status EXCEPT ![c] = "skipped"]
      <3>1. status'[c] = "skipped"
        BY <2>2 DEF RefInv, IndInv, TypeOK
      <3>2. pc'[p] = "exited" /\ status'[p] # "success"
        BY <1>a, <2>2 DEF SettledStays, Done
      <3> QED
        BY <1>a, <1>c, <3>1, <3>2 DEF VerdictHasCause, Done
    <2> QED
      BY <1>b, <2>1, <2>2
  <1> QED
    BY <1>1, <1>2, <1>a, <1>c, OwnStepRef

\* The loops are left because the context is done, or Done is closed.
LEMMA LeaveRef ==
    ASSUME RefInv, SettledStays, NEW c \in Checks,
           DependencyCancelled(c) \/ SubCheckCancelled(c) \/ CloseDone(c)
    PROVE  \A d \in Checks : VerdictHasCause(d)' /\ StartedByCaller(d)'
  <1>a. /\ pc[c] # "idle" /\ UNCHANGED <<status, pos, failing>>
        /\ \E x \in {"closing", "exited"} : pc' = [pc EXCEPT ![c] = x]
    BY DEF DependencyCancelled, SubCheckCancelled, CloseDone
  <1>1. OthersStay(c)
    BY <1>a DEF RefInv, IndInv, TypeOK, OthersStay
  <1>2. VerdictHasCause(c)'
    BY <1>a, KeepCause
  <1> QED
    BY <1>1, <1>2, <1>a, OwnStepRef

\* A check starts running; the sub-checks it starts have it for a caller.
LEMMA StartRunningRef ==
    ASSUME RefInv, SettledStays, NEW c \in Checks, StartRunning(c)
    PROVE  \A d \in Checks : VerdictHasCause(d)' /\ StartedByCaller(d)'
  <1> SUFFICES ASSUME NEW d \in Checks PROVE VerdictHasCause(d)' /\ StartedByCaller(d)'
    OBVIOUS
  <1>a. pc[c] = "deps" /\ status[c] = "pending" /\ c \notin failing /\ failing' = failing
    BY DEF RefInv, IndInv, StatusByPC, StartRunning
  <1>b. status'[c] = "running" /\ \A e \in Checks : e # c => status'[e] = status[e]
    BY DEF RefInv, IndInv, TypeOK, StartRunning
  <1>c. pc'[d] # "idle" => pc[d] # "idle" \/ d \in Subs(c)
    BY <1>a DEF StartRunning
  <1>1. VerdictHasCause(d)'
    <2>1. CASE d = c
      BY <1>a, <1>b, <2>1 DEF VerdictHasCause
    <2>2. CASE d # c
      BY <1>a, <1>b, <2>2, KeepCause
    <2> QED
      BY <2>1, <2>2
  <1>2. StartedByCaller(d)'
    <2>1. CASE pc[d] # "idle"
      BY <1>a, <1>b, <2>1, KeepCaller
    <2>2. CASE pc[d] = "idle"
      BY <1>b, <1>c, <2>2 DEF StartedByCaller
    <2> QED
      BY <2>1, <2>2
  <1> QED
    BY <1>1, <1>2

\* A leaf's function returns, or there is none.
LEMMA CheckFnRef ==
    ASSUME RefInv, SettledStays, NEW c \in Checks, CheckFn(c)
    PROVE  \A d \in Checks : VerdictHasCause(d)' /\ StartedByCaller(d)'
  <1>a. pc[c] = "fn" /\ ~IsPhase(c) /\ failing' = failing /\ pos' = pos
    BY DEF RefInv, IndInv, StatusByPC, CheckFn
  <1>b. PICK v \in {"success", "failed"} :
            status' = [status EXCEPT ![c] = v] /\ (v = "success" => c \in HasCheckFn)
    BY DEF CheckFn
  <1>c. pc' = [pc EXCEPT ![c] = "closing"]
    BY DEF CheckFn
  <1>1. OthersStay(c) /\ status'[c] = v
    BY <1>a, <1>b, <1>c DEF RefInv, IndInv, TypeOK, OthersStay
  <1>2. VerdictHasCause(c)'
    <2>1. c \notin failing
      BY <1>a, SubsFacts DEF RefInv, VerdictHasCause
    <2> QED
      BY <1>1, <1>a, <1>b, <2>1 DEF VerdictHasCause, IsPhase
  <1> QED
    BY <1>1, <1>2, <1>a, OwnStepRef

\* waitForSubChecks receives from a sub-check's Done.
LEMMA SubCheckDoneRef ==
    ASSUME RefInv, SettledStays, NEW c \in Checks, SubCheckDone(c)
    PROVE  \A d \in Checks : VerdictHasCause(d)' /\ StartedByCaller(d)'
  <1> DEFINE s == SubChecks[c][pos[c]]
  <1>a. s \in Subs(c) /\ s \in Checks /\ Done(s) /\ pc[c] = "subs" /\ status[c] = "running"
    <2>1. Done(s) /\ pc[c] = "subs" /\ pos[c] <= Len(SubChecks[c])
      BY DEF SubCheckDone
    <2>2. status[c] = "running" /\ pos[c] \in Nat \ {0}
      BY <2>1 DEF RefInv, IndInv, TypeOK, StatusByPC
    <2>3. Len(SubChecks[c]) \in Nat
      BY SubsFacts
    <2>4. pos[c] \in 1..Len(SubChecks[c])
      BY <2>1, <2>2, <2>3
    <2>5. s \in Subs(c) /\ s \in Checks
      BY <2>4, SubsFacts
    <2> QED
      BY <2>1, <2>2, <2>5
  <1>b. /\ pos' = [pos EXCEPT ![c] = pos[c] + 1]
        /\ failing' = IF status[s] = "failed" THEN failing \cup {c} ELSE failing
        /\ UNCHANGED <<status, pc>>
    BY DEF SubCheckDone
  <1> HIDE DEF s
  <1>1. OthersStay(c) /\ \A d \in Checks \ {c} : d \in failing' => d \in failing
    BY <1>b DEF RefInv, IndInv, TypeOK, OthersStay
  <1>2. VerdictHasCause(c)'
    <2>1. CASE status[s] = "failed"
      BY <1>a, <1>b, <2>1 DEF VerdictHasCause, Done
    <2>2. CASE status[s] # "failed"
      BY <1>b, <2>2, KeepCause
    <2> QED
      BY <2>1, <2>2
  <1> QED
    BY <1>1, <1>2, <1>a, <1>b, OwnStepRef

\* A phase has awaited all its sub-checks.
LEMMA SubChecksVerdictRef ==
    ASSUME RefInv, SettledStays, NEW c \in Checks, SubChecksVerdict(c)
    PROVE  \A d \in Checks : VerdictHasCause(d)' /\ StartedByCaller(d)'
  <1> DEFINE v == IF c \in failing THEN "failed" ELSE "success"
  <1>a. /\ pc[c] = "subs" /\ status[c] = "running" /\ pos[c] > Len(SubChecks[c])
        /\ status' = [status EXCEPT ![c] = v] /\ pc' = [pc EXCEPT ![c] = "closing"]
        /\ UNCHANGED <<pos, failing>>
    BY DEF RefInv, IndInv, StatusByPC, SubChecksVerdict
  <1>1. OthersStay(c) /\ status'[c] = v
    BY <1>a DEF RefInv, IndInv, TypeOK, OthersStay
  <1>2. \A s \in Subs(c) : Done(s)' /\ status'[s] = status[s] /\ s \in Checks
    <2> SUFFICES ASSUME NEW s \in Subs(c) PROVE Done(s)' /\ status'[s] = status[s] /\ s \in Checks
      OBVIOUS
    <2>1. PICK i \in 1..Len(SubChecks[c]) : s = SubChecks[c][i]
      BY SubsFacts
    <2>2. i < pos[c]
      <3>1. Len(SubChecks[c]) \in Nat
        BY SubsFacts
      <3>2. pos[c] \in Nat
        BY DEF RefInv, IndInv, TypeOK
      <3> QED
        BY <1>a, <3>1, <3>2
    <2>3. SubsSeen
      BY DEF RefInv, IndInv
    <2>4. Done(s)
      BY <1>a, <2>1, <2>2, <2>3 DEF SubsSeen
    <2>5. s \in Checks
      BY SubsFacts
    <2> QED
      BY <2>4, <2>5 DEF SettledStays, Done
  <1>3. IsPhase(c)
    BY <1>a DEF RefInv, IndInv, StatusByPC
  <1>4. VerdictHasCause(c)'
    <2>1. c \in failing => \E s \in Subs(c) : status[s] = "failed"
      BY DEF RefInv, VerdictHasCause
    <2> QED
      BY <1>1, <1>2, <1>3, <1>a, <2>1 DEF VerdictHasCause, IsPhase
  <1> QED
    BY <1>1, <1>4, <1>a, OwnStepRef

\* The executor starts the top-level checks.
LEMMA ExecutorStartRef ==
    ASSUME RefInv, SettledStays, ExecutorStart
    PROVE  \A d \in Checks : VerdictHasCause(d)' /\ StartedByCaller(d)'
  <1> SUFFICES ASSUME NEW d \in Checks PROVE VerdictHasCause(d)' /\ StartedByCaller(d)'
    OBVIOUS
  <1>a. UNCHANGED <<status, failing>> /\ pc'[d] = IF d \in Tops THEN "deps" ELSE pc[d]
    BY DEF ExecutorStart
  <1>1. VerdictHasCause(d)'
    BY <1>a, KeepCause
  <1>2. StartedByCaller(d)'
    BY <1>a, KeepCaller DEF StartedByCaller
  <1> QED
    BY <1>1, <1>2

\* No check moves.
LEMMA OutsideRef ==
    ASSUME RefInv, SettledStays,
           ExecutorReturn \/ UpdateKey \/ UpdateTick \/ Signal \/ UNCHANGED vars
    PROVE  \A d \in Checks : VerdictHasCause(d)' /\ StartedByCaller(d)'
  <1> SUFFICES ASSUME NEW d \in Checks PROVE VerdictHasCause(d)' /\ StartedByCaller(d)'
    OBVIOUS
  <1>a. UNCHANGED <<status, pc, failing>>
    BY DEF ExecutorReturn, UpdateKey, UpdateTick, Signal, vars
  <1>1. VerdictHasCause(d)'
    BY <1>a, KeepCause
  <1>2. StartedByCaller(d)'
    BY <1>a, KeepCaller DEF StartedByCaller
  <1> QED
    BY <1>1, <1>2

\* Initially there is no verdict, and no step leaves one without its cause.
LEMMA RefInvariance == Spec => []RefInv
  <1>1. Init => RefInv
    <2> SUFFICES ASSUME Init, NEW c \in Checks
                 PROVE  VerdictHasCause(c) /\ StartedByCaller(c)
      BY InitIndInv DEF RefInv
    <2> QED
      BY DEF Init, VerdictHasCause, StartedByCaller
  <1>2. RefInv /\ [Next]_vars => RefInv'
    <2> SUFFICES ASSUME RefInv, [Next]_vars PROVE RefInv'
      OBVIOUS
    <2>a. IndInv' /\ SettledStays
      BY NextIndInv, NextSettled DEF RefInv
    <2>1. CASE \E c \in Checks : Goroutine(c)
      <3>1. \A d \in Checks : VerdictHasCause(d)' /\ StartedByCaller(d)'
        BY <2>a, <2>1, DependencyDoneRef, LeaveRef, StartRunningRef, CheckFnRef,
           SubCheckDoneRef, SubChecksVerdictRef DEF Goroutine
      <3> QED
        BY <2>a, <3>1 DEF RefInv
    <2>2. CASE ExecutorStart
      BY <2>a, <2>2, ExecutorStartRef DEF RefInv
    <2>3. CASE ExecutorReturn \/ UpdateKey \/ UpdateTick \/ Signal \/ UNCHANGED vars
      BY <2>a, <2>3, OutsideRef DEF RefInv
    <2> QED
      BY <2>1, <2>2, <2>3 DEF Next
  <1> QED
    BY <1>1, <1>2, PTL DEF Spec

----------------------------------------------------------------------------
(* Every step of the goroutines is a step of the report, or none.            *)

\* A step that closes no Done channel does not change the report.
LEMMA QuietStep ==
    ASSUME SettledStays, \A c \in Checks : Done(c)' => Done(c)
    PROVE  [c \in Checks |-> Verdict(c)]' = [c \in Checks |-> Verdict(c)]
  <1>1. ASSUME NEW c \in Checks PROVE Verdict(c)' = Verdict(c)
    BY <1>1 DEF Verdict, SettledStays, Done
  <1> QED
    BY <1>1

\* Closing Done reveals a verdict that the earlier ones justify.
LEMMA CloseDecides ==
    ASSUME RefInv, SettledStays, NEW c \in Checks, CloseDone(c)
    PROVE  \E v \in Report!Verdicts : Report!Decide(c, v)
  <1> DEFINE v == Verdict(c)'
             rep == [d \in Checks |-> Verdict(d)]
             can == IF ctx = "done" THEN "yes" ELSE "no"
  <1>a. /\ pc[c] = "closing" /\ pc' = [pc EXCEPT ![c] = "exited"]
        /\ UNCHANGED <<status, failing, ctx>>
    BY DEF CloseDone
  <1>b. pc'[c] = "exited" /\ \A d \in Checks : d # c => pc'[d] = pc[d]
    BY <1>a DEF RefInv, IndInv, TypeOK
  <1>c. /\ status[c] \in CheckStatus
        /\ VerdictHasCause(c) /\ StartedByCaller(c)
        /\ Subs(c) \subseteq Checks /\ Parents(c) \subseteq Checks
    BY SubsFacts, ParentFacts DEF RefInv, IndInv, TypeOK
  <1>d. v = IF status[c] \in {"pending", "running"} THEN "aborted" ELSE status[c]
    BY <1>a, <1>b DEF Verdict, Done
  <1>1. v \in Report!Verdicts
    BY <1>c, <1>d DEF Report!Verdicts, CheckStatus
  <1>2. rep[c] = "none"
    BY <1>a DEF Verdict, Done
  <1>3. rep' = [rep EXCEPT ![c] = v] /\ can' = can
    <2>1. ASSUME NEW d \in Checks, d # c PROVE Verdict(d)' = Verdict(d)
      BY <1>a, <1>b, <2>1 DEF Verdict, Done
    <2> QED
      BY <1>a, <2>1
  <1>4. Report!Called(c)
    <2>1. CASE c \in Tops
      BY <2>1, ReportLists DEF Report!Called
    <2>2. CASE c \notin Tops
      <3>1. PICK p \in Checks : c \in Subs(p) /\ status[p] \in {"running", "success", "failed"}
        BY <1>a, <1>c, <2>2 DEF StartedByCaller
      <3>2. \A q \in Parents(p) : q \in Checks /\ Verdict(q) = "success"
        BY <3>1, ParentFacts DEF RefInv, IndInv, DependenciesHonoured, Verdict
      <3> QED
        BY <3>1, <3>2, ReportLists DEF Report!Called
    <2> QED
      BY <2>1, <2>2
  <1>5. CASE status[c] = "skipped"
    <2>1. PICK p \in Parents(c) : Done(p) /\ status[p] # "success"
      BY <1>c, <1>5 DEF VerdictHasCause
    <2>2. p \in Checks /\ rep[p] \in {"failed", "skipped", "aborted"}
      BY <1>c, <2>1 DEF Verdict, RefInv, IndInv, TypeOK, CheckStatus
    <2>3. Report!Skipped(c)
      BY <2>1, <2>2, ReportLists DEF Report!Skipped
    <2>4. v = "skipped"
      BY <1>d, <1>5
    <2> HIDE DEF v
    <2> QED
      BY <1>1, <1>2, <1>3, <1>4, <2>3, <2>4 DEF Report!Decide
  <1>6. CASE status[c] \in {"success", "failed"}
    <2>1. v = status[c] /\ v \in {"success", "failed"}
      BY <1>d, <1>6
    <2>2. Report!Met(c)
      <3>1. \A q \in Parents(c) : q \in Checks /\ Verdict(q) = "success"
        BY <1>6, ParentFacts DEF RefInv, IndInv, DependenciesHonoured, Verdict
      <3> QED
        BY <3>1, ReportLists DEF Report!Met
    <2>3. CASE IsPhase(c)
      <3>1. \A s \in Subs(c) : Done(s) /\ s \in Checks
        BY <1>c, <1>6, <2>3 DEF RefInv, IndInv, SuccessHidesNoFailure, VerdictHasCause
      <3>2. \A s \in Subs(c) : rep[s] # "none" /\ (rep[s] = "failed" <=> status[s] = "failed")
        BY <3>1 DEF Verdict, RefInv, IndInv, TypeOK, CheckStatus
      <3>3. Subs(c) # {}
        BY <2>3, SubsFacts
      <3>4. status[c] = "failed" <=> \E s \in Subs(c) : status[s] = "failed"
        BY <1>c, <1>6, <2>3 DEF RefInv, IndInv, SuccessHidesNoFailure, VerdictHasCause
      <3>5. Report!Ended(c)
        BY <3>2, <3>3, ReportLists DEF Report!Ended
      <3>6. v = Report!PhaseVerdict(c)
        BY <2>1, <3>2, <3>4, ReportLists DEF Report!PhaseVerdict
      <3> HIDE DEF v
      <3>7. Report!Decide(c, v)
        BY <1>2, <1>3, <1>4, <2>2, <3>5, <3>6 DEF Report!Decide
      <3> QED
        BY <1>1, <3>7
    <2>4. CASE ~IsPhase(c)
      <3>1. Report!Phase[c] = {}
        BY <2>4, SubsFacts, ReportLists
      <3>2. v = "success" => c \in HasCheckFn
        BY <1>c, <2>1, <2>4 DEF VerdictHasCause
      <3> HIDE DEF v
      <3> QED
        BY <1>1, <1>2, <1>3, <1>4, <2>1, <2>2, <3>1, <3>2 DEF Report!Decide
    <2> QED
      BY <2>3, <2>4
  <1>7. CASE status[c] \in {"pending", "running"}
    <2>1. v = "aborted"
      BY <1>d, <1>7
    <2>2. ctx = "done"
      BY <1>a, <1>7 DEF RefInv, IndInv, TypeOK, StatusByPC
    <2> HIDE DEF v
    <2> QED
      BY <1>1, <1>2, <1>3, <1>4, <2>1, <2>2 DEF Report!Decide
  <1> QED
    BY <1>5, <1>6, <1>7, <1>c DEF CheckStatus

\* CheckResult.Run and CheckExecutor.Run implement the report: every verdict appears
\* once, after those it depends on, and follows from them, in every tree of checks.
THEOREM Refinement == Spec => ImplementsReport
  <1>1. Init => Report!ReportInit
    BY DEF Init, Report!ReportInit, Verdict, Done
  <1>2. RefInv /\ [Next]_vars => [Report!ReportNext]_(Report!reportVars)
    <2> SUFFICES ASSUME RefInv, [Next]_vars
                 PROVE  Report!ReportNext \/ UNCHANGED Report!reportVars
      OBVIOUS
    <2>a. SettledStays
      BY NextSettled DEF RefInv
    <2>1. CASE \E c \in Checks : CloseDone(c)
      BY <2>a, <2>1, CloseDecides DEF Report!ReportNext
    <2>2. CASE UpdateKey \/ Signal
      <3>1. ctx' = "done" /\ \A c \in Checks : Done(c)' => Done(c)
        BY <2>2 DEF UpdateKey, Signal, Done
      <3> QED
        BY <2>a, <3>1, QuietStep DEF Report!ReportNext, Report!Cancel
    <2>3. CASE ExecutorStart \/ ExecutorReturn \/ UpdateTick \/ UNCHANGED vars
      <3>1. ctx' = ctx /\ \A c \in Checks : Done(c)' => Done(c)
        BY <2>3 DEF ExecutorStart, ExecutorReturn, UpdateTick, vars, Done
      <3> QED
        BY <2>a, <3>1, QuietStep DEF Report!reportVars
    <2>4. ASSUME NEW c \in Checks, Goroutine(c), ~CloseDone(c)
          PROVE  UNCHANGED Report!reportVars
      <3>1. ctx' = ctx
        BY <2>4 DEF Goroutine, DependencyDone, DependencyCancelled, StartRunning, CheckFn,
                    SubCheckDone, SubCheckCancelled, SubChecksVerdict
      <3>2. CASE StartRunning(c)
        <4>1. \A d \in Checks : Done(d)' => Done(d)
          BY <3>2 DEF StartRunning, Done
        <4> QED
          BY <2>a, <3>1, <4>1, QuietStep DEF Report!reportVars
      <3>3. CASE ~StartRunning(c)
        <4>1. pc' = pc \/ pc' = [pc EXCEPT ![c] = "closing"]
          BY <2>4, <3>3 DEF Goroutine, DependencyDone, DependencyCancelled, CheckFn,
                            SubCheckDone, SubCheckCancelled, SubChecksVerdict
        <4>2. \A d \in Checks : Done(d)' => Done(d)
          BY <4>1 DEF RefInv, IndInv, TypeOK, Done
        <4> QED
          BY <2>a, <3>1, <4>2, QuietStep DEF Report!reportVars
      <3> QED
        BY <3>2, <3>3
    <2> QED
      BY <2>1, <2>2, <2>3, <2>4 DEF Next
  <1> QED
    BY <1>1, <1>2, RefInvariance, PTL DEF Spec, ImplementsReport, Report!ReportSpec

----------------------------------------------------------------------------
(* The goroutines are never all blocked.                                     *)

\* A step of a goroutine that is not StartRunning moves that goroutine only, and none
\* goes back to where Run has not been called.
LEMMA OwnMove ==
    ASSUME IndInv, NEW c \in Checks, Goroutine(c), ~StartRunning(c)
    PROVE  /\ executor' = executor /\ pc[c] # "idle" /\ pc'[c] # "idle"
           /\ pc'[c] = "subs" => pc[c] = "subs"
           /\ \A d \in Checks : d # c => pc'[d] = pc[d]
<1>1. pc \in [Checks -> PCs]
  BY DEF IndInv, TypeOK
<1>2. executor' = executor
  BY DEF Goroutine, DependencyDone, DependencyCancelled, CheckFn, SubCheckDone, SubCheckCancelled,
         SubChecksVerdict, CloseDone
<1>3. CASE DependencyDone(c)
  BY <1>1, <1>2, <1>3 DEF DependencyDone
<1>4. CASE DependencyCancelled(c) \/ CheckFn(c) \/ SubCheckCancelled(c) \/ SubChecksVerdict(c) \/ CloseDone(c)
  BY <1>1, <1>2, <1>4 DEF DependencyCancelled, CheckFn, SubCheckCancelled, SubChecksVerdict, CloseDone
<1>5. CASE SubCheckDone(c)
  BY <1>1, <1>2, <1>5 DEF SubCheckDone
<1> QED BY <1>3, <1>4, <1>5 DEF Goroutine

LEMMA TogetherStep ==
    ASSUME IndInv, StartedTogether, [Next]_vars
    PROVE  StartedTogether'
<1>0. pc \in [Checks -> PCs]
  BY DEF IndInv, TypeOK
<1>1. ASSUME NEW c \in Checks, Goroutine(c), ~StartRunning(c) PROVE StartedTogether'
  <2>1. /\ executor' = executor
        /\ \A d \in Checks : (pc'[d] = "idle" <=> pc[d] = "idle") /\ (pc'[d] = "subs" => pc[d] = "subs")
    BY <1>1, OwnMove
  <2>2. Tops \subseteq Checks /\ \A d \in Checks : Subs(d) \subseteq Checks
    BY TopsFacts, SubsFacts
  <2> QED BY <2>1, <2>2 DEF StartedTogether
<1>2. ASSUME NEW c \in Checks, StartRunning(c) PROVE StartedTogether'
  <2>1. /\ executor' = executor /\ pc[c] = "deps" /\ pc'[c] \in {"subs", "fn"}
        /\ \A d \in Subs(c) \ {c} : pc'[d] = "deps"
        /\ \A d \in Checks : d # c /\ d \notin Subs(c) => pc'[d] = pc[d]
    BY <1>2, SubsFacts DEF StartRunning
  <2>2. /\ Tops \subseteq Checks /\ \A d \in Checks : Subs(d) \subseteq Checks
        /\ c \notin Subs(c) /\ \A d \in Checks : d # c => Subs(c) \cap Subs(d) = {}
    BY TopsFacts, SubsFacts
  <2>3. \A d \in Checks : pc[d] # "idle" => pc'[d] # "idle"
    BY <2>1, <2>2
  <2>4. \A s \in Subs(c) : pc'[s] = "deps"
    BY <2>1, <2>2
  <2>5. \A d \in Checks : d # c => \A s \in Subs(d) : pc'[s] # "idle" => pc[s] # "idle"
    BY <2>1, <2>2
  <2>6. (\A d \in Checks : pc[d] = "subs" => \A s \in Subs(d) : pc[s] # "idle")'
    BY <2>1, <2>2, <2>3, <2>4 DEF StartedTogether
  <2>7. (\A d \in Checks : \A s, t \in Subs(d) : pc[s] # "idle" => pc[t] # "idle")'
    BY <2>2, <2>3, <2>4, <2>5 DEF StartedTogether
  <2>8. (executor # "new" => \A d \in Tops : pc[d] # "idle")'
    BY <2>1, <2>2, <2>3 DEF StartedTogether
  <2> QED BY <2>6, <2>7, <2>8 DEF StartedTogether
<1>3. CASE ExecutorStart
  <2>1. /\ executor = "new"
        /\ \A d \in Checks : pc'[d] = IF d \in Tops THEN "deps" ELSE pc[d]
    BY <1>3 DEF ExecutorStart
  <2>2. Tops \subseteq Checks /\ \A d \in Checks : Subs(d) \subseteq Checks /\ Subs(d) \cap Tops = {}
    BY TopsFacts, SubsFacts
  <2>3. \A d \in Tops : pc'[d] = "deps"
    BY <2>1, <2>2
  <2>4. \A d \in Checks : \A s \in Subs(d) : pc'[s] = pc[s]
    BY <2>1, <2>2
  <2>5. \A d \in Checks : pc'[d] = "subs" => pc[d] = "subs"
    BY <2>1
  <2> QED BY <2>2, <2>3, <2>4, <2>5 DEF StartedTogether
<1>4. CASE ExecutorReturn \/ UpdateKey \/ UpdateTick \/ Signal \/ UNCHANGED vars
  <2>1. pc' = pc /\ (executor' = executor \/ executor = "waiting")
    BY <1>4 DEF ExecutorReturn, UpdateKey, UpdateTick, Signal, vars
  <2> QED BY <2>1 DEF StartedTogether
<1> QED BY <1>1, <1>2, <1>3, <1>4 DEF Next

LEMMA TogetherInvariance == Spec => []StartedTogether
<1>1. Init => StartedTogether
  BY SubsFacts DEF Init, StartedTogether
<1>2. IndInv /\ StartedTogether /\ [Next]_vars => StartedTogether'
  BY TogetherStep
<1> QED BY <1>1, <1>2, Invariance, PTL DEF Spec

\* Of the goroutines that are under way, take one that waits for none of the others:
\* what it waits for was started with it, or by it, and so has ended.
LEMMA OneCanStep ==
    ASSUME IndInv, StartedTogether, Runnable, executor # "new", \A c \in Checks : StartedByCaller(c),
           NEW b \in Checks, pc[b] \notin {"idle", "exited"}
    PROVE  \E c \in Checks : CanStep(c)
<1> DEFINE S == {c \in Checks : pc[c] \notin {"idle", "exited"}}
<1>1. PICK c \in S : (Parents(c) \cup Subs(c)) \cap S = {}
  <2>1. S \in SUBSET Checks /\ S # {}
    OBVIOUS
  <2> QED BY <2>1 DEF Runnable
<1>2. c \in Checks /\ pc[c] \in {"deps", "fn", "subs", "closing"} /\ pos[c] \in Nat \ {0}
  BY DEF IndInv, TypeOK, PCs
<1>3. CASE pc[c] \in {"fn", "closing"}
  BY <1>2, <1>3 DEF CanStep
<1>4. CASE pc[c] = "deps" /\ pos[c] > Len(ParentResults(c))
  BY <1>2, <1>4 DEF CanStep
<1>5. CASE pc[c] = "deps" /\ pos[c] <= Len(ParentResults(c))
  <2> DEFINE p == ParentResults(c)[pos[c]]
  <2>1. p \in Parents(c) /\ p \in Checks
    BY <1>2, <1>5, ParentFacts
  <2>2. pc[p] # "idle"
    <3>1. CASE c \in Tops
      BY <2>1, <3>1 DEF Runnable, StartedTogether
    <3>2. CASE c \notin Tops
      <4>1. PICK d \in Checks : c \in Subs(d)
        BY <1>2, <3>2 DEF StartedByCaller
      <4>2. p \in Subs(d)
        BY <2>1, <4>1 DEF Runnable, LocalDependencies
      <4> QED BY <1>2, <4>1, <4>2 DEF StartedTogether
    <3> QED BY <3>1, <3>2
  <2>3. pc[p] = "exited"
    BY <1>1, <2>1, <2>2
  <2> QED BY <1>2, <1>5, <2>3 DEF CanStep, Done
<1>6. CASE pc[c] = "subs" /\ pos[c] > Len(SubChecks[c])
  BY <1>2, <1>6 DEF CanStep
<1>7. CASE pc[c] = "subs" /\ pos[c] <= Len(SubChecks[c])
  <2> DEFINE s == SubChecks[c][pos[c]]
  <2>0. pos[c] \in 1..Len(SubChecks[c])
    <3>1. Len(SubChecks[c]) \in Nat
      BY <1>2, SubsFacts
    <3> QED BY <1>2, <1>7, <3>1
  <2>1. s \in Subs(c) /\ s \in Checks
    <3>1. /\ Subs(c) \subseteq Checks
          /\ \A i \in 1..Len(SubChecks[c]) : SubChecks[c][i] \in Subs(c)
      BY <1>2, SubsFacts
    <3> QED BY <2>0, <3>1
  <2>2. pc[s] # "idle"
    BY <1>2, <1>7, <2>1 DEF StartedTogether
  <2>3. pc[s] = "exited"
    BY <1>1, <2>1, <2>2
  <2> QED BY <1>2, <1>7, <2>3 DEF CanStep, Done
<1>8. /\ Len(ParentResults(c)) \in Nat /\ Len(SubChecks[c]) \in Nat
  BY <1>2, ParentFacts, SubsFacts
<1>9. /\ pos[c] > Len(ParentResults(c)) \/ pos[c] <= Len(ParentResults(c))
      /\ pos[c] > Len(SubChecks[c]) \/ pos[c] <= Len(SubChecks[c])
  BY <1>2, <1>8
<1> QED BY <1>2, <1>3, <1>4, <1>5, <1>6, <1>7, <1>9

\* No set of goroutines of `iknite status` ever waits for itself, on every tree without
\* cycles whose checks depend on their siblings only: the command cannot hang there
\* unless a check function does.
THEOREM NoDeadlock == Spec => []NeverStuck
<1>1. RefInv /\ StartedTogether => NeverStuck
  <2> SUFFICES ASSUME RefInv, StartedTogether, Runnable, executor # "new", \A c \in Checks : ~CanStep(c)
               PROVE  (\A c \in Tops : Done(c)) /\ \A c \in Checks : pc[c] \in {"idle", "exited"}
    BY DEF NeverStuck
  <2>1. \A c \in Checks : pc[c] \in {"idle", "exited"}
    BY OneCanStep DEF RefInv
  <2>2. \A c \in Tops : pc[c] = "exited"
    BY <2>1, TopsFacts DEF StartedTogether
  <2> QED BY <2>1, <2>2 DEF Done
<1> QED BY <1>1, RefInvariance, TogetherInvariance, PTL
=============================================================================
