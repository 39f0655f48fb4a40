------------------------------ MODULE CheckTree ------------------------------
(***************************************************************************)
(* The check framework behind `iknite status` (pkg/check).                 *)
(*                                                                         *)
(* A check is a leaf (it has a function) or a phase (it has sub-checks).   *)
(* Every check runs in a goroutine of its own: it waits for the checks it  *)
(* depends on, runs its function or starts and awaits its sub-checks, and  *)
(* closes its Done channel on the way out.  An executor goroutine starts   *)
(* the top-level checks, and a terminal model polls them and may cancel    *)
(* the context they all share.                                             *)
(*                                                                         *)
(* Names are identities here: the result-name map of the code sends a name *)
(* to its result, and a DependsOn name that is in no result is dropped.    *)
(***************************************************************************)
EXTENDS Integers, Sequences, Functions

CONSTANTS
    Checks,      \* every check of the tree, phases included
    TopLevel,    \* the executor's Checks, in order
    SubChecks,   \* SubChecks[c]: the sub-checks of c, in order
    DependsOn,   \* DependsOn[c]: the names c depends on, in order
    HasCheckFn   \* the checks whose CheckFn is not nil

\* Subs(c), Tops: the same lists as sets.
Subs(c) == Range(SubChecks[c])
Tops == Range(TopLevel)

\* The check lists form a forest: NewResult builds one result per position, so
\* a result is reached either from the executor or from exactly one phase.
ASSUME CheckForest ==
    /\ TopLevel \in Seq(Checks)
    /\ SubChecks \in [Checks -> Seq(Checks)]
    /\ \A c \in Checks : c \notin Subs(c) /\ Subs(c) \cap Tops = {}
    /\ \A c, d \in Checks : c # d => Subs(c) \cap Subs(d) = {}

\* ParentResults: FillDependencies appends the results of the names it knows, and
\* the executor's path calls it twice (PrepareChecks, then PrepareRun), so every
\* parent is listed, and awaited, twice.
KnownName(n) == n \in Checks
ParentResults(c) ==
    LET known == SelectSeq(DependsOn[c], KnownName) IN known \o known
Parents(c) == Range(ParentResults(c))

\* Whatever names a check lists, its parents are results of the tree, and they are the
\* known ones among those names: what SelectSeq computes.
ASSUME ParentsAreResults ==
    \A c \in Checks : /\ ParentResults(c) \in Seq(Checks)
                      /\ Parents(c) = Range(DependsOn[c]) \cap Checks

VARIABLES
    status,     \* status[c]: CheckResult.Status
    pc,         \* pc[c]: where the goroutine of c is ("idle": Run not called)
    pos,        \* pos[c]: index of the loop over ParentResults or SubResults
    failing,    \* the phases whose waitForSubChecks holds result = false
    ctx,        \* the context the checks share: "live" or "done"
    executor,   \* CheckExecutor.Run: "new", "waiting" or "returned"
    model       \* the tea program: "running" or "quit"

vars == <<status, pc, pos, failing, ctx, executor, model>>

CheckStatus == {"pending", "running", "skipped", "success", "failed"}
PCs == {"idle", "deps", "fn", "subs", "closing", "exited"}

\* <-c.Done does not block.
Done(c) == pc[c] = "exited"
IsPhase(c) == SubChecks[c] # <<>>

Init ==
    /\ status = [c \in Checks |-> "pending"]
    /\ pc = [c \in Checks |-> "idle"]
    /\ pos = [c \in Checks |-> 1]
    /\ failing = {}
    /\ ctx = "live"
    /\ executor = "new"
    /\ model = "running"

----------------------------------------------------------------------------
\* Deviation: the parent's verdict is not looked at.
DependencyDone_VerdictIgnored(c) ==
    /\ pc[c] = "deps" /\ pos[c] <= Len(ParentResults(c))
    /\ Done(ParentResults(c)[pos[c]])
    /\ pos' = [pos EXCEPT ![c] = @ + 1]
    /\ UNCHANGED <<status, pc, failing, ctx, executor, model>>

\* Deviation: only success is handled, the loop waits on after a failed parent.
DependencyDone_WaitsOnFailure(c) ==
    /\ pc[c] = "deps" /\ pos[c] <= Len(ParentResults(c))
    /\ Done(ParentResults(c)[pos[c]])
    /\ status[ParentResults(c)[pos[c]]] = "success"
    /\ pos' = [pos EXCEPT ![c] = @ + 1]
    /\ UNCHANGED <<status, pc, failing, ctx, executor, model>>

\* waitForDependencies: the select took parent.Done.
DependencyDone(c) ==
    /\ pc[c] = "deps" /\ pos[c] <= Len(ParentResults(c))
    /\ Done(ParentResults(c)[pos[c]])
    /\ IF status[ParentResults(c)[pos[c]]] = "success"
       THEN /\ pos' = [pos EXCEPT ![c] = @ + 1]
            /\ UNCHANGED <<status, pc>>
       ELSE /\ status' = [status EXCEPT ![c] = "skipped"]
            /\ pc' = [pc EXCEPT ![c] = "closing"]
            /\ UNCHANGED pos
    /\ UNCHANGED <<failing, ctx, executor, model>>

\* waitForDependencies: the select took ctx.Done (possible even when the parent
\* is done too); the status is left as it is.
DependencyCancelled(c) ==
    /\ pc[c] = "deps" /\ pos[c] <= Len(ParentResults(c))
    /\ ctx = "done"
    /\ pc' = [pc EXCEPT ![c] = "closing"]
    /\ UNCHANGED <<status, pos, failing, ctx, executor, model>>

\* Run, past the dependencies: Running; a phase calls Run on all its sub-results.
StartRunning(c) ==
    /\ pc[c] = "deps" /\ pos[c] > Len(ParentResults(c))
    /\ status' = [status EXCEPT ![c] = "running"]
    /\ pc' = [d \in Checks |->
                IF d = c THEN IF IsPhase(c) THEN "subs" ELSE "fn"
                ELSE IF d \in Subs(c) THEN "deps" ELSE pc[d]]
    /\ pos' = [pos EXCEPT ![c] = 1]
    /\ UNCHANGED <<failing, ctx, executor, model>>

\* CheckFn: the function's verdict, or a failure when there is no function.
CheckFn(c) ==
    /\ pc[c] = "fn"
    /\ \E verdict \in IF c \in HasCheckFn THEN {"success", "failed"} ELSE {"failed"} :
         status' = [status EXCEPT ![c] = verdict]
    /\ pc' = [pc EXCEPT ![c] = "closing"]
    /\ UNCHANGED <<pos, failing, ctx, executor, model>>

\* Deviation: result holds the verdict of the last sub-check only.
SubCheckDone_LastWins(c) ==
    /\ pc[c] = "subs" /\ pos[c] <= Len(SubChecks[c])
    /\ Done(SubChecks[c][pos[c]])
    /\ failing' = IF status[SubChecks[c][pos[c]]] = "failed" THEN failing \cup {c} ELSE failing \ {c}
    /\ pos' = [pos EXCEPT ![c] = @ + 1]
    /\ UNCHANGED <<status, pc, ctx, executor, model>>

\* waitForSubChecks: the select took subResult.Done; only a failed one counts.
SubCheckDone(c) ==
    /\ pc[c] = "subs" /\ pos[c] <= Len(SubChecks[c])
    /\ Done(SubChecks[c][pos[c]])
    /\ failing' = IF status[SubChecks[c][pos[c]]] = "failed" THEN failing \cup {c} ELSE failing
    /\ pos' = [pos EXCEPT ![c] = @ + 1]
    /\ UNCHANGED <<status, pc, ctx, executor, model>>

\* waitForSubChecks: the select took ctx.Done; the status stays Running.
SubCheckCancelled(c) ==
    /\ pc[c] = "subs" /\ pos[c] <= Len(SubChecks[c])
    /\ ctx = "done"
    /\ pc' = [pc EXCEPT ![c] = "closing"]
    /\ UNCHANGED <<status, pos, failing, ctx, executor, model>>

\* Deviation: the first failed sub-check ends the loop.
SubChecksVerdict_Early(c) ==
    /\ pc[c] = "subs" /\ (c \in failing \/ pos[c] > Len(SubChecks[c]))
    /\ status' = [status EXCEPT ![c] = IF c \in failing THEN "failed" ELSE "success"]
    /\ pc' = [pc EXCEPT ![c] = "closing"]
    /\ UNCHANGED <<pos, failing, ctx, executor, model>>

\* waitForSubChecks, after the loop.
SubChecksVerdict(c) ==
    /\ pc[c] = "subs" /\ pos[c] > Len(SubChecks[c])
    /\ status' = [status EXCEPT ![c] = IF c \in failing THEN "failed" ELSE "success"]
    /\ pc' = [pc EXCEPT ![c] = "closing"]
    /\ UNCHANGED <<pos, failing, ctx, executor, model>>

\* The deferred close(c.Done).
CloseDone(c) ==
    /\ pc[c] = "closing"
    /\ pc' = [pc EXCEPT ![c] = "exited"]
    /\ UNCHANGED <<status, pos, failing, ctx, executor, model>>

Goroutine(c) ==
    \/ DependencyDone(c) \/ DependencyCancelled(c)
    \/ StartRunning(c) \/ CheckFn(c)
    \/ SubCheckDone(c) \/ SubCheckCancelled(c) \/ SubChecksVerdict(c)
    \/ CloseDone(c)

----------------------------------------------------------------------------
\* CheckExecutor.Run: every top-level goroutine is started.
ExecutorStart ==
    /\ executor = "new"
    /\ pc' = [c \in Checks |-> IF c \in Tops THEN "deps" ELSE pc[c]]
    /\ executor' = "waiting"
    /\ UNCHANGED <<status, pos, failing, ctx, model>>

\* CheckExecutor.Run returns on ctx.Done, or on allDone, which its helper
\* goroutine closes once it has received from every top-level Done.
ExecutorReturn ==
    /\ executor = "waiting"
    /\ ctx = "done" \/ \A c \in Tops : Done(c)
    /\ executor' = "returned"
    /\ UNCHANGED <<status, pc, pos, failing, ctx, model>>

\* Update on a key: cancel and quit.
UpdateKey ==
    /\ model = "running"
    /\ ctx' = "done"
    /\ model' = "quit"
    /\ UNCHANGED <<status, pc, pos, failing, executor>>

\* Update on anything else (the spinner ticks): quit when all results are done.
UpdateTick ==
    /\ model = "running"
    /\ \A c \in Tops : Done(c)
    /\ model' = "quit"
    /\ UNCHANGED <<status, pc, pos, failing, ctx, executor>>

\* SIGINT or SIGTERM cancels the command's context, the parent of the model's.
Signal ==
    /\ ctx = "live"
    /\ ctx' = "done"
    /\ UNCHANGED <<status, pc, pos, failing, executor, model>>

Next ==
    \/ \E c \in Checks : Goroutine(c)
    \/ ExecutorStart \/ ExecutorReturn
    \/ UpdateKey \/ UpdateTick \/ Signal

\* The Go scheduler runs every runnable goroutine, a check function returns and the
\* spinner keeps ticking.  Nobody has to press a key or send a signal.  That the
\* functions of pkg/checkers return is not taken for granted in StatusChecks.
Fairness ==
    /\ \A c \in Checks : WF_vars(Goroutine(c))
    /\ WF_vars(ExecutorStart) /\ WF_vars(ExecutorReturn) /\ WF_vars(UpdateTick)

Spec == Init /\ [][Next]_vars
FairSpec == Spec /\ Fairness
----------------------------------------------------------------------------
TypeOK ==
    /\ status \in [Checks -> CheckStatus]
    /\ pc \in [Checks -> PCs]
    /\ pos \in [Checks -> Nat \ {0}]
    /\ failing \in SUBSET Checks
    /\ ctx \in {"live", "done"}
    /\ executor \in {"new", "waiting", "returned"}
    /\ model \in {"running", "quit"}

\* A check whose function or sub-checks run, ran or gave a verdict has seen every
\* one of its parents finish successfully, and they still are (waitForDependencies
\* runs to its end before Run sets Running).
DependenciesHonoured ==
    \A c \in Checks :
        (pc[c] \in {"fn", "subs"} \/ status[c] \in {"running", "success", "failed"})
            => \A p \in Parents(c) : Done(p) /\ status[p] = "success"

\* A phase reports success only when every sub-check has finished and none of them
\* failed, cancelled or not (waitForSubChecks).
SuccessHidesNoFailure ==
    \A c \in Checks : status[c] = "success" =>
        \A s \in Subs(c) : Done(s) /\ status[s] # "failed"

\* The dependencies of the sub-checks stay within their phase, as in pkg/checkers.
LocalDependencies ==
    \A c \in Checks : \A s \in Subs(c) : Parents(s) \subseteq Subs(c)

\* With such dependencies a phase that reports success in a run nobody cancelled has
\* only successful sub-checks: none was skipped, although waitForSubChecks does not
\* count the skipped ones.
SuccessIsTotal ==
    LocalDependencies /\ ctx = "live" =>
        \A c \in Checks : status[c] = "success" =>
            \A s \in Subs(c) : status[s] = "success"

\* Run is called once on every result: a phase that is about to start its
\* sub-checks, and the executor before it starts, find them idle.  A second Run
\* would close Done twice, which panics.
StartedOnce ==
    /\ \A c \in Checks : pc[c] \in {"idle", "deps"} => \A s \in Subs(c) : pc[s] = "idle"
    /\ executor = "new" => \A c \in Tops : pc[c] = "idle"

\* A result whose Done is closed is never written again: what the terminal shows
\* for it, and what a dependent read, stays true.
DoneIsFinal ==
    [][\A c \in Checks : Done(c) => Done(c)' /\ status'[c] = status[c]]_vars

\* `iknite status` ends: every top-level check closes its Done channel, cancelled or
\* not, the terminal program quits, and no goroutine of a check is left blocked.
Terminates ==
    <>[](/\ model = "quit" /\ executor = "returned"
         /\ \A c \in Tops : Done(c)
         /\ \A c \in Checks : pc[c] \in {"idle", "exited"})

\* What a reader of the result sees once Done is closed.
Verdict(c) ==
    IF ~Done(c) THEN "none"
    ELSE IF status[c] \in {"pending", "running"} THEN "aborted" ELSE status[c]

Report ==
    INSTANCE CheckReport WITH
        report <- [c \in Checks |-> Verdict(c)],
        cancelled <- IF ctx = "done" THEN "yes" ELSE "no"

\* The goroutines implement CheckReport: seen from the outside, when Done is closed,
\* the report gains one verdict at a time, each justified by those it already has
\* (Run, waitForDependencies and waitForSubChecks read verdicts that are final).
ImplementsReport == Report!ReportSpec

----------------------------------------------------------------------------
(* The inductive invariant behind the safety properties.                    *)

\* What a goroutine has written so far is fixed by where it is.
StatusByPC ==
    \A c \in Checks :
        /\ pc[c] \in {"idle", "deps"} => status[c] = "pending" /\ c \notin failing
        /\ pc[c] \in {"fn", "subs"} => status[c] = "running"
        /\ pc[c] = "idle" => pos[c] = 1
        /\ pc[c] = "fn" => ~IsPhase(c)
        /\ pc[c] = "subs" => IsPhase(c)
        /\ pc[c] \in {"closing", "exited"} /\ ctx = "live"
              => status[c] \in {"skipped", "success", "failed"}

\* The parents already awaited finished successfully.
ParentsSeen ==
    \A c \in Checks : pc[c] = "deps" =>
        \A i \in 1..Len(ParentResults(c)) : i < pos[c] =>
            Done(ParentResults(c)[i]) /\ status[ParentResults(c)[i]] = "success"

\* failing sums up the sub-checks already awaited.
SubsSeen ==
    \A c \in Checks : pc[c] = "subs" =>
        \A i \in 1..Len(SubChecks[c]) : i < pos[c] =>
            /\ Done(SubChecks[c][i])
            /\ status[SubChecks[c][i]] = "failed" => c \in failing

\* Behind every skipped sub-check there is a failed one in the same phase.
SkipHasCause ==
    LocalDependencies /\ ctx = "live" =>
        \A c \in Checks : \A s \in Subs(c) : status[s] = "skipped" =>
            \E f \in Subs(c) : status[f] = "failed"

IndInv ==
    /\ TypeOK /\ StatusByPC /\ ParentsSeen /\ SubsSeen
    /\ DependenciesHonoured /\ SuccessHidesNoFailure /\ StartedOnce /\ SkipHasCause

----------------------------------------------------------------------------
(* What the refinement needs besides.                                        *)

\* A verdict has its cause in verdicts that are final: a failed phase in a failed
\* sub-check, a skipped check in a parent that did not succeed.
VerdictHasCause(c) ==
    /\ c \in failing => \E s \in Subs(c) : Done(s) /\ status[s] = "failed"
    /\ IsPhase(c) /\ status[c] = "failed" =>
          /\ \A s \in Subs(c) : Done(s)
          /\ \E s \in Subs(c) : status[s] = "failed"
    /\ status[c] = "skipped" => \E p \in Parents(c) : Done(p) /\ status[p] # "success"
    /\ ~IsPhase(c) /\ status[c] = "success" => c \in HasCheckFn

\* A goroutine was started by the executor or by a phase past its dependencies.
StartedByCaller(c) ==
    pc[c] # "idle" => \/ c \in Tops
                      \/ \E p \in Checks : c \in Subs(p) /\ status[p] \in {"running", "success", "failed"}

RefInv == IndInv /\ \A c \in Checks : VerdictHasCause(c) /\ StartedByCaller(c)

----------------------------------------------------------------------------
(* The part of Terminates that is an invariant.                              *)

\* Nothing holds the goroutine of c up: its function returns, and what the select of
\* its loop waits for is there.  The guards of Goroutine(c).
CanStep(c) ==
    \/ pc[c] \in {"fn", "closing"}
    \/ pc[c] = "deps" /\ (pos[c] > Len(ParentResults(c)) \/ Done(ParentResults(c)[pos[c]]) \/ ctx = "done")
    \/ pc[c] = "subs" /\ (pos[c] > Len(SubChecks[c]) \/ Done(SubChecks[c][pos[c]]) \/ ctx = "done")

\* The trees that can be run to their end: a check depends on its siblings only, and
\* there is no cycle, so that in any set of checks one waits for none of the others.
Runnable ==
    /\ LocalDependencies /\ \A c \in Tops : Parents(c) \subseteq Tops
    /\ \A S \in SUBSET Checks : S # {} => \E c \in S : (Parents(c) \cup Subs(c)) \cap S = {}

\* On such a tree the goroutines are never all blocked on one another: once the executor
\* has started them, one can go on, or every top-level check has closed its Done channel
\* and no goroutine is left (the selects of waitForDependencies and waitForSubChecks).
NeverStuck ==
    Runnable /\ executor # "new" =>
        \/ \E c \in Checks : CanStep(c)
        \/ /\ \A c \in Tops : Done(c)
           /\ \A c \in Checks : pc[c] \in {"idle", "exited"}

\* Run is called on all the checks of a list together, before any of them is awaited.
StartedTogether ==
    /\ executor # "new" => \A c \in Tops : pc[c] # "idle"
    /\ \A c \in Checks : pc[c] = "subs" => \A s \in Subs(c) : pc[s] # "idle"
    /\ \A c \in Checks : \A s, t \in Subs(c) : pc[s] # "idle" => pc[t] # "idle"
=============================================================================
