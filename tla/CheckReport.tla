----------------------------- MODULE CheckReport -----------------------------
(***************************************************************************)
(* What the check framework of pkg/check promises, without its goroutines, *)
(* channels and terminal: the report gains one verdict at a time, a check  *)
(* is decided after those it depends on, a phase after its sub-checks, and *)
(* nothing is ever decided twice.  CheckTree implements this.              *)
(***************************************************************************)
EXTENDS Functions

CONSTANTS
    Checks,      \* every check of the tree, phases included
    TopLevel,    \* the executor's Checks, in order
    SubChecks,   \* SubChecks[c]: the sub-checks of c, in order
    DependsOn,   \* DependsOn[c]: the names c depends on, in order
    HasCheckFn   \* the checks whose CheckFn is not nil

VARIABLES
    report,     \* report[c]: the verdict once Done is closed, "none" before
    cancelled   \* the context the checks share has ended: "yes" or "no"

reportVars == <<report, cancelled>>

Verdicts == {"success", "failed", "skipped", "aborted"}
Phase == [c \in Checks |-> Range(SubChecks[c])]
Needs == [c \in Checks |-> Range(DependsOn[c]) \cap Checks]
Tops == Range(TopLevel)

\* Run is called on a check by the executor, or by its phase once the dependencies of
\* that are met.
Called(c) ==
    \/ c \in Tops
    \/ \E p \in Checks : c \in Phase[p] /\ \A q \in Needs[p] : report[q] = "success"

Met(c) == \A p \in Needs[c] : report[p] = "success"

\* waitForDependencies: one of the parents ended, and not well.
Skipped(c) == \E p \in Needs[c] : report[p] \in {"failed", "skipped", "aborted"}

\* waitForSubChecks: all have ended; a phase fails when one of them has failed.
PhaseVerdict(c) ==
    IF \E s \in Phase[c] : report[s] = "failed" THEN "failed" ELSE "success"
Ended(c) == Phase[c] # {} /\ \A s \in Phase[c] : report[s] # "none"

\* The check c gets the verdict v.
Decide(c, v) ==
    /\ report[c] = "none" /\ Called(c)
    /\ \/ Skipped(c) /\ v = "skipped"
       \/ Met(c) /\ Ended(c) /\ v = PhaseVerdict(c)
       \/ Met(c) /\ Phase[c] = {} /\ v \in {"success", "failed"} /\ (v = "success" => c \in HasCheckFn)
       \/ cancelled = "yes" /\ v = "aborted"
    /\ report' = [report EXCEPT ![c] = v]
    /\ UNCHANGED cancelled

\* A key or a signal.
Cancel == cancelled' = "yes" /\ UNCHANGED report

ReportInit == report = [c \in Checks |-> "none"] /\ cancelled = "no"
ReportNext == Cancel \/ \E c \in Checks, v \in Verdicts : Decide(c, v)
ReportSpec == ReportInit /\ [][ReportNext]_reportVars

\* What that means for a report at any moment, interrupted or not: a check was looked at
\* only when all it depends on had succeeded, a phase says what its sub-checks said, all
\* of them, and a check that was skipped is behind one that did not succeed.
ReportOrder ==
    \A c \in Checks :
        /\ report[c] \in {"success", "failed"} =>
             Met(c) /\ (Phase[c] # {} => Ended(c) /\ report[c] = PhaseVerdict(c))
        /\ report[c] = "skipped" => Skipped(c)
=============================================================================
