------------------------------- MODULE Kubewait -------------------------------
(***************************************************************************)
(* kubewait: RunKubewait waits for the resources of several namespaces     *)
(* under one time limit (waitForResources) and then runs the bootstrap.    *)
(* One namespace is the ResourceWaiter this module extends; of the others  *)
(* only what their goroutines return is kept.  The time limit ends with    *)
(* the wait: the bootstrap runs under the context of the command.          *)
(***************************************************************************)
EXTENDS ResourceWaiter, Sequences

CONSTANTS
    Types,    \* the resource types asked for
    Others    \* the namespaces that are not modelled in detail

VARIABLES
    kpc,      \* where RunKubewait is
    skipped,  \* the wait was skipped: "no" or "yes"
    clone,    \* a clone was asked for: "no" or "yes", set when runBootstrap looks
    others,   \* others[n]: "off", "running", "nil" or "error"
    repo,     \* the clone in the bootstrap directory: "absent", "old", "partial" or "new"
    script,   \* the bootstrap script: "no" or "ran"
    exit      \* "none", "nil" or "error"

kwVars == <<kpc, skipped, clone, others, repo, script, exit>>
kvars == <<wvars, kwVars>>

KInit ==
    /\ Init
    /\ kpc = "start"
    /\ skipped = "no" /\ clone = "no"
    /\ others = [n \in Others |-> "off"]
    /\ repo = "old" /\ script = "no" /\ exit = "none"

Finish(e) == kpc' = "done" /\ exit' = e
Goto(p) == kpc' = p /\ UNCHANGED exit

----------------------------------------------------------------------------
\* KindFor is asked again after an error, three times in all; a type the server does
\* not know is not an error.  The answer that counts is the first that is not an
\* error, or the last.
KindFor(answers) ==
    IF \E i \in 1..3 : answers[i] # "error"
    THEN answers[CHOOSE i \in 1..3 : answers[i] # "error" /\ \A j \in 1..(i - 1) : answers[j] = "error"]
    ELSE "error"

\* ValidateResourceTypes: an error of one type fails all, unknown ones are skipped.
ValidTypes(answers) == {t \in Types : KindFor(answers[t]) = "kind"}
TypesFail(answers) == \E t \in Types : KindFor(answers[t]) = "error"

\* RunKubewait: the wait may be skipped.
Start ==
    /\ kpc = "start"
    /\ \/ Goto("types") /\ UNCHANGED skipped
       \/ Goto("bootstrap") /\ skipped' = "yes"
    /\ UNCHANGED <<wvars, clone, others, repo, script>>

\* waitForResources, up to the namespaces: the client, the mapper and the types.
Validate ==
    /\ kpc = "types"
    /\ \/ Finish("error")
       \/ \E answers \in [Types -> [1..3 -> {"kind", "nomatch", "error"}]] :
             IF TypesFail(answers) \/ ValidTypes(answers) = {} THEN Finish("error")
                                                              ELSE Goto("resolve")
    /\ UNCHANGED <<wvars, skipped, clone, others, repo, script>>

\* One goroutine per namespace is started, the one in detail and those of S.
StartGoroutines(S) ==
    Goto("wait") /\ others' = [n \in Others |-> IF n \in S THEN "running" ELSE "nil"]

\* resolveNamespaces: those given, the one of the service account file, or all that the
\* API server lists.  A file that cannot be read and a client that cannot be made fail.
Resolve ==
    /\ kpc = "resolve"
    /\ \/ \E S \in SUBSET Others : StartGoroutines(S)
       \/ Goto("list") /\ UNCHANGED others
       \/ Finish("error") /\ UNCHANGED others
    /\ UNCHANGED <<wvars, skipped, clone, repo, script>>

\* listNamespaces asks until it has an answer; only the end of the context stops it.
ListNamespaces ==
    /\ kpc = "list"
    /\ \/ \E S \in SUBSET Others : StartGoroutines(S)
       \/ ctx = "done" /\ Finish("error") /\ UNCHANGED others
    /\ UNCHANGED <<wvars, skipped, clone, repo, script>>

\* A step of the goroutines of the namespace in detail, whose pollers, watcher and timer
\* may outlive the wait; the time limit runs from the beginning.
Step(A) == (kpc = "wait" \/ wpc = "returned") /\ A /\ UNCHANGED kwVars
WaiterStep == Step(WaiterNext) \/ (kpc \in {"types", "resolve", "list"} /\ Timeout /\ UNCHANGED kwVars)

\* The goroutine of another namespace returns.
OtherReturns(n) ==
    /\ kpc = "wait" /\ others[n] = "running"
    /\ \E r \in {"nil", "error"} : others' = [others EXCEPT ![n] = r]
    /\ UNCHANGED <<wvars, kpc, skipped, clone, repo, script, exit>>

\* Deviation: the wait ends with the first namespace that is ready.
Join_First ==
    /\ kpc = "wait" /\ wpc = "returned"
    /\ IF result = "error" THEN Finish("error") ELSE Goto("bootstrap")
    /\ ctx' = "done"
    /\ UNCHANGED <<world, waiterVars, skipped, clone, others, repo, script>>

\* waitForResources joins the goroutines and returns their errors; its context ends.
Join ==
    /\ kpc = "wait" /\ wpc = "returned" /\ \A n \in Others : others[n] # "running"
    /\ IF result = "error" \/ \E n \in Others : others[n] = "error"
       THEN Finish("error") ELSE Goto("bootstrap")
    /\ ctx' = "done"
    /\ UNCHANGED <<world, waiterVars, skipped, clone, others, repo, script>>

----------------------------------------------------------------------------
(* runBootstrap.                                                            *)

\* The bootstrap may be skipped, and the clone is without a URL and a reference.
Bootstrap ==
    /\ kpc = "bootstrap"
    /\ \/ Finish("nil") /\ UNCHANGED clone
       \/ Goto("script") /\ UNCHANGED clone
       \/ Goto("domain") /\ clone' = "yes"
    /\ UNCHANGED <<wvars, skipped, others, repo, script>>

\* extractDomain finds a host in the URL or not.
ExtractDomain ==
    /\ kpc = "domain"
    /\ Goto("knownHost") \/ Goto("remove")
    /\ UNCHANGED <<wvars, skipped, clone, others, repo, script>>

\* ensureSSHKnownHost: the name is resolved, as long as it takes, the key scanned and
\* known_hosts written.
EnsureSSHKnownHost ==
    /\ kpc = "knownHost"
    /\ Goto("remove") \/ Finish("error")
    /\ UNCHANGED <<wvars, skipped, clone, others, repo, script>>

\* cloneBootstrapRepo: the old clone is removed before git runs.
RemoveRepo ==
    /\ kpc = "remove"
    /\ \/ repo' = "absent" /\ Goto("clone")
       \/ repo' \in {repo, "partial"} /\ Finish("error")
    /\ UNCHANGED <<wvars, skipped, clone, others, script>>

GitClone ==
    /\ kpc = "clone"
    /\ \/ repo' = "new" /\ Goto("script")
       \/ repo' \in {"absent", "partial"} /\ Finish("error")
    /\ UNCHANGED <<wvars, skipped, clone, others, script>>

\* The script: one that is not found is skipped; one that is not executable is made so.
RunScript ==
    /\ kpc = "script"
    /\ \/ Finish("nil") /\ UNCHANGED script
       \/ Finish("error") /\ UNCHANGED script
       \/ script' = "ran" /\ (Finish("nil") \/ Finish("error"))
    /\ UNCHANGED <<wvars, skipped, clone, others, repo>>

Command ==
    \/ Start \/ Validate \/ Resolve \/ ListNamespaces \/ Join \/ Bootstrap \/ ExtractDomain
    \/ EnsureSSHKnownHost \/ RemoveRepo \/ GitClone \/ RunScript

KNext == Command \/ WaiterStep \/ \E n \in Others : OtherReturns(n)

KSpec == KInit /\ [][KNext]_kvars

\* Of the fairness of the waiter, what ends it; the goroutines of the other namespaces
\* return when the context has ended.
KFairSpec ==
    /\ KSpec
    /\ WF_kvars(Join) /\ WF_kvars(Step(Main)) /\ WF_kvars(Step(Watcher)) /\ SF_kvars(Step(WatchEnds))
    /\ WF_kvars(Step(\E g \in Gens : PollCancelled(g) /\ (ProcessEvent(g) \/ PollEnds(g))))
    /\ \A n \in Others : WF_kvars(ctx = "done" /\ OtherReturns(n))

----------------------------------------------------------------------------
\* The bootstrap script runs only when every namespace reported that it is ready, or
\* when the wait was skipped: no error is lost in the join of the goroutines.  When a
\* clone was asked for, it comes from the clone of this run, not from one that an earlier
\* run left in the directory, whole or not.
BootstrapAfterReady ==
    script = "ran" =>
        /\ skipped = "no" => result = "nil" /\ \A n \in Others : others[n] = "nil"
        /\ clone = "yes" => repo = "new"

\* The time limit ends the wait, whatever the goroutines are doing, and none of them
\* outlives it (waitForResources, waitNamespaceResources).
WaitEnds == (ctx = "done" /\ kpc = "wait" ~> kpc # "wait") /\ NoLeak

----------------------------------------------------------------------------
(* The inductive invariant.                                                 *)

\* The namespaces are ready, or nobody waited for them.
Waited ==
    skipped = "no" => wpc = "returned" /\ result = "nil" /\ \A n \in Others : others[n] = "nil"

KubewaitInv ==
    /\ others \in [Others -> {"off", "running", "nil", "error"}]
    /\ kpc = "wait" => \A n \in Others : others[n] # "off"
    /\ kpc \in {"bootstrap", "domain", "knownHost", "remove", "clone", "script"} => Waited
    /\ kpc \in {"start", "types", "resolve", "list", "wait", "bootstrap"} => clone = "no"
    /\ kpc = "script" /\ clone = "yes" => repo = "new"
    /\ script = "ran" => kpc = "done" /\ Waited /\ (clone = "yes" => repo = "new")
=============================================================================
