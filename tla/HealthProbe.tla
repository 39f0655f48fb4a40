------------------------------ MODULE HealthProbe ------------------------------
(***************************************************************************)
(* The polling loops of CheckServerRunning (the kubelet's /healthz) and of *)
(* CheckClusterRunning (the API server's /readyz).  Both ask until they    *)
(* have had OkResponses good answers or asked Retries times, and return    *)
(* the error variable, which holds the outcome of the last answer only.    *)
(* They differ in the wait between two requests: the first sleeps, the     *)
(* second also looks at the context.                                       *)
(***************************************************************************)
EXTENDS Integers

CONSTANTS
    Retries,      \* the parameter retries
    OkResponses   \* the parameter okResponses

ASSUME ProbeParameters == Retries \in Nat /\ OkResponses \in Nat \ {0}

VARIABLES
    probe,     \* "server" or "cluster"
    runCtx,    \* "live" or "done"
    retries,   \* the loop counter
    asked,     \* history: how many requests were made
    okTries,   \* good answers so far
    err,       \* the error variable: "nil" or "error"
    pc         \* "loop", "wait", "request" or "returned"

vars == <<probe, runCtx, retries, asked, okTries, err, pc>>

ProbeInit ==
    /\ probe \in {"server", "cluster"}
    /\ runCtx \in {"live", "done"}
    /\ retries = Retries /\ asked = 0 /\ okTries = 0 /\ err = "nil" /\ pc = "loop"

\* The loop condition; the first turn does not wait.
Loop ==
    /\ pc = "loop"
    /\ pc' = IF retries = 0 THEN "returned" ELSE IF asked = 0 THEN "request" ELSE "wait"
    /\ UNCHANGED <<probe, runCtx, retries, asked, okTries, err>>

\* Deviation: a cancelled wait ends the loop and keeps the error variable.
Wait_KeepsErr ==
    /\ pc = "wait"
    /\ \/ pc' = "request"
       \/ probe = "cluster" /\ runCtx = "done" /\ pc' = "returned"
    /\ UNCHANGED <<probe, runCtx, retries, asked, okTries, err>>

\* The wait: a sleep, or a select on the context and a timer.
Wait ==
    /\ pc = "wait"
    /\ \/ pc' = "request" /\ UNCHANGED err
       \/ probe = "cluster" /\ runCtx = "done" /\ pc' = "returned" /\ err' = "error"
    /\ UNCHANGED <<probe, runCtx, retries, asked, okTries>>

\* One request.  A request under a context that is done fails; an answer is good, or
\* it is an error, another status code or another body, which are all an error.
Request ==
    /\ pc = "request"
    /\ asked' = asked + 1
    /\ \/ /\ runCtx = "live" /\ okTries' = okTries + 1 /\ err' = "nil"
          /\ IF okTries' = OkResponses
             THEN pc' = "returned" /\ UNCHANGED retries
             ELSE pc' = "loop" /\ retries' = retries - 1
       \/ /\ err' = "error" /\ retries' = retries - 1 /\ pc' = "loop" /\ UNCHANGED okTries
    /\ UNCHANGED <<probe, runCtx>>

\* The caller's context is cancelled.
Cancel ==
    /\ runCtx = "live" /\ runCtx' = "done"
    /\ UNCHANGED <<probe, retries, asked, okTries, err, pc>>

ProbeNext == Loop \/ Wait \/ Request \/ Cancel
ProbeSpec == ProbeInit /\ [][ProbeNext]_vars

\* No counter leaves its range: at most Retries requests are made, and the good
\* answers never pass OkResponses, which the loop compares with "==".
TypeOK ==
    /\ probe \in {"server", "cluster"}
    /\ runCtx \in {"live", "done"}
    /\ retries \in 0..Retries
    /\ asked \in 0..Retries
    /\ okTries \in 0..OkResponses
    /\ err \in {"nil", "error"}
    /\ pc \in {"loop", "wait", "request", "returned"}

\* A probe that had its OkResponses good answers succeeds, whatever errors came
\* before them and even if the context ends meanwhile.
EnoughIsSuccess == pc = "returned" /\ okTries = OkResponses => err = "nil"

\* A probe that succeeds before it has used all its requests had OkResponses good
\* answers: being cancelled between two requests is never taken for success.
EarlySuccess == pc = "returned" /\ err = "nil" /\ asked < Retries => okTries = OkResponses

\* The verdict of a probe is right in both directions (CheckServerRunning,
\* CheckClusterRunning): enough good answers are a success, and a success that comes
\* before the requests are used up rests on enough of them.
ProbeVerdict == EnoughIsSuccess /\ EarlySuccess

----------------------------------------------------------------------------
\* The loop counter and the history counter add up; a request is made, and a wait
\* entered, only with requests left; and OkResponses good answers end the loop.
IndInv ==
    /\ TypeOK
    /\ pc # "returned" => asked + retries = Retries
    /\ pc \in {"wait", "request"} => retries > 0
    /\ pc # "returned" => okTries < OkResponses
    /\ EnoughIsSuccess
    /\ EarlySuccess
=============================================================================
