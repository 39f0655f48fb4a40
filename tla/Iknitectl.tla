------------------------------- MODULE Iknitectl -------------------------------
(* The commands of iknitectl that change files: Secrets and Rendering.  The two *)
(* share no file, so that a behaviour is one of the one or one of the other.    *)
EXTENDS Secrets, Rendering, TLC

Init == SecretsInit /\ RenderInit

\* One of the initial states of Rendering, enough for the behaviours of Secrets.
NothingToRender == renders = 0 /\ markers = {} /\ \A d \in DOMAIN source : source[d] = {}

Next ==
    \/ NothingToRender /\ SecretsNext /\ UNCHANGED renderVars
    \/ started = 0 /\ RenderNext /\ UNCHANGED secretVars

Spec == Init /\ [][Next]_<<secretVars, renderVars>>

Symmetry == Permutations(Namespaces) \cup Permutations(Processes) \cup Permutations(Paths)
=============================================================================
