------------------------------- MODULE Rendering -------------------------------
(***************************************************************************)
(* The rendering commands of iknitectl (pkg/cmd/iknitectl, pkg/kustomize): *)
(* "application render-all" renders the stages of an environment and the   *)
(* Argo CD applications found in them into one directory, "application     *)
(* render" and "kustomize" render one directory, "application validate"    *)
(* renders one and writes nothing.  A resource is written to a file named  *)
(* after its kind and name, whatever its namespace.  A command can fail at *)
(* every step, and can be killed between any two.                          *)
(***************************************************************************)
EXTENDS FiniteSets, Integers

CONSTANTS
    Stages,      \* the directories appstage-*
    Names,       \* the names of the resources
    Namespaces,  \* their namespaces
    MaxRenders   \* bound on the commands that are started

Applications == [kind : {"Application"}, name : Names, ns : Namespaces]
Resources == Applications \cup [kind : {"ConfigMap"}, name : Names, ns : Namespaces]
Single == "single"   \* the destination of the commands that render one directory

VARIABLES
    source,    \* source[d]: the resources a stage, or the directory of an application, builds
    markers,   \* the definition files in the directories of the applications
    dest,      \* the files written: the directory and the file, and the resource in it
    rcmd,      \* the command that runs, or ran last
    rpc,       \* where it is
    stages,    \* the stages it has still to render
    stage,     \* the stage it is in
    apps,      \* the applications of the stage it has still to render
    unit,      \* the directory it writes to
    writing,   \* the resources of the unit it has still to write
    built,     \* history: what it has built, for each unit
    renders

renderVars == <<source, markers, dest, rcmd, rpc, stages, stage, apps, unit, writing, built, renders>>

AppUnit(s, a) == <<s, "applications", a.name>>
StageUnit(s) == <<s, "manifests">>

\* SplitResMapToDir: the name of the file, and the file a write replaces.
FileOf(r) == <<r.kind, r.name>>
File(u, r) == [dir |-> u, file |-> FileOf(r), res |-> r]
Place(f) == <<f.dir, f.file>>
Put(files, f) == {e \in files : Place(e) # Place(f)} \cup {f}

RenderInit ==
    /\ source \in [Stages \cup Applications -> SUBSET Resources]
    /\ \A a \in Applications : source[a] \cap Applications = {}
    /\ markers \in {{}, {"helmfile"}, {"kustomization", "chart"}}
    /\ dest = {} /\ rcmd = "none" /\ rpc = "done" /\ stages = {} /\ stage = "none" /\ apps = {}
    /\ unit = <<>> /\ writing = {} /\ built = {} /\ renders = 0

RFail == rpc' = "failed"
Ended == rpc \in {"done", "failed"}

----------------------------------------------------------------------------
\* detectAppType: the first definition that is found.
DetectAppType ==
    CASE "kustomization" \in markers -> "kustomize"
      [] "helmfile" \in markers -> "helmfile"
      [] "chart" \in markers -> "helm"
      [] OTHER -> "unknown"

\* renderApp: kustomize, or the output of helmfile or helm; each can fail.
RenderApp(a, u) ==
    /\ DetectAppType # "unknown"
    /\ unit' = u /\ writing' = source[a] /\ built' = built \cup {File(u, r) : r \in source[a]}

\* BuildOnFileSystem for a stage.
BuildStage(s) ==
    LET u == StageUnit(s)
    IN unit' = u /\ writing' = source[s] /\ built' = built \cup {File(u, r) : r \in source[s]}

\* A command starts, in a directory that exists.
BeginRender(c) ==
    /\ Ended /\ renders < MaxRenders /\ renders' = renders + 1
    /\ rcmd' = c /\ UNCHANGED <<source, markers>>

RunRenderAll ==
    /\ BeginRender("all") /\ rpc' = "remove" /\ stages' = Stages /\ apps' = {} /\ writing' = {}
    /\ built' = {} /\ UNCHANGED <<dest, stage, unit>>

\* Into a directory, which is not emptied before; without one the output goes to stdout.
RunRenderApp(a) ==
    /\ BeginRender("app") /\ stages' = {} /\ apps' = {} /\ UNCHANGED <<dest, stage>>
    /\ \/ rpc' = "write" /\ RenderApp(a, <<Single, "resources">>)
       \/ rpc' \in {"done", "failed"} /\ UNCHANGED <<unit, writing, built>>

RunKustomize(s) ==
    /\ BeginRender("kustomize") /\ stages' = {} /\ apps' = {} /\ UNCHANGED <<dest, stage>>
    /\ \/ rpc' = "write" /\ unit' = <<Single, "resources">> /\ writing' = source[s] /\ UNCHANGED built
       \/ rpc' \in {"done", "failed"} /\ UNCHANGED <<unit, writing, built>>

\* Rendered, and handed to kubeconform.
RunValidateApp ==
    /\ BeginRender("validate")
    /\ rpc' \in {"failed"} \cup {d \in {"done"} : DetectAppType # "unknown"}
    /\ UNCHANGED <<dest, stages, stage, apps, unit, writing, built>>

\* Deviation: the directory is made, and left as it is when it exists.
RemoveDest_Keeps ==
    /\ rcmd = "all" /\ rpc = "remove" /\ rpc' = "stage" /\ UNCHANGED dest
    /\ UNCHANGED <<source, markers, rcmd, stages, stage, apps, unit, writing, built, renders>>

\* The destination is removed and made again; a failure can come half way.
RemoveDest ==
    /\ rcmd = "all" /\ rpc = "remove"
    /\ (dest' = {} /\ rpc' = "stage") \/ (dest' \in SUBSET dest /\ RFail)
    /\ UNCHANGED <<source, markers, rcmd, stages, stage, apps, unit, writing, built, renders>>

\* The next stage, in any order; no stage at all is an error.
RenderStage(s) ==
    /\ rcmd = "all" /\ rpc = "stage" /\ s \in stages
    /\ stage' = s /\ stages' = stages \ {s}
    /\ (BuildStage(s) /\ rpc' = "write") \/ (RFail /\ UNCHANGED <<unit, writing, built>>)
    /\ UNCHANGED <<source, markers, dest, rcmd, apps, renders>>

\* One file of SplitResMapToDir.  A write that fails leaves an empty file, or none.
WriteResource(r) ==
    /\ rpc = "write" /\ r \in writing
    /\ \/ dest' = Put(dest, File(unit, r)) /\ writing' = writing \ {r} /\ UNCHANGED rpc
       \/ dest' = {e \in dest : Place(e) # Place(File(unit, r))} /\ writing' = {} /\ RFail
    /\ UNCHANGED <<source, markers, rcmd, stages, stage, apps, unit, built, renders>>

\* parseApplicationsFromDir: what the files of the stage say.
ParseApplications(s) ==
    {f.res : f \in {e \in dest : e.dir = StageUnit(s) /\ e.res.kind = "Application"}}

\* A unit is written: its applications are next, or it was one, or it was the only one.
UnitWritten ==
    /\ rpc = "write" /\ writing = {}
    /\ CASE rcmd # "all" -> rpc' = "done" /\ UNCHANGED apps
         [] unit = StageUnit(stage) -> \/ rpc' = "apps" /\ apps' = ParseApplications(stage)
                                       \/ RFail /\ UNCHANGED apps
         [] OTHER -> rpc' = "apps" /\ UNCHANGED apps
    /\ UNCHANGED <<source, markers, dest, rcmd, stages, stage, unit, writing, built, renders>>

\* The next application; one without a path, or of no known type, is an error.
RenderApplication(a) ==
    /\ rpc = "apps" /\ a \in apps /\ apps' = apps \ {a}
    /\ \/ RenderApp(a, AppUnit(stage, a)) /\ rpc' = "write"
       \/ RFail /\ UNCHANGED <<unit, writing, built>>
    /\ UNCHANGED <<source, markers, dest, rcmd, stages, stage, renders>>

StageRendered ==
    /\ rpc = "apps" /\ apps = {} /\ rpc' = IF stages = {} THEN "done" ELSE "stage"
    /\ UNCHANGED <<source, markers, dest, rcmd, stages, stage, apps, unit, writing, built, renders>>

RenderKilled ==
    /\ ~Ended /\ RFail /\ writing' = {}
    /\ UNCHANGED <<source, markers, dest, rcmd, stages, stage, apps, unit, built, renders>>

\* Somebody changes a source while no command runs.
EditSource(d) ==
    /\ Ended /\ renders < MaxRenders
    /\ \E r \in source[d] : source' = [source EXCEPT ![d] = @ \ {r}]
    /\ renders > 0 /\ rcmd' = "none"
    /\ UNCHANGED <<markers, dest, rpc, stages, stage, apps, unit, writing, built, renders>>

RenderNext ==
    \/ RunRenderAll \/ RunValidateApp \/ RemoveDest \/ UnitWritten \/ StageRendered \/ RenderKilled
    \/ \E s \in Stages : RunKustomize(s) \/ RenderStage(s) \/ EditSource(s)
    \/ \E a \in Applications : RunRenderApp(a) \/ RenderApplication(a) \/ EditSource(a)
    \/ \E r \in Resources : WriteResource(r)

RenderSpec == RenderInit /\ [][RenderNext]_renderVars

----------------------------------------------------------------------------
Rendered == rcmd = "all" /\ rpc = "done"

\* A render-all that succeeds leaves exactly the files of what it has built: nothing of an
\* earlier rendering, whatever its source was and wherever it stopped, and nothing
\* missing, every application whose manifest it has written included.  Resources of a unit
\* that differ in their namespace only share a file, and the last one written stays.
RendersExactly ==
    Rendered =>
        /\ {Place(f) : f \in dest} = {Place(f) : f \in built} /\ dest \subseteq built
        /\ (\A f, g \in built : Place(f) = Place(g) => f = g) => dest = built
        /\ \A s \in Stages, a \in Applications : File(StageUnit(s), a) \in dest =>
              {File(AppUnit(s, a), r) : r \in source[a]} \subseteq built

----------------------------------------------------------------------------
(* The inductive invariant behind RendersExactly.                           *)

InRenderAll == rcmd = "all" /\ rpc \in {"stage", "write", "apps", "done"}

\* What was built and is not written is about to be.
WrittenInv ==
    /\ rpc # "write" => writing = {}
    /\ rcmd = "all" /\ rpc = "remove" => built = {}
    /\ InRenderAll =>
          /\ dest \subseteq built
          /\ \A r \in writing : File(unit, r) \in built
          /\ \A f \in built : (\E e \in dest : Place(e) = Place(f))
                              \/ \E r \in writing : f = File(unit, r)

\* An application whose manifest is written is rendered, or is about to be: the manifests
\* of its stage are still being written, or it is among those that were found there.
AppsInv ==
    InRenderAll =>
        /\ rpc = "write" => unit = StageUnit(stage) \/ \E a \in Applications : unit = AppUnit(stage, a)
        /\ \A s \in Stages, a \in Applications : File(StageUnit(s), a) \in dest =>
              \/ {File(AppUnit(s, a), r) : r \in source[a]} \subseteq built
              \/ rpc = "write" /\ unit = StageUnit(s) /\ s = stage
              \/ rpc \in {"write", "apps"} /\ a \in apps /\ s = stage

RenderInv == WrittenInv /\ AppsInv
=============================================================================
