----------------------------- MODULE HostLifecycle -----------------------------
(***************************************************************************)
(* A host over several lives of the cluster.  The iknite service runs      *)
(* "iknite init": prepare (HostSetup), pre-clean, bring the cluster up and,*)
(* when it is stopped, clean again.  "iknite clean" and "iknite reset" are *)
(* run beside it by hand, at any time.  init and kubelet can be killed.    *)
(*                                                                         *)
(* Every cleaning is a list of the same steps (pkg/k8s/clean.go); the jobs *)
(* differ in the list and in the failures that end it.                     *)
(***************************************************************************)
EXTENDS HostSetup, Sequences

CONSTANTS
    MaxStarts,    \* bound on the starts of the service
    MaxCommands   \* bound on the clean and reset commands

VARIABLES
    service,    \* the iknite service: "started" or "stopped"
    init,       \* its process: "down", "prepare", "preclean", "persist", "up" or "cleaning"
    status,     \* status.json: "absent", "torn" or the state it holds
    kubelet,    \* "none" or "alive"
    containerd, \* "started" or "stopped"
    residue,    \* what the cluster has left on the host
    volume,     \* a volume below /var/lib/kubelet/pods: "none", "mounted", or "emptied"
                \* (still mounted, and its content was removed)
    job,        \* job[a]: what the actor a is doing
    todo,       \* todo[a]: the steps it has left
    result,     \* result[a]: what its last job returned
    excuses,    \* what has happened that explains a loss; see the properties
    starts, commands

hostVars == <<service, init, status, kubelet, containerd, residue, volume, job, todo, result,
              excuses, starts, commands>>
vars == <<prepVars, hostVars>>

Actors == {"init", "cmd"}
Residue == {"containers", "netns", "links", "rules", "data", "config", "rootConfig"}

----------------------------------------------------------------------------
(* The lists of steps and the failures that end them.                       *)

\* Deviation: the files are removed before the volumes below them are unmounted.
Unmounting_FilesFirst == <<"kubeletFiles", "unmount">>

Unmounting == <<"unmount", "kubeletFiles">>
Network == <<"netns", "links">>

\* CleanAll(resetIPAddress, resetIPTables, _)
CleanAll(resetIp, resetTables) ==
    <<"containers">> \o Unmounting \o Network
      \o (IF resetTables THEN <<"rules">> ELSE <<>>) \o (IF resetIp THEN <<"ip">> ELSE <<>>)

\* performClean with every option (cleanAll) and with the default ones, and the phases.
Steps(j) ==
    CASE j = "cleanAll" -> <<"containers", "containerd">> \o Unmounting \o Network
                             \o <<"rules", "ip", "data", "config", "rootConfig", "kubelet">>
      [] j = "clean" -> <<"containers">> \o Unmounting \o Network \o <<"rules", "kubelet">>
      [] j = "reset" -> <<"service">> \o CleanAll(TRUE, TRUE) \o <<"config">>
      [] j = "preclean" -> CleanAll(FALSE, FALSE)
      [] j = "daemonize" -> CleanAll(TRUE, FALSE)

\* Deviation: performClean only warns.
Fatal_Warns(j, s) == j \in {"reset", "preclean"} /\ s \notin {"service", "config"}

\* performClean warns about three of its steps; CleanAll fails where failOnError is set;
\* the two phases of reset around it only warn.
Fatal(j, s) ==
    CASE j \in {"cleanAll", "clean"} -> s \notin {"containers", "ip", "config"}
      [] j \in {"reset", "preclean"} -> s \notin {"service", "config"}
      [] j = "daemonize" -> FALSE

At(a, s) == todo[a] # <<>> /\ Head(todo[a]) = s
Done(a) == todo' = [todo EXCEPT ![a] = Tail(@)] /\ UNCHANGED <<job, result>>
Failed(a) ==
    IF Fatal(job[a], Head(todo[a]))
    THEN /\ todo' = [todo EXCEPT ![a] = <<>>]
         /\ result' = [result EXCEPT ![a] = "error"] /\ UNCHANGED job
    ELSE Done(a)

----------------------------------------------------------------------------
(* The steps.                                                               *)

\* Most steps remove one kind of residue, all of it or with an error.
Remove(a, s) ==
    /\ At(a, s)
    /\ (residue' = residue \ {s} /\ Done(a)) \/ (UNCHANGED residue /\ Failed(a))
    /\ UNCHANGED <<prepVars, service, init, status, kubelet, containerd, volume, excuses, starts, commands>>

\* The containers can only be removed through containerd; without it the step fails.
StopAllContainers(a) ==
    Remove(a, "containers") /\ (containerd = "stopped" => UNCHANGED residue)

DeleteCniNamespaces(a) == Remove(a, "netns")
DeleteNetworkInterfaces(a) == Remove(a, "links")
ResetIPTables(a) == Remove(a, "rules")
DeleteAPIBackendData(a) == Remove(a, "data")
RemoveRootConfig(a) == Remove(a, "rootConfig")

StopContainerd(a) ==
    /\ At(a, "containerd")
    /\ \/ containerd' = "stopped" /\ Done(a)
       \/ UNCHANGED containerd /\ Failed(a)
    /\ UNCHANGED <<prepVars, service, init, status, kubelet, residue, volume, excuses, starts, commands>>

\* processMounts: an Unmount that fails is only logged, and the volume stays.
ProcessMounts ==
    \/ volume' = "none" /\ UNCHANGED excuses
    \/ volume # "none" /\ excuses' = excuses \cup {"unmount"} /\ UNCHANGED volume

\* UnmountPaths: the error that is returned is the one of the pipe, so that both results
\* can leave the volume mounted.
UnmountPaths(a) ==
    /\ At(a, "unmount") /\ ProcessMounts
    /\ Done(a) \/ Failed(a)
    /\ UNCHANGED <<prepVars, service, init, status, kubelet, containerd, residue, starts, commands>>

Emptied == IF volume = "none" THEN "none" ELSE "emptied"

\* RemoveKubeletFiles: rm -rf goes through what is still mounted, and fails then.
RemoveKubeletFiles(a) ==
    /\ At(a, "kubeletFiles") /\ volume' = Emptied
    /\ (volume = "none" /\ Done(a)) \/ Failed(a)
    /\ UNCHANGED <<prepVars, service, init, status, kubelet, containerd, residue, excuses, starts, commands>>

\* Deviation: the mapping is removed first.
ResetIPAddress_MappingFirst(a) ==
    /\ At(a, "ip")
    /\ \/ ~CreateIp /\ Done(a) /\ UNCHANGED <<address, hosts>>
       \/ CreateIp /\ hosts = "none" /\ Done(a) /\ UNCHANGED <<address, hosts>>
       \/ CreateIp /\ hosts = "ours" /\ hosts' = "none" /\ Failed(a) /\ UNCHANGED address
       \/ CreateIp /\ hosts = "ours" /\ hosts' = "none" /\ address' = "absent" /\ Done(a)
    /\ UNCHANGED <<netfilter, cgroup, files, rcLines, rcHeld, enabled, ppc, prepared, network, dns, kills>>
    /\ excuses' = IF ppc = "idle" THEN excuses ELSE excuses \cup {"address"}
    /\ UNCHANGED <<service, init, status, kubelet, containerd, residue, volume, starts, commands>>

\* IpMappingForHost: the hosts file maps the name.
IpMappingForHost == hosts # "none"
AfterDelete == IF hosts = "ours" THEN "absent" ELSE address

\* ResetIPAddress: the address is the one the name is mapped to.  The address is deleted,
\* and then the mapping is; each can fail.
ResetIPAddress(a) ==
    /\ At(a, "ip")
    /\ \/ (CreateIp => ~IpMappingForHost) /\ Done(a) /\ UNCHANGED <<address, hosts>>
       \/ /\ CreateIp /\ IpMappingForHost /\ Done(a)
          /\ address' = AfterDelete /\ hosts' = "none"
       \/ /\ CreateIp /\ IpMappingForHost /\ Failed(a)
          /\ address' \in {address, AfterDelete} /\ UNCHANGED hosts
       \/ CreateIp /\ Failed(a) /\ UNCHANGED <<address, hosts>>
    /\ UNCHANGED <<netfilter, cgroup, files, rcLines, rcHeld, enabled, ppc, prepared, network, dns, kills>>
    /\ excuses' = IF ppc = "idle" THEN excuses ELSE excuses \cup {"address"}
    /\ UNCHANGED <<service, init, status, kubelet, containerd, residue, volume, starts, commands>>

\* CleanConfig and runCleanupConfig: the manifests, the whole kubelet directory, the
\* certificates and the kubeconfigs; whatever fails is a warning.
CleanConfig(a) ==
    /\ At(a, "config") /\ Done(a)
    /\ residue' \in {residue, residue \ {"config"}} /\ volume' \in {volume, Emptied}
    /\ UNCHANGED <<prepVars, service, init, status, kubelet, containerd, excuses, starts, commands>>

\* The end of performClean.  The kubelet is not a child of this process: a Wait for it
\* fails at once.  An error of the check, or of the signal, is no failure.
StopKubelet(a) ==
    /\ At(a, "kubelet")
    /\ \/ UNCHANGED kubelet /\ Done(a)
       \/ kubelet = "alive" /\ kubelet' = "none" /\ Failed(a)
    /\ UNCHANGED <<prepVars, service, init, status, containerd, residue, volume, excuses, starts, commands>>

\* StopService for iknite: the service manager signals init and waits for its end.
StopIknite(a) ==
    /\ At(a, "service") /\ service' = "stopped"
    /\ \/ init = "down" /\ Done(a)
       \/ service = "started" /\ UNCHANGED <<todo, job, result>>
       \/ Failed(a)
    /\ UNCHANGED <<prepVars, init, status, kubelet, containerd, residue, volume, excuses, starts, commands>>

JobReturns(a) ==
    /\ todo[a] = <<>> /\ result[a] = "running" /\ result' = [result EXCEPT ![a] = "nil"]
    /\ UNCHANGED <<prepVars, service, init, status, kubelet, containerd, residue, volume, job, todo,
                   excuses, starts, commands>>

JobStep(a) ==
    \/ StopAllContainers(a) \/ DeleteCniNamespaces(a) \/ DeleteNetworkInterfaces(a)
    \/ ResetIPTables(a) \/ DeleteAPIBackendData(a) \/ RemoveRootConfig(a)
    \/ StopContainerd(a) \/ UnmountPaths(a) \/ RemoveKubeletFiles(a) \/ ResetIPAddress(a)
    \/ CleanConfig(a) \/ StopKubelet(a) \/ StopIknite(a) \/ JobReturns(a)

Begin(a, j, steps) ==
    /\ job' = [job EXCEPT ![a] = j] /\ todo' = [todo EXCEPT ![a] = steps]
    /\ result' = [result EXCEPT ![a] = "running"]

----------------------------------------------------------------------------
(* The commands.                                                            *)

\* What explains a volume that is mounted while somebody cleans.
Meanwhile == IF \E a \in Actors : todo[a] # <<>> THEN {"up"} ELSE {}

Free(a) == todo[a] = <<>> /\ result[a] # "running"

\* performClean, up to its first step.  A status that cannot be read is Undefined, which
\* is stable; so are Running, Stopped and Failed.
CleanCommand ==
    /\ Free("cmd") /\ commands < MaxCommands /\ commands' = commands + 1
    /\ excuses' = excuses \ {"since"}
    /\ \E j \in {"clean", "cleanAll"} :
          IF status \in {"Started", "Stopping"}
          THEN job' = [job EXCEPT !["cmd"] = j] /\ result' = [result EXCEPT !["cmd"] = "error"]
               /\ UNCHANGED todo
          ELSE Begin("cmd", j, (IF status = "Running" THEN <<"service">> ELSE <<>>) \o Steps(j))
    /\ UNCHANGED <<prepVars, service, init, status, kubelet, containerd, residue, volume, starts>>

\* The reset workflow; preflight and the removal of the etcd member, which are
\* kubeadm's, can fail before it.
ResetCommand ==
    /\ Free("cmd") /\ commands < MaxCommands /\ commands' = commands + 1
    /\ excuses' = excuses \ {"since"}
    /\ Begin("cmd", "reset", Steps("reset"))
    /\ UNCHANGED <<prepVars, service, init, status, kubelet, containerd, residue, volume, starts>>

\* "iknite prepare" by hand, and the one of "iknite start".
PrepareCommand == Prepare /\ init # "prepare" /\ commands < MaxCommands
                  /\ commands' = commands + 1
                  /\ UNCHANGED <<service, init, status, kubelet, containerd, residue, volume, job, todo,
                                 result, excuses, starts>>

----------------------------------------------------------------------------
(* The service and its process.                                             *)

ServiceStarts ==
    /\ service = "stopped" /\ starts < MaxStarts
    /\ service' = "started" /\ starts' = starts + 1
    /\ UNCHANGED <<prepVars, init, status, kubelet, containerd, residue, volume, job, todo, result,
                   excuses, commands>>

ServiceStops ==
    /\ service = "started" /\ service' = "stopped"
    /\ UNCHANGED <<prepVars, init, status, kubelet, containerd, residue, volume, job, todo, result,
                   excuses, starts, commands>>

\* init is started, or started again by the supervisor.
InitStarts ==
    /\ service = "started" /\ init = "down" /\ Prepare
    /\ init' = "prepare" /\ status' = "Started" /\ containerd' = "started"
    /\ UNCHANGED <<service, kubelet, residue, volume, job, todo, result, excuses, starts, commands>>

InitFails ==
    /\ \/ init = "prepare" /\ ppc = "idle" /\ prepared # "nil"
       \/ init = "preclean" /\ result["init"] = "error"
    /\ init' = "down" /\ status' = "Failed" /\ service' = "stopped"
    /\ UNCHANGED <<prepVars, kubelet, containerd, residue, volume, job, todo, result, excuses, starts, commands>>

InitPreCleans ==
    /\ init = "prepare" /\ ppc = "idle" /\ prepared = "nil"
    /\ init' = "preclean" /\ Begin("init", "preclean", Steps("preclean"))
    /\ UNCHANGED <<prepVars, service, status, kubelet, containerd, residue, volume, excuses, starts, commands>>

\* The kubelet runs the cluster, which leaves all there is to clean.  The state is
\* written: the file is truncated first.
ClusterUp ==
    /\ init = "preclean" /\ result["init"] = "nil"
    /\ init' = "persist" /\ status' = "torn" /\ kubelet' = "alive"
    /\ residue' = Residue /\ volume' = "mounted"
    /\ excuses' = excuses \cup {"since"} \cup Meanwhile
    /\ UNCHANGED <<prepVars, service, containerd, job, todo, result, starts, commands>>

InitPersists ==
    /\ init = "persist" /\ init' = "up" /\ status' = "Running"
    /\ UNCHANGED <<prepVars, service, kubelet, containerd, residue, volume, job, todo, result, excuses,
                   starts, commands>>

\* SIGTERM: the kubelet is stopped, and the host is cleaned.
InitStops ==
    /\ init = "up" /\ service = "stopped"
    /\ init' = "cleaning" /\ status' = "Stopping" /\ kubelet' = "none"
    /\ Begin("init", "daemonize", Steps("daemonize"))
    /\ UNCHANGED <<prepVars, service, containerd, residue, volume, excuses, starts, commands>>

InitEnds ==
    /\ init = "cleaning" /\ result["init"] = "nil"
    /\ init' = "down" /\ status' = "Stopped"
    /\ UNCHANGED <<prepVars, service, kubelet, containerd, residue, volume, job, todo, result, excuses,
                   starts, commands>>

\* init is killed; its kubelet lives on.
InitKilled ==
    /\ init # "down" /\ kills < MaxKills
    /\ kills' = kills + 1 /\ init' = "down"
    /\ IF init = "prepare" THEN ppc' = "idle" /\ prepared' = "none" /\ rcHeld' = {}
                           ELSE UNCHANGED <<ppc, prepared, rcHeld>>
    /\ todo' = [todo EXCEPT !["init"] = <<>>] /\ result' = [result EXCEPT !["init"] = "none"]
    /\ UNCHANGED <<netfilter, cgroup, files, rcLines, enabled, address, hosts, network, dns>>
    /\ UNCHANGED <<service, status, kubelet, containerd, residue, volume, job, excuses, starts, commands>>

\* A kubelet mounts the volumes of its pods again.
KubeletMounts ==
    /\ kubelet = "alive" /\ volume = "none" /\ volume' = "mounted"
    /\ excuses' = excuses \cup Meanwhile
    /\ UNCHANGED <<prepVars, service, init, status, kubelet, containerd, residue, job, todo, result,
                   starts, commands>>

Service ==
    \/ InitStarts \/ InitFails \/ InitPreCleans \/ ClusterUp \/ InitPersists \/ InitStops
    \/ InitEnds \/ InitKilled

Commands == ServiceStarts \/ ServiceStops \/ CleanCommand \/ ResetCommand \/ PrepareCommand

Preparation == (PrepareStep \/ (init # "prepare" /\ PrepareKilled)) /\ UNCHANGED hostVars

Init ==
    /\ PrepInit
    /\ service = "stopped" /\ init = "down" /\ status = "absent" /\ kubelet = "none"
    /\ containerd = "started" /\ residue = {} /\ volume = "none"
    /\ job = [a \in Actors |-> "none"] /\ todo = [a \in Actors |-> <<>>]
    /\ result = [a \in Actors |-> "none"]
    /\ excuses = {} /\ starts = 0 /\ commands = 0

Next ==
    \/ Preparation \/ Service \/ Commands \/ KubeletMounts
    \/ \E a \in Actors : JobStep(a)

Spec == Init /\ [][Next]_vars

----------------------------------------------------------------------------
\* No cleaning removes what a mounted volume holds, unless an unmount had failed (which
\* CleanAll only logs) or a cluster that came up, or its kubelet, mounted it meanwhile.
KeepsVolumes == volume = "emptied" => excuses \cap {"unmount", "up"} # {}

\* "iknite clean" with every option that reports success has removed the namespaces, the
\* links, the rules, the data of the API backend and the root configuration, however
\* they were left, unless the cluster came up while it ran.
SuccessIsThorough ==
    job["cmd"] = "cleanAll" /\ result["cmd"] = "nil" /\ "since" \notin excuses =>
        residue \cap {"netns", "links", "rules", "data", "rootConfig"} = {}

\* A preparation that succeeds leaves the whole host prepared, whatever earlier ones
\* that failed or were killed had left half done: with a network, "iknite status" finds
\* nothing to object to in the environment phase, and rc.conf has kept the lines of the
\* user.  The exceptions: a file that a kill tore exists, and no later call writes it
\* again; and a cleaning that resets the address can run at the same time.
PreparedHost ==
    [][PrepareReturns =>
        /\ cgroup = "on"
        /\ \A f \in Generated : files[f] = "whole" \/ (files[f] = "torn" /\ kills > 0)
        /\ kills = 0 => UserLines \subseteq rcLines
        /\ IF network = "no" THEN HasLine("network")
           ELSE "address" \in excuses \/ EnvironmentCheckPhase]_vars

\* An address that iknite has added can be found again: ResetIPAddress looks it up
\* through the mapping, so once a preparation has succeeded the mapping is there for as
\* long as the address is.  The preparation writes none when a name server already maps
\* the name: then the address stays for ever.
AddressIsFindable ==
    prepared = "nil" /\ address = "added" => hosts = "ours" \/ dns = "ours"

----------------------------------------------------------------------------
(* The inductive invariants: of the cleanings.                              *)

Jobs == {"cleanAll", "clean", "reset", "preclean", "daemonize"}
StepNames == {"service", "containers", "containerd", "unmount", "kubeletFiles", "netns", "links",
              "rules", "ip", "data", "config", "rootConfig", "kubelet"}

\* A list is left only by a job that runs.
JobInv ==
    /\ job \in [Actors -> Jobs \cup {"none"}] /\ todo \in [Actors -> Seq(StepNames)]
    /\ result \in [Actors -> {"none", "running", "nil", "error"}]
    /\ \A a \in Actors : todo[a] # <<>> => result[a] = "running"

Has(q, s) == \E i \in DOMAIN q : q[i] = s

\* Nothing below the volumes is removed before they are unmounted.
UnmountsFirst(q) ==
    \A i, j \in DOMAIN q : i <= j /\ q[i] \in {"kubeletFiles", "config"} => q[j] # "unmount"

Excused == excuses \cap {"unmount", "up"} # {}

\* Past the unmounting, a volume that is mounted has an excuse.
VolumeInv ==
    /\ \A a \in Actors : UnmountsFirst(todo[a])
    /\ \A a \in Actors : todo[a] # <<>> /\ ~Has(todo[a], "unmount") /\ volume # "none" => Excused
    /\ KeepsVolumes

Removable == {"netns", "links", "rules", "data", "rootConfig"}

\* What a cleaning has still to remove is among its steps.
ThoroughInv ==
    job["cmd"] = "cleanAll" /\ result["cmd"] \in {"running", "nil"} /\ "since" \notin excuses =>
        \A s \in residue \cap Removable : Has(todo["cmd"], s)

----------------------------------------------------------------------------
(* The inductive invariant of the preparation.                              *)

\* The steps from one of them on.
FromCrictl == {"crictl", "crictlWrite", "return"}
FromEnable == {"enable"} \cup FromCrictl
FromMapped == {"rcKubelet", "rcKubeletWrite"} \cup FromEnable
FromHosts == {"hosts"} \cup FromMapped
FromIp == {"ip", "rcNetwork", "rcNetworkWrite"} \cup FromHosts
FromMachineId == {"machineId", "machineIdWrite"} \cup FromIp
FromCgroup == {"cgroup"} \cup FromMachineId

\* The lines of rc.conf, or those that are about to be written back.
Lines == IF ppc \in {"rcNetworkWrite", "rcKubeletWrite"} THEN rcHeld ELSE rcLines

PrepFilesInv ==
    /\ files \in [Generated -> {"absent", "torn", "whole"}] /\ kills \in Nat
    /\ ppc \in FromIp => Exists("machineId")
    /\ ppc = "return" => Exists("crictl")
    /\ files["machineId"] = "torn" => kills > 0 \/ ppc = "machineIdWrite"
    /\ files["crictl"] = "torn" => kills > 0 \/ ppc = "crictlWrite"

PrepLinesInv ==
    /\ kills = 0 => UserLines \subseteq Lines
    /\ ppc \in FromHosts /\ network = "no" => "network" \in Lines
    /\ ppc \in FromEnable => "noKubelet" \in Lines

PrepHostInv ==
    /\ ppc \in FromCgroup => netfilter = "yes"
    /\ ppc \in FromMachineId => cgroup = "on"
    /\ ppc \in FromCrictl => enabled = "yes"

\* An address that a cleaning takes away meanwhile is the exception.
PrepAddressInv ==
    /\ network \in {"yes", "no"} /\ (ppc # "idle" => prepared = "none")
    /\ ppc \in {"rcNetwork", "rcNetworkWrite"} => network = "no"
    /\ ppc \in FromHosts /\ network = "yes" /\ "address" \notin excuses => CheckIpExists
    /\ ppc \in FromMapped /\ "address" \notin excuses => IsHostMapped
    /\ (ppc \in FromMapped \/ prepared = "nil") /\ address = "added" => hosts = "ours" \/ dns = "ours"

PrepInv == PrepFilesInv /\ PrepLinesInv /\ PrepHostInv /\ PrepAddressInv
=============================================================================
