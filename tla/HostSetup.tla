------------------------------- MODULE HostSetup -------------------------------
(***************************************************************************)
(* PrepareKubernetesEnvironment (pkg/k8s/runtime_environment.go), called   *)
(* by "iknite prepare", "iknite start", "iknite kubelet" and the           *)
(* prepare-host phase: one step per setting, each made only when it is     *)
(* missing, so that the preparation can be repeated.  A call can fail at a *)
(* step and can be killed anywhere.                                        *)
(*                                                                         *)
(* A file is written by truncating it first; a call that is killed or      *)
(* fails between the two leaves it torn, and a torn file exists.           *)
(***************************************************************************)
EXTENDS Integers

CONSTANTS
    CreateIp,     \* the option: iknite adds the address itself
    MaxKills      \* bound on the preparations that are killed

VARIABLES
    netfilter,  \* the bridge directory exists: "no" or "yes"
    cgroup,     \* subtree control: "off", "moved" (the processes were) or "on"
    files,      \* files[f]: "absent", "torn" or "whole", for the two generated files
    rcLines,    \* the lines of rc.conf: the user's and the two of iknite
    rcHeld,     \* the lines a writer of rc.conf has read
    enabled,    \* the iknite service is in the run level: "no" or "yes"
    address,    \* the address: "absent", "bound" (by somebody else) or "added"
    hosts,      \* what the hosts file maps the domain name to: "none", "other" or "ours"
    ppc,        \* where the preparation is; "idle" when none runs
    prepared,   \* what the last call returned: "none", "nil" or "error"
    network,    \* an outbound address was found by the last call that looked
    dns,        \* what the name server maps the domain name to: "none" or "ours"
    kills       \* how many preparations were killed

prepVars == <<netfilter, cgroup, files, rcLines, rcHeld, enabled, address, hosts, ppc, prepared, network, dns, kills>>

Generated == {"machineId", "crictl"}
UserLines == {"user"}

PrepInit ==
    /\ netfilter = "no" /\ cgroup = "off" /\ files = [f \in Generated |-> "absent"]
    /\ rcLines = UserLines /\ rcHeld = {} /\ enabled = "no"
    /\ address \in {"absent", "bound"} /\ hosts \in {"none", "other"}
    /\ dns \in {"none", "ours"} /\ (dns = "ours" => hosts = "none")
    /\ ppc = "idle" /\ prepared = "none" /\ network = "yes" /\ kills = 0

\* What the code asks of the host.  The resolver looks into the hosts file first.
HasLine(line) == line \in rcLines
Exists(f) == files[f] # "absent"
CheckIpExists == address # "absent"
IsHostMapped == hosts = "ours" \/ (hosts = "none" /\ dns = "ours")

Goto(p) == ppc' = p /\ UNCHANGED prepared
Fail == ppc' = "idle" /\ prepared' = "error"

----------------------------------------------------------------------------
Prepare ==
    /\ ppc = "idle" /\ ppc' = "netfilter" /\ prepared' = "none"
    /\ UNCHANGED <<netfilter, cgroup, files, rcLines, rcHeld, enabled, address, hosts, network, dns, kills>>

\* ip_forward, the bridge and rp_filter settings are written before and after this; a
\* failure to write them is only logged.  The module is loaded when it is missing.
EnsureNetFilter ==
    /\ ppc = "netfilter"
    /\ \/ netfilter' = "yes" /\ Goto("cgroup")
       \/ netfilter = "no" /\ Fail /\ UNCHANGED netfilter
    /\ UNCHANGED <<cgroup, files, rcLines, rcHeld, enabled, address, hosts, network, dns, kills>>

\* Deviation: a controller that cannot be enabled is only logged, as ip_forward is.
EnableCGroupSubtreeControl_Logged ==
    /\ ppc = "cgroup" /\ cgroup' \in {cgroup, "moved", "on"} /\ Goto("machineId")
    /\ UNCHANGED <<netfilter, files, rcLines, rcHeld, enabled, address, hosts, network, dns, kills>>

\* EnableCGroupSubtreeControl: nothing when it is enabled; otherwise a group is made,
\* the processes are moved and the controllers are enabled, and each of these can fail.
EnableCGroupSubtreeControl ==
    /\ ppc = "cgroup"
    /\ \/ cgroup' = "on" /\ Goto("machineId")
       \/ cgroup # "on" /\ cgroup' \in {cgroup, "moved"} /\ Fail
    /\ UNCHANGED <<netfilter, files, rcLines, rcHeld, enabled, address, hosts, network, dns, kills>>

\* ExecuteIfNotExist with WriteFile: a file that exists is left alone.
EnsureFile(f, here, there, next) ==
    /\ \/ ppc = here /\ Exists(f) /\ Goto(next) /\ UNCHANGED files
       \/ ppc = here /\ ~Exists(f) /\ files' = [files EXCEPT ![f] = "torn"] /\ Goto(there)
       \/ ppc = there /\ files' = [files EXCEPT ![f] = "whole"] /\ Goto(next)
       \/ ppc = here /\ Fail /\ UNCHANGED files
    /\ UNCHANGED <<netfilter, cgroup, rcLines, rcHeld, enabled, address, hosts, network, dns, kills>>

EnsureMachineID == EnsureFile("machineId", "machineId", "machineIdWrite", "ip")

AddIpAddress == address' = "added"

\* ensureIpConfiguration: without an outbound address the service is made to need
\* networking; otherwise the address is looked for, and added if that is allowed.
EnsureIpConfiguration ==
    /\ ppc = "ip"
    /\ \/ network' = "no" /\ UNCHANGED address
          /\ IF HasLine("network") THEN Goto("hosts") ELSE Goto("rcNetwork")
       \/ network' = "yes" /\ CheckIpExists /\ Goto("hosts") /\ UNCHANGED address
       \/ network' = "yes" /\ ~CheckIpExists /\ CreateIp /\ AddIpAddress /\ Goto("hosts")
       \/ network' \in {"yes", "no"} /\ Fail /\ UNCHANGED address
    /\ UNCHANGED <<netfilter, cgroup, files, rcLines, rcHeld, enabled, hosts, dns, kills>>

\* Mappings of the name to other addresses are removed when this one is added.
AddIpMapping == hosts' = "ours"

\* The domain name is mapped unless it resolves to the address already.
EnsureMapping ==
    /\ ppc = "hosts"
    /\ \/ IsHostMapped /\ Goto("rcKubelet") /\ UNCHANGED hosts
       \/ ~IsHostMapped /\ AddIpMapping /\ Goto("rcKubelet")
       \/ ~IsHostMapped /\ Fail /\ UNCHANGED hosts
    /\ UNCHANGED <<netfilter, cgroup, files, rcLines, rcHeld, enabled, address, network, dns, kills>>

\* EnsureConfigFileHasConfigurationLine: the lines are read, and the file is written
\* again with them and the new one.
EnsureLine(line, here, there, next) ==
    /\ \/ ppc = here /\ HasLine(line) /\ Goto(next) /\ UNCHANGED <<rcLines, rcHeld>>
       \/ ppc = here /\ ~HasLine(line) /\ rcHeld' = rcLines /\ rcLines' = {} /\ Goto(there)
       \/ ppc = there /\ rcLines' = rcHeld \cup {line} /\ rcHeld' = {} /\ Goto(next)
       \/ ppc = here /\ Fail /\ UNCHANGED <<rcLines, rcHeld>>
    /\ UNCHANGED <<netfilter, cgroup, files, enabled, address, hosts, network, dns, kills>>

NeedNetworking == EnsureLine("network", "rcNetwork", "rcNetworkWrite", "hosts")
PreventKubelet == EnsureLine("noKubelet", "rcKubelet", "rcKubeletWrite", "enable")

\* EnableService makes the link when there is none.
EnableIknite ==
    /\ ppc = "enable"
    /\ \/ enabled' = "yes" /\ Goto("crictl")
       \/ enabled = "no" /\ Fail /\ UNCHANGED enabled
    /\ UNCHANGED <<netfilter, cgroup, files, rcLines, rcHeld, address, hosts, network, dns, kills>>

EnsureCrictl == EnsureFile("crictl", "crictl", "crictlWrite", "return")

PrepareReturns ==
    /\ ppc = "return" /\ ppc' = "idle" /\ prepared' = "nil"
    /\ UNCHANGED <<netfilter, cgroup, files, rcLines, rcHeld, enabled, address, hosts, network, dns, kills>>

\* The process is killed; what it has written stays.
PrepareKilled ==
    /\ ppc # "idle" /\ kills < MaxKills
    /\ kills' = kills + 1 /\ ppc' = "idle" /\ prepared' = "none" /\ rcHeld' = {}
    /\ UNCHANGED <<netfilter, cgroup, files, rcLines, enabled, address, hosts, network, dns>>

PrepareStep ==
    \/ EnsureNetFilter \/ EnableCGroupSubtreeControl \/ EnsureMachineID
    \/ EnsureIpConfiguration \/ NeedNetworking \/ EnsureMapping \/ PreventKubelet
    \/ EnableIknite \/ EnsureCrictl \/ PrepareReturns

----------------------------------------------------------------------------
(* The environment phase of "iknite status" (pkg/checkers).  A file that is *)
(* checked without an expected content need only exist.                     *)

checkServiceIsNotRunnable == HasLine("noKubelet")
checkIpIsBound == CreateIp => CheckIpExists
checkDomainName == IsHostMapped

EnvironmentCheckPhase ==
    /\ netfilter = "yes" /\ enabled = "yes" /\ \A f \in Generated : Exists(f)
    /\ checkServiceIsNotRunnable /\ checkIpIsBound /\ checkDomainName

----------------------------------------------------------------------------
=============================================================================
