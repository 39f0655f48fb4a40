-------------------------------- MODULE Secrets --------------------------------
(***************************************************************************)
(* The encrypted secrets file of iknitectl (pkg/secrets): InitSecrets,     *)
(* which makes the SSH key pair, .sops.yaml and the file, and the commands *)
(* that set and remove a secret; and the installation of the signing key   *)
(* (pkg/cmd/iknitectl).  Each command reads files, works in memory and     *)
(* writes whole files; there is no lock, a write truncates the file first, *)
(* and a command can be killed between any two steps.                      *)
(***************************************************************************)
EXTENDS Integers, FiniteSets

CONSTANTS
    Processes,    \* the commands that can run at the same time
    Paths,        \* the paths of the secrets
    MaxCommands   \* bound on the commands that are started

VARIABLES
    priv, pub,   \* the private and the public key file
    sopsConf,    \* .sops.yaml: "absent", "torn" or "whole"
    signing,     \* the signing key file: "absent", "torn" or "whole"
    file,        \* the secrets file: its state, the key it is encrypted for, its paths
    cmd,         \* cmd[p]: "idle", or the command of p
    arg,         \* arg[p]: its path
    at,          \* at[p]: the step it is at
    mem,         \* mem[p]: what it has read: the key, and the paths of the file
    result,      \* result[p]: how the last command of p ended
    kept,        \* the paths whose last command to end successfully has set them
    damage,      \* what explains a loss: commands have overlapped, or one was killed
    keys, started

secretVars == <<priv, pub, sopsConf, signing, file, cmd, arg, at, mem, result, kept, damage, keys, started>>

KeyFile(st, k) == [st |-> st, key |-> k]
Store(st, k, d) == [st |-> st, key |-> k, data |-> d]
NoPath == "-"

SecretsInit ==
    /\ priv = KeyFile("absent", 0) /\ pub = KeyFile("absent", 0) /\ sopsConf = "absent"
    /\ signing = "absent" /\ file = Store("absent", 0, {})
    /\ cmd = [p \in Processes |-> "idle"] /\ arg = [p \in Processes |-> NoPath]
    /\ at = [p \in Processes |-> "start"]
    /\ mem = [p \in Processes |-> [key |-> 0, data |-> {}]]
    /\ result = [p \in Processes |-> "none"]
    /\ kept = {} /\ damage = {} /\ keys = 0 /\ started = 0

At(p, c, s) == cmd[p] \in c /\ at[p] = s
Goto(p, s) == at' = [at EXCEPT ![p] = s] /\ UNCHANGED <<cmd, result>>
End(p, r) ==
    /\ cmd' = [cmd EXCEPT ![p] = "idle"] /\ at' = [at EXCEPT ![p] = "start"]
    /\ result' = [result EXCEPT ![p] = r]

----------------------------------------------------------------------------
Start(p) ==
    /\ cmd[p] = "idle" /\ started < MaxCommands /\ started' = started + 1
    /\ \/ \E c \in {"init", "force", "install"} : cmd' = [cmd EXCEPT ![p] = c] /\ UNCHANGED arg
       \/ /\ \E c \in {"set", "remove"} : cmd' = [cmd EXCEPT ![p] = c]
          /\ \E x \in Paths : arg' = [arg EXCEPT ![p] = x]
    /\ damage' = damage \cup (IF \E q \in Processes \ {p} : cmd[q] # "idle" THEN {"overlap"} ELSE {})
    /\ result' = [result EXCEPT ![p] = "none"]
    /\ UNCHANGED <<priv, pub, sopsConf, file, at, mem, kept, keys, signing>>

\* checkSecretsFilesExists: without the option to force it, one file that exists ends
\* the initialisation, successfully and with a message.
CheckFiles(p) ==
    /\ At(p, {"init", "force"}, "start")
    /\ IF cmd[p] = "init" /\ (sopsConf # "absent" \/ file.st # "absent")
       THEN End(p, "kept") ELSE Goto(p, "keys")
    /\ UNCHANGED <<priv, pub, sopsConf, file, arg, mem, kept, damage, keys, started, signing>>

InMemory(p, k) == mem' = [mem EXCEPT ![p] = [key |-> k, data |-> {}]]

\* Deviation: a missing file of the pair makes a new one.
EnsureKeyPair_Either(p) ==
    /\ At(p, {"init", "force"}, "keys")
    /\ \/ /\ priv.st = "whole" /\ pub.st = "whole"
          /\ InMemory(p, pub.key) /\ Goto(p, "conf") /\ UNCHANGED <<priv, pub, keys>>
       \/ /\ priv.st # "absent" /\ pub.st = "absent" /\ keys' = keys + 1
          /\ InMemory(p, keys') /\ Goto(p, "public") /\ UNCHANGED <<priv, pub>>
       \/ /\ priv.st = "absent" /\ keys' = keys + 1
          /\ InMemory(p, keys') /\ priv' = KeyFile("torn", 0) /\ Goto(p, "private") /\ UNCHANGED pub
    /\ UNCHANGED <<sopsConf, file, arg, kept, damage, started, signing>>

\* ensureSSHKeyPair: an existing pair is used as it is, a missing public key is derived,
\* a public key alone is an error, and so is a key that cannot be parsed where it has to
\* be.  A private key that is made is written next.
EnsureKeyPair(p) ==
    /\ At(p, {"init", "force"}, "keys")
    /\ \/ /\ priv.st # "absent" /\ pub.st = "whole"
          /\ InMemory(p, pub.key) /\ Goto(p, "conf") /\ UNCHANGED <<priv, pub, keys>>
       \/ /\ priv.st = "whole" /\ pub.st = "absent"
          /\ InMemory(p, priv.key) /\ Goto(p, "public") /\ UNCHANGED <<priv, pub, keys>>
       \/ /\ priv.st = "absent" /\ pub.st = "absent" /\ keys' = keys + 1
          /\ InMemory(p, keys') /\ priv' = KeyFile("torn", 0) /\ Goto(p, "private") /\ UNCHANGED pub
       \/ End(p, "error") /\ UNCHANGED <<priv, pub, keys, mem>>
    /\ UNCHANGED <<sopsConf, file, arg, kept, damage, started, signing>>

WritePrivate(p) ==
    /\ At(p, {"init", "force"}, "private")
    /\ priv' = KeyFile("whole", mem[p].key) /\ Goto(p, "public")
    /\ UNCHANGED <<pub, sopsConf, file, arg, mem, kept, damage, keys, started, signing>>

WritePublic(p) ==
    /\ At(p, {"init", "force"}, "public")
    /\ \/ pub.st = "absent" /\ pub' = KeyFile("torn", 0) /\ UNCHANGED <<at, cmd, result>>
       \/ pub.st # "absent" /\ pub' = KeyFile("whole", mem[p].key) /\ Goto(p, "conf")
    /\ UNCHANGED <<priv, sopsConf, file, arg, mem, kept, damage, keys, started, signing>>

\* .sops.yaml, and then the secrets file with the contents of the template.
WriteSopsConf(p) ==
    /\ At(p, {"init", "force"}, "conf")
    /\ \/ sopsConf # "torn" /\ sopsConf' = "torn" /\ UNCHANGED <<file, at, cmd, result>>
       \/ sopsConf = "torn" /\ sopsConf' = "whole" /\ file' = Store("torn", 0, {}) /\ Goto(p, "write")
       \/ End(p, "error") /\ UNCHANGED <<sopsConf, file>>
    /\ UNCHANGED <<priv, pub, arg, mem, kept, damage, keys, started, signing>>

\* loadAndDecryptSecrets: the file must be whole, and the private key the one it is
\* encrypted for.  SetSecret and RemoveSecret change the tree in memory; removing what is
\* not there is an error.  The write truncates the file.
Load(p) ==
    /\ At(p, {"set", "remove"}, "start")
    /\ \/ /\ file.st = "whole" /\ priv.st = "whole" /\ priv.key = file.key
          /\ cmd[p] = "remove" => arg[p] \in file.data
          /\ mem' = [mem EXCEPT ![p] = [key |-> file.key, data |-> file.data]] /\ Goto(p, "open")
       \/ End(p, "error") /\ UNCHANGED mem
    /\ UNCHANGED <<priv, pub, sopsConf, file, arg, kept, damage, keys, started, signing>>

Truncate(p) ==
    /\ At(p, {"set", "remove"}, "open") /\ file' = Store("torn", 0, {}) /\ Goto(p, "write")
    /\ UNCHANGED <<priv, pub, sopsConf, arg, mem, kept, damage, keys, started, signing>>

\* Deviation: only the changed secret is written back.
Changed_Alone(p) == IF cmd[p] = "set" THEN {arg[p]} ELSE mem[p].data \ {arg[p]}

\* The paths the file is written with.
Changed(p) ==
    CASE cmd[p] = "set" -> mem[p].data \cup {arg[p]}
      [] cmd[p] = "remove" -> mem[p].data \ {arg[p]}
      [] OTHER -> {}

WriteFile(p) ==
    /\ at[p] = "write"
    /\ \/ /\ file' = Store("whole", mem[p].key, Changed(p)) /\ End(p, "nil")
          /\ kept' = (CASE cmd[p] = "set" -> kept \cup {arg[p]}
                        [] cmd[p] = "remove" -> kept \ {arg[p]} [] OTHER -> {})
          /\ UNCHANGED damage
       \/ End(p, "error") /\ damage' = damage \cup {"killed"} /\ UNCHANGED <<file, kept>>
    /\ UNCHANGED <<priv, pub, sopsConf, arg, mem, keys, started, signing>>

----------------------------------------------------------------------------
(* InstallSigningKey.                                                       *)

\* The file is decrypted and the key found in it.
ReadSigningKey(p) ==
    /\ At(p, {"install"}, "start")
    /\ \/ file.st = "whole" /\ priv.st = "whole" /\ priv.key = file.key /\ Goto(p, "create")
       \/ End(p, "error")
    /\ UNCHANGED <<priv, pub, sopsConf, file, arg, mem, kept, damage, keys, started, signing>>

\* The file is created with mode 0400: one that exists, whole or torn, cannot be
\* opened for writing again by the ordinary user who runs the command.
CreateSigningKey(p) ==
    /\ At(p, {"install"}, "create")
    /\ \/ signing = "absent" /\ signing' = "torn" /\ Goto(p, "fill")
       \/ End(p, "error") /\ UNCHANGED signing
    /\ UNCHANGED <<priv, pub, sopsConf, file, arg, mem, kept, damage, keys, started>>

\* The key is written, and the file looked at once more.
FillSigningKey(p) ==
    /\ At(p, {"install"}, "fill")
    /\ \/ signing' = "whole" /\ (End(p, "installed") \/ End(p, "error"))
       \/ UNCHANGED signing /\ End(p, "error")
    /\ UNCHANGED <<priv, pub, sopsConf, file, arg, mem, kept, damage, keys, started>>

\* Killed, or ended by an error that a step does not name: of a look at the files, or of
\* a file that cannot be opened or written.
Killed(p) ==
    /\ cmd[p] # "idle" /\ End(p, "killed")
    /\ damage' = damage \cup (IF at[p] = "write" THEN {"killed"} ELSE {})
    /\ UNCHANGED <<priv, pub, sopsConf, file, arg, mem, kept, keys, started, signing>>

SecretsNext ==
    \E p \in Processes :
        \/ Start(p) \/ CheckFiles(p) \/ EnsureKeyPair(p) \/ WritePrivate(p) \/ WritePublic(p)
        \/ WriteSopsConf(p) \/ Load(p) \/ Truncate(p) \/ WriteFile(p) \/ Killed(p)
        \/ ReadSigningKey(p) \/ CreateSigningKey(p) \/ FillSigningKey(p)

SecretsSpec == SecretsInit /\ [][SecretsNext]_secretVars

----------------------------------------------------------------------------
\* A secrets file that iknitectl has written can be decrypted with the key pair beside
\* it, after any failures and kills of earlier commands, as long as no two commands have
\* overlapped.
KeysMatch ==
    file.st = "whole" /\ "overlap" \notin damage =>
        priv = KeyFile("whole", file.key) /\ pub.key = priv.key

\* The secrets in the file are those that were set and not removed: a command that
\* fails changes nothing, and one that succeeds changes its own secret only.  The
\* exceptions are two commands that overlap, where the last write wins, and one that is
\* killed or fails while it writes, which loses the file.
SecretsAreKept == damage = {} /\ file.st = "whole" => file.data = kept

\* A signing key that a command has reported as installed stays whole, whatever other
\* commands do afterwards, two at a time or killed half-way.
InstalledStaysWhole == (\E p \in Processes : result[p] = "installed") => signing = "whole"

----------------------------------------------------------------------------
(* The inductive invariant.                                                 *)

States == {"absent", "torn", "whole"}
Steps == {"start", "keys", "private", "public", "conf", "open", "write", "create", "fill"}
Results == {"none", "kept", "error", "nil", "installed", "killed"}

SecretsTypeOK ==
    /\ priv \in [st : States, key : Nat] /\ pub \in [st : States, key : Nat]
    /\ file \in [st : States, key : Nat, data : SUBSET Paths]
    /\ cmd \in [Processes -> {"idle", "init", "force", "install", "set", "remove"}]
    /\ at \in [Processes -> Steps]
    /\ arg \in [Processes -> Paths \cup {NoPath}]
    /\ mem \in [Processes -> [key : Nat, data : SUBSET Paths]]
    /\ kept \in SUBSET Paths /\ keys \in Nat

Initialising == {"init", "force"}
Editing == {"set", "remove"}
WellPlaced(p) ==
    /\ cmd[p] = "idle" => at[p] = "start"
    /\ at[p] \in {"keys", "private", "public", "conf"} => cmd[p] \in Initialising
    /\ at[p] = "open" => cmd[p] \in Editing
    /\ at[p] = "write" => cmd[p] \in Initialising \cup Editing
    /\ cmd[p] \in Editing => arg[p] \in Paths

\* The public key is written after the private one, and is its half.
PairInv ==
    /\ pub.st # "absent" => priv.st = "whole"
    /\ pub.st = "whole" => pub.key = priv.key
    /\ priv.st = "whole" => priv.key > 0
    /\ pub.st # "whole" => pub.key = 0

\* What a command that runs alone has in memory.
MemoryInv(p) ==
    /\ at[p] \in {"private", "public"} => mem[p].key > 0 /\ file.st # "whole"
    /\ at[p] = "private" => pub.st = "absent"
    /\ at[p] = "public" => priv = KeyFile("whole", mem[p].key)
    /\ at[p] \in {"conf", "open", "write"} =>
          priv = KeyFile("whole", mem[p].key) /\ pub = KeyFile("whole", mem[p].key)

\* Without an overlap one command runs at a time.
SecretsInv ==
    /\ SecretsTypeOK /\ \A p \in Processes : WellPlaced(p)
    /\ "overlap" \notin damage =>
          /\ \A p, q \in Processes : cmd[p] # "idle" /\ cmd[q] # "idle" => p = q
          /\ PairInv /\ \A p \in Processes : MemoryInv(p)
    /\ KeysMatch

\* What a command that edits has read is what was kept.
KeptInv ==
    damage = {} => \A p \in Processes :
        cmd[p] \in Editing /\ at[p] \in {"open", "write"} => mem[p].data = kept

SigningInv == InstalledStaysWhole /\ result \in [Processes -> Results]
=============================================================================
