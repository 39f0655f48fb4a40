---------------------------- MODULE IknitectlProofs ----------------------------
(***************************************************************************)
(* Proofs about the files of iknitectl, for any number of commands, of     *)
(* processes that run them, of secrets, stages and resources.  SecretsInv  *)
(* says what a command has in memory at each of its steps as long as no    *)
(* two have overlapped, KeptInv what an edit has read, and RenderInv what  *)
(* a rendering has built and not yet written.                              *)
(***************************************************************************)
EXTENDS Iknitectl, TLAPS

USE DEF At, KeyFile, Store, States, Initialising, Editing

\* Nothing is there yet.
LEMMA SecretsInitInd == ASSUME SecretsInit PROVE SecretsInv
    BY DEF SecretsInit, SecretsInv, SecretsTypeOK, Steps, WellPlaced, PairInv, MemoryInv,
           KeysMatch, NoPath

----------------------------------------------------------------------------
(* Every action keeps SecretsInv.                                           *)

\* What the invariant says while commands have not overlapped.
LEMMA Quiet ==
    ASSUME SecretsInv, "overlap" \notin damage
    PROVE  /\ SecretsTypeOK /\ KeysMatch /\ PairInv
           /\ \A q \in Processes : WellPlaced(q) /\ MemoryInv(q)
           /\ \A q, r \in Processes : cmd[q] # "idle" /\ cmd[r] # "idle" => q = r
    BY DEF SecretsInv

\* It is enough to look at a state without an overlap.
LEMMA Assembled ==
    ASSUME SecretsTypeOK', \A q \in Processes : WellPlaced(q)',
           "overlap" \notin damage' =>
              /\ \A q, r \in Processes : cmd'[q] # "idle" /\ cmd'[r] # "idle" => q = r
              /\ KeysMatch' /\ PairInv' /\ \A q \in Processes : MemoryInv(q)'
    PROVE  SecretsInv'
    BY DEF SecretsInv, KeysMatch

\* Where a step leaves a command, and the others.
Others(p) ==
    /\ cmd' \in [Processes -> {"idle", "init", "force", "install", "set", "remove"}]
    /\ at' \in [Processes -> Steps]
    /\ \A q \in Processes : q # p => cmd'[q] = cmd[q] /\ at'[q] = at[q]
Moves(p, s) == Others(p) /\ cmd'[p] = cmd[p] /\ at'[p] = s
Ends(p) == Others(p) /\ cmd'[p] = "idle" /\ at'[p] = "start"

LEMMA MoveFacts ==
    ASSUME SecretsTypeOK, NEW p \in Processes
    PROVE  /\ \A s \in Steps : Goto(p, s) => Moves(p, s)
           /\ \A r : End(p, r) => Ends(p)
           /\ UNCHANGED <<at, cmd>> => Moves(p, at[p])
<1>1. ASSUME NEW s \in Steps, Goto(p, s)
      PROVE  Moves(p, s)
    BY <1>1 DEF SecretsTypeOK, Goto, Moves, Others
<1>2. ASSUME NEW r, End(p, r)
      PROVE  Ends(p)
    BY <1>2 DEF SecretsTypeOK, End, Ends, Others, Steps
<1>3. ASSUME UNCHANGED <<at, cmd>>
      PROVE  Moves(p, at[p])
    BY <1>3 DEF SecretsTypeOK, Moves, Others
<1>4. QED
    BY <1>1, <1>2, <1>3

\* A command starts; another one that runs is recorded as an overlap.
LEMMA StartInd ==
    ASSUME SecretsInv, NEW p \in Processes, Start(p)
    PROVE  SecretsInv'
<1>1. SecretsTypeOK'
    BY DEF SecretsInv, SecretsTypeOK, WellPlaced, Steps, Start
<1>2. \A q \in Processes : WellPlaced(q)'
    BY DEF SecretsInv, SecretsTypeOK, WellPlaced, Start
<1>3. ASSUME "overlap" \notin damage'
      PROVE  /\ \A q, r \in Processes : cmd'[q] # "idle" /\ cmd'[r] # "idle" => q = r
             /\ KeysMatch' /\ PairInv' /\ \A q \in Processes : MemoryInv(q)'
    <2>1. "overlap" \notin damage
        BY <1>3 DEF Start
    <2>2. \A q, r \in Processes : cmd'[q] # "idle" /\ cmd'[r] # "idle" => q = r
        BY <1>3, <2>1, Quiet DEF SecretsTypeOK, Start
    <2>3. PairInv'
        BY <2>1, Quiet DEF SecretsTypeOK, PairInv, MemoryInv, Start
    <2>4. \A q \in Processes : MemoryInv(q)'
        BY <1>2, <2>1, <2>2, Quiet DEF SecretsTypeOK, WellPlaced, PairInv, MemoryInv,
                                       KeysMatch, Start
    <2>5. KeysMatch'
        BY <2>1, Quiet DEF SecretsTypeOK, WellPlaced, MemoryInv, KeysMatch, Start
    <2>6. QED
        BY <2>2, <2>3, <2>4, <2>5
<1>4. QED
    BY <1>1, <1>2, <1>3, Assembled

\* A step of a command: the others are where they were.
LEMMA StepInd ==
    ASSUME SecretsInv, NEW p \in Processes, cmd[p] # "idle", Others(p), arg' = arg,
           "overlap" \in damage => "overlap" \in damage',
           priv' \in [st : States, key : Nat], pub' \in [st : States, key : Nat],
           file' \in [st : States, key : Nat, data : SUBSET Paths],
           mem' \in [Processes -> [key : Nat, data : SUBSET Paths]],
           kept' \in SUBSET Paths, keys' \in Nat,
           WellPlaced(p)',
           "overlap" \notin damage => KeysMatch' /\ PairInv' /\ MemoryInv(p)'
    PROVE  SecretsInv'
<1>1. SecretsTypeOK'
    BY DEF SecretsInv, SecretsTypeOK, Others
<1>2. \A q \in Processes : WellPlaced(q)'
    BY DEF SecretsInv, WellPlaced, Others
<1>3. ASSUME "overlap" \notin damage'
      PROVE  /\ \A q, r \in Processes : cmd'[q] # "idle" /\ cmd'[r] # "idle" => q = r
             /\ KeysMatch' /\ PairInv' /\ \A q \in Processes : MemoryInv(q)'
    <2>1. \A q \in Processes : q # p => cmd'[q] = "idle" /\ at'[q] = "start"
        BY <1>3, Quiet DEF WellPlaced, Others
    <2>2. \A q \in Processes : q # p => MemoryInv(q)'
        BY <2>1 DEF MemoryInv
    <2>3. QED
        BY <1>3, <2>1, <2>2
<1>4. QED
    BY <1>1, <1>2, <1>3, Assembled

\* The ways a step leads away from where something is said of the memory.
Leaves(p) ==
    \/ Ends(p)
    \/ cmd[p] \in Initialising /\ Moves(p, "keys")
    \/ Moves(p, "create")
    \/ Moves(p, "fill")

\* A step that ends a command, or leads on where nothing is said of its memory, and
\* leaves the pair and the secrets file.
LEMMA EndInd ==
    ASSUME SecretsInv, NEW p \in Processes, cmd[p] # "idle", arg' = arg,
           damage \subseteq damage', priv' = priv, pub' = pub, file' = file, mem' = mem,
           kept' = kept, keys' = keys, Leaves(p)
    PROVE  SecretsInv'
<1>1. Others(p)
    BY DEF Leaves, Ends, Moves
<1>2. at'[p] \in {"start", "keys", "create", "fill"}
    BY DEF Leaves, Ends, Moves
<1>3. WellPlaced(p)'
    BY DEF SecretsInv, WellPlaced, Leaves, Ends, Moves
<1>4. MemoryInv(p)'
    BY <1>2 DEF MemoryInv
<1>5. "overlap" \notin damage => KeysMatch' /\ PairInv'
    BY Quiet DEF KeysMatch, PairInv
<1>6. QED
    BY <1>1, <1>3, <1>4, <1>5, StepInd DEF SecretsInv, SecretsTypeOK

\* A command has looked at the files and goes on, or ends.
LEMMA ReadingInd ==
    ASSUME SecretsInv, NEW p \in Processes, CheckFiles(p) \/ ReadSigningKey(p)
    PROVE  SecretsInv'
<1>1. SecretsTypeOK /\ WellPlaced(p)
    BY DEF SecretsInv
<1>2. /\ cmd[p] # "idle" /\ (cmd[p] \in Initialising \/ cmd[p] = "install")
      /\ UNCHANGED <<priv, pub, file, arg, mem, kept, damage, keys>>
    BY DEF CheckFiles, ReadSigningKey
<1>3. \/ \E r : End(p, r)
      \/ Goto(p, "keys") /\ cmd[p] \in Initialising
      \/ Goto(p, "create")
    BY DEF CheckFiles, ReadSigningKey
<1>4. "keys" \in Steps /\ "create" \in Steps /\ "fill" \in Steps
    BY DEF Steps
<1>5. Leaves(p)
    BY <1>1, <1>3, <1>4, MoveFacts DEF Leaves
<1>6. QED
    BY <1>2, <1>5, EndInd

\* The key pair is read, completed or made.
LEMMA EnsureKeyPairInd ==
    ASSUME SecretsInv, NEW p \in Processes, EnsureKeyPair(p)
    PROVE  SecretsInv'
<1>1. SecretsTypeOK /\ WellPlaced(p)
    BY DEF SecretsInv
<1>2. /\ cmd[p] \in Initialising /\ at[p] = "keys"
      /\ UNCHANGED <<pub, file, arg, kept, damage>>
    BY DEF EnsureKeyPair
<1>3. CASE End(p, "error") /\ UNCHANGED <<priv, pub, keys, mem>>
    <2>1. Leaves(p)
        BY <1>1, <1>3, MoveFacts DEF Leaves
    <2>2. QED
        BY <1>2, <1>3, <2>1, EndInd
<1>4. ASSUME NEW k \in Nat, NEW s \in {"conf", "public", "private"}, Goto(p, s), InMemory(p, k),
             priv' \in [st : States, key : Nat], keys' \in Nat,
             "overlap" \notin damage => KeysMatch' /\ PairInv' /\ MemoryInv(p)'
      PROVE  SecretsInv'
    <2>1. Moves(p, s)
        BY <1>1, <1>4, MoveFacts DEF Steps
    <2>2. mem' \in [Processes -> [key : Nat, data : SUBSET Paths]]
        BY <1>1, <1>4 DEF SecretsTypeOK, InMemory
    <2>3. WellPlaced(p)'
        BY <1>2, <2>1 DEF WellPlaced, Moves
    <2>4. Others(p)
        BY <2>1 DEF Moves
    <2>5. pub' \in [st : States, key : Nat] /\ kept' \in SUBSET Paths
        BY <1>1, <1>2 DEF SecretsTypeOK
    <2>6. file' \in [st : States, key : Nat, data : SUBSET Paths]
        BY <1>1, <1>2 DEF SecretsTypeOK
    <2>7. QED
        BY <1>2, <1>4, <2>2, <2>3, <2>4, <2>5, <2>6, StepInd
<1>5. ASSUME NEW k \in Nat, NEW s \in Steps, Goto(p, s), InMemory(p, k)
      PROVE  at'[p] = s /\ mem'[p].key = k
    BY <1>1, <1>5, MoveFacts DEF Moves, InMemory, SecretsTypeOK
<1>6. CASE /\ priv.st # "absent" /\ pub.st = "whole"
           /\ InMemory(p, pub.key) /\ Goto(p, "conf") /\ UNCHANGED <<priv, pub, keys>>
    <2>1. pub.key \in Nat /\ priv \in [st : States, key : Nat] /\ pub \in [st : States, key : Nat]
          /\ keys \in Nat
        BY <1>1 DEF SecretsTypeOK
    <2>2. at'[p] = "conf" /\ mem'[p].key = pub.key
        BY <1>5, <1>6, <2>1 DEF Steps
    <2>3. "overlap" \notin damage => KeysMatch' /\ PairInv'
        BY <1>2, <1>6, Quiet DEF KeysMatch, PairInv
    <2>4. "overlap" \notin damage => MemoryInv(p)'
        BY <1>2, <1>6, <2>1, <2>2, Quiet DEF PairInv, MemoryInv
    <2>5. QED
        BY <1>4, <1>6, <2>1, <2>3, <2>4
<1>7. CASE /\ priv.st = "whole" /\ pub.st = "absent"
           /\ InMemory(p, priv.key) /\ Goto(p, "public") /\ UNCHANGED <<priv, pub, keys>>
    <2>1. priv.key \in Nat /\ priv \in [st : States, key : Nat] /\ keys \in Nat
        BY <1>1 DEF SecretsTypeOK
    <2>2. at'[p] = "public" /\ mem'[p].key = priv.key
        BY <1>5, <1>7, <2>1 DEF Steps
    <2>3. "overlap" \notin damage => KeysMatch' /\ PairInv'
        BY <1>2, <1>7, Quiet DEF KeysMatch, PairInv
    <2>4. "overlap" \notin damage => file.st # "whole"
        BY <1>7, Quiet DEF PairInv, KeysMatch
    <2>5. "overlap" \notin damage => MemoryInv(p)'
        BY <1>2, <1>7, <2>1, <2>2, <2>4, Quiet DEF PairInv, MemoryInv
    <2>6. QED
        BY <1>4, <1>7, <2>1, <2>3, <2>5
<1>8. CASE /\ priv.st = "absent" /\ pub.st = "absent" /\ keys' = keys + 1 /\ InMemory(p, keys')
           /\ priv' = KeyFile("torn", 0) /\ Goto(p, "private") /\ UNCHANGED pub
    <2>1. keys' \in Nat /\ keys' > 0 /\ priv' \in [st : States, key : Nat]
        BY <1>1, <1>8 DEF SecretsTypeOK
    <2>2. at'[p] = "private" /\ mem'[p].key = keys'
        BY <1>5, <1>8, <2>1 DEF Steps
    <2>3. "overlap" \notin damage => file.st # "whole"
        BY <1>8, Quiet DEF KeysMatch
    <2>4. "overlap" \notin damage => KeysMatch' /\ PairInv'
        BY <1>2, <1>8, <2>3, Quiet DEF KeysMatch, PairInv
    <2>5. "overlap" \notin damage => MemoryInv(p)'
        BY <1>2, <1>8, <2>1, <2>2, <2>3 DEF MemoryInv
    <2>6. QED
        BY <1>4, <1>8, <2>1, <2>4, <2>5
<1>9. QED
    BY <1>3, <1>6, <1>7, <1>8 DEF EnsureKeyPair

\* The private key is written.
LEMMA WritePrivateInd ==
    ASSUME SecretsInv, NEW p \in Processes, WritePrivate(p)
    PROVE  SecretsInv'
<1>1. SecretsTypeOK /\ WellPlaced(p)
    BY DEF SecretsInv
<1>2. /\ cmd[p] \in Initialising /\ at[p] = "private" /\ priv' = KeyFile("whole", mem[p].key)
      /\ Goto(p, "public") /\ UNCHANGED <<pub, file, arg, mem, kept, damage, keys>>
    BY DEF WritePrivate
<1>3. Moves(p, "public")
    BY <1>1, <1>2, MoveFacts DEF Steps
<1>4. Others(p) /\ WellPlaced(p)' /\ at'[p] = "public"
    BY <1>2, <1>3 DEF Moves, WellPlaced
<1>5. mem[p].key \in Nat /\ priv' \in [st : States, key : Nat]
    BY <1>1, <1>2 DEF SecretsTypeOK
<1>6. "overlap" \notin damage => mem[p].key > 0 /\ file.st # "whole" /\ pub.st = "absent"
    BY <1>2, Quiet DEF MemoryInv
<1>7. "overlap" \notin damage => KeysMatch' /\ PairInv' /\ MemoryInv(p)'
    BY <1>2, <1>4, <1>5, <1>6, Quiet DEF KeysMatch, PairInv, MemoryInv
<1>8. QED
    BY <1>1, <1>2, <1>4, <1>5, <1>7, StepInd DEF SecretsTypeOK

\* The public key is written beside its private one.
LEMMA WritePublicInd ==
    ASSUME SecretsInv, NEW p \in Processes, WritePublic(p)
    PROVE  SecretsInv'
<1>1. SecretsTypeOK /\ WellPlaced(p)
    BY DEF SecretsInv
<1>2. /\ cmd[p] \in Initialising /\ at[p] = "public"
      /\ UNCHANGED <<priv, file, arg, mem, kept, damage, keys>>
    BY DEF WritePublic
<1>3. \/ pub' = KeyFile("torn", 0) /\ Moves(p, "public") /\ pub.st = "absent"
      \/ pub' = KeyFile("whole", mem[p].key) /\ Moves(p, "conf")
    <2>1. \/ pub' = KeyFile("torn", 0) /\ UNCHANGED <<at, cmd>> /\ pub.st = "absent"
          \/ pub' = KeyFile("whole", mem[p].key) /\ Goto(p, "conf")
        BY DEF WritePublic
    <2>2. QED
        BY <1>1, <1>2, <2>1, MoveFacts DEF Steps
<1>4. Others(p) /\ WellPlaced(p)' /\ at'[p] \in {"public", "conf"}
    BY <1>2, <1>3 DEF Moves, WellPlaced
<1>5. mem[p].key \in Nat /\ pub' \in [st : States, key : Nat]
    BY <1>1, <1>3 DEF SecretsTypeOK
<1>6. "overlap" \notin damage =>
          mem[p].key > 0 /\ file.st # "whole" /\ priv = KeyFile("whole", mem[p].key)
    BY <1>2, Quiet DEF MemoryInv
<1>7. "overlap" \notin damage => KeysMatch' /\ PairInv'
    <2>1. pub' = KeyFile("torn", 0) \/ pub' = KeyFile("whole", mem[p].key)
        BY <1>3
    <2>2. "overlap" \notin damage => KeysMatch'
        BY <1>2, <1>6 DEF KeysMatch
    <2>3. "overlap" \notin damage => PairInv'
        BY <1>2, <1>5, <1>6, <2>1 DEF PairInv
    <2>4. QED
        BY <2>2, <2>3
<1>8. "overlap" \notin damage => MemoryInv(p)'
    BY <1>2, <1>3, <1>5, <1>6 DEF MemoryInv, Moves
<1>9. QED
    BY <1>1, <1>2, <1>4, <1>5, <1>7, <1>8, StepInd DEF SecretsTypeOK

\* .sops.yaml is written and the secrets file truncated.
LEMMA WriteSopsConfInd ==
    ASSUME SecretsInv, NEW p \in Processes, WriteSopsConf(p)
    PROVE  SecretsInv'
<1>1. SecretsTypeOK /\ WellPlaced(p)
    BY DEF SecretsInv
<1>2. /\ cmd[p] \in Initialising /\ at[p] = "conf"
      /\ UNCHANGED <<priv, pub, arg, mem, kept, damage, keys>>
    BY DEF WriteSopsConf
<1>3. CASE End(p, "error") /\ UNCHANGED file
    <2>1. Leaves(p)
        BY <1>1, <1>3, MoveFacts DEF Leaves
    <2>2. QED
        BY <1>2, <1>3, <2>1, EndInd
<1>4. CASE \/ UNCHANGED <<file, at, cmd>>
           \/ file' = Store("torn", 0, {}) /\ Goto(p, "write")
    <2>1. \/ file' = file /\ Moves(p, "conf")
          \/ file' = Store("torn", 0, {}) /\ Moves(p, "write")
        BY <1>1, <1>2, <1>4, MoveFacts DEF Steps
    <2>2. Others(p) /\ WellPlaced(p)' /\ at'[p] \in {"conf", "write"}
        BY <1>2, <2>1 DEF Moves, WellPlaced
    <2>3. file' \in [st : States, key : Nat, data : SUBSET Paths]
        <3>1. file' = file \/ file' = Store("torn", 0, {})
            BY <1>4
        <3>2. Store("torn", 0, {}) \in [st : States, key : Nat, data : SUBSET Paths]
            OBVIOUS
        <3>3. file \in [st : States, key : Nat, data : SUBSET Paths]
            BY <1>1 DEF SecretsTypeOK
        <3>4. QED
            BY <3>1, <3>2, <3>3
    <2>4. file' = file \/ file'.st = "torn"
        BY <1>4
    <2>5. "overlap" \notin damage => KeysMatch' /\ PairInv'
        BY <1>2, <2>4, Quiet DEF KeysMatch, PairInv
    <2>6. "overlap" \notin damage => MemoryInv(p)'
        BY <1>2, <2>2, Quiet DEF MemoryInv
    <2>7. QED
        BY <1>1, <1>2, <2>2, <2>3, <2>5, <2>6, StepInd DEF SecretsTypeOK
<1>5. QED
    BY <1>3, <1>4 DEF WriteSopsConf

\* The secrets file is read and decrypted.
LEMMA LoadInd ==
    ASSUME SecretsInv, NEW p \in Processes, Load(p)
    PROVE  SecretsInv'
<1>1. SecretsTypeOK /\ WellPlaced(p)
    BY DEF SecretsInv
<1>2. /\ cmd[p] \in Editing /\ at[p] = "start"
      /\ UNCHANGED <<priv, pub, file, arg, kept, damage, keys>>
    BY DEF Load
<1>3. CASE End(p, "error") /\ UNCHANGED mem
    <2>1. Leaves(p)
        BY <1>1, <1>3, MoveFacts DEF Leaves
    <2>2. QED
        BY <1>2, <1>3, <2>1, EndInd
<1>4. CASE /\ file.st = "whole" /\ Goto(p, "open")
           /\ mem' = [mem EXCEPT ![p] = [key |-> file.key, data |-> file.data]]
    <2>1. Moves(p, "open")
        BY <1>1, <1>4, MoveFacts DEF Steps
    <2>2. Others(p) /\ WellPlaced(p)' /\ at'[p] = "open"
        BY <1>1, <1>2, <2>1 DEF Moves, WellPlaced
    <2>3. file.key \in Nat /\ file.data \in SUBSET Paths
        BY <1>1 DEF SecretsTypeOK
    <2>4. mem' \in [Processes -> [key : Nat, data : SUBSET Paths]] /\ mem'[p].key = file.key
        BY <1>1, <1>4, <2>3 DEF SecretsTypeOK
    <2>5. "overlap" \notin damage => KeysMatch' /\ PairInv'
        BY <1>2, Quiet DEF KeysMatch, PairInv
    <2>6. "overlap" \notin damage =>
              priv = KeyFile("whole", file.key) /\ pub.key = file.key /\ file.key > 0
        BY <1>4, Quiet DEF KeysMatch, PairInv
    <2>7. "overlap" \notin damage => pub = KeyFile("whole", file.key)
        BY <1>1, <2>3, <2>6, Quiet DEF PairInv, SecretsTypeOK
    <2>8. "overlap" \notin damage => MemoryInv(p)'
        BY <1>2, <2>2, <2>4, <2>6, <2>7 DEF MemoryInv
    <2>9. QED
        BY <1>1, <1>2, <2>2, <2>4, <2>5, <2>8, StepInd DEF SecretsTypeOK
<1>5. QED
    BY <1>3, <1>4 DEF Load

\* The secrets file is truncated, to be written back.
LEMMA TruncateInd ==
    ASSUME SecretsInv, NEW p \in Processes, Truncate(p)
    PROVE  SecretsInv'
<1>1. SecretsTypeOK /\ WellPlaced(p)
    BY DEF SecretsInv
<1>2. /\ cmd[p] \in Editing /\ at[p] = "open" /\ file' = Store("torn", 0, {}) /\ Goto(p, "write")
      /\ UNCHANGED <<priv, pub, arg, mem, kept, damage, keys>>
    BY DEF Truncate
<1>3. Moves(p, "write")
    BY <1>1, <1>2, MoveFacts DEF Steps
<1>4. Others(p) /\ WellPlaced(p)' /\ at'[p] = "write"
    BY <1>1, <1>2, <1>3 DEF Moves, WellPlaced
<1>5. file' \in [st : States, key : Nat, data : SUBSET Paths] /\ file'.st = "torn"
    BY <1>2
<1>6. "overlap" \notin damage => KeysMatch' /\ PairInv'
    BY <1>2, <1>5, Quiet DEF KeysMatch, PairInv
<1>7. "overlap" \notin damage => MemoryInv(p)'
    BY <1>2, <1>4, Quiet DEF MemoryInv
<1>8. QED
    BY <1>1, <1>2, <1>4, <1>5, <1>6, <1>7, StepInd DEF SecretsTypeOK

\* The secrets file is written, encrypted for the key in memory.
LEMMA WriteFileInd ==
    ASSUME SecretsInv, NEW p \in Processes, WriteFile(p)
    PROVE  SecretsInv'
<1>1. SecretsTypeOK /\ WellPlaced(p)
    BY DEF SecretsInv
<1>2. /\ at[p] = "write" /\ cmd[p] # "idle" /\ (\E r : End(p, r))
      /\ UNCHANGED <<priv, pub, arg, mem, keys>> /\ damage \subseteq damage'
    BY <1>1 DEF WriteFile, WellPlaced
<1>3. Ends(p) /\ Others(p) /\ WellPlaced(p)' /\ at'[p] = "start"
    BY <1>1, <1>2, MoveFacts DEF Ends, WellPlaced
<1>4. /\ mem[p].key \in Nat /\ mem[p].data \in SUBSET Paths
      /\ cmd[p] \in Editing => arg[p] \in Paths
    BY <1>1 DEF SecretsTypeOK, WellPlaced
<1>5. Changed(p) \in SUBSET Paths
    BY <1>4 DEF Changed
<1>6. file' = file \/ file' = [st |-> "whole", key |-> mem[p].key, data |-> Changed(p)]
    BY DEF WriteFile
<1>7. file' \in [st : States, key : Nat, data : SUBSET Paths]
    BY <1>1, <1>4, <1>5, <1>6 DEF SecretsTypeOK
<1>8. kept' = kept \/ kept' = {} \/ kept' = kept \ {arg[p]}
        \/ (cmd[p] = "set" /\ kept' = kept \cup {arg[p]})
    BY DEF WriteFile
<1>9. kept' \in SUBSET Paths
    BY <1>1, <1>4, <1>8 DEF SecretsTypeOK
<1>10. "overlap" \notin damage =>
           priv = KeyFile("whole", mem[p].key) /\ pub = KeyFile("whole", mem[p].key)
    BY <1>2, Quiet DEF MemoryInv
<1>11. "overlap" \notin damage => KeysMatch'
    <2>1. CASE file' = file
        BY <1>2, <2>1, Quiet DEF KeysMatch
    <2>2. CASE file' = [st |-> "whole", key |-> mem[p].key, data |-> Changed(p)]
        BY <1>2, <1>10, <2>2 DEF KeysMatch
    <2>3. QED
        BY <1>6, <2>1, <2>2
<1>12. "overlap" \notin damage => PairInv'
    BY <1>2, Quiet DEF PairInv
<1>13. MemoryInv(p)'
    BY <1>3 DEF MemoryInv
<1>14. QED
    BY <1>1, <1>2, <1>3, <1>7, <1>9, <1>11, <1>12, <1>13, StepInd DEF SecretsTypeOK

\* The signing key is no part of the pair.
LEMMA SigningKeyInd ==
    ASSUME SecretsInv, NEW p \in Processes, CreateSigningKey(p) \/ FillSigningKey(p)
    PROVE  SecretsInv'
<1>1. SecretsTypeOK /\ WellPlaced(p)
    BY DEF SecretsInv
<1>2. /\ cmd[p] = "install" /\ UNCHANGED <<priv, pub, file, arg, mem, kept, damage, keys>>
    BY DEF CreateSigningKey, FillSigningKey
<1>3. (\E r : End(p, r)) \/ Goto(p, "fill")
    BY DEF CreateSigningKey, FillSigningKey
<1>4. "keys" \in Steps /\ "create" \in Steps /\ "fill" \in Steps
    BY DEF Steps
<1>5. Leaves(p)
    BY <1>1, <1>3, <1>4, MoveFacts DEF Leaves
<1>6. QED
    BY <1>2, <1>5, EndInd

\* A command is killed at any step.
LEMMA KilledInd ==
    ASSUME SecretsInv, NEW p \in Processes, Killed(p)
    PROVE  SecretsInv'
<1>1. SecretsTypeOK /\ WellPlaced(p)
    BY DEF SecretsInv
<1>2. /\ cmd[p] # "idle" /\ End(p, "killed") /\ damage \subseteq damage'
      /\ UNCHANGED <<priv, pub, file, arg, mem, kept, keys>>
    BY DEF Killed
<1>3. Leaves(p)
    BY <1>1, <1>2, MoveFacts DEF Leaves
<1>4. QED
    BY <1>2, <1>3, EndInd

\* A step that changes no variable keeps the invariant.
LEMMA SecretsStutterInd == ASSUME SecretsInv, UNCHANGED secretVars PROVE SecretsInv'
    BY DEF SecretsInv, SecretsTypeOK, WellPlaced, PairInv, MemoryInv, KeysMatch, secretVars

\* The secrets commands of iknitectl (pkg/secrets) keep what they rely on: the key pair
\* belongs together, and a command that runs alone has read the key that is on disk.
THEOREM SecretsInvariance == SecretsSpec => []SecretsInv
<1>1. SecretsInit => SecretsInv
    BY SecretsInitInd
<1>2. SecretsInv /\ [SecretsNext]_secretVars => SecretsInv'
    <2>1. SUFFICES ASSUME SecretsInv, SecretsNext PROVE SecretsInv'
        BY SecretsStutterInd
    <2>2. PICK p \in Processes :
            \/ Start(p) \/ CheckFiles(p) \/ EnsureKeyPair(p) \/ WritePrivate(p) \/ WritePublic(p)
            \/ WriteSopsConf(p) \/ Load(p) \/ Truncate(p) \/ WriteFile(p) \/ Killed(p)
            \/ ReadSigningKey(p) \/ CreateSigningKey(p) \/ FillSigningKey(p)
        BY <2>1 DEF SecretsNext
    <2>3. QED
        BY <2>1, <2>2, StartInd, ReadingInd, EnsureKeyPairInd, WritePrivateInd, WritePublicInd,
           WriteSopsConfInd, LoadInd, TruncateInd, WriteFileInd, SigningKeyInd, KilledInd
<1>3. QED
    BY <1>1, <1>2, PTL DEF SecretsSpec

\* A secrets file that was written can be decrypted with the key pair beside it, after
\* any failures and kills, unless two commands have overlapped (init.go, secrets.go).
THEOREM SecretsDecrypt == SecretsSpec => []KeysMatch
<1>1. SecretsInv => KeysMatch
    BY DEF SecretsInv
<1>2. QED
    BY <1>1, SecretsInvariance, PTL

----------------------------------------------------------------------------
(* The contents of the file.                                                *)

\* A step keeps the agreement between the file, what was read and what was set.
LEMMA KeptInd ==
    ASSUME SecretsInv, SecretsAreKept, KeptInv, [SecretsNext]_secretVars
    PROVE  SecretsAreKept' /\ KeptInv'
<1>1. CASE UNCHANGED secretVars
    BY <1>1 DEF SecretsAreKept, KeptInv, secretVars
<1>2. ASSUME damage' # {}
      PROVE  SecretsAreKept' /\ KeptInv'
    BY <1>2 DEF SecretsAreKept, KeptInv
<1>3. ASSUME damage' = {}, NEW p \in Processes,
             Start(p) \/ CheckFiles(p) \/ EnsureKeyPair(p) \/ WritePrivate(p) \/ WritePublic(p)
             \/ ReadSigningKey(p) \/ CreateSigningKey(p) \/ FillSigningKey(p) \/ Killed(p)
      PROVE  SecretsAreKept' /\ KeptInv'
    <2>1. SecretsTypeOK /\ WellPlaced(p)
        BY DEF SecretsInv
    <2>2. damage = {} /\ UNCHANGED <<file, kept>>
        BY <1>3 DEF Start, CheckFiles, EnsureKeyPair, WritePrivate, WritePublic, ReadSigningKey,
                    CreateSigningKey, FillSigningKey, Killed
    <2>3. \A q \in Processes \ {p} : cmd[q] = cmd'[q] /\ at[q] = at'[q] /\ mem'[q] = mem[q]
        <3>1. CASE Start(p)
            BY <2>1, <3>1 DEF Start, SecretsTypeOK
        <3>2. CASE EnsureKeyPair(p)
            BY <2>1, <3>2 DEF EnsureKeyPair, InMemory, SecretsTypeOK, Goto, End
        <3>3. CASE CheckFiles(p) \/ WritePrivate(p) \/ WritePublic(p)
            BY <2>1, <3>3 DEF CheckFiles, WritePrivate, WritePublic, SecretsTypeOK, Goto, End
        <3>4. CASE ReadSigningKey(p) \/ CreateSigningKey(p) \/ FillSigningKey(p) \/ Killed(p)
            BY <2>1, <3>4 DEF ReadSigningKey, CreateSigningKey, FillSigningKey, Killed,
                              SecretsTypeOK, Goto, End
        <3>5. QED
            BY <1>3, <3>1, <3>2, <3>3, <3>4
    <2>4. ~ (cmd'[p] \in Editing /\ at'[p] \in {"open", "write"})
        <3>1. CASE Start(p)
            BY <2>1, <3>1 DEF Start, SecretsTypeOK, WellPlaced
        <3>2. CASE EnsureKeyPair(p)
            BY <2>1, <3>2 DEF EnsureKeyPair, SecretsTypeOK, Goto, End
        <3>3. CASE CheckFiles(p) \/ WritePrivate(p) \/ WritePublic(p)
            BY <2>1, <3>3 DEF CheckFiles, WritePrivate, WritePublic, SecretsTypeOK, Goto, End
        <3>4. CASE ReadSigningKey(p) \/ CreateSigningKey(p) \/ FillSigningKey(p) \/ Killed(p)
            BY <2>1, <3>4 DEF ReadSigningKey, CreateSigningKey, FillSigningKey, Killed,
                              SecretsTypeOK, Goto, End
        <3>5. QED
            BY <1>3, <3>1, <3>2, <3>3, <3>4
    <2>5. QED
        BY <2>2, <2>3, <2>4 DEF SecretsAreKept, KeptInv
<1>4. ASSUME damage' = {}, NEW p \in Processes, WriteSopsConf(p) \/ Truncate(p) \/ Load(p)
      PROVE  SecretsAreKept' /\ KeptInv'
    <2>1. SecretsTypeOK /\ WellPlaced(p)
        BY DEF SecretsInv
    <2>2. damage = {} /\ UNCHANGED kept
        BY <1>4 DEF WriteSopsConf, Truncate, Load
    <2>3. SecretsAreKept'
        <3>1. file' = file \/ file' = Store("torn", 0, {})
            BY <1>4 DEF WriteSopsConf, Truncate, Load
        <3>2. QED
            BY <2>2, <3>1 DEF SecretsAreKept
    <2>4. \A q \in Processes \ {p} : cmd[q] = cmd'[q] /\ at[q] = at'[q] /\ mem'[q] = mem[q]
        <3>1. CASE WriteSopsConf(p) \/ Truncate(p)
            BY <2>1, <3>1 DEF WriteSopsConf, Truncate, SecretsTypeOK, Goto, End
        <3>2. CASE Load(p)
            BY <2>1, <3>2 DEF Load, SecretsTypeOK, Goto, End
        <3>3. QED
            BY <1>4, <3>1, <3>2
    <2>5. cmd'[p] \in Editing /\ at'[p] \in {"open", "write"} => mem'[p].data = kept
        <3>1. CASE WriteSopsConf(p)
            BY <2>1, <3>1 DEF WriteSopsConf, SecretsTypeOK, Goto, End
        <3>2. CASE Truncate(p)
            <4>1. cmd[p] \in Editing /\ at[p] = "open" /\ mem' = mem
                BY <3>2 DEF Truncate
            <4>2. QED
                BY <2>2, <4>1 DEF KeptInv
        <3>3. CASE Load(p)
            <4>1. CASE file.st = "whole" /\ mem'[p].data = file.data
                BY <2>2, <4>1 DEF SecretsAreKept
            <4>2. CASE End(p, "error")
                BY <2>1, <4>2 DEF SecretsTypeOK, End
            <4>3. CASE file.st = "whole" /\ mem' = [mem EXCEPT ![p] = [key |-> file.key, data |-> file.data]]
                BY <2>1, <4>1, <4>3 DEF SecretsTypeOK
            <4>4. QED
                BY <3>3, <4>2, <4>3 DEF Load
        <3>4. QED
            BY <1>4, <3>1, <3>2, <3>3
    <2>6. KeptInv'
        BY <2>2, <2>4, <2>5 DEF KeptInv
    <2>7. QED
        BY <2>3, <2>6
<1>5. ASSUME damage' = {}, NEW p \in Processes, WriteFile(p)
      PROVE  SecretsAreKept' /\ KeptInv'
    <2>1. SecretsTypeOK /\ WellPlaced(p)
        BY DEF SecretsInv
    <2>2. damage = {} /\ at[p] = "write" /\ cmd[p] # "idle" /\ \E r : End(p, r)
        BY <1>5, <2>1 DEF WriteFile, WellPlaced
    <2>3. \A q \in Processes : cmd'[q] = "idle"
        <3>1. \A q \in Processes : q # p => cmd[q] = "idle"
            BY <2>2, Quiet
        <3>2. Ends(p)
            BY <2>1, <2>2, MoveFacts
        <3>3. QED
            BY <3>1, <3>2 DEF Ends, Others
    <2>4. SecretsAreKept'
        <3>1. \/ UNCHANGED <<file, kept>>
              \/ cmd[p] = "set" /\ file'.data = mem[p].data \cup {arg[p]}
                                /\ kept' = kept \cup {arg[p]}
              \/ cmd[p] = "remove" /\ file'.data = mem[p].data \ {arg[p]}
                                   /\ kept' = kept \ {arg[p]}
              \/ file'.data = {} /\ kept' = {}
            BY <1>5, <2>1, <2>2 DEF WriteFile, Changed, WellPlaced
        <3>2. cmd[p] \in Editing => mem[p].data = kept
            BY <2>2 DEF KeptInv
        <3>3. QED
            BY <2>2, <3>1, <3>2 DEF SecretsAreKept
    <2>5. KeptInv'
        BY <2>3 DEF KeptInv
    <2>6. QED
        BY <2>4, <2>5
<1>6. QED
    BY <1>1, <1>2, <1>3, <1>4, <1>5 DEF SecretsNext

\* The file holds the secrets that were set and not removed, unless commands have
\* overlapped or one was killed while it wrote (SetSecret, RemoveSecret in secrets.go).
THEOREM SecretsStay == SecretsSpec => []SecretsAreKept
<1>1. SecretsInit => SecretsAreKept
    BY DEF SecretsInit, SecretsAreKept
<1>2. ASSUME SecretsInit
      PROVE  KeptInv
    <2>1. \A p \in Processes : cmd[p] \notin Editing
        BY <1>2 DEF SecretsInit
    <2>2. QED
        BY <2>1 DEF KeptInv
<1>3. QED
    BY <1>1, <1>2, KeptInd, SecretsInvariance, PTL DEF SecretsSpec

----------------------------------------------------------------------------
(* The signing key.                                                         *)

\* A signing key reported as installed stays whole, however many commands run at the
\* same time and wherever they are killed (install_signing_key.go).
THEOREM InstalledKeyStays == SecretsSpec => []InstalledStaysWhole
<1>1. SecretsInit => SigningInv
    BY DEF SecretsInit, SigningInv, InstalledStaysWhole, Results
<1>2. ASSUME SigningInv, [SecretsNext]_secretVars
      PROVE  SigningInv'
    <2>1. CASE UNCHANGED secretVars
        BY <1>2, <2>1 DEF SigningInv, InstalledStaysWhole, secretVars
    <2>2. ASSUME NEW p \in Processes, CreateSigningKey(p) \/ FillSigningKey(p)
          PROVE  SigningInv'
        BY <1>2, <2>2 DEF SigningInv, InstalledStaysWhole, CreateSigningKey, FillSigningKey, Results,
                          Goto, End
    <2>3. ASSUME NEW p \in Processes, Start(p) \/ CheckFiles(p) \/ EnsureKeyPair(p)
              \/ WritePrivate(p) \/ WritePublic(p) \/ WriteSopsConf(p) \/ Load(p) \/ Truncate(p)
              \/ WriteFile(p) \/ Killed(p) \/ ReadSigningKey(p)
          PROVE  SigningInv'
        <3>1. UNCHANGED signing
            BY <2>3 DEF Start, CheckFiles, EnsureKeyPair, WritePrivate, WritePublic, Load,
                        WriteSopsConf, Truncate, WriteFile, Killed, ReadSigningKey
        <3>2. \/ UNCHANGED result
              \/ \E r \in {"none", "kept", "error", "nil", "killed"} :
                    result' = [result EXCEPT ![p] = r]
            BY <2>3 DEF Start, CheckFiles, EnsureKeyPair, WritePrivate, WritePublic, Load,
                        WriteSopsConf, Truncate, WriteFile, Killed, ReadSigningKey, Goto, End
        <3>3. QED
            BY <1>2, <3>1, <3>2 DEF SigningInv, InstalledStaysWhole, Results
    <2>4. QED
        BY <1>2, <2>1, <2>2, <2>3 DEF SecretsNext
<1>3. SigningInv => InstalledStaysWhole
    BY DEF SigningInv
<1>4. QED
    BY <1>1, <1>2, <1>3, PTL DEF SecretsSpec

----------------------------------------------------------------------------
(* Rendering.                                                               *)

\* A file is where its unit and its resource say; the units of a stage and of an
\* application are different directories.
LEMMA Units ==
    /\ \A u, v, q, r : Place(File(u, q)) = Place(File(v, r)) => u = v
    /\ \A u, r : File(u, r).dir = u /\ File(u, r).res = r
    /\ \A u, v, q, r : File(u, q) = File(v, r) => u = v /\ q = r
    /\ \A s, t, a : StageUnit(s) # AppUnit(t, a)
    /\ \A s, t : StageUnit(s) = StageUnit(t) => s = t
<1>1. \A u, r : File(u, r).dir = u /\ File(u, r).res = r
    BY DEF File
<1>2. \A u, v, q, r : Place(File(u, q)) = Place(File(v, r)) => u = v
    BY DEF File, Place
<1>3. \A s, t, a : StageUnit(s) # AppUnit(t, a)
    BY DEF StageUnit, AppUnit
<1>4. \A s, t : StageUnit(s) = StageUnit(t) => s = t
    BY DEF StageUnit
<1>5. QED
    BY <1>1, <1>2, <1>3, <1>4

\* A write puts its file at its place and leaves the others.
LEMMA PutFacts ==
    ASSUME NEW files, NEW f
    PROVE  /\ \A g \in Put(files, f) : g = f \/ g \in files
           /\ \E e \in Put(files, f) : Place(e) = Place(f)
           /\ \A g \in files : \E e \in Put(files, f) : Place(e) = Place(g)
    BY DEF Put

\* Nothing is said of a command that is not a render-all, or has failed.
LEMMA NotRenderingInd ==
    ASSUME rpc' # "write" => writing' = {},
           rcmd' # "all" \/ rpc' = "failed"
    PROVE  RenderInv'
    BY DEF RenderInv, WrittenInv, AppsInv, InRenderAll

\* A render-all starts.
LEMMA RunRenderAllInd == ASSUME RunRenderAll PROVE RenderInv'
    BY DEF RunRenderAll, RenderInv, WrittenInv, AppsInv, InRenderAll

\* The destination is removed.
LEMMA RemoveDestInd == ASSUME RenderInv, RemoveDest PROVE RenderInv'
<1>1. CASE rpc' = "failed"
    BY <1>1, NotRenderingInd DEF RemoveDest, RenderInv, WrittenInv
<1>2. CASE dest' = {} /\ rpc' = "stage"
    <2>1. rcmd = "all" /\ rpc = "remove" /\ built' = built /\ writing' = writing /\ rcmd' = rcmd
        BY DEF RemoveDest
    <2>2. built = {} /\ writing = {}
        BY <2>1 DEF RenderInv, WrittenInv
    <2>3. QED
        BY <1>2, <2>1, <2>2 DEF RenderInv, WrittenInv, AppsInv, InRenderAll
<1>3. QED
    BY <1>1, <1>2 DEF RemoveDest, RFail

\* A unit is built and is to be written: nothing of what was there is lost.
LEMMA BuiltInd ==
    ASSUME WrittenInv, rcmd = "all", rpc \in {"stage", "apps"}, rpc' = "write", rcmd' = rcmd,
           dest' = dest, NEW S, writing' = S, built' = built \cup {File(unit', r) : r \in S}
    PROVE  WrittenInv'
<1>1. /\ writing = {} /\ dest \subseteq built
      /\ \A f \in built : \E e \in dest : Place(e) = Place(f)
    BY DEF WrittenInv, InRenderAll
<1>2. QED
    BY <1>1 DEF WrittenInv, InRenderAll

\* The next stage is built.
LEMMA RenderStageInd ==
    ASSUME RenderInv, NEW s \in Stages, RenderStage(s)
    PROVE  RenderInv'
<1>1. CASE rpc' = "failed" /\ writing' = writing
    BY <1>1, NotRenderingInd DEF RenderStage, RenderInv, WrittenInv
<1>2. CASE BuildStage(s) /\ rpc' = "write"
    <2>1. /\ rcmd = "all" /\ rpc = "stage" /\ rcmd' = rcmd /\ dest' = dest /\ source' = source
          /\ stage' = s
        BY DEF RenderStage
    <2>2. /\ unit' = StageUnit(s) /\ writing' = source[s]
          /\ built' = built \cup {File(unit', r) : r \in source[s]}
        BY <1>2 DEF BuildStage
    <2>3. WrittenInv'
        BY <1>2, <2>1, <2>2, BuiltInd DEF RenderInv
    <2>4. \A t \in Stages, a \in Applications : File(StageUnit(t), a) \in dest =>
              {File(AppUnit(t, a), r) : r \in source[a]} \subseteq built
        BY <2>1 DEF RenderInv, AppsInv, InRenderAll
    <2>5. AppsInv'
        BY <2>1, <2>2, <2>4 DEF AppsInv
    <2>6. QED
        BY <2>3, <2>5 DEF RenderInv
<1>3. QED
    BY <1>1, <1>2 DEF RenderStage, RFail

\* The next application is built.
LEMMA RenderApplicationInd ==
    ASSUME RenderInv, NEW a \in Applications, RenderApplication(a)
    PROVE  RenderInv'
<1>1. CASE rcmd # "all" \/ rpc' = "failed"
    <2>1. rpc' = "write" \/ (rpc' = "failed" /\ writing' = writing)
        BY DEF RenderApplication, RFail
    <2>2. rcmd' = rcmd /\ writing = {}
        BY DEF RenderApplication, RenderInv, WrittenInv
    <2>3. QED
        BY <1>1, <2>1, <2>2, NotRenderingInd
<1>2. CASE rcmd = "all" /\ RenderApp(a, AppUnit(stage, a)) /\ rpc' = "write"
    <2>1. /\ rpc = "apps" /\ rcmd' = rcmd /\ dest' = dest /\ source' = source /\ stage' = stage
          /\ apps' = apps \ {a}
        BY DEF RenderApplication
    <2>2. /\ unit' = AppUnit(stage, a) /\ writing' = source[a]
          /\ built' = built \cup {File(unit', r) : r \in source[a]}
        BY <1>2 DEF RenderApp
    <2>3. WrittenInv'
        BY <1>2, <2>1, <2>2, BuiltInd DEF RenderInv
    <2>4. \A t \in Stages, b \in Applications : File(StageUnit(t), b) \in dest =>
              \/ {File(AppUnit(t, b), r) : r \in source[b]} \subseteq built
              \/ b \in apps /\ t = stage
        BY <1>2, <2>1 DEF RenderInv, AppsInv, InRenderAll
    <2>5. \A t \in Stages, b \in Applications : File(StageUnit(t), b) \in dest =>
              \/ {File(AppUnit(t, b), r) : r \in source[b]} \subseteq built'
              \/ b \in apps' /\ t = stage
        BY <2>1, <2>2, <2>4
    <2>6. AppsInv'
        BY <1>2, <2>1, <2>2, <2>5 DEF AppsInv
    <2>7. QED
        BY <2>3, <2>6 DEF RenderInv
<1>3. QED
    BY <1>1, <1>2 DEF RenderApplication, RFail

\* A file is written.
LEMMA WriteResourceInd ==
    ASSUME RenderInv, NEW r \in Resources, WriteResource(r)
    PROVE  RenderInv'
<1>1. /\ rpc = "write" /\ r \in writing /\ rcmd' = rcmd /\ unit' = unit /\ built' = built
      /\ stage' = stage /\ apps' = apps /\ source' = source
      /\ rpc' = "write" \/ (rpc' = "failed" /\ writing' = {})
    BY DEF WriteResource, RFail
<1>2. CASE rcmd # "all" \/ rpc' = "failed"
    BY <1>1, <1>2, NotRenderingInd
<1>3. CASE /\ rcmd = "all" /\ dest' = Put(dest, File(unit, r))
           /\ writing' = writing \ {r} /\ rpc' = rpc
    <2>1. /\ dest \subseteq built
          /\ \A q \in writing : File(unit, q) \in built
          /\ \A f \in built : (\E e \in dest : Place(e) = Place(f))
                              \/ \E q \in writing : f = File(unit, q)
        BY <1>1, <1>3 DEF RenderInv, WrittenInv, InRenderAll
    <2>2. dest' \subseteq built
        BY <1>1, <1>3, <2>1, PutFacts
    <2>3. ASSUME NEW f \in built
          PROVE  (\E e \in dest' : Place(e) = Place(f)) \/ \E q \in writing' : f = File(unit, q)
        <3>1. CASE \E e \in dest : Place(e) = Place(f)
            BY <1>3, <3>1, PutFacts
        <3>2. CASE f = File(unit, r)
            BY <1>3, <3>2, PutFacts
        <3>3. QED
            BY <1>3, <2>1, <3>1, <3>2
    <2>4. WrittenInv'
        BY <1>1, <1>3, <2>1, <2>2, <2>3 DEF WrittenInv, InRenderAll
    <2>5. /\ unit = StageUnit(stage) \/ \E a \in Applications : unit = AppUnit(stage, a)
          /\ \A s \in Stages, a \in Applications : File(StageUnit(s), a) \in dest =>
                \/ {File(AppUnit(s, a), q) : q \in source[a]} \subseteq built
                \/ unit = StageUnit(s) /\ s = stage
                \/ a \in apps /\ s = stage
        BY <1>1, <1>3 DEF RenderInv, AppsInv, InRenderAll
    <2>6. ASSUME NEW s \in Stages, NEW a \in Applications, File(StageUnit(s), a) \in dest'
          PROVE  \/ {File(AppUnit(s, a), q) : q \in source[a]} \subseteq built
                 \/ unit = StageUnit(s) /\ s = stage
                 \/ a \in apps /\ s = stage
        <3>1. File(StageUnit(s), a) = File(unit, r) \/ File(StageUnit(s), a) \in dest
            BY <1>3, <2>6, PutFacts
        <3>2. CASE File(StageUnit(s), a) = File(unit, r)
            <4>1. unit = StageUnit(s)
                BY <3>2, Units
            <4>2. unit = StageUnit(stage)
                BY <2>5, <4>1, Units
            <4>3. QED
                BY <4>1, <4>2, Units
        <3>3. QED
            BY <2>5, <3>1, <3>2
    <2>7. AppsInv'
        BY <1>1, <1>3, <2>5, <2>6 DEF AppsInv
    <2>8. QED
        BY <2>4, <2>7 DEF RenderInv
<1>4. QED
    BY <1>1, <1>2, <1>3 DEF WriteResource, RFail

\* A unit is written: the applications whose manifests are there are found.
LEMMA UnitWrittenInd == ASSUME RenderInv, UnitWritten PROVE RenderInv'
<1>1. /\ rpc = "write" /\ writing = {} /\ writing' = writing /\ rcmd' = rcmd /\ dest' = dest
      /\ built' = built /\ stage' = stage /\ source' = source /\ unit' = unit
    BY DEF UnitWritten
<1>2. CASE rcmd # "all" \/ rpc' = "failed"
    BY <1>1, <1>2, NotRenderingInd
<1>3. CASE /\ rcmd = "all" /\ rpc' = "apps"
           /\ IF unit = StageUnit(stage) THEN apps' = ParseApplications(stage) ELSE apps' = apps
    <2>1. WrittenInv'
        BY <1>1, <1>3 DEF RenderInv, WrittenInv, InRenderAll
    <2>2. \A s \in Stages, a \in Applications : File(StageUnit(s), a) \in dest =>
              \/ {File(AppUnit(s, a), q) : q \in source[a]} \subseteq built
              \/ unit = StageUnit(s) /\ s = stage
              \/ a \in apps /\ s = stage
        BY <1>1, <1>3 DEF RenderInv, AppsInv, InRenderAll
    <2>3. ASSUME NEW s \in Stages, NEW a \in Applications, File(StageUnit(s), a) \in dest
          PROVE  \/ {File(AppUnit(s, a), q) : q \in source[a]} \subseteq built
                 \/ a \in apps' /\ s = stage
        <3>1. CASE unit = StageUnit(stage)
            <4>1. a \in ParseApplications(s)
                <5>1. a.kind = "Application"
                    BY DEF Applications
                <5>2. File(StageUnit(s), a).dir = StageUnit(s) /\ File(StageUnit(s), a).res = a
                    BY Units
                <5>3. QED
                    BY <2>3, <5>1, <5>2 DEF ParseApplications
            <4>2. QED
                BY <1>3, <2>2, <2>3, <3>1, <4>1
        <3>2. CASE unit # StageUnit(stage)
            BY <1>3, <2>2, <2>3, <3>2
        <3>3. QED
            BY <3>1, <3>2
    <2>4. AppsInv'
        BY <1>1, <1>3, <2>3 DEF AppsInv
    <2>5. QED
        BY <2>1, <2>4 DEF RenderInv
<1>4. QED
    BY <1>2, <1>3 DEF UnitWritten, RFail

\* A stage is rendered when its applications are.
LEMMA StageRenderedInd == ASSUME RenderInv, StageRendered PROVE RenderInv'
<1>1. /\ rpc = "apps" /\ apps = {} /\ rpc' \in {"done", "stage"} /\ writing' = writing
      /\ rcmd' = rcmd /\ dest' = dest /\ built' = built /\ source' = source /\ unit' = unit
    BY DEF StageRendered
<1>2. WrittenInv'
    BY <1>1 DEF RenderInv, WrittenInv, InRenderAll
<1>3. rcmd = "all" => \A s \in Stages, a \in Applications : File(StageUnit(s), a) \in dest =>
          {File(AppUnit(s, a), q) : q \in source[a]} \subseteq built
    BY <1>1 DEF RenderInv, AppsInv, InRenderAll
<1>4. AppsInv'
    BY <1>1, <1>3 DEF AppsInv, InRenderAll
<1>5. QED
    BY <1>2, <1>4 DEF RenderInv

\* The other commands, a kill and an edit of a source.
LEMMA OtherRenderInd ==
    ASSUME RenderInv,
           \/ RunValidateApp \/ RenderKilled
           \/ \E s \in Stages : RunKustomize(s) \/ EditSource(s)
           \/ \E a \in Applications : RunRenderApp(a) \/ EditSource(a)
    PROVE  RenderInv'
<1>1. CASE RenderKilled
    BY <1>1, NotRenderingInd DEF RenderKilled, RFail
<1>2. ASSUME Ended, rcmd' # "all", rpc' = "write" \/ writing' = writing
      PROVE  RenderInv'
    BY <1>2, NotRenderingInd DEF RenderInv, WrittenInv, Ended
<1>3. CASE RunValidateApp
    BY <1>2, <1>3 DEF RunValidateApp, BeginRender
<1>4. ASSUME NEW s \in Stages, RunKustomize(s)
      PROVE  RenderInv'
    BY <1>2, <1>4 DEF RunKustomize, BeginRender
<1>5. ASSUME NEW a \in Applications, RunRenderApp(a)
      PROVE  RenderInv'
    BY <1>2, <1>5 DEF RunRenderApp, BeginRender
<1>6. ASSUME NEW d, EditSource(d)
      PROVE  RenderInv'
    BY <1>2, <1>6 DEF EditSource
<1>7. QED
    BY <1>1, <1>3, <1>4, <1>5, <1>6

\* RenderInv holds in every state.
THEOREM RenderInvariance == RenderSpec => []RenderInv
<1>1. RenderInit => RenderInv
    BY DEF RenderInit, RenderInv, WrittenInv, AppsInv, InRenderAll
<1>2. RenderInv /\ [RenderNext]_renderVars => RenderInv'
    <2>1. SUFFICES ASSUME RenderInv, [RenderNext]_renderVars PROVE RenderInv'
        OBVIOUS
    <2>2. CASE UNCHANGED renderVars
        BY <2>1, <2>2 DEF RenderInv, WrittenInv, AppsInv, InRenderAll, renderVars
    <2>3. QED
        BY <2>1, <2>2, RunRenderAllInd, RemoveDestInd, RenderStageInd, RenderApplicationInd,
           WriteResourceInd, UnitWrittenInd, StageRenderedInd, OtherRenderInd DEF RenderNext
<1>3. QED
    BY <1>1, <1>2, PTL DEF RenderSpec

\* A render-all that succeeds leaves exactly the files of what it has built, every
\* application whose manifest it has written included, whatever earlier commands left
\* and wherever they stopped (RunRenderAll in application.go, SplitResMapToDir).
THEOREM RenderIsExact == RenderSpec => []RendersExactly
<1>1. ASSUME RenderInv, Rendered
      PROVE  /\ {Place(f) : f \in dest} = {Place(f) : f \in built} /\ dest \subseteq built
             /\ (\A f, g \in built : Place(f) = Place(g) => f = g) => dest = built
             /\ \A s \in Stages, a \in Applications : File(StageUnit(s), a) \in dest =>
                   {File(AppUnit(s, a), r) : r \in source[a]} \subseteq built
    <2>1. InRenderAll /\ rpc = "done"
        BY <1>1 DEF Rendered, InRenderAll
    <2>2. dest \subseteq built /\ \A f \in built : \E e \in dest : Place(e) = Place(f)
        BY <1>1, <2>1 DEF RenderInv, WrittenInv
    <2>3. \A s \in Stages, a \in Applications : File(StageUnit(s), a) \in dest =>
              {File(AppUnit(s, a), r) : r \in source[a]} \subseteq built
        BY <1>1, <2>1 DEF RenderInv, AppsInv
    <2>4. (\A f, g \in built : Place(f) = Place(g) => f = g) => dest = built
        BY <2>2
    <2>5. {Place(f) : f \in dest} = {Place(f) : f \in built}
        BY <2>2
    <2>6. QED
        BY <2>2, <2>3, <2>4, <2>5
<1>2. RenderInv => RendersExactly
    BY <1>1 DEF RendersExactly
<1>3. QED
    BY <1>2, RenderInvariance, PTL

----------------------------------------------------------------------------
(* The two together.                                                        *)

\* A behaviour of Iknitectl, in which commands on secrets and renderings change files of
\* their own, is one of Secrets and one of Rendering: what is proved of each holds there.
THEOREM BehavesAsBoth == Spec => SecretsSpec /\ RenderSpec
<1>1. Init => SecretsInit /\ RenderInit
    BY DEF Init
<1>2. [Next]_<<secretVars, renderVars>> => [SecretsNext]_secretVars /\ [RenderNext]_renderVars
    BY DEF Next
<1>3. QED
    BY <1>1, <1>2, PTL DEF Spec, SecretsSpec, RenderSpec
=============================================================================
