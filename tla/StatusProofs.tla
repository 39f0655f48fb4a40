----------------------------- MODULE StatusProofs -----------------------------
(***************************************************************************)
(* What a client of the status sees, for every instance: the files of the  *)
(* status server it connects with (ServerFiles), and the checks of         *)
(* "iknite status" (StatusChecks): what a success of the workloads rests   *)
(* on, the pid file, and that the report is true.  Each part has its       *)
(* inductive invariants in the module it is about.                         *)
(***************************************************************************)
EXTENDS ServerFiles, StatusChecks, TLAPS

----------------------------------------------------------------------------
(* The files of the status server.                                          *)

\* Where init is, as a pair.
LEMMA PcPair ==
    ASSUME FilesTypeOK
    PROVE  /\ \A a, b : pc = <<a, b>> <=> pc[1] = a /\ pc[2] = b
           /\ pc[1] \in {"init", "server", "client", "conf", "copy", "load"}
           /\ pc[1] = "init" => pc[2] \in {"down", "failed", "up"}
           /\ pc[2] \in {"key", "cert"} => pc[1] \in Pairs
    BY DEF FilesTypeOK, Pairs

\* A file, whole, torn or absent.
LEMMA ContentsFacts ==
    ASSUME FilesTypeOK
    PROVE  NoFile \in Contents /\ Torn \in Contents /\ Whole(made, ca, name) \in Contents
    BY DEF FilesTypeOK, Contents, NoFile, Torn, Blank, Whole

\* A step that writes no file of a pair keeps what is said of the pairs.
LEMMA PairsStay ==
    ASSUME FilesInv, UNCHANGED <<key, cert, ca>>,
           damaged' = "no" => damaged = "no" /\ pc[2] \notin {"key", "cert"}
    PROVE  damaged' = "no" => \A n \in Pairs : PairInv(n)'
<1>1. SUFFICES ASSUME damaged' = "no", NEW n \in Pairs PROVE PairInv(n)'
    OBVIOUS
<1>2. PairInv(n) /\ pc[2] \notin {"key", "cert"}
    BY <1>1 DEF FilesInv
<1>3. QED
    BY <1>2 DEF PairInv, WholePair

\* While one pair is written the other one stays.
LEMMA OtherPairStays ==
    ASSUME FilesInv, NEW n \in Pairs, pc[1] = n, damaged' = "no" => damaged = "no",
           ca' = ca, \A m \in Pairs : m # n => key'[m] = key[m] /\ cert'[m] = cert[m]
    PROVE  damaged' = "no" => \A m \in Pairs : m # n => PairInv(m)'
<1>1. SUFFICES ASSUME damaged' = "no", NEW m \in Pairs, m # n PROVE PairInv(m)'
    OBVIOUS
<1>2. PairInv(m) /\ pc[1] # m
    BY <1>1 DEF FilesInv
<1>3. QED
    BY <1>1, <1>2 DEF PairInv, WholePair

\* Nothing was ever made.
LEMMA FilesInitInd == ASSUME FilesInit PROVE FilesInv
<1>1. FilesTypeOK
    BY DEF FilesInit, FilesTypeOK, Contents, NoFile, Blank, Pairs
<1>2. pc[1] = "init" /\ pc[2] = "down" /\ ~Up /\ \A n \in Pairs : PairInv(n)
    BY DEF FilesInit, PairInv, NoFile, Blank, Up
<1>3. QED
    BY <1>1, <1>2, PcPair DEF FilesInv, CopyInv

\* init starts: the CA is there, and no pair of another one.
LEMMA BootInd == ASSUME FilesInv, Boot PROVE FilesInv'
<1>1. /\ pc[1] = "init" /\ pc[2] # "up" /\ name' \in Names /\ phase' = "copyConfig"
      /\ ca' = (IF ca = 0 THEN cleans + 1 ELSE ca)
      /\ UNCHANGED <<key, cert, conf, homeConf, made, loaded, damaged, kills, cleans>>
    BY DEF Boot
<1>2. pc' = <<"server", "check">> \/ pc' = <<"init", "failed">>
    BY DEF Boot, Goto, Fail
<1>3. FilesTypeOK /\ pc[2] \notin {"key", "cert"}
    BY <1>1, PcPair DEF FilesInv
<1>4. ca' \in Nat /\ ca' # 0
    BY <1>1, <1>3 DEF FilesTypeOK
<1>5. FilesTypeOK'
    BY <1>1, <1>2, <1>3, <1>4 DEF FilesTypeOK, Pairs
<1>6. CopyInv'
    BY <1>1, <1>2 DEF CopyInv, Up
<1>7. ASSUME damaged' = "no", NEW n \in Pairs
      PROVE  PairInv(n)'
    <2>1. PairInv(n)
        BY <1>1, <1>7 DEF FilesInv
    <2>2. QED
        BY <1>1, <1>3, <2>1 DEF PairInv, WholePair
<1>8. QED
    BY <1>2, <1>4, <1>5, <1>6, <1>7 DEF FilesInv, Up

\* A pair is found, or begun.
LEMMA EnsureInd == ASSUME FilesInv, NEW n \in Pairs, Ensure(n) PROVE FilesInv'
<1>1. /\ pc = <<n, "check">> /\ UNCHANGED <<ca, cert, conf, homeConf, phase, loaded, name, cleans>>
      /\ damaged' = damaged
    BY DEF Ensure, Rest
<1>2. FilesTypeOK /\ CopyInv /\ pc[1] = n /\ pc[2] = "check" /\ n \in {"server", "client"} /\ ca # 0
    BY <1>1 DEF FilesInv, Pairs
<1>3. CASE CertOrKeyExist(n) /\ AfterPair(n) /\ UNCHANGED <<key, made>>
    <2>1. pc' = IF n = "server" THEN <<"client", "check">> ELSE <<"conf", "write">>
        BY <1>3 DEF AfterPair, Goto
    <2>2. FilesTypeOK'
        BY <1>1, <1>2, <1>3, <2>1 DEF FilesTypeOK, Pairs
    <2>3. CopyInv'
        BY <1>1, <1>2, <1>3, <2>1 DEF CopyInv, CertOrKeyExist, EmbeddedClient, Up
    <2>4. damaged' = "no" => \A m \in Pairs : PairInv(m)'
        BY <1>1, <1>2, <1>3, PairsStay
    <2>5. QED
        BY <1>1, <1>2, <2>1, <2>2, <2>3, <2>4 DEF FilesInv, Up
<1>4. CASE /\ ~CertOrKeyExist(n) /\ made' = made + 1
           /\ key' = [key EXCEPT ![n] = Torn] /\ Goto(n, "key")
    <2>1. pc' = <<n, "key">> /\ \A m \in Pairs : m # n => key'[m] = key[m]
        BY <1>2, <1>4 DEF Goto, FilesTypeOK
    <2>2. FilesTypeOK'
        <3>1. key' \in [Pairs -> Contents] /\ made' \in Nat
            BY <1>2, <1>4, ContentsFacts DEF FilesTypeOK
        <3>2. QED
            BY <1>1, <1>2, <2>1, <3>1 DEF FilesTypeOK, Pairs
    <2>3. phase = "copyConfig"
        BY <1>2, <1>4 DEF CopyInv, FilesTypeOK
    <2>4. CopyInv'
        BY <1>1, <1>2, <2>1, <2>3 DEF CopyInv, CertOrKeyExist, Up, Pairs
    <2>5. PairInv(n)'
        BY <2>1 DEF PairInv
    <2>6. damaged' = "no" => \A m \in Pairs : m # n => PairInv(m)'
        BY <1>1, <1>2, <2>1, OtherPairStays, Zenon
    <2>7. QED
        BY <1>1, <1>2, <2>1, <2>2, <2>4, <2>5, <2>6 DEF FilesInv, Up
<1>5. CASE Fail /\ UNCHANGED <<key, made>>
    <2>1. pc' = <<"init", "failed">>
        BY <1>5 DEF Fail, Goto
    <2>2. FilesTypeOK'
        BY <1>1, <1>2, <1>5, <2>1 DEF FilesTypeOK, Pairs
    <2>3. CopyInv'
        BY <2>1 DEF CopyInv, Up
    <2>4. damaged' = "no" => \A m \in Pairs : PairInv(m)'
        BY <1>1, <1>2, <1>5, PairsStay
    <2>5. QED
        BY <2>1, <2>2, <2>3, <2>4 DEF FilesInv, Up
<1>6. QED
    BY <1>3, <1>4, <1>5 DEF Ensure

\* The key is written.
LEMMA WriteKeyInd == ASSUME FilesInv, NEW n \in Pairs, WriteKey(n) PROVE FilesInv'
<1>1. /\ pc = <<n, "key">> /\ key' = [key EXCEPT ![n] = Whole(made, ca, name)]
      /\ UNCHANGED <<ca, conf, homeConf, phase, made, loaded, name, cleans>>
    BY DEF WriteKey, Rest
<1>2. FilesTypeOK /\ CopyInv /\ pc[1] = n /\ pc[2] = "key" /\ n \in {"server", "client"} /\ ca # 0
    BY <1>1 DEF FilesInv, Pairs
<1>3. \/ pc' = <<n, "cert">> /\ cert' = [cert EXCEPT ![n] = Torn] /\ damaged' = damaged
      \/ pc' = <<"init", "failed">> /\ cert' = cert /\ damaged' = "yes"
    BY <1>2 DEF WriteKey, Goto, Fail, Rest
<1>4. /\ key' \in [Pairs -> Contents] /\ cert' \in [Pairs -> Contents]
      /\ \A m \in Pairs : m # n => key'[m] = key[m] /\ cert'[m] = cert[m]
      /\ key'[n] = Whole(made, ca, name)
    BY <1>1, <1>2, <1>3, ContentsFacts DEF FilesTypeOK
<1>5. FilesTypeOK'
    BY <1>1, <1>2, <1>3, <1>4 DEF FilesTypeOK, Pairs
<1>6. phase = "copyConfig"
    BY <1>2 DEF CopyInv, FilesTypeOK
<1>7. CopyInv'
    BY <1>1, <1>2, <1>3, <1>4, <1>6 DEF CopyInv, CertOrKeyExist, Up, Pairs
<1>8. damaged' = "no" => PairInv(n)'
    BY <1>3 DEF PairInv
<1>9. damaged' = "no" => \A m \in Pairs : m # n => PairInv(m)'
    BY <1>1, <1>2, <1>3, <1>4, OtherPairStays
<1>10. pc'[2] = "cert" => key'[pc'[1]].st = "whole" /\ key'[pc'[1]].key = made'
    BY <1>1, <1>3, <1>4 DEF Whole
<1>11. QED
    BY <1>1, <1>2, <1>3, <1>5, <1>7, <1>8, <1>9, <1>10 DEF FilesInv, Up

\* The certificate is written: the pair is one of the CA.
LEMMA WriteCertInd == ASSUME FilesInv, NEW n \in Pairs, WriteCert(n) PROVE FilesInv'
<1>1. /\ pc = <<n, "cert">>
      /\ UNCHANGED <<ca, key, conf, homeConf, phase, made, loaded, name, cleans>>
    BY DEF WriteCert, Rest
<1>2. /\ FilesTypeOK /\ CopyInv /\ pc[1] = n /\ pc[2] = "cert" /\ n \in {"server", "client"} /\ ca # 0
      /\ key[n].st = "whole" /\ key[n].key = made
    BY <1>1 DEF FilesInv, Pairs
<1>3. \/ /\ pc' = IF n = "server" THEN <<"client", "check">> ELSE <<"conf", "write">>
         /\ cert' = [cert EXCEPT ![n] = Whole(made, ca, name)] /\ damaged' = damaged
      \/ pc' = <<"init", "failed">> /\ cert' = cert /\ damaged' = "yes"
    BY <1>2 DEF WriteCert, AfterPair, Goto, Fail, Rest
<1>4. /\ cert' \in [Pairs -> Contents]
      /\ \A m \in Pairs : m # n => cert'[m] = cert[m]
      /\ cert' = cert \/ cert'[n] = Whole(made, ca, name)
    BY <1>2, <1>3, ContentsFacts DEF FilesTypeOK
<1>5. FilesTypeOK'
    BY <1>1, <1>2, <1>3, <1>4 DEF FilesTypeOK, Pairs
<1>6. phase = "copyConfig"
    BY <1>2 DEF CopyInv, FilesTypeOK
<1>7. CopyInv'
    <2>1. CASE pc' = <<"init", "failed">>
        BY <2>1 DEF CopyInv, Up
    <2>2. CASE n = "server" /\ pc' = <<"client", "check">>
        BY <1>1, <1>2, <1>6, <2>2 DEF CopyInv, CertOrKeyExist, Up
    <2>3. CASE n = "client" /\ pc' = <<"conf", "write">>
        <3>1. CertOrKeyExist("server")' /\ CertOrKeyExist("client")'
            BY <1>1, <1>2, <1>4, <2>3 DEF CopyInv, CertOrKeyExist, Pairs
        <3>2. QED
            BY <1>1, <1>6, <2>3, <3>1 DEF CopyInv, Up
    <2>4. QED
        BY <1>2, <1>3, <2>1, <2>2, <2>3
<1>8. damaged' = "no" => PairInv(n)'
    <2>1. damaged' = "no" => cert'[n] = Whole(made, ca, name)
        BY <1>2, <1>3 DEF FilesTypeOK
    <2>2. /\ Whole(made, ca, name).st = "whole" /\ Whole(made, ca, name).key = made
          /\ Whole(made, ca, name).ca = ca
        BY DEF Whole
    <2>3. damaged' = "no" => WholePair(n)'
        BY <1>1, <1>2, <2>1, <2>2 DEF WholePair
    <2>4. QED
        BY <2>3 DEF PairInv
<1>9. damaged' = "no" => \A m \in Pairs : m # n => PairInv(m)'
    BY <1>1, <1>2, <1>3, <1>4, OtherPairStays
<1>10. QED
    BY <1>1, <1>2, <1>3, <1>5, <1>7, <1>8, <1>9 DEF FilesInv, Up

\* A step that writes neither pair, from where none is being written.
LEMMA NoPairWritten ==
    ASSUME FilesInv, UNCHANGED <<ca, key, cert, made, damaged, name, cleans>>, CopyInv',
           pc[2] \notin {"key", "cert"}, pc[1] # "init",
           phase' \in {"copyConfig", "serve"},
           pc' \in {<<"conf", "close">>, <<"copy", "write">>, <<"copy", "close">>, <<"load", "pair">>,
                    <<"load", "listen">>, <<"init", "up">>, <<"init", "failed">>, <<"server", "check">>},
           damaged = "no" /\ (pc' = <<"load", "listen">> \/ Up') => loaded'.ca = ca
    PROVE  FilesInv'
<1>1. FilesTypeOK /\ ca # 0
    BY DEF FilesInv
<1>2. FilesTypeOK'
    BY <1>1 DEF FilesTypeOK, Pairs
<1>3. damaged' = "no" => \A n \in Pairs : PairInv(n)'
    BY PairsStay
<1>4. pc'[2] # "cert"
    OBVIOUS
<1>5. QED
    BY <1>1, <1>2, <1>3, <1>4 DEF FilesInv

\* The configuration is built.
LEMMA EnsureIkniteConfInd == ASSUME FilesInv, EnsureIkniteConf PROVE FilesInv'
<1>1. /\ pc[1] = "conf" /\ UNCHANGED <<ca, key, cert, homeConf, phase, made, loaded, name, cleans>>
    BY DEF EnsureIkniteConf, Rest
<1>2. FilesTypeOK /\ CopyInv /\ pc[2] \notin {"key", "cert"}
    BY <1>1, PcPair DEF FilesInv, Pairs
<1>3. damaged' = damaged
    BY <1>2 DEF EnsureIkniteConf, Rest
<1>4. \/ conf' = Torn /\ pc' = <<"conf", "close">>
      \/ pc' = <<"init", "failed">>
      \/ conf' = EmbeddedClient /\ pc' = <<"copy", "write">> /\ phase = "copyConfig"
      \/ conf' = EmbeddedClient /\ pc' = <<"load", "pair">> /\ phase = "serve"
    BY <1>2 DEF EnsureIkniteConf, Goto, Fail, FilesTypeOK
<1>5. EmbeddedClient' = EmbeddedClient
    BY <1>1 DEF EmbeddedClient
<1>6. \A n \in Pairs : CertOrKeyExist(n)' <=> CertOrKeyExist(n)
    BY <1>1 DEF CertOrKeyExist
<1>7. CopyInv'
    BY <1>1, <1>2, <1>4, <1>5, <1>6 DEF CopyInv, Up, Pairs
<1>8. QED
    BY <1>1, <1>2, <1>3, <1>4, <1>7, NoPairWritten DEF Up, FilesTypeOK

\* The configuration is copied.
LEMMA CopyConfInd == ASSUME FilesInv, CopyConf PROVE FilesInv'
<1>1. /\ pc[1] = "copy" /\ UNCHANGED <<ca, key, cert, conf, made, loaded, name, cleans>>
    BY DEF CopyConf, Rest
<1>2. FilesTypeOK /\ CopyInv /\ pc[2] \notin {"key", "cert"}
    BY <1>1, PcPair DEF FilesInv, Pairs
<1>3. damaged' = damaged
    BY <1>2 DEF CopyConf, Rest
<1>4. \/ pc' = <<"copy", "close">> /\ phase' = phase
      \/ pc' = <<"init", "failed">> /\ phase' = phase
      \/ homeConf' = conf /\ phase' = "serve" /\ pc' = <<"server", "check">>
    BY DEF CopyConf, Goto, Fail
<1>5. EmbeddedClient' = EmbeddedClient
    BY <1>1 DEF EmbeddedClient
<1>6. \A n \in Pairs : CertOrKeyExist(n)' <=> CertOrKeyExist(n)
    BY <1>1 DEF CertOrKeyExist
<1>7. CopyInv'
    BY <1>1, <1>2, <1>4, <1>5, <1>6 DEF CopyInv, Up, Pairs
<1>8. QED
    BY <1>1, <1>2, <1>3, <1>4, <1>7, NoPairWritten DEF Up, FilesTypeOK

\* The server loads its pair, and listens.
LEMMA LoadServerInd == ASSUME FilesInv, NewIkniteServer \/ StartIkniteServer PROVE FilesInv'
<1>1. /\ pc[1] = "load" /\ UNCHANGED <<ca, key, cert, conf, homeConf, phase, made, name, cleans>>
    <2>1. CASE NewIkniteServer
        BY <2>1 DEF NewIkniteServer, Rest
    <2>2. CASE StartIkniteServer
        BY <2>2 DEF StartIkniteServer, Rest
    <2>3. QED
        BY <2>1, <2>2
<1>2. FilesTypeOK /\ CopyInv /\ pc[2] \notin {"key", "cert"}
    BY <1>1, PcPair DEF FilesInv, Pairs
<1>3. damaged' = damaged
    BY <1>2 DEF NewIkniteServer, StartIkniteServer, Rest
<1>4. \/ pc' = <<"init", "failed">>
      \/ loaded' = cert["server"] /\ pc' = <<"load", "listen">>
      \/ pc = <<"load", "listen">> /\ loaded' = loaded /\ pc' = <<"init", "up">>
    BY DEF NewIkniteServer, StartIkniteServer, Goto, Fail
<1>5. EmbeddedClient' = EmbeddedClient
    BY <1>1 DEF EmbeddedClient
<1>6. \A n \in Pairs : CertOrKeyExist(n)' <=> CertOrKeyExist(n)
    BY <1>1 DEF CertOrKeyExist
<1>7. CopyInv'
    BY <1>1, <1>2, <1>4, <1>5, <1>6 DEF CopyInv, Up, Pairs
<1>8. damaged = "no" => cert["server"].ca = ca
    BY <1>1, <1>2 DEF FilesInv, PairInv, WholePair, CopyInv, CertOrKeyExist, Pairs
<1>9. damaged = "no" /\ (pc' = <<"load", "listen">> \/ Up') => loaded'.ca = ca
    BY <1>4, <1>8 DEF FilesInv, Up
<1>10. QED
    BY <1>1, <1>2, <1>3, <1>4, <1>7, <1>9, NoPairWritten DEF FilesTypeOK

\* init ends, or is killed.
LEMMA StopInd == ASSUME FilesInv, Stop \/ Kill PROVE FilesInv'
<1>1. /\ pc' = <<"init", "down">> /\ UNCHANGED <<ca, key, cert, name, phase, made, cleans>>
    BY DEF Stop, Kill, Goto
<1>2. FilesTypeOK
    BY DEF FilesInv
<1>3. damaged' \in {"no", "yes"} /\ (damaged' = "no" => damaged = "no" /\ pc[2] \notin {"key", "cert"})
    BY <1>2 DEF Stop, Kill, FilesTypeOK
<1>4. FilesTypeOK'
    BY <1>1, <1>2, <1>3 DEF FilesTypeOK
<1>5. CopyInv'
    BY <1>1 DEF CopyInv, Up
<1>6. damaged' = "no" => \A n \in Pairs : PairInv(n)'
    BY <1>1, <1>3, PairsStay
<1>7. QED
    BY <1>1, <1>4, <1>5, <1>6 DEF FilesInv, Up

\* The certificates are removed.
LEMMA CleanPkiInd == ASSUME FilesInv, CleanPki PROVE FilesInv'
<1>1. /\ pc[1] = "init" /\ pc[2] # "up" /\ ca' = 0 /\ cleans' = cleans + 1
      /\ UNCHANGED <<conf, homeConf, name, pc, phase, made, loaded, kills>>
    BY DEF CleanPki
<1>2. FilesTypeOK /\ pc[2] \notin {"key", "cert"}
    BY <1>1, PcPair DEF FilesInv
<1>3. \/ /\ key' = [n \in Pairs |-> NoFile] /\ cert' = [n \in Pairs |-> NoFile]
         /\ damaged' = "no"
      \/ UNCHANGED <<key, cert>> /\ damaged' = "yes"
    BY DEF CleanPki
<1>4. key' \in [Pairs -> Contents] /\ cert' \in [Pairs -> Contents] /\ damaged' \in {"no", "yes"}
    BY <1>2, <1>3, ContentsFacts DEF FilesTypeOK
<1>5. FilesTypeOK'
    BY <1>1, <1>2, <1>4 DEF FilesTypeOK
<1>6. CopyInv'
    BY <1>1 DEF CopyInv, Up
<1>7. damaged' = "no" => \A n \in Pairs : PairInv(n)'
    BY <1>3 DEF PairInv, NoFile, Blank
<1>8. QED
    BY <1>1, <1>2, <1>5, <1>6, <1>7 DEF FilesInv, Up

\* FilesInv holds in every state.
THEOREM FilesInvariance == FilesSpec => []FilesInv
<1>1. FilesInv /\ [FilesNext]_fileVars => FilesInv'
    <2>1. SUFFICES ASSUME FilesInv, [FilesNext]_fileVars PROVE FilesInv'
        OBVIOUS
    <2>2. CASE UNCHANGED fileVars
        <3>1. FilesTypeOK'
            BY <2>1, <2>2 DEF fileVars, FilesInv, FilesTypeOK
        <3>2. CopyInv'
            BY <2>1, <2>2 DEF fileVars, FilesInv, CopyInv, CertOrKeyExist, EmbeddedClient, Up
        <3>3. \A n \in Pairs : PairInv(n) => PairInv(n)'
            BY <2>2 DEF fileVars, PairInv, WholePair
        <3>4. QED
            BY <2>1, <2>2, <3>1, <3>2, <3>3 DEF fileVars, FilesInv, Up
    <2>3. QED
        BY <2>1, <2>2, BootInd, EnsureInd, WriteKeyInd, WriteCertInd, EnsureIkniteConfInd,
           CopyConfInd, LoadServerInd, StopInd, CleanPkiInd DEF FilesNext
<1>2. QED
    BY <1>1, FilesInitInd, PTL DEF FilesSpec

\* While the status server runs, the configuration in the home directory is iknite.conf,
\* for the name configured now, and holds a whole client certificate of the CA that also
\* signed the one the server presents, unless a pair was left half written or half
\* removed (EnsureIkniteServerConfiguration in server.go, WriteCertAndKey in io.go).
THEOREM HomeConfigurationConnects == FilesSpec => []ClientsConnect
<1>1. ASSUME FilesInv, Up
      PROVE  /\ homeConf = conf /\ (homeConf.st = "whole" => homeConf.name = name)
             /\ damaged = "no" => loaded.ca = ca /\ homeConf.st = "whole" /\ homeConf.ca = ca
    <2>1. pc[1] = "init" /\ pc[2] = "up"
        BY <1>1 DEF Up
    <2>2. homeConf = EmbeddedClient /\ conf = EmbeddedClient /\ CertOrKeyExist("client")
        BY <1>1 DEF FilesInv, CopyInv
    <2>3. EmbeddedClient.st = "whole" => EmbeddedClient.name = name
        BY DEF EmbeddedClient, Whole, Torn, Blank
    <2>4. damaged = "no" => loaded.ca = ca /\ PairInv("client")
        BY <1>1 DEF FilesInv, Pairs
    <2>5. damaged = "no" => EmbeddedClient.st = "whole" /\ EmbeddedClient.ca = ca
        BY <2>1, <2>2, <2>4 DEF PairInv, WholePair, CertOrKeyExist, EmbeddedClient, Whole
    <2>6. QED
        BY <2>2, <2>3, <2>4, <2>5
<1>2. FilesInv => ClientsConnect
    BY <1>1 DEF ClientsConnect
<1>3. QED
    BY <1>2, FilesInvariance, PTL

----------------------------------------------------------------------------
(* StatusChecks.                                                            *)

\* What the actions that are neither a poll of the workloads nor about the pid file
\* leave alone.
LEMMA FrameworkFrame ==
    ASSUME NEW c \in Checks, Framework(c) \/ CheckOnce(c) \/ PollCancelled(c)
    PROVE  /\ held' = held /\ pid' = pid /\ lost' = lost
           /\ mode' = mode /\ poll' = poll /\ data' = data /\ row' = row
BY Zenon DEF Framework, CheckOnce, PollCancelled, hostVars, runVars

LEMMA EnvironmentFrame ==
    ASSUME Interrupt \/ FactChanges \/ KubeletChanges
    PROVE  /\ lost' = lost /\ report' = report
           /\ mode' = mode /\ poll' = poll /\ data' = data /\ row' = row
BY DEF Interrupt, FactChanges, KubeletChanges, Cancel, reportVars, runVars

\* No step makes CheckPidFile take a live kubelet for the dead one it has signalled.
LEMMA PidStep ==
    ASSUME PidInv, StatusNext
    PROVE  PidInv'
<1> USE DEF PidInv, KeepsPidFile
<1>1. ASSUME NEW c \in Checks, Framework(c) \/ CheckOnce(c) \/ PollCancelled(c) PROVE PidInv'
  BY <1>1, FrameworkFrame
<1>2. ASSUME NEW c \in Checks, ReadPidFile(c) PROVE PidInv'
  <2>1. lost' = lost /\ pid' = pid /\ (held' = held \/ (pid = "stale" /\ held' = "stale"))
    BY <1>2 DEF ReadPidFile, hostVars
  <2> QED BY <2>1
<1>3. ASSUME NEW c \in Checks, RemovePidFile(c) PROVE PidInv'
  <2>1. held \in {"stale", "replaced"} /\ held' = held
    BY <1>3 DEF RemovePidFile
  <2>2. \/ pid' = "none" /\ lost' = (IF pid # "live" THEN lost ELSE IF held = "replaced" THEN "raced" ELSE "yes")
        \/ pid' = pid /\ lost' = lost
    BY <1>3 DEF RemovePidFile
  <2> QED BY <2>1, <2>2
<1>4. ASSUME NEW c \in Checks, CheckIkniteServerHealth(c) \/ CheckWorkloads(c) PROVE PidInv'
  <2>1. lost' = lost /\ pid' = pid /\ held' = held
    BY <1>4, Zenon DEF CheckIkniteServerHealth, CheckWorkloads, hostVars
  <2> QED BY <2>1
<1>5. CASE Interrupt \/ FactChanges
  <2>1. lost' = lost /\ pid' = pid /\ held' = held
    BY <1>5 DEF Interrupt, FactChanges, runVars
  <2> QED BY <2>1
<1>6. CASE KubeletChanges
  <2>1. /\ lost' = lost
        /\ pid' = (IF pid = "live" THEN "stale" ELSE "live")
        /\ held' = (IF pid # "live" /\ held = "stale" THEN "replaced" ELSE held)
    BY <1>6 DEF KubeletChanges
  <2> QED BY <2>1
<1> QED BY <1>1, <1>2, <1>3, <1>4, <1>5, <1>6 DEF StatusNext, StatusGoroutine

\* The status command does not remove the pid file of a live kubelet that was there
\* when CheckPidFile read it, for any tree of checks, any host and any options.
THEOREM PidFileSurvives == StatusSpec => []KeepsPidFile
<1>1. StatusInit => PidInv
  BY DEF StatusInit, PidInv, KeepsPidFile
<1>2. PidInv /\ [StatusNext]_statusVars => PidInv'
  <2> SUFFICES ASSUME PidInv, [StatusNext]_statusVars PROVE PidInv'
    OBVIOUS
  <2>1. CASE StatusNext
    BY <2>1, PidStep
  <2>2. CASE UNCHANGED statusVars
    BY <2>2 DEF statusVars, hostVars, runVars, PidInv, KeepsPidFile
  <2> QED BY <2>1, <2>2
<1>3. PidInv => KeepsPidFile
  BY DEF PidInv
<1> QED BY <1>1, <1>2, <1>3, PTL DEF StatusSpec

\* A verdict changes the report of one check, and is one of the four.
LEMMA DecideFacts ==
    ASSUME report \in [Checks -> Verdicts \cup {"none"}], NEW c \in Checks, NEW v, Decide(c, v)
    PROVE  /\ report' \in [Checks -> Verdicts \cup {"none"}]
           /\ report[c] = "none" /\ report'[c] = v
           /\ \A d \in Checks : d # c => report'[d] = report[d]
<1>1. report[c] = "none" /\ report' = [report EXCEPT ![c] = v]
  BY DEF Decide
<1>2. v \in Verdicts
  BY DEF Decide, PhaseVerdict, Verdicts
<1> QED BY <1>1, <1>2

\* Only its own function lets the workload check succeed.
LEMMA WorkloadIsNoPhase == Phase["workload_status"] = {}
<1>1. DOMAIN SubChecks["workload_status"] = {}
  BY WorkloadLeaf
<1> QED BY <1>1, WorkloadLeaf DEF Phase, Range

\* A step that leaves the polls of the workloads alone and does not report their success.
LEMMA AnswerKept ==
    ASSUME AnswerInv, mode' = mode, row' = row, data' = data,
           poll' \in [Polling -> [retries : Int, successes : Nat]],
           poll'["workload_status"] = poll["workload_status"],
           report' \in [Checks -> Verdicts \cup {"none"}],
           report'["workload_status"] = "success" => report["workload_status"] = "success"
    PROVE  AnswerInv'
BY DEF AnswerInv, Enough, SuccessWasAnswered

LEMMA PollTypes ==
    ASSUME poll \in [Polling -> [retries : Int, successes : Nat]], NEW c \in Polling, NEW answer
    PROVE  /\ Counted(poll[c], answer) \in [retries : Int, successes : Nat]
           /\ [Counted(poll[c], answer) EXCEPT !.successes = 0] \in [retries : Int, successes : Nat]
           /\ Counted(poll[c], answer).successes = (IF answer = "ready" THEN poll[c].successes + 1 ELSE 0)
           /\ [Counted(poll[c], answer) EXCEPT !.successes = 0].successes = 0
BY DEF Counted

LEMMA CheckWorkloadsInd ==
    ASSUME AnswerInv, NEW c \in Checks, CheckWorkloads(c)
    PROVE  AnswerInv'
<1>1. c = "workload_status" /\ report[c] = "none" /\ mode' = mode /\ c \in Polling
  BY DEF CheckWorkloads, Running, Polling
<1>2. CASE ~checkFileAndContent("kubeconfig") \/ Exhausted(c) \/ ~Validate(c)
  <2>1. Decide(c, "failed") /\ poll' = poll /\ data' = data /\ row' = row
    BY <1>2 DEF CheckWorkloads, Conclude
  <2>2. report' \in [Checks -> Verdicts \cup {"none"}] /\ report'[c] = "failed"
    BY <2>1, DecideFacts DEF AnswerInv
  <2> QED BY <1>1, <2>1, <2>2, AnswerKept DEF AnswerInv
<1>3. CASE ~(~checkFileAndContent("kubeconfig") \/ Exhausted(c) \/ ~Validate(c))
  <2>1. PICK answer \in WorkloadAnswers :
           /\ poll' = [poll EXCEPT ![c] = IF mode = "watch" THEN [Counted(@, answer) EXCEPT !.successes = 0]
                                          ELSE Counted(@, answer)]
           /\ row' = IF answer # "ready" THEN 0 ELSE IF row < 1 \/ row < OkResponses THEN row + 1 ELSE row
           /\ checkWorkloadsWithConfig(c, answer)
    BY <1>3 DEF CheckWorkloads
  <2>2. poll \in [Polling -> [retries : Int, successes : Nat]]
    BY DEF AnswerInv
  <2>3. /\ poll' \in [Polling -> [retries : Int, successes : Nat]]
        /\ poll'[c].successes = 0 \/ (answer = "ready" /\ poll'[c].successes = poll[c].successes + 1)
    BY <1>1, <2>1, <2>2, PollTypes
  <2>4. row' \in Nat
    BY <2>1 DEF AnswerInv
  <2>5. Enough(poll["workload_status"].successes)'
    BY <1>1, <2>1, <2>2, <2>3, <2>4, StatusOptions DEF AnswerInv, Enough
  <2>6. CASE report' = report
    BY <1>1, <2>3, <2>4, <2>5, <2>6 DEF AnswerInv, SuccessWasAnswered
  <2>7. CASE Poll(c, answer) # "more"
    <3>1. PICK v \in {"success", "failed"} :
             Decide(c, v) /\ (v = "success" => Poll(c, answer) = "done" /\ data'.ok = "yes")
      BY <2>1, <2>7 DEF checkWorkloadsWithConfig, Conclude
    <3>2. report' \in [Checks -> Verdicts \cup {"none"}] /\ report'[c] = v
      BY <3>1, DecideFacts DEF AnswerInv
    <3>3. CASE v = "failed"
      BY <1>1, <2>3, <2>4, <2>5, <3>2, <3>3 DEF AnswerInv, SuccessWasAnswered
    <3>4. CASE v = "success"
      <4>0. /\ mode \in {"wait", "once", "watch"} /\ ModeOf(c) = mode
            /\ Validate(c) /\ (HasLoop(c) <=> mode # "once")
        BY <1>1, <1>3 DEF AnswerInv, Validate, HasLoop, ModeOf
      <4>1. mode \in {"once", "wait"} /\ answer # "error"
        BY <3>1, <3>4, <4>0 DEF Poll
      <4>2. answer = "ready" /\ data'.unready = NotReady
        BY <2>1, <3>1, <3>4, <4>1 DEF checkWorkloadsWithConfig, SetWorkloads
      <4>3. NotReady = {}
        BY <4>2 DEF WorkloadAnswers
      <4>4. mode = "wait" => poll[c].successes + 1 >= OkResponses
        BY <1>1, <3>1, <3>4, <4>0 DEF Poll, OkResponsesOf
      <4>5. row' >= 1 /\ (mode = "wait" => row' >= OkResponses)
        BY <1>1, <2>1, <2>2, <4>2, <4>4, StatusOptions DEF AnswerInv, Enough
      <4>6. SuccessWasAnswered'
        BY <1>1, <4>1, <4>2, <4>3, <4>5 DEF SuccessWasAnswered
      <4> QED BY <1>1, <2>3, <2>4, <2>5, <3>2, <4>6 DEF AnswerInv
    <3> QED BY <3>1, <3>3, <3>4
  <2>8. report' = report \/ Poll(c, answer) # "more"
    BY <2>1 DEF checkWorkloadsWithConfig, reportVars
  <2> QED BY <2>6, <2>7, <2>8
<1> QED BY <1>2, <1>3

LEMMA IkniteServerInd ==
    ASSUME AnswerInv, NEW c \in Checks, CheckIkniteServerHealth(c)
    PROVE  AnswerInv'
<1>1. c = "iknite_server_health" /\ c \in Polling /\ mode' = mode /\ data' = data /\ row' = row
  BY DEF CheckIkniteServerHealth, Polling
<1>2. /\ poll' = poll \/ \E answer \in IkniteServerAnswers : poll' = [poll EXCEPT ![c] = Counted(@, answer)]
      /\ report' = report \/ \E v \in {"success", "failed"} : Decide(c, v)
  BY DEF CheckIkniteServerHealth, Conclude, reportVars
<1>3. poll \in [Polling -> [retries : Int, successes : Nat]]
  BY DEF AnswerInv
<1>4. /\ poll' \in [Polling -> [retries : Int, successes : Nat]]
      /\ poll'["workload_status"] = poll["workload_status"]
  <2>1. CASE poll' = poll
    BY <1>3, <2>1
  <2>2. ASSUME NEW answer, poll' = [poll EXCEPT ![c] = Counted(poll[c], answer)]
        PROVE  <1>4!:
    <3>1. Counted(poll[c], answer) \in [retries : Int, successes : Nat]
      BY <1>1, <1>3, PollTypes, Zenon
    <3>2. "workload_status" \in Polling /\ c # "workload_status"
      BY <1>1 DEF Polling
    <3> QED BY <1>1, <1>3, <2>2, <3>1, <3>2
  <2> QED BY <1>2, <2>1, <2>2
<1>5. /\ report' \in [Checks -> Verdicts \cup {"none"}]
      /\ report'["workload_status"] = report["workload_status"]
  BY <1>1, <1>2, DecideFacts, WorkloadLeaf DEF AnswerInv
<1> QED BY <1>1, <1>4, <1>5, AnswerKept

LEMMA OtherCheckInd ==
    ASSUME AnswerInv, NEW c \in Checks,
           \/ Framework(c) \/ CheckOnce(c) \/ PollCancelled(c)
           \/ ReadPidFile(c) \/ RemovePidFile(c)
    PROVE  AnswerInv'
<1>1. mode' = mode /\ row' = row /\ data' = data /\ poll' = poll
  BY FrameworkFrame, Zenon DEF ReadPidFile, RemovePidFile
<1>2. report' = report \/ \E v : Decide(c, v) /\ (c = "workload_status" => v # "success")
  <2>1. CASE Framework(c)
    <3>1. \/ Decide(c, "skipped") \/ Decide(c, "aborted")
          \/ Phase[c] # {} /\ Decide(c, PhaseVerdict(c))
      BY <2>1 DEF Framework
    <3>2. CASE Decide(c, "skipped") \/ Decide(c, "aborted")
      BY <3>2
    <3>3. CASE Phase[c] # {} /\ Decide(c, PhaseVerdict(c))
      <4>1. c # "workload_status"
        BY <3>3, WorkloadIsNoPhase
      <4> QED BY <3>3, <4>1
    <3> QED BY <3>1, <3>2, <3>3
  <2>2. CASE CheckOnce(c)
    <3>1. c # "workload_status" /\ \E v : Decide(c, v)
      BY <2>2 DEF CheckOnce, LooksOnce, Polling, Conclude
    <3> QED BY <3>1
  <2>3. CASE PollCancelled(c)
    BY <2>3 DEF PollCancelled, Conclude
  <2>4. CASE ReadPidFile(c) \/ RemovePidFile(c)
    <3>1. c # "workload_status" /\ (report' = report \/ \E v : Decide(c, v))
      BY <2>4 DEF ReadPidFile, RemovePidFile, Conclude, reportVars
    <3> QED BY <3>1
  <2> QED BY <2>1, <2>2, <2>3, <2>4
<1>3. report \in [Checks -> Verdicts \cup {"none"}]
  BY DEF AnswerInv
<1>4. /\ report' \in [Checks -> Verdicts \cup {"none"}]
      /\ report'["workload_status"] = "success" => report["workload_status"] = "success"
  BY <1>2, <1>3, DecideFacts, WorkloadLeaf
<1>5. poll' \in [Polling -> [retries : Int, successes : Nat]]
  BY <1>1 DEF AnswerInv
<1> QED BY <1>1, <1>4, <1>5, AnswerKept

\* What the polls have counted is what the last answers were.
THEOREM AnswerInvariance == StatusSpec => []AnswerInv
<1>1. StatusInit => AnswerInv
  <2> SUFFICES ASSUME StatusInit PROVE AnswerInv
    OBVIOUS
  <2>1. report = [c \in Checks |-> "none"] /\ mode \in Modes /\ row = 0 /\ poll = [c \in Polling |-> NewCounters]
    BY DEF StatusInit, ReportInit
  <2>2. poll \in [Polling -> [retries : Int, successes : Nat]] /\ poll["workload_status"].successes = 0
    BY <2>1, StatusOptions DEF NewCounters, Polling
  <2>3. SuccessWasAnswered /\ report \in [Checks -> Verdicts \cup {"none"}]
    BY <2>1, WorkloadLeaf DEF SuccessWasAnswered
  <2> QED BY <2>1, <2>2, <2>3, StatusOptions DEF AnswerInv, Enough
<1>2. AnswerInv /\ [StatusNext]_statusVars => AnswerInv'
  <2> SUFFICES ASSUME AnswerInv, [StatusNext]_statusVars PROVE AnswerInv'
    OBVIOUS
  <2>1. ASSUME NEW c \in Checks, StatusGoroutine(c) PROVE AnswerInv'
    BY <2>1, CheckWorkloadsInd, IkniteServerInd, OtherCheckInd DEF StatusGoroutine
  <2>2. CASE Interrupt \/ FactChanges \/ KubeletChanges
    BY <2>2, EnvironmentFrame, AnswerKept DEF AnswerInv
  <2>3. CASE UNCHANGED statusVars
    BY <2>3, AnswerKept DEF statusVars, reportVars, runVars, AnswerInv
  <2> QED BY <2>1, <2>2, <2>3 DEF StatusNext
<1> QED BY <1>1, <1>2, PTL DEF StatusSpec

\* Every success of the workload check stands on as many good answers in a row as were
\* asked for, and at least one, in the modes that can end with one: for every tree, host and
\* all options.
THEOREM SuccessIsEarned == StatusSpec => []SuccessWasAnswered
<1>1. AnswerInv => SuccessWasAnswered
  BY DEF AnswerInv
<1> QED BY <1>1, AnswerInvariance, PTL

----------------------------------------------------------------------------
(* ReportIsTrue: the tree of phases.go, the verdicts, the phases.           *)

\* The names of phases.go, as sets.
ConfigurationNames ==
    {"pki", "manifests", "kubelet_conf", "admin_conf", "kubelet_config",
     "kubeadm_flags", "iknite_conf", "api_backend_data"}
ManifestNames == {"manifest_backend", "manifest_apiserver", "manifest_controller", "manifest_scheduler"}
RuntimeNames ==
    {"openrc", "iknite_running", "containerd_running", "buildkitd_running",
     "kubelet_running", "kubelet_health", "apiserver_health", "iknite_server_health"}

LEMMA ConfigurationRange == Range(PhaseList("configuration")) = ConfigurationNames
<1> DEFINE l == NewConfigurationCheckPhase
<1>1. DOMAIN l = 1..8
  BY DEF NewConfigurationCheckPhase
<1>2. /\ l[1] = "pki" /\ l[2] = "manifests" /\ l[3] = "kubelet_conf" /\ l[4] = "admin_conf"
      /\ l[5] = "kubelet_config" /\ l[6] = "kubeadm_flags" /\ l[7] = "iknite_conf" /\ l[8] = "api_backend_data"
  BY DEF NewConfigurationCheckPhase
<1>3. PhaseList("configuration") = l
  BY DEF PhaseList
<1> HIDE DEF l
<1>4. 1..8 = {1, 2, 3, 4, 5, 6, 7, 8}
  OBVIOUS
<1> QED BY <1>1, <1>2, <1>3, <1>4 DEF Range, ConfigurationNames

LEMMA ManifestsRange == Range(PhaseList("manifests")) = ManifestNames
<1> DEFINE l == ManifestsPhase
<1>1. DOMAIN l = 1..4
  BY DEF ManifestsPhase
<1>2. /\ l[1] = "manifest_backend" /\ l[2] = "manifest_apiserver"
      /\ l[3] = "manifest_controller" /\ l[4] = "manifest_scheduler"
  BY DEF ManifestsPhase
<1>3. PhaseList("manifests") = l
  BY DEF PhaseList
<1> HIDE DEF l
<1>4. 1..4 = {1, 2, 3, 4}
  OBVIOUS
<1> QED BY <1>1, <1>2, <1>3, <1>4 DEF Range, ManifestNames

LEMMA RuntimeRange == Range(PhaseList("runtime")) = RuntimeNames
<1> DEFINE l == NewRuntimeCheckPhase
<1>1. DOMAIN l = 1..8
  BY DEF NewRuntimeCheckPhase
<1>2. /\ l[1] = "openrc" /\ l[2] = "iknite_running" /\ l[3] = "containerd_running"
      /\ l[4] = "buildkitd_running" /\ l[5] = "kubelet_running" /\ l[6] = "kubelet_health"
      /\ l[7] = "apiserver_health" /\ l[8] = "iknite_server_health"
  BY DEF NewRuntimeCheckPhase
<1>3. PhaseList("runtime") = l
  BY DEF PhaseList
<1> HIDE DEF l
<1>4. 1..8 = {1, 2, 3, 4, 5, 6, 7, 8}
  OBVIOUS
<1> QED BY <1>1, <1>2, <1>3, <1>4 DEF Range, RuntimeNames

\* The three phases have the sub-checks of the instance, all other checks have none.
LEMMA PhasesOfTree ==
    /\ "configuration" \in Checks =>
         Phase["configuration"] = ConfigurationNames \cap Checks /\ Phase["configuration"] # {}
    /\ "manifests" \in Checks =>
         Phase["manifests"] = ManifestNames \cap Checks /\ Phase["manifests"] # {}
    /\ Phase["runtime"] = RuntimeNames \cap Checks /\ Phase["runtime"] # {}
    /\ \A c \in Checks : c \notin {"configuration", "manifests", "runtime"} => Phase[c] = {}
    /\ \A c \in Checks : Phase[c] \subseteq Checks
<1>1. /\ PhaseList("configuration") # <<>> /\ PhaseList("manifests") # <<>> /\ PhaseList("runtime") # <<>>
  BY DEF PhaseList, NewConfigurationCheckPhase, ManifestsPhase, NewRuntimeCheckPhase
<1>2. ASSUME NEW c, c \notin {"configuration", "manifests", "runtime"} PROVE Range(PhaseList(c)) = {}
  <2>1. DOMAIN PhaseList(c) = {}
    BY <1>2 DEF PhaseList
  <2> QED BY <2>1 DEF Range
<1> QED BY <1>1, <1>2, ConfigurationRange, ManifestsRange, RuntimeRange, StatusTree

LEMMA SingleRange == ASSUME NEW e PROVE Range(<<e>>) = {e}
<1>1. DOMAIN <<e>> = {1} /\ <<e>>[1] = e
  OBVIOUS
<1> QED BY <1>1 DEF Range

LEMMA NeedsOfTree ==
    ASSUME NEW c \in Checks
    PROVE  /\ c \in ConfigurationNames \cup ManifestNames \cup {"configuration", "runtime", "openrc"} => Needs[c] = {}
           /\ c \in OpenRCServices => Needs[c] = {"openrc"} \cap Checks
           /\ c = "kubelet_running" => Needs[c] = {"iknite_running"} \cap Checks
           /\ c \in {"kubelet_health", "apiserver_health"} => Needs[c] = {"kubelet_running"} \cap Checks
           /\ c = "iknite_server_health" => Needs[c] = {"apiserver_health"} \cap Checks
           /\ c = "workload_status" => Needs[c] = {"runtime"}
<1>1. Needs[c] = Range(StatusDependsOn[c]) \cap Checks
  BY StatusTree DEF Needs
<1>2. ASSUME c \in ConfigurationNames \cup ManifestNames \cup {"configuration", "runtime", "openrc"}
      PROVE  Needs[c] = {}
  <2>1. StatusDependsOn[c] = <<>>
    BY <1>2 DEF StatusDependsOn, OpenRCServices, ConfigurationNames, ManifestNames
  <2>2. DOMAIN StatusDependsOn[c] = {}
    BY <2>1
  <2> QED BY <1>1, <2>2 DEF Range
<1>3. ASSUME c \in OpenRCServices PROVE Needs[c] = {"openrc"} \cap Checks
  <2>1. StatusDependsOn[c] = <<"openrc">>
    BY <1>3 DEF StatusDependsOn, OpenRCServices
  <2> QED BY <1>1, <2>1, SingleRange
<1>4. ASSUME c = "kubelet_running" PROVE Needs[c] = {"iknite_running"} \cap Checks
  <2>1. StatusDependsOn[c] = <<"iknite_running">>
    BY <1>4 DEF StatusDependsOn, OpenRCServices
  <2> QED BY <1>1, <2>1, SingleRange
<1>5. ASSUME c \in {"kubelet_health", "apiserver_health"} PROVE Needs[c] = {"kubelet_running"} \cap Checks
  <2>1. StatusDependsOn[c] = <<"kubelet_running">>
    BY <1>5 DEF StatusDependsOn, OpenRCServices
  <2> QED BY <1>1, <2>1, SingleRange
<1>6. ASSUME c = "iknite_server_health" PROVE Needs[c] = {"apiserver_health"} \cap Checks
  <2>1. StatusDependsOn[c] = <<"apiserver_health">>
    BY <1>6 DEF StatusDependsOn, OpenRCServices
  <2> QED BY <1>1, <2>1, SingleRange
<1>7. ASSUME c = "workload_status" PROVE Needs[c] = {"runtime"}
  <2>1. StatusDependsOn[c] = <<"runtime">>
    BY <1>7 DEF StatusDependsOn, OpenRCServices
  <2>2. "runtime" \in Checks
    BY StatusTree
  <2> QED BY <1>1, <2>1, <2>2, SingleRange
<1> QED BY <1>2, <1>3, <1>4, <1>5, <1>6, <1>7

\* A right verdict stays right as long as what the check looked at stays.
LEMMA RightStays ==
    ASSUME NEW c \in Checks, RightVerdict(c), report[c] # "none",
           \A d \in Checks : report[d] # "none" => report'[d] = report[d],
           facts' = facts, mode' = mode, pid' = "live" <=> pid = "live"
    PROVE  RightVerdict(c)'
<1>1. report'[c] = report[c]
  OBVIOUS
<1>2. Needs[c] \subseteq Checks /\ Phase[c] \subseteq Checks
  BY PhasesOfTree DEF Needs
<1>3. Met(c) => Met(c)'
  BY <1>2 DEF Met
<1>4. Skipped(c) => Skipped(c)'
  BY <1>2 DEF Skipped
<1>5. Ended(c) => Ended(c)' /\ PhaseVerdict(c)' = PhaseVerdict(c)
  <2> SUFFICES ASSUME Ended(c) PROVE Ended(c)' /\ PhaseVerdict(c)' = PhaseVerdict(c)
    OBVIOUS
  <2>1. \A s \in Phase[c] : report'[s] = report[s]
    BY <1>2 DEF Ended
  <2> QED BY <2>1 DEF Ended, PhaseVerdict
<1>6. Holds(c)' <=> Holds(c)
  BY DEF Holds, Verdict, checkFileAndContent, NotReady, checkFileTree, checkApiBackendData,
         checkOpenRCStarted, IsServiceStarted, CheckKubeletHealth, CheckApiServerHealth, Missing, Extra
<1> QED BY <1>1, <1>3, <1>4, <1>5, <1>6, Zenon DEF RightVerdict

\* A verdict given without a cancellation is right when a leaf gives the right one.
LEMMA RightIsGiven ==
    ASSUME report \in [Checks -> Verdicts \cup {"none"}], cancelled = "no",
           NEW c \in Checks, NEW v, Decide(c, v),
           \A d \in Checks : RightVerdict(d),
           Phase[c] = {} /\ v \in {"success", "failed"} =>
              (c = "workload_status" /\ mode = "both") \/ (v = "success" <=> Holds(c)),
           facts' = facts, mode' = mode, pid' = "live" <=> pid = "live"
    PROVE  \A d \in Checks : RightVerdict(d)'
<1>1. /\ report[c] = "none" /\ report'[c] = v
      /\ \A d \in Checks : d # c => report'[d] = report[d]
  BY DecideFacts
<1>2. \A d \in Checks : report[d] # "none" => report'[d] = report[d]
  BY <1>1
<1>3. ASSUME NEW d \in Checks, d # c PROVE RightVerdict(d)'
  <2>1. CASE report[d] # "none"
    BY <1>2, <2>1, RightStays
  <2>2. CASE report[d] = "none"
    <3>1. report'[d] = "none"
      BY <1>1, <1>3, <2>2
    <3> QED BY <3>1, Zenon DEF RightVerdict
  <2> QED BY <2>1, <2>2
<1>4. RightVerdict(c)'
  <2>1. Needs[c] \subseteq Checks /\ Phase[c] \subseteq Checks
    BY PhasesOfTree DEF Needs
  <2>0. Met(c) => Met(c)'
    <3>1. \A q \in Needs[c] : report[q] = "success" => report'[q] = "success"
      BY <1>2, <2>1
    <3> QED BY <3>1 DEF Met
  <2>2. Holds(c)' <=> Holds(c)
    BY DEF Holds, Verdict, checkFileAndContent, NotReady, checkFileTree, checkApiBackendData,
           checkOpenRCStarted, IsServiceStarted, CheckKubeletHealth, CheckApiServerHealth, Missing, Extra
  <2>3. \/ Skipped(c) /\ v = "skipped"
        \/ Met(c) /\ Ended(c) /\ v = PhaseVerdict(c)
        \/ Met(c) /\ Phase[c] = {} /\ v \in {"success", "failed"}
    BY DEF Decide
  <2>4. CASE Skipped(c) /\ v = "skipped"
    <3>1. Skipped(c)'
      BY <1>2, <2>1, <2>4 DEF Skipped
    <3> QED BY <1>1, <2>4, <3>1, Zenon DEF RightVerdict
  <2>5. CASE Met(c) /\ Ended(c) /\ v = PhaseVerdict(c)
    <3>1. Met(c)'
      BY <2>0, <2>5
    <3>2. \A s \in Phase[c] : report'[s] = report[s]
      BY <1>2, <2>1, <2>5 DEF Ended
    <3>3. Ended(c)' /\ PhaseVerdict(c)' = PhaseVerdict(c) /\ Phase[c] # {}
      BY <2>5, <3>2 DEF Ended, PhaseVerdict
    <3>4. v \in {"success", "failed"}
      BY <2>5 DEF PhaseVerdict
    <3> QED BY <1>1, <2>5, <3>1, <3>3, <3>4, Zenon DEF RightVerdict
  <2>6. CASE Met(c) /\ Phase[c] = {} /\ v \in {"success", "failed"}
    <3>1. Met(c)'
      BY <2>0, <2>6
    <3> QED BY <1>1, <2>2, <2>6, <3>1, Zenon DEF RightVerdict
  <2> QED BY <2>3, <2>4, <2>5, <2>6
<1> QED BY <1>3, <1>4

\* A function that looks once gives the verdict of what it looks at.
LEMMA FrameworkRight ==
    ASSUME AnswerInv, ReportInv, Undisturbed, NEW c \in Checks, Framework(c) \/ CheckOnce(c)
    PROVE  \A d \in Checks : RightVerdict(d)'
<1>1. /\ report \in [Checks -> Verdicts \cup {"none"}] /\ cancelled = "no"
      /\ \A d \in Checks : RightVerdict(d)
  BY DEF AnswerInv, ReportInv, Undisturbed
<1>2. facts' = facts /\ mode' = mode /\ pid' = pid
  BY DEF Framework, CheckOnce, hostVars, runVars
<1>3. CASE Framework(c)
  <2>1. PICK v : Decide(c, v) /\ (v \in {"skipped", "aborted"} \/ Phase[c] # {})
    BY <1>3 DEF Framework
  <2> QED BY <1>1, <1>2, <2>1, RightIsGiven
<1>4. CASE CheckOnce(c)
  <2>1. Holds(c) <=> Verdict(c)
    BY <1>4 DEF CheckOnce, LooksOnce, Polling, Holds
  <2>2. PICK v \in {"success", "failed"} : Decide(c, v) /\ (v = "success" <=> Verdict(c))
    BY <1>4 DEF CheckOnce, Conclude
  <2> QED BY <1>1, <1>2, <2>1, <2>2, RightIsGiven
<1> QED BY <1>3, <1>4

\* The kubelet check is right about the kubelet, in one step or in two.
LEMMA KubeletRight ==
    ASSUME AnswerInv, ReportInv, Undisturbed, NEW c \in Checks, ReadPidFile(c) \/ RemovePidFile(c)
    PROVE  /\ \A d \in Checks : RightVerdict(d)'
           /\ held' \in {"unread", "stale"} /\ (held' = "stale" => pid' # "live")
<1>1. /\ report \in [Checks -> Verdicts \cup {"none"}] /\ cancelled = "no"
      /\ \A d \in Checks : RightVerdict(d)
      /\ held \in {"unread", "stale"} /\ (held = "stale" => pid # "live")
  BY DEF AnswerInv, ReportInv, Undisturbed
<1>2. c = "kubelet_running" /\ facts' = facts /\ mode' = mode
  BY Zenon DEF ReadPidFile, RemovePidFile, hostVars
<1>3. Holds(c) <=> pid = "live"
  BY <1>2 DEF Holds
<1>4. CASE ReadPidFile(c) /\ pid = "stale"
  <2>1. report' = report /\ held' = "stale" /\ pid' = pid
    BY <1>4 DEF ReadPidFile, reportVars, hostVars
  <2>2. ASSUME NEW d \in Checks PROVE RightVerdict(d)'
    <3>1. CASE report[d] = "none"
      BY <2>1, <3>1 DEF RightVerdict
    <3>2. CASE report[d] # "none"
      BY <1>1, <1>2, <2>1, <3>2, RightStays
    <3> QED BY <3>1, <3>2
  <2> QED BY <1>4, <2>1, <2>2
<1>5. CASE ReadPidFile(c) /\ pid # "stale"
  <2>1. PICK v \in {"success", "failed"} : Decide(c, v) /\ (v = "success" <=> pid = "live")
    BY <1>5 DEF ReadPidFile, Conclude
  <2>2. pid' = pid /\ held' = held
    BY <1>5 DEF ReadPidFile, hostVars
  <2>3. \A d \in Checks : RightVerdict(d)'
    BY <1>1, <1>2, <1>3, <2>1, <2>2, RightIsGiven
  <2> QED BY <1>1, <2>2, <2>3
<1>6. CASE RemovePidFile(c)
  <2>1. Decide(c, "failed") /\ held' = held /\ held \in {"stale", "replaced"}
    BY <1>6 DEF RemovePidFile, Conclude
  <2>2. pid # "live"
    BY <1>1, <2>1
  <2>3. pid' # "live"
    BY <1>6, <2>2 DEF RemovePidFile
  <2>4. \A d \in Checks : RightVerdict(d)'
    BY <1>1, <1>2, <1>3, <2>1, <2>2, <2>3, RightIsGiven
  <2> QED BY <1>1, <2>1, <2>3, <2>4
<1> QED BY <1>4, <1>5, <1>6

\* One request of the check of the iknite server.
LEMMA IkniteServerRight ==
    ASSUME AnswerInv, ReportInv, Undisturbed, Undisturbed', NEW c \in Checks, CheckIkniteServerHealth(c)
    PROVE  /\ \A d \in Checks : RightVerdict(d)'
           /\ \A d \in Polling : poll'[d].retries = Retries
<1>1. /\ report \in [Checks -> Verdicts \cup {"none"}] /\ cancelled = "no"
      /\ \A d \in Checks : RightVerdict(d)
      /\ \A d \in Polling : poll[d].retries = Retries
      /\ poll \in [Polling -> [retries : Int, successes : Nat]]
  BY DEF AnswerInv, ReportInv, Undisturbed
<1>2. /\ c = "iknite_server_health" /\ c \in Polling /\ c # "workload_status"
      /\ facts' = facts /\ mode' = mode /\ pid' = pid /\ Phase[c] = {}
  BY PhasesOfTree DEF CheckIkniteServerHealth, hostVars, Polling
<1>3. Holds(c) <=> checkFileAndContent("iknite_local_conf") /\ checkFileAndContent("iknite_server")
  BY <1>2 DEF Holds
<1>4. ~Exhausted(c)
  BY <1>1, <1>2, StatusOptions DEF Exhausted
<1>5. CASE ~checkFileAndContent("iknite_local_conf")
  <2>1. Decide(c, "failed") /\ poll' = poll
    BY <1>5 DEF CheckIkniteServerHealth, Conclude
  <2>2. \A d \in Checks : RightVerdict(d)'
    BY <1>1, <1>2, <1>3, <1>5, <2>1, RightIsGiven
  <2> QED BY <1>1, <2>1, <2>2
<1>6. CASE checkFileAndContent("iknite_local_conf")
  <2>1. PICK answer \in IkniteServerAnswers :
           /\ poll' = [poll EXCEPT ![c] = Counted(@, answer)]
           /\ erred' = IF answer = "error" THEN "yes" ELSE erred
           /\ CASE Poll(c, answer) = "more" -> UNCHANGED reportVars
                [] OTHER -> Conclude(c, Poll(c, answer) = "done")
    BY <1>4, <1>6, Zenon DEF CheckIkniteServerHealth
  <2>2. answer = "ready" /\ checkFileAndContent("iknite_server")
    BY <2>1 DEF Undisturbed, IkniteServerAnswers
  <2>3. \A d \in Polling : poll'[d].retries = Retries
    BY <1>1, <1>2, <2>1, <2>2 DEF Counted
  <2>4. Poll(c, answer) = "done"
    BY <1>1, <1>2, <2>2, StatusOptions DEF Poll, Validate, HasLoop, ModeOf, OkResponsesOf
  <2>5. Decide(c, "success")
    BY <2>1, <2>4 DEF Conclude
  <2>6. \A d \in Checks : RightVerdict(d)'
    BY <1>1, <1>2, <1>3, <1>6, <2>2, <2>5, RightIsGiven
  <2> QED BY <2>3, <2>6
<1> QED BY <1>5, <1>6

\* One answer about the workloads.
LEMMA WorkloadsRight ==
    ASSUME AnswerInv, ReportInv, Undisturbed, Undisturbed', NEW c \in Checks, CheckWorkloads(c)
    PROVE  /\ \A d \in Checks : RightVerdict(d)'
           /\ \A d \in Polling : poll'[d].retries = Retries
<1>1. /\ report \in [Checks -> Verdicts \cup {"none"}] /\ cancelled = "no"
      /\ \A d \in Checks : RightVerdict(d)
      /\ \A d \in Polling : poll[d].retries = Retries
      /\ poll \in [Polling -> [retries : Int, successes : Nat]]
  BY DEF AnswerInv, ReportInv, Undisturbed
<1>2. /\ c = "workload_status" /\ c \in Polling
      /\ facts' = facts /\ mode' = mode /\ pid' = pid
  BY DEF CheckWorkloads, hostVars, Polling
<1>3. Holds(c) <=> checkFileAndContent("kubeconfig") /\ NotReady = {}
  BY <1>2 DEF Holds
<1>4. ~Exhausted(c)
  BY <1>1, <1>2, StatusOptions DEF Exhausted
<1>5. CASE ~checkFileAndContent("kubeconfig") \/ ~Validate(c)
  <2>1. Decide(c, "failed") /\ poll' = poll
    BY <1>5 DEF CheckWorkloads, Conclude
  <2>2. mode = "both" \/ ~Holds(c)
    BY <1>2, <1>3, <1>5 DEF Validate, ModeOf
  <2>3. \A d \in Checks : RightVerdict(d)'
    BY <1>1, <1>2, <2>1, <2>2, RightIsGiven, Zenon
  <2> QED BY <1>1, <2>1, <2>3
<1>6. CASE checkFileAndContent("kubeconfig") /\ Validate(c)
  <2>1. PICK answer \in WorkloadAnswers :
           /\ poll' = [poll EXCEPT ![c] = IF mode = "watch" THEN [Counted(@, answer) EXCEPT !.successes = 0]
                                          ELSE Counted(@, answer)]
           /\ erred' = IF answer = "error" THEN "yes" ELSE erred
           /\ checkWorkloadsWithConfig(c, answer)
    BY <1>4, <1>6, Zenon DEF CheckWorkloads
  <2>2. answer = IF NotReady = {} THEN "ready" ELSE "unready"
    BY <2>1 DEF Undisturbed, WorkloadAnswers
  <2>3. \A d \in Polling : poll'[d].retries = Retries
    BY <1>1, <1>2, <2>1, <2>2 DEF Counted
  <2>4. data'.ok = "yes" <=> NotReady = {}
    BY <2>1, <2>2 DEF checkWorkloadsWithConfig, SetWorkloads
  <2>5. Poll(c, answer) \in {"more", "done"}
    BY <1>6, <2>2 DEF Poll
  <2>6. CASE Poll(c, answer) = "more"
    <3>1. report' = report
      BY <2>1, <2>6 DEF checkWorkloadsWithConfig, reportVars
    <3>2. ASSUME NEW d \in Checks PROVE RightVerdict(d)'
      <4>1. CASE report[d] = "none"
        BY <3>1, <4>1 DEF RightVerdict
      <4>2. CASE report[d] # "none"
        BY <1>1, <1>2, <3>1, <4>2, RightStays
      <4> QED BY <4>1, <4>2
    <3> QED BY <2>3, <3>2
  <2>7. CASE Poll(c, answer) = "done"
    <3>1. PICK v \in {"success", "failed"} : Decide(c, v) /\ (v = "success" <=> data'.ok = "yes")
      BY <2>1, <2>7 DEF checkWorkloadsWithConfig, Conclude
    <3>2. \A d \in Checks : RightVerdict(d)'
      BY <1>1, <1>2, <1>3, <1>6, <2>4, <3>1, RightIsGiven
    <3> QED BY <2>3, <3>2
  <2> QED BY <2>5, <2>6, <2>7
<1> QED BY <1>5, <1>6

\* A step that leaves the checks undisturbed found them so.
LEMMA WasUndisturbed ==
    ASSUME ReportInv, [StatusNext]_statusVars, Undisturbed'
    PROVE  Undisturbed /\ ~Interrupt /\ ~FactChanges /\ ~KubeletChanges
<1>1. changes \in Nat
  BY DEF ReportInv
<1>2. ~Interrupt /\ ~FactChanges /\ ~KubeletChanges
  BY <1>1 DEF Undisturbed, Interrupt, FactChanges, KubeletChanges
<1>3. ASSUME NEW c \in Checks, StatusGoroutine(c)
      PROVE  changes' = changes /\ cancelled' = cancelled /\ (erred' = erred \/ erred' = "yes")
  <2>1. changes' = changes /\ (erred' = erred \/ erred' = "yes")
    BY <1>3, Zenon DEF StatusGoroutine, Framework, CheckOnce, ReadPidFile, RemovePidFile,
                CheckIkniteServerHealth, CheckWorkloads, PollCancelled, hostVars, runVars
  <2>2. cancelled' = cancelled
    BY <1>3 DEF StatusGoroutine, Framework, CheckOnce, ReadPidFile, RemovePidFile,
                CheckIkniteServerHealth, CheckWorkloads, PollCancelled, checkWorkloadsWithConfig,
                Conclude, Decide, reportVars
  <2> QED BY <2>1, <2>2
<1>4. CASE UNCHANGED statusVars
  BY <1>2, <1>4 DEF statusVars, reportVars, hostVars, runVars, Undisturbed
<1>5. CASE StatusNext
  BY <1>2, <1>3, <1>5 DEF StatusNext, Undisturbed
<1> QED BY <1>4, <1>5

LEMMA ReportStep ==
    ASSUME AnswerInv, ReportInv, [StatusNext]_statusVars
    PROVE  ReportInv'
<1>1. changes' \in Nat /\ facts' \subseteq Facts
  <2>1. changes \in Nat /\ facts \subseteq Facts
    BY DEF ReportInv
  <2>2. CASE Interrupt \/ FactChanges \/ KubeletChanges
    BY <2>1, <2>2 DEF Interrupt, FactChanges, KubeletChanges
  <2>3. ASSUME NEW c \in Checks, StatusGoroutine(c) PROVE changes' = changes /\ facts' = facts
    BY <2>3, Zenon DEF StatusGoroutine, Framework, CheckOnce, ReadPidFile, RemovePidFile,
                CheckIkniteServerHealth, CheckWorkloads, PollCancelled, hostVars
  <2>4. CASE UNCHANGED statusVars
    BY <2>1, <2>4 DEF statusVars, hostVars
  <2> QED BY <2>1, <2>2, <2>3, <2>4 DEF StatusNext
<1>2. Undisturbed' =>
         /\ held' \in {"unread", "stale"} /\ (held' = "stale" => pid' # "live")
         /\ \A c \in Polling : poll'[c].retries = Retries
         /\ \A c \in Checks : RightVerdict(c)'
  <2> SUFFICES ASSUME Undisturbed' PROVE <1>2!2
    OBVIOUS
  <2>1. Undisturbed /\ ~Interrupt /\ ~FactChanges /\ ~KubeletChanges
    BY WasUndisturbed
  <2>2. /\ held \in {"unread", "stale"} /\ (held = "stale" => pid # "live")
        /\ \A c \in Polling : poll[c].retries = Retries
        /\ \A c \in Checks : RightVerdict(c)
    BY <2>1 DEF ReportInv
  <2>3. ASSUME NEW c \in Checks, Framework(c) \/ CheckOnce(c) PROVE <1>2!2
    <3>1. held' = held /\ pid' = pid /\ poll' = poll
      BY <2>3, FrameworkFrame
    <3>2. \A d \in Checks : RightVerdict(d)'
      BY <2>1, <2>3, FrameworkRight
    <3> QED BY <2>2, <3>1, <3>2
  <2>4. ASSUME NEW c \in Checks, ReadPidFile(c) \/ RemovePidFile(c) PROVE <1>2!2
    <3>1. poll' = poll
      BY <2>4, Zenon DEF ReadPidFile, RemovePidFile
    <3> QED BY <2>1, <2>2, <2>4, <3>1, KubeletRight
  <2>5. ASSUME NEW c \in Checks, CheckIkniteServerHealth(c) \/ CheckWorkloads(c) PROVE <1>2!2
    <3>1. held' = held /\ pid' = pid
      BY <2>5, Zenon DEF CheckIkniteServerHealth, CheckWorkloads, hostVars
    <3>2. (\A d \in Checks : RightVerdict(d)') /\ \A d \in Polling : poll'[d].retries = Retries
      BY <2>1, <2>5, IkniteServerRight, WorkloadsRight
    <3> QED BY <2>2, <3>1, <3>2
  <2>6. ASSUME NEW c \in Checks PROVE ~PollCancelled(c)
    BY <2>1 DEF PollCancelled, Undisturbed
  <2>7. CASE UNCHANGED statusVars
    <3>1. held' = held /\ pid' = pid /\ poll' = poll /\ facts' = facts /\ report' = report /\ mode' = mode
      BY <2>7 DEF statusVars, reportVars, hostVars, runVars
    <3>2. ASSUME NEW d \in Checks PROVE RightVerdict(d)'
      <4>1. CASE report[d] = "none"
        BY <3>1, <4>1 DEF RightVerdict
      <4>2. CASE report[d] # "none"
        BY <2>2, <3>1, <4>2, RightStays
      <4> QED BY <4>1, <4>2
    <3> QED BY <2>2, <3>1, <3>2
  <2> QED BY <2>1, <2>3, <2>4, <2>5, <2>6, <2>7 DEF StatusNext, StatusGoroutine
<1> QED BY <1>1, <1>2 DEF ReportInv

\* Every verdict given before anything disturbs the checks is the right one, for every
\* host, all options and every instance of the tree of phases.go.
THEOREM ReportInvariance == StatusSpec => []ReportInv
<1>1. StatusInit => ReportInv
  <2> SUFFICES ASSUME StatusInit PROVE ReportInv
    OBVIOUS
  <2>1. changes \in Nat /\ facts \subseteq Facts /\ held = "unread" /\ poll = [c \in Polling |-> NewCounters]
    BY DEF StatusInit
  <2>2. \A c \in Checks : report[c] = "none"
    BY DEF StatusInit, ReportInit
  <2>3. \A c \in Polling : poll[c].retries = Retries
    BY <2>1 DEF NewCounters
  <2> QED BY <2>1, <2>2, <2>3 DEF ReportInv, RightVerdict
<1>2. AnswerInv /\ ReportInv /\ [StatusNext]_statusVars => ReportInv'
  BY ReportStep
<1> QED BY <1>1, <1>2, AnswerInvariance, PTL DEF StatusSpec

\* What a leaf of the two phases looks at, as a set of facts.
LeafNames == (ConfigurationNames \ {"manifests"}) \cup ManifestNames \cup (RuntimeNames \ {"kubelet_running"})

LEMMA HoldsIsFacts ==
    ASSUME NEW c \in LeafNames
    PROVE  Holds(c) <=> /\ \A f \in LooksAt(c) \ ExtraPki : checkFileAndContent(f)
                        /\ c = "pki" => ExtraPki \cap facts = {}
<1> USE DEF LeafNames, ConfigurationNames, ManifestNames, RuntimeNames, OpenRCServices
<1>1. CASE c = "pki"
  BY <1>1 DEF Holds, Verdict, LooksAt, checkFileTree, Missing, Extra, PkiFiles, ExtraPki
<1>2. CASE c = "api_backend_data"
  BY <1>2 DEF Holds, Verdict, LooksAt, checkApiBackendData, Missing, ExtraPki
<1>3. CASE c = "openrc"
  BY <1>3 DEF Holds, Verdict, LooksAt, checkOpenRCStarted, ExtraPki
<1>4. CASE c \in OpenRCServices
  BY <1>4 DEF Holds, Verdict, LooksAt, IsServiceStarted, ExtraPki
<1>5. CASE c = "kubelet_health"
  BY <1>5 DEF Holds, Verdict, LooksAt, CheckKubeletHealth, ExtraPki
<1>6. CASE c = "apiserver_health"
  BY <1>6 DEF Holds, Verdict, LooksAt, CheckApiServerHealth, Missing, ExtraPki
<1>7. CASE c = "iknite_server_health"
  BY <1>7 DEF Holds, LooksAt, ExtraPki
<1>8. CASE c \in {"kubelet_conf", "admin_conf", "kubelet_config", "kubeadm_flags", "iknite_conf"} \cup ManifestNames
  BY <1>8 DEF Holds, Verdict, LooksAt, ExtraPki
<1> QED BY <1>1, <1>2, <1>3, <1>4, <1>5, <1>6, <1>7, <1>8

\* A leaf that has ended, and was not skipped, says whether its facts hold.
LEMMA LeafVerdict ==
    ASSUME \A c \in Checks : RightVerdict(c), NEW c \in Checks, c \in LeafNames,
           report[c] \in {"success", "failed"}
    PROVE  report[c] = "success" <=> /\ \A f \in LooksAt(c) \ ExtraPki : checkFileAndContent(f)
                                     /\ c = "pki" => ExtraPki \cap facts = {}
<1>1. Phase[c] = {} /\ c # "workload_status"
  BY PhasesOfTree DEF LeafNames, ConfigurationNames, ManifestNames, RuntimeNames
<1> QED BY <1>1, HoldsIsFacts DEF RightVerdict

\* A check without dependencies is never skipped.
LEMMA NoNeedsNoSkip ==
    ASSUME AnswerInv, \A c \in Checks : RightVerdict(c), NEW c \in Checks, Needs[c] = {}, report[c] # "none"
    PROVE  report[c] \in {"success", "failed"}
BY DEF AnswerInv, RightVerdict, Skipped, Verdicts

\* The configuration phase is right both ways.
LEMMA ConfigurationIsTrue ==
    ASSUME AnswerInv, facts \subseteq Facts, \A c \in Checks : RightVerdict(c),
           "configuration" \in Checks, report["configuration"] # "none"
    PROVE  report["configuration"] = "success"
              <=> ConfigurationFacts \subseteq facts /\ ExtraPki \cap facts = {}
<1> DEFINE C == "configuration"
           M == "manifests"
<1>1. report[C] \in {"success", "failed"} /\ Ended(C) /\ report[C] = PhaseVerdict(C)
  <2>1. report[C] \in {"success", "failed"}
    BY NeedsOfTree, NoNeedsNoSkip, Zenon
  <2> QED BY <2>1, PhasesOfTree, Zenon DEF RightVerdict
<1>2. \A s \in ConfigurationNames \cap Checks : report[s] \in {"success", "failed"}
  BY <1>1, NeedsOfTree, NoNeedsNoSkip, PhasesOfTree DEF Ended
<1>3. M \in Checks => /\ Ended(M) /\ report[M] = PhaseVerdict(M)
                      /\ \A s \in ManifestNames \cap Checks : report[s] \in {"success", "failed"}
  <2> SUFFICES ASSUME M \in Checks PROVE <1>3!2
    OBVIOUS
  <2>1. report[M] \in {"success", "failed"}
    BY <1>2 DEF ConfigurationNames
  <2>2. Ended(M) /\ report[M] = PhaseVerdict(M)
    BY <2>1, PhasesOfTree DEF RightVerdict
  <2> QED BY <2>2, NeedsOfTree, NoNeedsNoSkip, PhasesOfTree DEF Ended
<1>4. ASSUME report[C] = "failed" PROVE ~(ConfigurationFacts \subseteq facts /\ ExtraPki \cap facts = {})
  <2>1. PICK s \in ConfigurationNames \cap Checks : report[s] = "failed"
    BY <1>1, <1>4, PhasesOfTree DEF PhaseVerdict
  <2>2. PICK l \in Checks : l \in (ConfigurationNames \ {M}) \cup ManifestNames /\ report[l] = "failed"
    BY <1>3, <2>1, PhasesOfTree DEF PhaseVerdict
  <2>3. l \in LeafNames
    BY <2>2 DEF LeafNames
  <2>4. (\E f \in LooksAt(l) \ ExtraPki : ~checkFileAndContent(f)) \/ ExtraPki \cap facts # {}
    BY <2>2, <2>3, LeafVerdict
  <2>5. LooksAt(l) \ ExtraPki \subseteq
          {"ca.crt", "iknite-server.crt", "manifest_backend", "manifest_apiserver", "manifest_controller",
           "manifest_scheduler", "kubelet_conf", "admin_conf", "kubelet_config", "kubeadm_flags",
           "iknite_conf", "kine.db"}
    BY <2>2 DEF LooksAt, ConfigurationNames, ManifestNames, PkiFiles, ExtraPki
  <2> QED BY <2>4, <2>5 DEF ConfigurationFacts, checkFileAndContent
<1>5. ASSUME report[C] = "success" PROVE ConfigurationFacts \subseteq facts /\ ExtraPki \cap facts = {}
  <2>1. \A s \in ConfigurationNames \cap Checks : report[s] = "success"
    BY <1>1, <1>2, <1>5, PhasesOfTree DEF PhaseVerdict
  <2>2. M \in Checks => \A s \in ManifestNames \cap Checks : report[s] = "success"
    BY <1>3, <2>1, PhasesOfTree DEF PhaseVerdict, ConfigurationNames
  <2>3. ASSUME NEW f \in Facts, NEW s \in ConfigurationNames \ {M}, f \in LooksAt(s), f \notin ExtraPki
        PROVE  f \in facts
    <3>1. s \in Checks
      BY <2>3, FactsFit, ConfigurationRange
    <3>2. s \in LeafNames /\ report[s] = "success"
      BY <2>1, <2>3, <3>1 DEF LeafNames
    <3> QED BY <2>3, <3>1, <3>2, LeafVerdict DEF checkFileAndContent
  <2>4. ASSUME NEW f \in ManifestNames \cap Facts PROVE f \in facts
    <3>1. LooksAt(f) = {f} /\ f \notin ExtraPki
      BY DEF LooksAt, ManifestNames, OpenRCServices, ExtraPki
    <3>2. f \in Checks /\ M \in Checks
      BY <3>1, FactsFit, ManifestsRange
    <3>3. f \in LeafNames /\ report[f] = "success"
      BY <2>2, <3>2 DEF LeafNames
    <3> QED BY <3>1, <3>2, <3>3, LeafVerdict DEF checkFileAndContent
  <2>5. ExtraPki \cap facts = {}
    <3> SUFFICES ASSUME NEW f \in ExtraPki, f \in facts PROVE FALSE
      OBVIOUS
    <3>1. f \in LooksAt("pki") \cap Facts /\ "pki" \in ConfigurationNames /\ "pki" # M
      BY DEF LooksAt, ConfigurationNames
    <3>2. "pki" \in Checks
      BY <3>1, FactsFit, ConfigurationRange
    <3>3. "pki" \in LeafNames /\ report["pki"] = "success"
      BY <2>1, <3>1, <3>2 DEF LeafNames
    <3> QED BY <3>2, <3>3, LeafVerdict
  <2>6. ASSUME NEW f \in ConfigurationFacts, f \notin ManifestNames
        PROVE  f \notin ExtraPki /\ \E s \in ConfigurationNames \ {M} : f \in LooksAt(s)
    <3>1. f \in {"ca.crt", "iknite-server.crt"} => f \in LooksAt("pki")
      BY DEF LooksAt, PkiFiles
    <3>2. f = "kine.db" => f \in LooksAt("api_backend_data")
      BY DEF LooksAt
    <3>3. f \in {"kubelet_conf", "admin_conf", "kubelet_config", "kubeadm_flags", "iknite_conf"} => f \in LooksAt(f)
      BY DEF LooksAt
    <3> QED BY <2>6, <3>1, <3>2, <3>3 DEF ConfigurationFacts, ConfigurationNames, ManifestNames, ExtraPki
  <2> QED BY <2>3, <2>4, <2>5, <2>6 DEF ConfigurationFacts
<1> QED BY <1>1, <1>4, <1>5

\* In a runtime phase that has ended without a failure, no check was skipped: each would
\* be behind another one that was, and the first of them depends on nothing.
LEMMA NoneSkipped ==
    ASSUME AnswerInv, \A c \in Checks : RightVerdict(c),
           \A s \in RuntimeNames \cap Checks : report[s] \notin {"none", "failed"}
    PROVE  \A s \in RuntimeNames \cap Checks : report[s] = "success"
<1> DEFINE Ok(s) == s \in Checks => report[s] = "success"
<1>0. \A s \in RuntimeNames \cap Checks : report[s] \in {"success", "skipped"}
  BY DEF AnswerInv, RightVerdict, Verdicts
<1>1. ASSUME NEW s \in RuntimeNames \cap Checks, \A p \in Needs[s] : report[p] = "success"
      PROVE  report[s] = "success"
  <2>1. ~Skipped(s)
    BY <1>1 DEF Skipped
  <2> QED BY <1>0, <2>1 DEF RightVerdict
<1>2. Ok("openrc")
  BY <1>1, NeedsOfTree DEF RuntimeNames
<1>3. \A s \in OpenRCServices : Ok(s)
  BY <1>1, <1>2, NeedsOfTree DEF RuntimeNames, OpenRCServices
<1>4. Ok("kubelet_running")
  BY <1>1, <1>3, NeedsOfTree DEF RuntimeNames, OpenRCServices
<1>5. Ok("kubelet_health") /\ Ok("apiserver_health")
  BY <1>1, <1>4, NeedsOfTree DEF RuntimeNames
<1>6. Ok("iknite_server_health")
  BY <1>1, <1>5, NeedsOfTree DEF RuntimeNames
<1> QED BY <1>2, <1>3, <1>4, <1>5, <1>6 DEF RuntimeNames, OpenRCServices

\* The runtime phase is right both ways.
LEMMA RuntimeIsTrue ==
    ASSUME AnswerInv, \A c \in Checks : RightVerdict(c), report["runtime"] # "none"
    PROVE  report["runtime"] = "success" <=> RuntimeFacts \subseteq facts /\ pid = "live"
<1> DEFINE R == "runtime"
           K == "kubelet_running"
<1>1. R \in Checks /\ report[R] \in {"success", "failed"} /\ Ended(R) /\ report[R] = PhaseVerdict(R)
  <2>1. R \in Checks
    BY StatusTree
  <2>2. report[R] \in {"success", "failed"}
    BY <2>1, NeedsOfTree, NoNeedsNoSkip
  <2> QED BY <2>1, <2>2, PhasesOfTree DEF RightVerdict
<1>2. K \in Checks /\ (report[K] = "success" => pid = "live") /\ (report[K] = "failed" => pid # "live")
  <2>1. K \in Checks /\ Phase[K] = {} /\ (Holds(K) <=> pid = "live")
    BY StatusTree, PhasesOfTree DEF Holds
  <2> QED BY <2>1 DEF RightVerdict
<1>3. ASSUME report[R] = "failed" PROVE ~(RuntimeFacts \subseteq facts /\ pid = "live")
  <2>1. PICK s \in RuntimeNames \cap Checks : report[s] = "failed"
    BY <1>1, <1>3, PhasesOfTree DEF PhaseVerdict
  <2>2. CASE s = K
    BY <1>2, <2>1, <2>2
  <2>3. CASE s # K
    <3>1. s \in LeafNames /\ s # "pki"
      BY <2>3 DEF LeafNames, RuntimeNames
    <3>2. PICK f \in LooksAt(s) \ ExtraPki : ~checkFileAndContent(f)
      BY <2>1, <3>1, LeafVerdict
    <3>3. f \in {"softlevel", "iknite_running", "containerd_running", "buildkitd_running", "admin_conf",
                 "kubelet_health", "manifest_apiserver", "manifest_controller", "manifest_scheduler",
                 "apiserver_health", "iknite_local_conf", "iknite_server"}
      BY <2>3 DEF LooksAt, RuntimeNames
    <3> QED BY <3>2, <3>3 DEF RuntimeFacts, checkFileAndContent
  <2> QED BY <2>2, <2>3
<1>4. ASSUME report[R] = "success" PROVE RuntimeFacts \subseteq facts /\ pid = "live"
  <2>1. \A s \in RuntimeNames \cap Checks : report[s] = "success"
    <3>1. \A s \in RuntimeNames \cap Checks : report[s] \notin {"none", "failed"}
      BY <1>1, <1>4, PhasesOfTree DEF PhaseVerdict, Ended
    <3> QED BY <3>1, NoneSkipped
  <2>2. pid = "live"
    BY <1>2, <2>1 DEF RuntimeNames
  <2>3. ASSUME NEW f \in Facts, NEW s \in RuntimeNames \ {K}, f \in LooksAt(s), f \notin ExtraPki
        PROVE  f \in facts
    <3>1. s \in Checks
      BY <2>3, FactsFit, RuntimeRange
    <3>2. s \in LeafNames /\ report[s] = "success"
      BY <2>1, <2>3, <3>1 DEF LeafNames
    <3> QED BY <2>3, <3>1, <3>2, LeafVerdict DEF checkFileAndContent
  <2>4. ASSUME NEW f \in RuntimeFacts
        PROVE  f \notin ExtraPki /\ \E s \in RuntimeNames \ {K} : f \in LooksAt(s)
    <3>1. f = "softlevel" => f \in LooksAt("openrc")
      BY DEF LooksAt
    <3>2. f \in OpenRCServices => f \in LooksAt(f)
      BY DEF LooksAt, OpenRCServices
    <3>3. f = "kubelet_health" => f \in LooksAt("kubelet_health")
      BY DEF LooksAt
    <3>4. f \in {"admin_conf", "manifest_apiserver", "manifest_controller", "manifest_scheduler",
                 "apiserver_health"} => f \in LooksAt("apiserver_health")
      BY DEF LooksAt
    <3>5. f \in {"iknite_local_conf", "iknite_server"} => f \in LooksAt("iknite_server_health")
      BY DEF LooksAt
    <3> QED BY <3>1, <3>2, <3>3, <3>4, <3>5 DEF RuntimeFacts, RuntimeNames, OpenRCServices, ExtraPki
  <2> QED BY <2>2, <2>3, <2>4 DEF RuntimeFacts
<1> QED BY <1>1, <1>3, <1>4

\* The workload check is right both ways, given the runtime phase.
LEMMA WorkloadsAreTrue ==
    ASSUME AnswerInv, \A c \in Checks : RightVerdict(c), report["workload_status"] # "none", mode # "both"
    PROVE  report["workload_status"] = "success"
              <=> /\ report["runtime"] = "success"
                  /\ Workloads \cup ({"kubeconfig"} \cap Facts) \subseteq facts
<1> DEFINE W == "workload_status"
<1>1. W \in Checks /\ Phase[W] = {} /\ Needs[W] = {"runtime"}
  BY WorkloadLeaf, WorkloadIsNoPhase, NeedsOfTree
<1>2. Holds(W) <=> Workloads \cup ({"kubeconfig"} \cap Facts) \subseteq facts
  BY DEF Holds, checkFileAndContent, NotReady
<1>3. report[W] \in {"success", "failed", "skipped"}
  BY <1>1 DEF AnswerInv, RightVerdict, Verdicts
<1>4. report[W] = "success" => report["runtime"] = "success" /\ Holds(W)
  BY <1>1 DEF RightVerdict, Met
<1>5. report[W] = "failed" => ~Holds(W)
  BY <1>1, Zenon DEF RightVerdict
<1>6. report[W] = "skipped" => report["runtime"] # "success"
  BY <1>1, Zenon DEF RightVerdict, Skipped
<1> QED BY <1>2, <1>3, <1>4, <1>5, <1>6

\* On a host at rest the report of the status command is right both ways, whatever of the
\* tree of phases.go, of the facts and of the workloads an instance has, and for all
\* retries and responses that are asked for.
THEOREM StatusTellsTheTruth == StatusSpec => []ReportIsTrue
<1>1. AnswerInv /\ ReportInv => ReportIsTrue
  <2> SUFFICES ASSUME AnswerInv, ReportInv, Undisturbed PROVE ReportIsTrue
    BY DEF ReportIsTrue
  <2>1. facts \subseteq Facts /\ \A c \in Checks : RightVerdict(c)
    BY DEF ReportInv
  <2> QED BY <2>1, ConfigurationIsTrue, RuntimeIsTrue, WorkloadsAreTrue DEF ReportIsTrue
<1> QED BY <1>1, AnswerInvariance, ReportInvariance, PTL

----------------------------------------------------------------------------
(* The concrete checks keep the rules of the framework.                     *)

LEMMA GoroutineDecides ==
    ASSUME NEW c \in Checks, StatusGoroutine(c)
    PROVE  UNCHANGED reportVars \/ \E v \in Verdicts : Decide(c, v)
<1>1. CASE Framework(c)
  <2>1. PhaseVerdict(c) \in Verdicts
    BY DEF PhaseVerdict, Verdicts
  <2> QED BY <1>1, <2>1 DEF Framework, Verdicts
<1>2. CASE CheckOnce(c)
  BY <1>2 DEF CheckOnce, Conclude, Verdicts
<1>3. CASE ReadPidFile(c) \/ RemovePidFile(c) \/ PollCancelled(c)
  BY <1>3 DEF ReadPidFile, RemovePidFile, PollCancelled, Conclude, Verdicts
<1>4. CASE CheckIkniteServerHealth(c)
  BY <1>4 DEF CheckIkniteServerHealth, Conclude, Verdicts
<1>5. CASE CheckWorkloads(c)
  BY <1>5 DEF CheckWorkloads, checkWorkloadsWithConfig, Conclude, Verdicts
<1> QED BY <1>1, <1>2, <1>3, <1>4, <1>5 DEF StatusGoroutine

\* Whatever the checks look at, the steps of the status command are those of the
\* framework: one verdict at a time, after those it depends on, a phase after its
\* sub-checks, none twice.
THEOREM StatusImplementsReport == StatusSpec => ReportSpec
<1>1. StatusInit => ReportInit
  BY DEF StatusInit
<1>2. [StatusNext]_statusVars => [ReportNext]_reportVars
  <2> SUFFICES ASSUME [StatusNext]_statusVars PROVE [ReportNext]_reportVars
    OBVIOUS
  <2>1. ASSUME NEW c \in Checks, StatusGoroutine(c) PROVE [ReportNext]_reportVars
    BY <2>1, GoroutineDecides DEF ReportNext
  <2>2. CASE Interrupt \/ FactChanges \/ KubeletChanges
    BY <2>2 DEF Interrupt, FactChanges, KubeletChanges, ReportNext
  <2>3. CASE UNCHANGED statusVars
    BY <2>3 DEF statusVars
  <2> QED BY <2>1, <2>2, <2>3 DEF StatusNext
<1> QED BY <1>1, <1>2, PTL DEF StatusSpec, ReportSpec

\* A verdict leaves those before it alone, and what they rest on.
LEMMA DecideKeepsOrder ==
    ASSUME report \in [Checks -> Verdicts \cup {"none"}], ReportOrder,
           NEW d \in Checks, NEW v \in Verdicts, Decide(d, v)
    PROVE  report' \in [Checks -> Verdicts \cup {"none"}] /\ ReportOrder'
<1>1. /\ report' \in [Checks -> Verdicts \cup {"none"}] /\ report[d] = "none" /\ report'[d] = v
      /\ \A c \in Checks : c # d => report'[c] = report[c]
  BY DEF Decide
<1>2. \A c \in Checks : report[c] # "none" => report'[c] = report[c]
  BY <1>1
<1>3. ASSUME NEW c \in Checks
      PROVE  (Met(c) => Met(c)') /\ (Skipped(c) => Skipped(c)')
             /\ (Ended(c) => Ended(c)' /\ PhaseVerdict(c)' = PhaseVerdict(c))
  <2>1. Needs[c] \subseteq Checks /\ Phase[c] \subseteq Checks
    BY PhasesOfTree DEF Needs
  <2>2. Met(c) => Met(c)'
    BY <1>2, <2>1 DEF Met
  <2>3. Skipped(c) => Skipped(c)'
    BY <1>2, <2>1 DEF Skipped
  <2>4. Ended(c) => Ended(c)' /\ \A s \in Phase[c] : report'[s] = report[s]
    BY <1>2, <2>1 DEF Ended
  <2>5. Ended(c) => PhaseVerdict(c)' = PhaseVerdict(c)
    BY <2>4 DEF PhaseVerdict
  <2> QED BY <2>2, <2>3, <2>4, <2>5
<1>4. ASSUME NEW c \in Checks, c # d
      PROVE  /\ report'[c] \in {"success", "failed"} =>
                  Met(c)' /\ (Phase[c] # {} => Ended(c)' /\ report'[c] = PhaseVerdict(c)')
             /\ report'[c] = "skipped" => Skipped(c)'
  <2>1. report'[c] = report[c]
    BY <1>1, <1>4
  <2> QED BY <1>3, <2>1 DEF ReportOrder
<1>5. /\ report'[d] \in {"success", "failed"} =>
           Met(d)' /\ (Phase[d] # {} => Ended(d)' /\ report'[d] = PhaseVerdict(d)')
      /\ report'[d] = "skipped" => Skipped(d)'
  <2>1. PhaseVerdict(d) \in {"success", "failed"}
    BY DEF PhaseVerdict
  <2>2. v \in {"success", "failed"} => Met(d) /\ (Phase[d] # {} => Ended(d) /\ v = PhaseVerdict(d))
    BY <2>1 DEF Decide
  <2>3. v = "skipped" => Skipped(d)
    BY <2>1 DEF Decide
  <2> QED BY <1>1, <1>3, <2>2, <2>3
<1> QED BY <1>1, <1>4, <1>5 DEF ReportOrder

\* The rules of the framework keep every report in order, and so the status command
\* does, whatever changes on the host, fails or is interrupted meanwhile.
THEOREM StatusReportsInOrder == StatusSpec => []ReportOrder
<1> DEFINE Inv == report \in [Checks -> Verdicts \cup {"none"}] /\ ReportOrder
<1>1. ReportInit => Inv
  BY DEF ReportInit, ReportOrder
<1>2. Inv /\ [ReportNext]_reportVars => Inv'
  <2> SUFFICES ASSUME Inv, [ReportNext]_reportVars PROVE Inv'
    OBVIOUS
  <2>1. CASE UNCHANGED report
    <3>1. ASSUME NEW c \in Checks
          PROVE  Met(c)' = Met(c) /\ Skipped(c)' = Skipped(c) /\ Ended(c)' = Ended(c)
                 /\ PhaseVerdict(c)' = PhaseVerdict(c)
      BY <2>1, Zenon DEF Met, Skipped, Ended, PhaseVerdict
    <3> QED BY <2>1, <3>1 DEF ReportOrder
  <2>2. ASSUME NEW d \in Checks, NEW v \in Verdicts, Decide(d, v) PROVE Inv'
    BY <2>2, DecideKeepsOrder
  <2> QED BY <2>1, <2>2 DEF ReportNext, Cancel, reportVars
<1>3. ReportSpec => []Inv
  BY <1>1, <1>2, PTL DEF ReportSpec
<1> QED BY <1>3, StatusImplementsReport, PTL

----------------------------------------------------------------------------
(* The tree of phases.go has no circular wait.                              *)

\* A check that was called and waits for nothing can go on.
LEMMA WaitsForNothing ==
    ASSUME AnswerInv, NEW c \in Checks, Called(c), \A p \in Needs[c] : report[p] # "none",
           \A s \in Phase[c] : report[s] # "none", report[c] = "none"
    PROVE  CanGoOn(c)
<1>1. \A p \in Needs[c] : report[p] \in {"success", "failed", "skipped", "aborted"}
  BY DEF AnswerInv, Verdicts, Needs
<1>2. Met(c) \/ Skipped(c)
  BY <1>1 DEF Met, Skipped
<1> QED BY <1>2 DEF CanGoOn, Ended

\* The checks of a phase without dependencies are called.
LEMMA CalledInPhase ==
    ASSUME NEW p \in Checks, Needs[p] = {}, NEW c \in Phase[p]
    PROVE  Called(c)
BY DEF Called

\* While the status command has not ended, one of its checks does not wait for another:
\* the dependencies of phases.go, across its phases, form no cycle.
THEOREM StatusGoesOn == StatusSpec => []NoCircularWait
<1>1. AnswerInv => NoCircularWait
  <2> SUFFICES ASSUME AnswerInv, \A c \in Checks : ~CanGoOn(c)
               PROVE  \A c \in Tops : report[c] # "none"
    BY DEF NoCircularWait
  <2> DEFINE HasVerdict(c) == c \in Checks => report[c] # "none"
  <2>1. ASSUME NEW c, c \in Checks => Called(c) /\ \A d \in Needs[c] \cup Phase[c] : HasVerdict(d)
        PROVE  HasVerdict(c)
    <3>1. ASSUME c \in Checks PROVE Needs[c] \subseteq Checks /\ Phase[c] \subseteq Checks
      BY <3>1, PhasesOfTree DEF Needs
    <3> QED BY <2>1, <3>1, WaitsForNothing
  <2> HIDE DEF HasVerdict
  <2>2. \A c \in ManifestNames : "manifests" \in Checks => HasVerdict(c)
    <3> SUFFICES ASSUME NEW c \in ManifestNames, "manifests" \in Checks, c \in Checks PROVE HasVerdict(c)
      BY DEF HasVerdict
    <3>1. Needs["manifests"] = {} /\ Needs[c] = {} /\ c \in Phase["manifests"] /\ Phase[c] = {}
      BY NeedsOfTree, PhasesOfTree DEF ConfigurationNames, ManifestNames
    <3> QED BY <2>1, <3>1, CalledInPhase
  <2>3. \A c \in ConfigurationNames : "configuration" \in Checks => HasVerdict(c)
    <3> SUFFICES ASSUME NEW c \in ConfigurationNames, "configuration" \in Checks, c \in Checks PROVE HasVerdict(c)
      BY DEF HasVerdict
    <3>1. Needs["configuration"] = {} /\ Needs[c] = {} /\ c \in Phase["configuration"]
      BY NeedsOfTree, PhasesOfTree
    <3>2. Called(c)
      BY <3>1, CalledInPhase
    <3>3. CASE c = "manifests"
      BY <2>1, <2>2, <3>1, <3>2, <3>3, PhasesOfTree
    <3>4. CASE c # "manifests"
      <4>1. Phase[c] = {}
        BY <3>4, PhasesOfTree DEF ConfigurationNames
      <4> QED BY <2>1, <3>1, <3>2, <4>1
    <3> QED BY <3>3, <3>4
  <2>4. HasVerdict("configuration")
    <3>1. "configuration" \in Checks =>
            /\ "configuration" \in Tops /\ Needs["configuration"] = {}
            /\ Phase["configuration"] \subseteq ConfigurationNames
      BY StatusTree, NeedsOfTree, PhasesOfTree
    <3> QED BY <2>1, <2>3, <3>1 DEF Called
  <2>5. ASSUME NEW c \in RuntimeNames, c \in Checks => \A d \in Needs[c] : HasVerdict(d)
        PROVE  HasVerdict(c)
    <3>1. "runtime" \in Checks /\ Needs["runtime"] = {}
      BY StatusTree, NeedsOfTree
    <3>2. c \in Checks => Phase[c] = {} /\ c \in Phase["runtime"]
      BY PhasesOfTree DEF RuntimeNames
    <3> QED BY <2>1, <2>5, <3>1, <3>2, CalledInPhase
  <2>6. HasVerdict("openrc")
    BY <2>5, NeedsOfTree DEF RuntimeNames
  <2>7. \A c \in OpenRCServices : HasVerdict(c)
    BY <2>5, <2>6, NeedsOfTree DEF RuntimeNames, OpenRCServices
  <2>8. HasVerdict("kubelet_running")
    BY <2>5, <2>7, NeedsOfTree DEF RuntimeNames, OpenRCServices
  <2>9. HasVerdict("kubelet_health") /\ HasVerdict("apiserver_health")
    BY <2>5, <2>8, NeedsOfTree DEF RuntimeNames
  <2>10. HasVerdict("iknite_server_health")
    BY <2>5, <2>9, NeedsOfTree DEF RuntimeNames
  <2>11. \A c \in RuntimeNames : HasVerdict(c)
    BY <2>6, <2>7, <2>8, <2>9, <2>10 DEF RuntimeNames, OpenRCServices
  <2>12. HasVerdict("runtime")
    <3>1. "runtime" \in Tops /\ Needs["runtime"] = {} /\ Phase["runtime"] \subseteq RuntimeNames
      BY StatusTree, NeedsOfTree, PhasesOfTree
    <3> QED BY <2>1, <2>11, <3>1 DEF Called
  <2>13. HasVerdict("workload_status")
    <3>1. "workload_status" \in Checks /\ "workload_status" \in Tops
      BY WorkloadLeaf, StatusTree
    <3>2. Needs["workload_status"] = {"runtime"} /\ Phase["workload_status"] = {}
      BY <3>1, NeedsOfTree, WorkloadIsNoPhase
    <3> QED BY <2>1, <2>12, <3>1, <3>2 DEF Called
  <2> QED BY <2>4, <2>12, <2>13, StatusTree DEF HasVerdict
<1> QED BY <1>1, AnswerInvariance, PTL
=============================================================================
