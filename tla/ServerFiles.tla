------------------------------ MODULE ServerFiles ------------------------------
(***************************************************************************)
(* The files behind the status server (pkg/server/server.go, pkg/pki/io.go,*)
(* the copy-config and serve phases): the server's and the client's key    *)
(* and certificate, iknite.conf, which embeds the client's, and the copies *)
(* in the home directory.  init makes them when it starts, and can be      *)
(* killed anywhere; between two starts the cluster can be cleaned, and the *)
(* configured domain name can change.                                      *)
(*                                                                         *)
(* A file is truncated before it is written.  A key is its number, and a   *)
(* certificate is the key, the CA that signed it and the name it is for.   *)
(***************************************************************************)
EXTENDS Integers

CONSTANTS
    Names,      \* the domain names that can be configured
    MaxKills,   \* bound on the starts that are killed
    MaxCleans   \* bound on the times the certificates are removed

VARIABLES
    ca,         \* the certificate authority of the cluster, 0 when there is none
    key, cert,  \* key[n] and cert[n]: the files of the server and the client
    conf,       \* iknite.conf
    homeConf,   \* its copy in the home directory
    name,       \* the configured name
    pc,         \* where init is: a pair of what it makes and how far it is
    phase,      \* "copyConfig" or "serve": which phase ensures the files
    made,       \* how many keys have been made; the last is the one in memory
    loaded,     \* the certificate the running server presents
    damaged,    \* a write of a pair, or its removal, was left half done: "no" or "yes"
    kills, cleans

fileVars == <<ca, key, cert, conf, homeConf, name, pc, phase, made, loaded, damaged, kills, cleans>>

Pairs == {"server", "client"}

\* The contents of a file; of a certificate, or of the configuration with its client's.
Blank(st) == [st |-> st, key |-> 0, ca |-> 0, name |-> "none"]
NoFile == Blank("absent")
Torn == Blank("torn")
Whole(k, c, n) == [st |-> "whole", key |-> k, ca |-> c, name |-> n]

FilesInit ==
    /\ ca = 0 /\ key = [n \in Pairs |-> NoFile] /\ cert = [n \in Pairs |-> NoFile]
    /\ conf = NoFile /\ homeConf = NoFile /\ name \in Names
    /\ pc = <<"init", "down">> /\ phase = "copyConfig" /\ made = 0 /\ loaded = NoFile
    /\ damaged = "no" /\ kills = 0 /\ cleans = 0

Goto(what, step) == pc' = <<what, step>>
Fail == Goto("init", "failed")
Rest ==
    /\ damaged' = IF pc[2] \in {"key", "cert"} /\ pc'[2] = "failed" THEN "yes" ELSE damaged
    /\ UNCHANGED <<name, kills, cleans>>

----------------------------------------------------------------------------
\* init starts with the configuration of the day.  The certificates phase of kubeadm
\* (external) makes the CA when there is none; then copyAdminConf reads and rewrites
\* admin.conf, and can fail.
Boot ==
    /\ pc[1] = "init" /\ pc[2] # "up"
    /\ name' \in Names /\ ca' = (IF ca = 0 THEN cleans + 1 ELSE ca)
    /\ phase' = "copyConfig"
    /\ Goto("server", "check") \/ Fail
    /\ UNCHANGED <<key, cert, conf, homeConf, made, loaded, damaged, kills, cleans>>

\* EnsureIkniteServerConfiguration: the server's pair, the client's, the configuration.
AfterPair(n) == IF n = "server" THEN Goto("client", "check") ELSE Goto("conf", "write")

\* CertOrKeyExist: one of the two is enough.
CertOrKeyExist(n) == key[n].st # "absent" \/ cert[n].st # "absent"

\* EnsureServerCertAndKey and EnsureClientCertAndKey, up to the first write.
Ensure(n) ==
    /\ pc = <<n, "check">>
    /\ \/ CertOrKeyExist(n) /\ AfterPair(n) /\ UNCHANGED <<key, made>>
       \/ /\ ~CertOrKeyExist(n) /\ made' = made + 1
          /\ key' = [key EXCEPT ![n] = Torn] /\ Goto(n, "key")
       \/ ~CertOrKeyExist(n) /\ Fail /\ UNCHANGED <<key, made>>
    /\ UNCHANGED <<ca, cert, conf, homeConf, phase, loaded>> /\ Rest

\* WriteCertAndKey: the key, then the certificate, whose directory is made and whose
\* file is opened in between.
WriteKey(n) ==
    /\ pc = <<n, "key">> /\ key' = [key EXCEPT ![n] = Whole(made, ca, name)]
    /\ \/ Goto(n, "cert") /\ cert' = [cert EXCEPT ![n] = Torn]
       \/ Fail /\ UNCHANGED cert
    /\ UNCHANGED <<ca, conf, homeConf, phase, made, loaded>> /\ Rest

\* Deviation: the error of the write is dropped.
WriteCert_Unchecked(n) ==
    /\ pc = <<n, "cert">> /\ AfterPair(n)
    /\ cert' \in {cert, [cert EXCEPT ![n] = Whole(made, ca, name)]}
    /\ UNCHANGED <<ca, key, conf, homeConf, phase, made, loaded>> /\ Rest

WriteCert(n) ==
    /\ pc = <<n, "cert">>
    /\ \/ cert' = [cert EXCEPT ![n] = Whole(made, ca, name)] /\ AfterPair(n)
       \/ UNCHANGED cert /\ Fail
    /\ UNCHANGED <<ca, key, conf, homeConf, phase, made, loaded>> /\ Rest

\* The configuration with the client's files as they are read, for the name that is
\* configured now.
EmbeddedClient ==
    IF cert["client"].st = "whole" /\ key["client"].key = cert["client"].key
    THEN Whole(cert["client"].key, cert["client"].ca, name) ELSE Torn

\* EnsureIkniteConf: a missing file is an error.
EnsureIkniteConf ==
    /\ pc[1] = "conf"
    /\ \/ /\ pc[2] = "write" /\ key["client"].st # "absent" /\ cert["client"].st # "absent"
          /\ conf' = Torn /\ Goto("conf", "close")
       \/ pc[2] = "write" /\ Fail /\ UNCHANGED conf
       \/ /\ pc[2] = "close" /\ conf' = EmbeddedClient
          /\ IF phase = "copyConfig" THEN Goto("copy", "write") ELSE Goto("load", "pair")
    /\ UNCHANGED <<ca, key, cert, homeConf, phase, made, loaded>> /\ Rest

\* copyFile; the phases that follow it lead to serve, or fail.
CopyConf ==
    /\ pc[1] = "copy"
    /\ \/ pc[2] = "write" /\ homeConf' = Torn /\ Goto("copy", "close") /\ UNCHANGED phase
       \/ pc[2] = "write" /\ Fail /\ UNCHANGED <<homeConf, phase>>
       \/ pc[2] = "close" /\ homeConf' = conf /\ phase' = "serve" /\ Goto("server", "check")
       \/ pc[2] = "close" /\ homeConf' = conf /\ Fail /\ UNCHANGED phase
    /\ UNCHANGED <<ca, key, cert, conf, made, loaded>> /\ Rest

\* NewIkniteServer: LoadX509KeyPair parses both files and compares their keys.
NewIkniteServer ==
    /\ pc = <<"load", "pair">>
    /\ \/ /\ key["server"].st = "whole" /\ cert["server"].st = "whole"
          /\ key["server"].key = cert["server"].key
          /\ loaded' = cert["server"] /\ Goto("load", "listen")
       \/ Fail /\ UNCHANGED loaded
    /\ UNCHANGED <<ca, key, cert, conf, homeConf, phase, made>> /\ Rest

\* StartIkniteServer: no error within 50 ms counts as a start.
StartIkniteServer ==
    /\ pc = <<"load", "listen">> /\ (Goto("init", "up") \/ Fail)
    /\ UNCHANGED <<ca, key, cert, conf, homeConf, phase, made, loaded>> /\ Rest

\* init ends, by itself or killed; the memory is lost and the files stay.
Stop ==
    /\ pc = <<"init", "up">> /\ Goto("init", "down") /\ loaded' = NoFile
    /\ UNCHANGED <<ca, key, cert, conf, homeConf, name, phase, made, damaged, kills, cleans>>

Kill ==
    /\ pc[1] # "init" /\ kills < MaxKills /\ kills' = kills + 1 /\ Goto("init", "down")
    /\ damaged' = (IF pc[2] \in {"key", "cert"} THEN "yes" ELSE damaged) /\ loaded' = NoFile
    /\ UNCHANGED <<ca, key, cert, conf, homeConf, name, phase, made, cleans>>

\* The cleaning of the certificates directory while init is down.  It goes through the
\* directory in order, and stops with a warning at a file it cannot remove; those of the
\* CA come first.
CleanPki ==
    /\ pc[1] = "init" /\ pc[2] # "up" /\ cleans < MaxCleans /\ cleans' = cleans + 1
    /\ ca' = 0
    /\ \/ /\ key' = [n \in Pairs |-> NoFile] /\ cert' = [n \in Pairs |-> NoFile]
          /\ damaged' = "no"
       \/ UNCHANGED <<key, cert>> /\ damaged' = "yes"
    /\ UNCHANGED <<conf, homeConf, name, pc, phase, made, loaded, kills>>

FilesNext ==
    \/ Boot \/ EnsureIkniteConf \/ CopyConf \/ NewIkniteServer \/ StartIkniteServer
    \/ Stop \/ Kill \/ CleanPki
    \/ \E n \in Pairs : Ensure(n) \/ WriteKey(n) \/ WriteCert(n)

FilesSpec == FilesInit /\ [][FilesNext]_fileVars

----------------------------------------------------------------------------
Up == pc = <<"init", "up">>

\* While the server runs, the configuration in the home directory is of use, whatever
\* earlier starts had left: it is iknite.conf itself, for the name that is configured
\* now; it holds a whole client certificate, and the CA of the cluster has signed that
\* one and the one the server presents.  A pair that was left half written or half
\* removed is the exception to the second part: it is never made again.
ClientsConnect ==
    Up => /\ homeConf = conf /\ (homeConf.st = "whole" => homeConf.name = name)
          /\ damaged = "no" => loaded.ca = ca /\ homeConf.st = "whole" /\ homeConf.ca = ca

----------------------------------------------------------------------------
(* The inductive invariant behind ClientsConnect.                           *)

Contents == [st : {"absent", "torn", "whole"}, key : Nat, ca : Nat, name : Names \cup {"none"}]
FilesTypeOK ==
    /\ ca \in Nat /\ made \in Nat /\ cleans \in Nat /\ name \in Names
    /\ key \in [Pairs -> Contents] /\ cert \in [Pairs -> Contents]
    /\ phase \in {"copyConfig", "serve"} /\ damaged \in {"no", "yes"}
    /\ pc \in ({"init"} \X {"down", "failed", "up"}) \cup (Pairs \X {"check", "key", "cert"})
              \cup ({"conf", "copy"} \X {"write", "close"}) \cup ({"load"} \X {"pair", "listen"})

\* From the copy on the client's files stay what they are: the serve phase finds both
\* pairs, makes none, and builds the configuration it had copied once more.
CopyInv ==
    /\ pc[1] \in {"client", "conf", "copy", "load"} => CertOrKeyExist("server")
    /\ pc[1] \in {"conf", "copy", "load"} => CertOrKeyExist("client")
    /\ pc[1] = "copy" => phase = "copyConfig" /\ conf = EmbeddedClient
    /\ pc[1] = "load" => phase = "serve"
    /\ pc[1] = "load" \/ Up => conf = EmbeddedClient
    /\ (pc[1] # "init" /\ phase = "serve") \/ Up =>
          /\ homeConf = EmbeddedClient /\ pc[2] \notin {"key", "cert"}
          /\ CertOrKeyExist("server") /\ CertOrKeyExist("client")

\* A pair is not there, is being written, or is one of the CA.
WholePair(n) ==
    /\ key[n].st = "whole" /\ cert[n].st = "whole" /\ key[n].key = cert[n].key
    /\ cert[n].ca = ca /\ ca # 0
PairInv(n) ==
    \/ key[n].st = "absent" /\ cert[n].st = "absent"
    \/ pc[1] = n /\ pc[2] \in {"key", "cert"}
    \/ WholePair(n)

FilesInv ==
    /\ FilesTypeOK /\ CopyInv
    /\ pc[1] # "init" => ca # 0
    /\ pc[2] = "cert" => key[pc[1]].st = "whole" /\ key[pc[1]].key = made
    /\ damaged = "no" =>
          /\ \A n \in Pairs : PairInv(n)
          /\ pc = <<"load", "listen">> \/ Up => loaded.ca = ca
=============================================================================
