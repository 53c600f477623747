------------------------------- MODULE Startup ------------------------------
(***************************************************************************)
(* main, from its start to its end: the tables, then one server after the  *)
(* other, then the periodic tasks.  A server that cannot start is skipped. *)
(* The SSH server needs a host key, the HTTPS server a private key and a   *)
(* certificate: files that are made when they are absent, in steps that a  *)
(* crash or a full disk can cut short, and kept for all later starts.      *)
(***************************************************************************)
EXTENDS Naturals, Sequences, FiniteSets

CONSTANTS
    Plain,      \* the servers that need no file and start last, in their order
    MaxMissed,  \* bound on servers whose port or file is refused in a start
    MaxStarts   \* bound on starts of the process

ASSUME StartupAssumption ==
    /\ Plain \in Seq({"ftp", "mysql", "smtp", "redis", "modbus", "dns_tcp", "dns_udp", "snmp"})
    /\ {MaxMissed, MaxStarts} \subseteq Nat

\* The servers in the order of main.
Order == <<"ssh", "http", "https", "dashboard">> \o Plain
Services == {Order[i] : i \in DOMAIN Order}

VARIABLES
    phase,      \* "boot", "running", "stopping", "down"
    next,       \* in the boot: 0 for the tables, then the place in Order
    serving,    \* the servers that listen
    making,     \* what a run_*_server is writing: "nothing" or see Steps
    tables,     \* of the database: "none", "some", "all"
    hostKey,    \* keys/ssh_host_key: see Files
    key,        \* certs/server.key
    cert        \* certs/server.crt

\* History: the servers whose port was taken in this start; those whose files could
\* not be opened in it; when a kill or a failed write has cut the making of a file,
\* "now" for this start; starts of the process.
VARIABLES taken, unopened, cut, starts

disk == <<tables, hostKey, key, cert>>
startup == <<phase, next, serving, making, disk, taken, unopened, cut, starts>>

Files == {"absent", "torn", "whole"}

\* Opening a file to write leaves it empty; "signing" is between the files.
Steps == {"hostKey", "key", "signing", "cert"}

\* The servers that need a file.
WithFiles == {"ssh", "https"}

\* Room for one more server that the system refuses its port or a file.
MayMiss == Cardinality(taken \cup unopened) < MaxMissed

At(s) == phase = "boot" /\ making = "nothing" /\ next \in DOMAIN Order /\ Order[next] = s

StartupInit ==
    /\ phase = "boot" /\ next = 0 /\ serving = {} /\ making = "nothing"
    /\ tables = "none" /\ hostKey = "absent"
    /\ key = "absent" /\ cert = "absent"
    /\ taken = {} /\ unopened = {} /\ cut = {} /\ starts = 1

-----------------------------------------------------------------------------
(* The files of run_ssh_server and run_https_server.                       *)

MakeHostKey ==
    /\ At("ssh") /\ hostKey = "absent"
    /\ hostKey' = "torn" /\ making' = "hostKey"
    /\ UNCHANGED <<phase, next, serving, tables, key, cert, taken, unopened, cut, starts>>

HostKeyMade ==
    /\ making = "hostKey"
    /\ hostKey' = "whole" /\ making' = "nothing"
    /\ UNCHANGED <<phase, next, serving, tables, key, cert, taken, unopened, cut, starts>>

\* Slips: a pair is made only if both files are absent; or also if what is there
\* cannot be loaded.
PairLackingBoth == key = "absent" /\ cert = "absent"
PairUnusable == key # "whole" \/ cert # "whole"

PairLacking == key = "absent" \/ cert = "absent"

\* generate_self_signed_cert: the key's file, the signature, the certificate's file.
MakePair ==
    /\ At("https") /\ PairLacking
    /\ key' = "torn" /\ making' = "key"
    /\ UNCHANGED <<phase, next, serving, tables, hostKey, cert, taken, unopened, cut, starts>>

KeyMade ==
    /\ making = "key"
    /\ key' = "whole" /\ making' = "signing"
    /\ UNCHANGED <<phase, next, serving, tables, hostKey, cert, taken, unopened, cut, starts>>

Sign ==
    /\ making = "signing"
    /\ cert' = "torn" /\ making' = "cert"
    /\ UNCHANGED <<phase, next, serving, tables, hostKey, key, taken, unopened, cut, starts>>

CertMade ==
    /\ making = "cert"
    /\ cert' = "whole" /\ making' = "nothing"
    /\ UNCHANGED <<phase, next, serving, tables, hostKey, key, taken, unopened, cut, starts>>

\* An exception on the way is caught: the server is skipped, its file left as it is.
MakingFails ==
    /\ making # "nothing"
    /\ making' = "nothing" /\ next' = next + 1 /\ cut' = cut \cup {"now"}
    /\ UNCHANGED <<phase, serving, disk, taken, unopened, starts>>

\* It may come before any file has changed: the chmod, the open or the read is
\* refused, whether the files are there or not.
OpenFails(s) ==
    /\ At(s) /\ s \in WithFiles /\ MayMiss
    /\ unopened' = unopened \cup {s} /\ next' = next + 1
    /\ UNCHANGED <<phase, serving, making, disk, taken, cut, starts>>

-----------------------------------------------------------------------------
(* The servers.                                                            *)

\* load_cert_chain and read_private_key refuse what is torn.
Loads(s) ==
    /\ s = "ssh" => hostKey = "whole"
    /\ s = "https" => key = "whole" /\ cert = "whole"

Provided(s) ==
    /\ s = "ssh" => hostKey # "absent"
    /\ s = "https" => ~PairLacking

\* run_ssh_server, run_http_server, run_https_server, run_dashboard,
\* run_tcp_server and run_udp_server return a server,
Serve(s) ==
    /\ At(s) /\ Provided(s) /\ Loads(s)
    /\ serving' = serving \cup {s} /\ next' = next + 1
    /\ UNCHANGED <<phase, making, disk, taken, unopened, cut, starts>>

\* A slip: the OSError is not caught, and main goes on to its end.
PortTakenSkipsRest(s) ==
    /\ At(s) /\ Provided(s) /\ Loads(s)
    /\ MayMiss
    /\ taken' = taken \cup {s} /\ next' = Len(Order) + 1
    /\ UNCHANGED <<phase, serving, making, disk, unopened, cut, starts>>

\* or None: the port is taken,
PortTaken(s) ==
    /\ At(s) /\ Provided(s) /\ Loads(s)
    /\ MayMiss
    /\ taken' = taken \cup {s} /\ next' = next + 1
    /\ UNCHANGED <<phase, serving, making, disk, unopened, cut, starts>>

\* or what is on the disk cannot be loaded.
NotLoaded(s) ==
    /\ At(s) /\ Provided(s) /\ ~Loads(s)
    /\ next' = next + 1
    /\ UNCHANGED <<phase, serving, making, disk, taken, unopened, cut, starts>>

-----------------------------------------------------------------------------
(* main.                                                                   *)

\* DatabaseManager(): CREATE TABLE IF NOT EXISTS for each table,
CreateTables ==
    /\ phase = "boot" /\ next = 0
    /\ tables' = "all" /\ next' = 1
    /\ UNCHANGED <<phase, serving, making, hostKey, key, cert, taken, unopened, cut, starts>>

\* The periodic tasks are created.
Started ==
    /\ phase = "boot" /\ next = Len(Order) + 1
    /\ phase' = "running" /\ next' = 0
    /\ UNCHANGED <<serving, making, disk, taken, unopened, cut, starts>>

\* A signal: tasks are cancelled, the SSH server and the two transports closed.
\* The servers of HTTP and TCP listen until the process has ended.
Stop ==
    /\ phase = "running"
    /\ phase' = "stopping" /\ serving' = serving \ {"ssh", "dns_udp", "snmp"}
    /\ UNCHANGED <<next, making, disk, taken, unopened, cut, starts>>

Down ==
    /\ phase' = "down" /\ next' = 0 /\ serving' = {} /\ making' = "nothing"
    /\ taken' = {} /\ unopened' = {}
    /\ cut' = IF cut # {} \/ making # "nothing" THEN {"earlier"} ELSE {}

Exit ==
    /\ phase = "stopping" /\ Down
    /\ UNCHANGED <<disk, starts>>

\* A crash, also in the middle of _init_db, or an error there, which ends main.
Kill ==
    /\ phase # "down" /\ Down
    /\ tables' \in IF phase = "boot" /\ next = 0 /\ tables = "none"
                   THEN {"none", "some"} ELSE {tables}
    /\ UNCHANGED <<hostKey, key, cert, starts>>

Restart ==
    /\ phase = "down" /\ starts < MaxStarts
    /\ phase' = "boot" /\ starts' = starts + 1
    /\ UNCHANGED <<next, serving, making, disk, taken, unopened, cut>>

Boot ==
    \/ CreateTables
    \/ MakeHostKey \/ HostKeyMade
    \/ MakePair \/ KeyMade \/ Sign \/ CertMade
    \/ MakingFails
    \/ \E s \in WithFiles : OpenFails(s)
    \/ \E s \in Services : Serve(s) \/ PortTaken(s) \/ NotLoaded(s)
    \/ Started

-----------------------------------------------------------------------------
StartupTypeOK ==
    /\ phase \in {"boot", "running", "stopping", "down"} /\ next \in 0 .. Len(Order) + 1
    /\ serving \subseteq Services /\ making \in Steps \cup {"nothing"}
    /\ tables \in {"none", "some", "all"}
    /\ {hostKey, key, cert} \subseteq Files
    /\ taken \subseteq Services /\ unopened \subseteq WithFiles /\ cut \subseteq {"now", "earlier"} /\ starts \in Nat

\* A start that is past a server: the boot, or after it.
Past(s) ==
    \/ phase \in {"running", "stopping"}
    \/ phase = "boot" /\ \E i \in DOMAIN Order : Order[i] = s /\ i < next

\* Files that are there and cannot be loaded.
PairBroken ==
    /\ making = "nothing" /\ key # "absent" /\ cert # "absent"
    /\ key = "torn" \/ cert = "torn"
HostKeyBroken == making = "nothing" /\ hostKey = "torn"

\* A server that does not listen when the process runs had its port taken or its files
\* refused in this start, or lacks a file whose making was cut, in this start or an
\* earlier one.
DegradedExplained ==
    phase = "running" =>
        \A s \in Services \ serving : s \in taken \cup unopened \/ (s \in WithFiles /\ cut # {})

\* Wherever earlier starts ended, a start makes what it finds absent: servers listen
\* over a complete database, and past SSH and HTTPS there are a host key, a key and
\* a certificate, unless this very start could not open them or was cut in their making.
NothingSkipped ==
    /\ serving # {} => tables = "all"
    /\ Past("ssh") => hostKey # "absent" \/ "ssh" \in unopened
    /\ Past("https") => (key # "absent" /\ cert # "absent") \/ "now" \in cut \/ "https" \in unopened
=============================================================================
