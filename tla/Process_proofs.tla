--------------------------- MODULE Process_proofs ---------------------------
(***************************************************************************)
(* Theorems about Process, for every list of plain servers and every       *)
(* bound on refusals, ports taken and starts.  The two halves share no     *)
(* variable: each has an invariant of its own, StartInv and LockInv, which *)
(* the steps of the other half leave alone.                                *)
(***************************************************************************)
EXTENDS Process, SequenceTheorems, TLAPS

-----------------------------------------------------------------------------
(* The order of the servers.                                               *)

LEMMA OrderFacts ==
    /\ Len(Order) \in Nat /\ Len(Order) >= 4
    /\ DOMAIN Order = 1 .. Len(Order)
    /\ Order[1] = "ssh" /\ Order[3] = "https"
<1> DEFINE First == <<"ssh", "http", "https", "dashboard">>
           Names == {"ssh", "http", "https", "dashboard", "ftp", "mysql", "smtp", "redis",
                     "modbus", "dns_tcp", "dns_udp", "snmp"}
<1>1. Plain \in Seq(Names) /\ First \in Seq(Names)
  <2>1. Plain \in [1 .. Len(Plain) -> Names] /\ Len(Plain) \in Nat
    BY StartupAssumption, LenProperties
  <2>2. Plain \in Seq(Names)
    BY <2>1, IsASeq
  <2> QED  BY <2>2
<1>2. Len(First) = 4 /\ First[1] = "ssh" /\ First[3] = "https"
  OBVIOUS
<1>3. Order = First \o Plain
  BY DEF Order
<1> HIDE DEF First, Names
<1>4. /\ First \o Plain \in Seq(Names)
      /\ Len(First \o Plain) = Len(First) + Len(Plain)
      /\ \A i \in 1 .. Len(First) + Len(Plain) :
            (First \o Plain)[i] = IF i <= Len(First) THEN First[i] ELSE Plain[i - Len(First)]
  BY <1>1, ConcatProperties, ZenonT(30)
<1>5. Len(Plain) \in Nat /\ DOMAIN (First \o Plain) = 1 .. Len(First \o Plain)
  BY <1>1, <1>4, LenProperties, ZenonT(30)
<1>6. 1 \in 1 .. 4 + Len(Plain) /\ 3 \in 1 .. 4 + Len(Plain) /\ 4 + Len(Plain) >= 4
      /\ 4 + Len(Plain) \in Nat
  BY <1>5
<1>7. (First \o Plain)[1] = First[1] /\ (First \o Plain)[3] = First[3]
  <2>1. (First \o Plain)[1] = IF 1 <= 4 THEN First[1] ELSE Plain[1 - 4]
    BY <1>2, <1>4, <1>6, ZenonT(30)
  <2>2. (First \o Plain)[3] = IF 3 <= 4 THEN First[3] ELSE Plain[3 - 4]
    BY <1>2, <1>4, <1>6, ZenonT(30)
  <2> QED  BY <2>1, <2>2
<1> QED  BY <1>2, <1>3, <1>4, <1>5, <1>6, <1>7, ZenonT(30)

-----------------------------------------------------------------------------
(* The start.                                                              *)

\* What is written while a file is made, and where main stands then.
MakingOK ==
    /\ making # "nothing" => phase = "boot" /\ next \in DOMAIN Order
    /\ making = "hostKey" => Order[next] = "ssh" /\ hostKey = "torn"
    /\ making \in {"key", "signing", "cert"} => Order[next] = "https"
    /\ making = "key" => key = "torn"
    /\ making \in {"signing", "cert"} => key = "whole"
    /\ making = "cert" => cert = "torn"

\* A torn file is being made, or its making was cut.
TornExplained ==
    /\ hostKey = "torn" => making = "hostKey" \/ cut # {}
    /\ key = "torn" => making = "key" \/ cut # {}
    /\ cert = "torn" => making = "cert" \/ cut # {}

Settled(s) == s \in serving \cup taken \cup unopened \/ (s \in WithFiles /\ cut # {})

\* What main has behind it.
BehindOK ==
    /\ phase = "down" => next = 0 /\ serving = {}
    /\ phase = "boot" /\ next # 0 => tables = "all"
    /\ phase = "boot" => \A i \in DOMAIN Order : i < next => Settled(Order[i])

\* Strengthens the two invariants about the start: Settled for each server the boot
\* has passed gives DegradedExplained when it is through.
StartInv ==
    /\ StartupTypeOK /\ MakingOK /\ TornExplained /\ BehindOK
    /\ DegradedExplained /\ NothingSkipped

LEMMA StartInvInit == StartupInit => StartInv
<1> SUFFICES ASSUME StartupInit PROVE StartInv
  OBVIOUS
<1> USE DEF StartupInit
<1>1. StartupTypeOK
  BY OrderFacts DEF StartupTypeOK, Files, Steps
<1>2. MakingOK /\ TornExplained
  BY DEF MakingOK, TornExplained
<1>3. BehindOK /\ DegradedExplained /\ NothingSkipped
  BY OrderFacts DEF BehindOK, DegradedExplained, NothingSkipped, Past
<1> QED  BY <1>1, <1>2, <1>3 DEF StartInv

\* A step that makes or cuts no file and passes no server.
MakeStep == MakeHostKey \/ HostKeyMade \/ MakePair \/ KeyMade \/ Sign \/ CertMade

LEMMA MakeStepInv == StartInv /\ MakeStep => StartInv'
<1> SUFFICES ASSUME StartInv, MakeStep PROVE StartInv'
  OBVIOUS
<1> USE DEF disk, MakeStep, MakeHostKey, HostKeyMade, MakePair, KeyMade, Sign, CertMade, At
<1>1. StartupTypeOK'
  BY DEF StartInv, StartupTypeOK, Files, Steps
<1>2. MakingOK'
  BY DEF StartInv, MakingOK, StartupTypeOK, Steps
<1>3. TornExplained'
  BY DEF StartInv, TornExplained, MakingOK
<1>4. BehindOK'
  BY DEF StartInv, BehindOK, Settled
<1>5. DegradedExplained'
  BY DEF StartInv, DegradedExplained, MakingOK
<1>6. NothingSkipped'
  BY DEF StartInv, NothingSkipped, Past
<1> QED  BY <1>1, <1>2, <1>3, <1>4, <1>5, <1>6 DEF StartInv

\* The steps by which main passes a server.
Passes(s) == Serve(s) \/ PortTaken(s) \/ NotLoaded(s) \/ OpenFails(s)

LEMMA OpenedInOrder == \A s : OpenFails(s) => s \in Services
BY DEF OpenFails, At, Services

LEMMA PassesInv == ASSUME NEW s \in Services, StartInv, Passes(s) PROVE StartInv'
<1> USE DEF disk, Passes, Serve, PortTaken, NotLoaded, OpenFails, At, Provided, Loads
<1>0. next \in 1 .. Len(Order) /\ Order[next] = s /\ phase = "boot" /\ phase' = "boot"
      /\ next' = next + 1 /\ making = "nothing" /\ making' = "nothing" /\ Len(Order) \in Nat
  BY OrderFacts
<1>1. StartupTypeOK'
  <2>1. serving' \subseteq Services /\ taken' \subseteq Services /\ unopened' \subseteq WithFiles
    BY DEF StartInv, StartupTypeOK
  <2>2. next' \in 0 .. Len(Order) + 1
    BY <1>0
  <2> QED  BY <2>1, <2>2, <1>0 DEF StartInv, StartupTypeOK
<1>2. MakingOK'
  BY <1>0 DEF MakingOK
<1>3. TornExplained'
  BY DEF StartInv, TornExplained
<1>4. Settled(s)'
  <2>1. CASE Serve(s) \/ PortTaken(s) \/ OpenFails(s)
    BY <2>1 DEF Settled
  <2>2. CASE NotLoaded(s)
    BY <2>2, <1>0 DEF Settled, WithFiles, StartInv, TornExplained, StartupTypeOK, Files, PairLacking
  <2> QED  BY <2>1, <2>2
<1>5. ASSUME NEW i \in DOMAIN Order, i < next + 1 PROVE Settled(Order[i])'
  <2>1. i \in 1 .. Len(Order)
    BY OrderFacts
  <2>2. CASE i = next
    BY <2>2, <1>4, <1>0
  <2>3. CASE i # next
    <3>1. i < next
      BY <2>1, <2>3, <1>0, <1>5
    <3>2. Settled(Order[i])
      BY <3>1, <1>0 DEF StartInv, BehindOK
    <3> QED  BY <3>2 DEF Settled
  <2> QED  BY <2>2, <2>3
<1>6. BehindOK'
  BY <1>0, <1>5 DEF StartInv, BehindOK
<1>7. DegradedExplained'
  BY <1>0 DEF DegradedExplained
<1>8. NothingSkipped'
  <2>1. serving' # {} => tables' = "all"
    BY <1>0 DEF StartInv, BehindOK
  <2>2. ASSUME NEW t \in {"ssh", "https"}, Past(t)' PROVE Past(t) \/ s = t
    <3>1. PICK i \in DOMAIN Order : Order[i] = t /\ i < next + 1
      BY <2>2, <1>0 DEF Past
    <3>2. i \in 1 .. Len(Order)
      BY OrderFacts
    <3>3. i = next \/ i < next
      BY <3>1, <3>2, <1>0
    <3> QED  BY <3>1, <3>3, <1>0 DEF Past
  <2>3. Past("ssh")' => hostKey' # "absent" \/ "ssh" \in unopened'
    BY <2>2 DEF StartInv, NothingSkipped
  <2>4. Past("https")' => (key' # "absent" /\ cert' # "absent") \/ "now" \in cut' \/ "https" \in unopened'
    BY <2>2 DEF StartInv, NothingSkipped, PairLacking
  <2> QED  BY <2>1, <2>3, <2>4 DEF NothingSkipped
<1> QED  BY <1>1, <1>2, <1>3, <1>6, <1>7, <1>8 DEF StartInv

LEMMA MakingFailsInv == StartInv /\ MakingFails => StartInv'
<1> SUFFICES ASSUME StartInv, MakingFails PROVE StartInv'
  OBVIOUS
<1> USE DEF disk, MakingFails
<1>0. next \in 1 .. Len(Order) /\ phase = "boot" /\ phase' = "boot" /\ next' = next + 1
      /\ making' = "nothing" /\ "now" \in cut' /\ Order[next] \in {"ssh", "https"}
      /\ Len(Order) \in Nat /\ (Order[next] = "ssh" => making = "hostKey")
  BY OrderFacts DEF StartInv, MakingOK, StartupTypeOK, Steps
<1>1. StartupTypeOK'
  BY <1>0 DEF StartInv, StartupTypeOK
<1>2. MakingOK' /\ TornExplained'
  BY <1>0 DEF MakingOK, TornExplained
<1>3. ASSUME NEW i \in DOMAIN Order, i < next + 1 PROVE Settled(Order[i])'
  <2>1. i \in 1 .. Len(Order)
    BY OrderFacts
  <2>2. CASE i = next
    BY <2>2, <1>0 DEF Settled, WithFiles
  <2>3. CASE i # next
    <3>1. i < next
      BY <2>1, <2>3, <1>0, <1>3
    <3>2. Settled(Order[i])
      BY <3>1, <1>0 DEF StartInv, BehindOK
    <3> QED  BY <3>2 DEF Settled
  <2> QED  BY <2>2, <2>3
<1>4. BehindOK'
  BY <1>0, <1>3 DEF StartInv, BehindOK
<1>5. DegradedExplained'
  BY <1>0 DEF DegradedExplained
<1>6. NothingSkipped'
  <2>1. ASSUME Past("ssh")' PROVE hostKey # "absent" \/ "ssh" \in unopened
    <3>1. PICK i \in DOMAIN Order : Order[i] = "ssh" /\ i < next + 1
      BY <2>1, <1>0 DEF Past
    <3>2. i \in 1 .. Len(Order)
      BY OrderFacts
    <3>3. i = next \/ i < next
      BY <3>1, <3>2, <1>0
    <3>4. CASE i = next
      BY <3>1, <3>4, <1>0 DEF StartInv, MakingOK
    <3>5. CASE i < next
      BY <3>1, <3>5, <1>0 DEF StartInv, NothingSkipped, Past
    <3> QED  BY <3>3, <3>4, <3>5
  <2> QED  BY <2>1, <1>0 DEF StartInv, NothingSkipped
<1> QED  BY <1>1, <1>2, <1>4, <1>5, <1>6 DEF StartInv

\* Main's own steps.
LEMMA CreateTablesInv == StartInv /\ CreateTables => StartInv'
<1> SUFFICES ASSUME StartInv, CreateTables PROVE StartInv'
  OBVIOUS
<1> USE DEF disk, CreateTables
<1>1. StartupTypeOK'
  BY OrderFacts DEF StartInv, StartupTypeOK
<1>2. MakingOK' /\ TornExplained'
  BY OrderFacts DEF StartInv, MakingOK, TornExplained
<1>3. \A i \in DOMAIN Order : ~(i < 1)
  BY OrderFacts
<1>4. BehindOK' /\ DegradedExplained' /\ NothingSkipped'
  BY <1>3 DEF BehindOK, DegradedExplained, NothingSkipped, Past
<1> QED  BY <1>1, <1>2, <1>4 DEF StartInv

LEMMA StartedInv == StartInv /\ Started => StartInv'
<1> SUFFICES ASSUME StartInv, Started PROVE StartInv'
  OBVIOUS
<1> USE DEF disk, Started
<1>0. making = "nothing" /\ \A i \in DOMAIN Order : i < next /\ Settled(Order[i])
  BY OrderFacts DEF StartInv, BehindOK, MakingOK
<1>1. StartupTypeOK'
  BY OrderFacts DEF StartInv, StartupTypeOK
<1>2. MakingOK' /\ TornExplained' /\ BehindOK'
  BY <1>0 DEF StartInv, MakingOK, TornExplained, BehindOK
<1>3. DegradedExplained'
  BY <1>0 DEF DegradedExplained, Settled, Services
<1>4. NothingSkipped'
  <2>1. Past("ssh") /\ Past("https")
    BY <1>0, OrderFacts DEF Past
  <2> QED  BY <2>1 DEF StartInv, NothingSkipped
<1> QED  BY <1>1, <1>2, <1>3, <1>4 DEF StartInv

LEMMA StopInv == StartInv /\ (Stop \/ Restart) => StartInv'
<1> SUFFICES ASSUME StartInv, Stop \/ Restart PROVE StartInv'
  OBVIOUS
<1> USE DEF disk, Stop, Restart
<1>1. StartupTypeOK'
  <2>1. serving' \subseteq Services /\ starts' \in Nat
    BY DEF StartInv, StartupTypeOK
  <2> QED  BY <2>1 DEF StartInv, StartupTypeOK
<1>2. making = "nothing"
  BY DEF StartInv, MakingOK
<1>3. MakingOK' /\ TornExplained'
  BY <1>2 DEF StartInv, MakingOK, TornExplained
<1> QED
  <2>1. CASE Stop
    BY <2>1, <1>1, <1>3 DEF StartInv, BehindOK, DegradedExplained, NothingSkipped, Past
  <2>2. CASE Restart
    <3>1. next = 0 /\ serving = {} /\ \A i \in DOMAIN Order : ~(i < 0)
      BY <2>2, OrderFacts DEF StartInv, BehindOK
    <3> QED  BY <3>1, <2>2, <1>1, <1>3, OrderFacts
               DEF StartInv, BehindOK, DegradedExplained, NothingSkipped, Past
  <2> QED  BY <2>1, <2>2

LEMMA EndStepInv == StartInv /\ EndStep => StartInv'
<1> SUFFICES ASSUME StartInv, EndStep PROVE StartInv'
  OBVIOUS
<1> USE DEF disk, EndStep, Exit, Kill, Down
<1>1. StartupTypeOK'
  BY OrderFacts DEF StartInv, StartupTypeOK
<1>2. phase' = "down" /\ making' = "nothing" /\ serving' = {}
  OBVIOUS
<1>3. TornExplained'
  BY DEF StartInv, TornExplained
<1> QED  BY <1>1, <1>2, <1>3
           DEF StartInv, MakingOK, BehindOK, DegradedExplained, NothingSkipped, Past

LEMMA MainStepInv == StartInv /\ MainStep => StartInv'
<1> SUFFICES ASSUME StartInv, MainStep PROVE StartInv'
  OBVIOUS
<1>1. \/ MakeStep \/ MakingFails \/ CreateTables \/ Started \/ Stop \/ Restart
      \/ \E s \in Services : Passes(s)
  BY OpenedInOrder DEF MainStep, Boot, MakeStep, Passes
<1> QED  BY <1>1, MakeStepInv, MakingFailsInv, CreateTablesInv, StartedInv, StopInv,
            PassesInv

-----------------------------------------------------------------------------
(* The connections.                                                        *)

\* ConnectionsTypeOK, in two parts for the provers' sake.
Flags ==
    /\ txn \in Transactions /\ writer \in {"idle", "waiting", "holding"}
    /\ stale \in BOOLEAN /\ deleting \in BOOLEAN /\ old \in BOOLEAN
    /\ purged \in BOOLEAN /\ skewed \in BOOLEAN
Counts ==
    /\ refusals \in 0 .. MaxRefusals /\ denied \subseteq {"session", "batch"}
    /\ stale => txn = "reading"

\* What is deleted and not committed was deleted by a purge: with it, a lock held
\* between two steps, hence a denial, goes back to a purge.
LockInv == Flags /\ Counts /\ TroubleExplained /\ (deleting => purged)

LEMMA LockInvInit == ConnectionsInit => LockInv
<1> SUFFICES ASSUME ConnectionsInit PROVE LockInv
  OBVIOUS
<1> USE DEF ConnectionsInit
<1>1. Flags
  BY DEF Flags, Transactions
<1>2. Counts
  BY ConnectionsAssumption DEF Counts
<1>3. TroubleExplained /\ (deleting => purged)
  BY DEF TroubleExplained
<1> QED  BY <1>1, <1>2, <1>3 DEF LockInv

\* The operations of the kept connection.
LoopStep == Write \/ Purge \/ Stats \/ Export

LEMMA LoopStepInv == LockInv /\ LoopStep => LockInv'
<1> SUFFICES ASSUME LockInv, LoopStep PROVE LockInv'
  OBVIOUS
<1> USE ConnectionsAssumption
    DEF LockInv, trouble, LoopStep, Write, Purge, Stats, Export, Committed,
           DeleteThenFail, Refused, CommitRefused, RolledBack, Ignored, Admitted, Silenced
<1>1. Flags'
  <2>1. CASE Committed
    BY <2>1 DEF Flags, Transactions
  <2>2. CASE DeleteThenFail
    BY <2>2 DEF Flags, Transactions
  <2>3. CASE Refused
    BY <2>3 DEF Flags, Transactions
  <2>4. CASE RolledBack
    BY <2>4 DEF Flags, Transactions
  <2>5. CASE Ignored
    BY <2>5 DEF Flags, Transactions
  <2>6. CASE Stats
    BY <2>6 DEF Flags, Transactions
  <2>7. CASE Export
    BY <2>7 DEF Flags, Transactions
  <2>8. CASE CommitRefused
    BY <2>8 DEF Flags, Transactions
  <2> QED  BY <2>1, <2>2, <2>3, <2>4, <2>5, <2>6, <2>7, <2>8
<1>2. Counts'
  <2>1. CASE Committed
    BY <2>1 DEF Counts
  <2>2. CASE DeleteThenFail
    BY <2>2 DEF Counts
  <2>3. CASE Refused
    BY <2>3 DEF Counts
  <2>4. CASE RolledBack
    BY <2>4 DEF Counts
  <2>5. CASE Ignored
    BY <2>5 DEF Counts
  <2>6. CASE Stats
    BY <2>6 DEF Counts
  <2>7. CASE Export
    BY <2>7 DEF Counts
  <2>8. CASE CommitRefused
    BY <2>8 DEF Counts
  <2> QED  BY <2>1, <2>2, <2>3, <2>4, <2>5, <2>6, <2>7, <2>8
<1>3. TroubleExplained'
  <2>1. CASE Committed
    BY <2>1 DEF Counts, TroubleExplained
  <2>2. CASE DeleteThenFail
    BY <2>2 DEF Counts, TroubleExplained
  <2>3. CASE Refused
    BY <2>3 DEF Counts, TroubleExplained
  <2>4. CASE RolledBack
    BY <2>4 DEF Counts, TroubleExplained
  <2>5. CASE Ignored
    BY <2>5 DEF Counts, TroubleExplained
  <2>6. CASE Stats
    BY <2>6 DEF Counts, TroubleExplained
  <2>7. CASE Export
    BY <2>7 DEF Counts, TroubleExplained
  <2>8. CASE CommitRefused
    BY <2>8 DEF Counts, TroubleExplained
  <2> QED  BY <2>1, <2>2, <2>3, <2>4, <2>5, <2>6, <2>7, <2>8
<1>4. deleting' => purged'
  OBVIOUS
<1> QED  BY <1>1, <1>2, <1>3, <1>4

\* The other connections, and time.
OtherStep == EndSession \/ WriterStep \/ Age

LEMMA OtherStepInv == LockInv /\ OtherStep => LockInv'
<1> SUFFICES ASSUME LockInv, OtherStep PROVE LockInv'
  OBVIOUS
<1> USE DEF LockInv, trouble, OtherStep, EndSession, SessionStored, SessionDenied,
           WriterStep, Flush, Lock, BatchCommit, GiveUp, Age, OthersCommit, connections
<1>1. Flags'
  BY DEF Flags, Transactions
<1>2. Counts'
  <2>1. CASE SessionStored
    BY <2>1 DEF Counts
  <2>2. CASE SessionDenied
    BY <2>2 DEF Counts
  <2>3. CASE Flush
    BY <2>3 DEF Counts
  <2>4. CASE Lock
    BY <2>4 DEF Counts
  <2>5. CASE BatchCommit
    BY <2>5 DEF Counts
  <2>6. CASE GiveUp
    BY <2>6 DEF Counts
  <2>7. CASE Age
    BY <2>7 DEF Counts
  <2> QED  BY <2>1, <2>2, <2>3, <2>4, <2>5, <2>6, <2>7
<1>3. TroubleExplained'
  <2>1. CASE SessionStored
    BY <2>1 DEF Counts, TroubleExplained
  <2>2. CASE SessionDenied
    BY <2>2 DEF Counts, TroubleExplained
  <2>3. CASE Flush
    BY <2>3 DEF Counts, TroubleExplained
  <2>4. CASE Lock
    BY <2>4 DEF Counts, TroubleExplained
  <2>5. CASE BatchCommit
    BY <2>5 DEF Counts, TroubleExplained
  <2>6. CASE GiveUp
    BY <2>6 DEF Counts, TroubleExplained
  <2>7. CASE Age
    BY <2>7 DEF Counts, TroubleExplained
  <2> QED  BY <2>1, <2>2, <2>3, <2>4, <2>5, <2>6, <2>7
<1>4. deleting' => purged'
  OBVIOUS
<1> QED  BY <1>1, <1>2, <1>3, <1>4

LEMMA DisconnectedInv == LockInv /\ Disconnected => LockInv'
<1> SUFFICES ASSUME LockInv, Disconnected PROVE LockInv'
  OBVIOUS
<1> USE DEF LockInv, trouble, Disconnected
<1>1. Flags'
  BY DEF Flags, Transactions
<1>2. Counts'
  BY DEF Counts, TroubleExplained
<1>3. TroubleExplained'
  BY DEF Counts, TroubleExplained
<1>4. deleting' => purged'
  OBVIOUS
<1> QED  BY <1>1, <1>2, <1>3, <1>4

\* Which of the two a step on the database is.
LEMMA DatabaseSteps == DatabaseStep => LoopStep \/ OtherStep
BY DEF DatabaseStep, LoopStep, OtherStep, HandlerWrites, HandlerEnds, DashboardStats,
       DashboardExport, DashboardHealth, PeriodicRetention, PeriodicHealth,
       PeriodicReport, WriterRuns, HealthRecorded

-----------------------------------------------------------------------------
(* Both halves.                                                            *)

IInv == StartInv /\ LockInv

\* A step that changes nothing of the start keeps StartInv; the same for LockInv.
LEMMA StartKept == StartInv /\ UNCHANGED startup => StartInv'
BY DEF startup, disk, StartInv, StartupTypeOK, MakingOK, TornExplained, BehindOK, Settled,
       DegradedExplained, NothingSkipped, Past

LEMMA LockKept == LockInv /\ UNCHANGED <<connections, trouble>> => LockInv'
BY DEF connections, trouble, LockInv, Flags, Counts, TroubleExplained

LEMMA Inductive == IInv /\ [Next]_vars => IInv'
<1> SUFFICES ASSUME IInv, [Next]_vars PROVE IInv'
  OBVIOUS
<1> USE DEF IInv
<1>1. CASE DatabaseStep /\ UNCHANGED startup
  BY <1>1, DatabaseSteps, LoopStepInv, OtherStepInv, StartKept
<1>2. CASE MainStep /\ UNCHANGED <<connections, trouble>>
  BY <1>2, MainStepInv, LockKept
<1>3. CASE EndStep /\ Disconnected
  BY <1>3, EndStepInv, DisconnectedInv
<1>4. CASE UNCHANGED vars
  <2>1. UNCHANGED startup /\ UNCHANGED <<connections, trouble>>
    BY <1>4 DEF vars
  <2> QED  BY <2>1, StartKept, LockKept
<1> QED  BY <1>1, <1>2, <1>3, <1>4 DEF Next

LEMMA Invariant == Spec => []IInv
<1>1. Init => IInv
  BY StartInvInit, LockInvInit DEF Init, IInv
<1> QED  BY <1>1, Inductive, PTL DEF Spec

\* The variables of the start and of the connections keep to their ranges; only an
\* open read transaction is out of date.
THEOREM Types == Spec => []TypeOK
<1>1. IInv => TypeOK
  BY DEF IInv, StartInv, LockInv, Flags, Counts, TypeOK, ConnectionsTypeOK
<1> QED  BY <1>1, Invariant, PTL

\* However purges, refusals, sessions, batches, reads and restarts follow one
\* another, the connections of the process disturb one another only after a purge or
\* a refused statement or commit (_get_conn, purge_old_data, end_session, _flush_batch).
THEOREM LocksExplained == Spec => []TroubleExplained
<1>1. IInv => TroubleExplained
  BY DEF IInv, LockInv
<1> QED  BY <1>1, Invariant, PTL

\* In a process whose main is through (run_*_server, main), a server is missing only
\* for a port taken or a file refused in this start, or for a file whose making was cut
\* in this or an earlier one.
THEOREM Degraded == Spec => []DegradedExplained
<1>1. IInv => DegradedExplained
  BY DEF IInv, StartInv
<1> QED  BY <1>1, Invariant, PTL

\* A start makes up for what earlier starts left unmade, wherever they ended, but for
\* the files it cannot open itself.
THEOREM Complete == Spec => []NothingSkipped
<1>1. IInv => NothingSkipped
  BY DEF IInv, StartInv
<1> QED  BY <1>1, Invariant, PTL

-----------------------------------------------------------------------------
(* What does not pass.                                                     *)

\* A kept connection whose snapshot is out of date stores nothing and deletes nothing
\* for the life of the process.
THEOREM Silence == Spec => SilentForLife
<1>1. [Next]_vars => [StaysSilent]_vars
  <2> SUFFICES ASSUME [Next]_vars, Silenced PROVE StaysSilent \/ UNCHANGED vars
    BY DEF StaysSilent
  <2> USE DEF StaysSilent, Silenced
  <2>1. CASE DatabaseStep
    <3>1. CASE LoopStep
      BY <3>1 DEF LoopStep, Write, Purge, Stats, Export, Committed, DeleteThenFail,
                  Refused, CommitRefused, RolledBack, Ignored, Admitted
    <3>2. CASE OtherStep
      BY <3>2 DEF OtherStep, EndSession, SessionStored, SessionDenied, WriterStep, Flush,
                  Lock, BatchCommit, GiveUp, Age, OthersCommit, connections
    <3> QED  BY <2>1, <3>1, <3>2, DatabaseSteps
  <2>2. CASE MainStep /\ UNCHANGED <<connections, trouble>>
    BY <2>2 DEF connections
  <2>3. CASE EndStep
    BY <2>3 DEF EndStep, Exit, Kill, Down
  <2> QED  BY <2>1, <2>2, <2>3 DEF Next
<1> QED  BY <1>1, PTL DEF Spec, SilentForLife

\* A broken pair or host key is never replaced: the server that needs it is missing in
\* this and every later start.
THEOREM Broken == Spec => BrokenForGood
<1>1. [Next]_vars => [BrokenStays]_vars
  <2> SUFFICES ASSUME Next PROVE BrokenStays
    OBVIOUS
  <2> USE DEF BrokenStays, PairBroken, HostKeyBroken, disk
  <2>1. CASE UNCHANGED startup
    BY <2>1 DEF startup
  <2>2. CASE MakeStep \/ MakingFails
    BY <2>2 DEF MakeStep, MakeHostKey, HostKeyMade, MakePair, KeyMade, Sign, CertMade,
                MakingFails, PairLacking
  <2>3. CASE CreateTables \/ Started \/ Stop \/ Restart
    BY <2>3 DEF CreateTables, Started, Stop, Restart
  <2>4. CASE \E s \in Services : Passes(s)
    BY <2>4 DEF Passes, Serve, PortTaken, NotLoaded, OpenFails
  <2>5. CASE EndStep
    BY <2>5 DEF EndStep, Exit, Kill
  <2> QED  BY <2>1, <2>2, <2>3, <2>4, <2>5, OpenedInOrder DEF Next, MainStep, Boot, MakeStep, Passes
<1> QED  BY <1>1, PTL DEF Spec, BrokenForGood

-----------------------------------------------------------------------------
(* What does pass.                                                         *)

\* Of the pair, only the file that is made last can stay torn: a start makes the key
\* anew until a certificate has been opened.  What is broken was cut in the making.
OnlyLastBreaks ==
    /\ cert # "absent" => key = "whole"
    /\ PairBroken => cert = "torn" /\ cut # {}
    /\ HostKeyBroken => cut # {}

\* generate_self_signed_cert opens the certificate when the key is written.
KeyFirst == cert # "absent" => key = "whole"

LEMMA KeyFirstInv == IInv /\ KeyFirst /\ [Next]_vars => KeyFirst'
<1> SUFFICES ASSUME IInv, KeyFirst, [Next]_vars PROVE KeyFirst'
  OBVIOUS
<1> USE DEF KeyFirst, disk
<1>0. MakingOK
  BY DEF IInv, StartInv
<1>1. CASE UNCHANGED startup
  BY <1>1 DEF startup
<1>2. CASE MakeStep
  <2>1. CASE MakePair
    BY <2>1 DEF MakePair, PairLacking
  <2>2. CASE KeyMade \/ MakeHostKey \/ HostKeyMade
    BY <2>2 DEF KeyMade, MakeHostKey, HostKeyMade
  <2>3. CASE Sign \/ CertMade
    BY <2>3, <1>0 DEF Sign, CertMade, MakingOK
  <2> QED  BY <1>2, <2>1, <2>2, <2>3 DEF MakeStep
<1>3. CASE MakingFails \/ CreateTables \/ Started \/ Stop \/ Restart
  BY <1>3 DEF MakingFails, CreateTables, Started, Stop, Restart
<1>4. CASE \E s \in Services : Passes(s)
  BY <1>4 DEF Passes, Serve, PortTaken, NotLoaded, OpenFails
<1>5. CASE EndStep
  BY <1>5 DEF EndStep, Exit, Kill
<1>6. CASE UNCHANGED vars
  BY <1>6, <1>1 DEF vars
<1> QED  BY <1>1, <1>2, <1>3, <1>4, <1>5, <1>6, OpenedInOrder DEF Next, MainStep, Boot, MakeStep, Passes

\* The other side of BrokenForGood: a kill or an error while generate_self_signed_cert
\* writes the key is made up for; only the certificate and the host key stay torn.
THEOREM TornKeyHeals == Spec => []OnlyLastBreaks
<1>1. Init => KeyFirst
  BY DEF Init, StartupInit, KeyFirst
<1>2. IInv /\ KeyFirst => OnlyLastBreaks
  BY DEF IInv, StartInv, TornExplained, KeyFirst, OnlyLastBreaks, PairBroken, HostKeyBroken
<1>3. Spec => []KeyFirst
  BY <1>1, KeyFirstInv, Invariant, PTL DEF Spec
<1> QED  BY <1>2, <1>3, Invariant, PTL
=============================================================================
