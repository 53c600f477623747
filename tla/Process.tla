------------------------------- MODULE Process ------------------------------
(***************************************************************************)
(* The process: its start (Startup) and its connections to SQLite          *)
(* (Connections).  Handlers run as soon as their server listens, the       *)
(* periodic tasks when main has created them, the writer thread until the  *)
(* process ends; the loop's thread does nothing else while it makes a      *)
(* file.  With the process end its transactions and locks; the files and   *)
(* the committed rows stay.                                                *)
(***************************************************************************)
EXTENDS Connections, Startup

vars == <<startup, connections, trouble>>

Init == StartupInit /\ ConnectionsInit

-----------------------------------------------------------------------------
(* When the operations on the database run.                                *)

LoopFree == phase \in {"boot", "running"} /\ making = "nothing"
Handling == LoopFree /\ serving # {}
Served(s) == LoopFree /\ s \in serving

\* A handler or the analysis saves a profile, credentials or an alert.
HandlerWrites == Handling /\ Write

\* A handler ends its session, also when it is cancelled at the end.
HandlerEnds == (Handling \/ phase = "stopping") /\ EndSession

\* The dashboard's page, its /api/stats and its export.
DashboardStats == Served("dashboard") /\ Stats
DashboardExport == Served("dashboard") /\ Export

\* check_all awaits three checks and records each result, an error or a timeout too.
\* Between two of them other tasks run: each record is a write of its own.
HealthRecorded == Write

DashboardHealth == Served("dashboard") /\ HealthRecorded
PeriodicHealth == phase = "running" /\ HealthRecorded

PeriodicRetention == phase = "running" /\ Purge
PeriodicReport == phase = "running" /\ Stats

\* The thread has events once something listens, and the last ones at the end.
WriterRuns == (Handling \/ making # "nothing" \/ phase = "stopping") /\ WriterStep

DatabaseStep ==
    \/ HandlerWrites \/ HandlerEnds
    \/ DashboardStats \/ DashboardExport \/ DashboardHealth
    \/ PeriodicRetention \/ PeriodicHealth \/ PeriodicReport
    \/ WriterRuns
    \/ Age

-----------------------------------------------------------------------------
MainStep == Boot \/ Stop \/ Restart
EndStep == Exit \/ Kill

Next ==
    \/ DatabaseStep /\ UNCHANGED startup
    \/ MainStep /\ UNCHANGED <<connections, trouble>>
    \/ EndStep /\ Disconnected

Spec == Init /\ [][Next]_vars

\* The periodic tasks are due again and again.  A write of the loop's thread waits
\* for the lock while the writer holds it, which is for some milliseconds at most
\* once in two seconds: it gets its turn (SF).
FairSpec ==
    /\ Spec
    /\ SF_vars(PeriodicRetention /\ UNCHANGED startup)
    /\ SF_vars(PeriodicHealth /\ UNCHANGED startup)
    /\ WF_vars(WriterRuns /\ UNCHANGED startup)

-----------------------------------------------------------------------------
TypeOK == StartupTypeOK /\ ConnectionsTypeOK

\* Once a read has pinned the snapshot of a transaction that a refused write left
\* open, and another connection has committed, the kept connection stores nothing
\* any more, and shows what it saw then, for the life of the process: no profile,
\* no credentials, no alert, no health check; neither does the purge delete.
StaysSilent == Silenced => phase' = "down" \/ (Silenced' /\ (old => old'))
SilentForLife == [][StaysSilent]_vars

\* A pair or a host key whose making was cut after its file was opened last is found
\* and refused by every later start: nothing makes it anew.
BrokenStays ==
    /\ PairBroken => key' = key /\ cert' = cert
    /\ HostKeyBroken => hostKey' = hostKey
BrokenForGood == [][BrokenStays]_vars

\* While the process runs, rows past the retention are gone in the end (with the
\* commit of the write that follows a purge), unless the kept connection is
\* silenced.
RetentionTakesEffect ==
    old ~> (~old \/ Silenced \/ phase # "running")
=============================================================================
