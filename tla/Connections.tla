----------------------------- MODULE Connections ----------------------------
(***************************************************************************)
(* Who holds SQLite's one write lock.  The process opens the file in WAL   *)
(* mode with three kinds of connections:                                   *)
(*   - the event loop's thread keeps one for its life (_get_conn), for     *)
(*     profiles, credentials, alerts, health checks, the purge and the     *)
(*     statistics;                                                         *)
(*   - the writer thread opens one for each flush;                         *)
(*   - end_session opens one for each session, on the loop's thread.       *)
(* Python's sqlite3 begins a transaction before it runs a statement that   *)
(* writes, and no except of DatabaseManager rolls back: what a refused     *)
(* statement began stays open on the connection that is kept, until the    *)
(* commit of a later write.  Reads of the other handlers of the dashboard  *)
(* and of the analysis use connections of their own: they see what is      *)
(* committed and change nothing.                                           *)
(*                                                                         *)
(* This module has the operations; Process says when they run.             *)
(***************************************************************************)
EXTENDS Naturals

CONSTANTS
    MaxRefusals     \* bound on what SQLite refuses (a full disk, another program's lock)

ASSUME ConnectionsAssumption == MaxRefusals \in Nat

VARIABLES
    txn,        \* the kept connection's transaction: see Transactions
    stale,      \* others have committed since it read
    deleting,   \* it deleted old rows and did not commit
    old,        \* tables hold committed rows that are past data_retention_days
    writer      \* the writer thread's connection: "idle", "waiting", "holding"

\* History: refusals of SQLite; whether a purge ever deleted; which writes of other
\* connections were denied by the process's own lock; whether an export showed
\* statistics and lists of different states.
VARIABLES refusals, purged, denied, skewed

connections == <<txn, stale, deleting, old, writer>>
trouble == <<refusals, purged, denied, skewed>>

\* "begun": BEGIN, without a lock or a snapshot.  "reading": with the snapshot of
\* its first read.  "writing": with the write lock.
Transactions == {"none", "begun", "reading", "writing"}

\* The snapshot of a transaction that is out of date cannot be written to:
\* SQLITE_BUSY_SNAPSHOT, at once and whenever it is tried again.
Silenced == txn = "reading" /\ stale

\* The kept connection gets the lock, or has it.
Admitted == writer # "holding" /\ ~Silenced

ConnectionsInit ==
    /\ txn = "none" /\ stale = FALSE /\ deleting = FALSE
    /\ old = FALSE /\ writer = "idle"
    /\ refusals = 0 /\ purged = FALSE /\ denied = {} /\ skewed = FALSE

\* With the process its transactions end, uncommitted.  (A slip first: a snapshot
\* outlives its connection.)
StaleAfterRestart ==
    /\ txn' = "none" /\ deleting' = FALSE /\ writer' = "idle"
    /\ UNCHANGED <<stale, old, trouble>>

Disconnected ==
    /\ txn' = "none" /\ stale' = FALSE /\ deleting' = FALSE
    /\ writer' = "idle"
    /\ UNCHANGED <<old, trouble>>

-----------------------------------------------------------------------------
(* Writes on the kept connection: one statement, commit, and an except     *)
(* that only logs.                                                         *)

\* A slip: no commit follows the statement.
Uncommitted ==
    /\ Admitted
    /\ txn' = "writing" /\ stale' = FALSE
    /\ UNCHANGED <<deleting, old, writer, trouble>>

\* What others see as old is gone with the commit of a purge's deletions.
Committed ==
    /\ Admitted
    /\ txn' = "none" /\ stale' = FALSE /\ deleting' = FALSE
    /\ old' = (old /\ ~deleting)
    /\ UNCHANGED <<writer, trouble>>

\* The statement is refused: what was begun for it stays open.
Refused ==
    /\ ~Silenced /\ refusals < MaxRefusals
    /\ refusals' = refusals + 1
    /\ txn' = IF txn = "none" THEN "begun" ELSE txn
    /\ UNCHANGED <<stale, deleting, old, writer, purged, denied, skewed>>

\* SQLite rolls back by itself (a full disk, an I/O error), also in a commit.
RolledBack ==
    /\ ~Silenced /\ refusals < MaxRefusals
    /\ refusals' = refusals + 1
    /\ txn' = "none" /\ stale' = FALSE /\ deleting' = FALSE
    /\ UNCHANGED <<old, writer, purged, denied, skewed>>

\* The statement runs and its commit is refused: its rows and the lock stay.
CommitRefused ==
    /\ Admitted /\ refusals < MaxRefusals
    /\ refusals' = refusals + 1
    /\ txn' = "writing" /\ stale' = FALSE
    /\ UNCHANGED <<deleting, old, writer, purged, denied, skewed>>

\* A slip: the except rolls back what is open.
IgnoredThenRolledBack ==
    /\ Silenced
    /\ txn' = "none" /\ stale' = FALSE /\ deleting' = FALSE
    /\ UNCHANGED <<old, writer, trouble>>

Ignored == Silenced /\ UNCHANGED <<txn, stale, deleting, old, writer, trouble>>

\* upsert_profile, log_credentials, log_health_check, log_alert.
Write == Committed \/ Refused \/ CommitRefused \/ RolledBack \/ Ignored

-----------------------------------------------------------------------------
(* purge_old_data: four DELETEs, VACUUM, commit.                           *)

\* The DELETEs open a transaction, within which VACUUM always fails: the commit
\* is not reached, and the lock stays.
DeleteThenFail ==
    /\ Admitted
    /\ txn' = "writing" /\ stale' = FALSE /\ deleting' = TRUE
    /\ purged' = TRUE
    /\ UNCHANGED <<old, writer, refusals, denied, skewed>>

Purge == DeleteThenFail \/ Refused \/ RolledBack \/ Ignored

-----------------------------------------------------------------------------
(* Reads of the kept connection.                                           *)

\* get_stats: a read within a transaction that was left open keeps its snapshot.
Stats ==
    /\ txn' = IF txn = "begun" THEN "reading" ELSE txn
    /\ UNCHANGED <<stale, deleting, old, writer, trouble>>

\* _handle_export_json: statistics of the kept connection, which include what it
\* has not committed and may be stale, beside lists that a new connection reads.
Export ==
    /\ txn' = IF txn = "begun" THEN "reading" ELSE txn
    /\ skewed' = (skewed \/ Silenced \/ txn = "writing")
    /\ UNCHANGED <<stale, deleting, old, writer, refusals, purged, denied>>

-----------------------------------------------------------------------------
(* The other connections.                                                  *)

\* A commit of another connection makes the snapshot of the kept one stale.
OthersCommit == stale' = (stale \/ txn = "reading")

\* end_session's INSERT runs on the same thread: nobody can release the lock of
\* the kept connection while it waits (timeout=10), and the row is lost.
SessionStored ==
    /\ txn # "writing" /\ writer # "holding"
    /\ OthersCommit
    /\ UNCHANGED <<txn, deleting, old, writer, trouble>>

SessionDenied ==
    /\ txn = "writing"
    /\ denied' = denied \cup {"session"}
    /\ UNCHANGED <<connections, refusals, purged, skewed>>

EndSession == SessionStored \/ SessionDenied

\* _flush_batch, for the batch and for each row of the fallback: wait for the lock,
\* insert, commit, or give up after timeout=30.
Flush ==
    /\ writer = "idle" /\ writer' = "waiting"
    /\ UNCHANGED <<txn, stale, deleting, old, trouble>>

Lock ==
    /\ writer = "waiting" /\ txn # "writing"
    /\ writer' = "holding"
    /\ UNCHANGED <<txn, stale, deleting, old, trouble>>

BatchCommit ==
    /\ writer = "holding" /\ writer' = "idle"
    /\ OthersCommit
    /\ UNCHANGED <<txn, deleting, old, trouble>>

GiveUp ==
    /\ writer = "waiting" /\ txn = "writing"
    /\ writer' = "idle"
    /\ denied' = denied \cup {"batch"}
    /\ UNCHANGED <<txn, stale, deleting, old, refusals, purged, skewed>>

WriterStep == Flush \/ Lock \/ BatchCommit \/ GiveUp

\* Rows pass the retention.  Those that pass it while a purge is not committed are
\* counted from its commit on.
Age ==
    /\ ~old /\ old' = TRUE
    /\ UNCHANGED <<txn, stale, deleting, writer, trouble>>

-----------------------------------------------------------------------------
ConnectionsTypeOK ==
    /\ txn \in Transactions /\ writer \in {"idle", "waiting", "holding"}
    /\ stale \in BOOLEAN /\ deleting \in BOOLEAN /\ old \in BOOLEAN
    /\ refusals \in 0 .. MaxRefusals /\ purged \in BOOLEAN /\ skewed \in BOOLEAN
    /\ denied \subseteq {"session", "batch"}
    /\ stale => txn = "reading"

\* The lock has one holder.  Between two steps of the loop the kept connection holds
\* it only if a purge or a refused commit left it, and a transaction without the lock
\* only after a refusal.  Sessions and batches are denied, and exports are inconsistent, only if
\* one of the two happened: in ordinary operation the three kinds of connections do
\* not get in each other's way.
TroubleExplained ==
    /\ ~(txn = "writing" /\ writer = "holding")
    /\ deleting => txn = "writing"
    /\ refusals = 0 => txn \notin {"begun", "reading"} /\ (txn = "writing" => deleting)
    /\ refusals = 0 /\ ~purged => denied = {} /\ ~skewed
=============================================================================
