----------------------------- MODULE EventStore -----------------------------
(***************************************************************************)
(* DatabaseManager's write path for events: log_event (the event loop's    *)
(* thread) puts an INSERT on a bounded queue; one daemon thread collects   *)
(* batches and flushes each of them over a connection of its own, with a   *)
(* row-by-row fallback when the batch fails.  main() stops the thread with *)
(* a pill (None) and returns without joining it.                           *)
(*                                                                         *)
(* An event is its number: the n-th call of log_event logs event n.  The   *)
(* statement of an event is INSERT OR IGNORE on a UNIQUE event_id (a fresh *)
(* uuid4), so inserting an event twice leaves one row.                     *)
(***************************************************************************)
EXTENDS Integers, Sequences, FiniteSets, Functions

CONSTANTS
    MaxQueue,       \* capacity of _write_queue (5000)
    MaxBatch,       \* flush at this many items (50)
    Faults,         \* what SQLite may refuse: see FaultKinds
    MaxFaults,      \* bound on refusals during one flush
    MaxEvents,      \* bound on calls of log_event
    MaxKills,       \* bound on crashes of the process
    MaxStarts       \* bound on starts of the process

FaultKinds == {"connect", "statement", "commit"}

ASSUME StoreAssumption ==
    /\ MaxQueue \in Nat \ {0}
    /\ MaxBatch \in Nat \ {0}
    /\ Faults \subseteq FaultKinds
    /\ {MaxFaults, MaxEvents, MaxKills, MaxStarts} \subseteq Nat

VARIABLES
    proc,       \* the process: "up", "putting" the pill, "exiting", "down"
    queue,      \* _write_queue: event numbers, and Pill
    wpc,        \* where the writer thread stands
    batch,      \* the writer's batch
    next,       \* the row of the batch the fallback tries next
    txn,        \* rows inserted by the flush and not committed
    ending,     \* the flush under way is the last one (the pill was read)
    rows        \* the table events, in the order of its rowids

\* History of the run: it records, and no guard but the bounds reads it.
VARIABLES
    logged,     \* calls of log_event so far
    dropped,    \* events refused because the queue was full
    reported,   \* rows for which the fallback logged an error
    lost,       \* events in memory when the thread or the process died
    faults,     \* refusals by SQLite during the flush under way
    signalled,  \* calls of log_event before the last shutdown signal
    kills, starts

store   == <<queue, wpc, batch, next, txn, ending, rows>>
fates   == <<dropped, reported, lost>>
history == <<logged, fates, faults, signalled, kills, starts>>
vars    == <<proc, store, history>>

Pill == 0

Alive == proc # "down"

\* Events held in the memory of the process and not in the table.
Queued   == Range(queue) \ {Pill}
InMemory == (Queued \cup Range(batch)) \ Range(rows)

\* log_event runs on the event loop's thread: in the handlers while the process
\* is up, in callbacks while asyncio.run closes the loop; never while main()
\* blocks in put(None).
CanLog == proc \in {"up", "exiting"} /\ logged < MaxEvents

\* SQLite refuses a statement or a commit of the flush under way.
Refused(kind) ==
    /\ kind \in Faults
    /\ faults < MaxFaults
    /\ faults' = faults + 1

\* "DB batch write error" is logged for the row the fallback is at.  That says nothing
\* of the row: a refused commit leaves it in the transaction, for the next row's
\* commit to store, and what is stored already is tried again.
Report == reported' = reported \cup {batch[next]}

-----------------------------------------------------------------------------
(* Slips the code could have made: each stands for an operation below, and *)
(* makes a property of this module fail.                                   *)

\* A plain INSERT with no UNIQUE column to stop it.
InsertedTwice(t, e) == Append(t, e)

EnqueueUnbounded ==
    /\ CanLog
    /\ logged' = logged + 1
    /\ queue' = Append(queue, logged + 1)
    /\ UNCHANGED <<proc, wpc, batch, next, txn, ending, rows, fates, faults, signalled, kills, starts>>

\* queue.Empty after a second without an item.
NoTimeoutFlush == FALSE

\* The thread leaves the loop when it finds nothing to do.
TimeoutBreaks ==
    /\ Alive /\ wpc = "get" /\ queue = <<>> /\ batch # <<>>
    /\ wpc' = "connect" /\ ending' = TRUE
    /\ UNCHANGED <<proc, queue, batch, next, txn, rows, history>>

\* No row is tried again when it was the commit that failed.
CommitFailsThenClose ==
    /\ Alive /\ wpc = "commit"
    /\ Refused("commit")
    /\ txn' \in {txn, <<>>}
    /\ wpc' = "close"
    /\ UNCHANGED <<proc, queue, batch, next, ending, rows, logged, fates, signalled, kills, starts>>

-----------------------------------------------------------------------------
\* INSERT OR IGNORE of one event within the open transaction.
Inserted(t, e) == IF e \in Range(rows) \cup Range(t) THEN t ELSE Append(t, e)

Init ==
    /\ proc = "up"
    /\ queue = <<>> /\ wpc = "get" /\ batch = <<>> /\ next = 1
    /\ txn = <<>> /\ ending = FALSE /\ rows = <<>>
    /\ logged = 0 /\ dropped = {} /\ reported = {} /\ lost = {}
    /\ faults = 0 /\ signalled = 0 /\ kills = 0 /\ starts = 1

-----------------------------------------------------------------------------
(* log_event.                                                              *)

Enqueue ==
    /\ CanLog
    /\ Len(queue) < MaxQueue
    /\ logged' = logged + 1
    /\ queue' = Append(queue, logged + 1)
    /\ UNCHANGED <<proc, wpc, batch, next, txn, ending, rows, fates, faults, signalled, kills, starts>>

Drop ==
    /\ CanLog
    /\ Len(queue) = MaxQueue
    /\ logged' = logged + 1
    /\ dropped' = dropped \cup {logged + 1}
    /\ UNCHANGED <<proc, store, reported, lost, faults, signalled, kills, starts>>

-----------------------------------------------------------------------------
(* _writer_loop.                                                           *)

\* The batch goes to _flush_batch; whether 2.0 s have passed is left open.
Get ==
    /\ Alive /\ wpc = "get"
    /\ queue # <<>> /\ Head(queue) # Pill
    /\ queue' = Tail(queue)
    /\ batch' = Append(batch, Head(queue))
    /\ wpc' \in IF Len(batch) + 1 >= MaxBatch THEN {"connect"} ELSE {"get", "connect"}
    /\ UNCHANGED <<proc, next, txn, ending, rows, history>>

GetPill ==
    /\ Alive /\ wpc = "get"
    /\ queue # <<>> /\ Head(queue) = Pill
    /\ queue' = Tail(queue)
    /\ ending' = TRUE
    /\ wpc' = IF batch = <<>> THEN "stopped" ELSE "connect"
    /\ UNCHANGED <<proc, batch, next, txn, rows, history>>

GetTimeout ==
    /\ Alive /\ wpc = "get"
    /\ queue = <<>> /\ batch # <<>>
    /\ wpc' = "connect"
    /\ UNCHANGED <<proc, queue, batch, next, txn, ending, rows, history>>

-----------------------------------------------------------------------------
(* _flush_batch.                                                           *)

Connect ==
    /\ Alive /\ wpc = "connect"
    /\ wpc' = "insert"
    /\ faults' = 0
    /\ UNCHANGED <<proc, queue, batch, next, txn, ending, rows, logged, fates, signalled, kills, starts>>

\* connect and the PRAGMA stand outside the try, and the loop catches only
\* queue.Empty: the exception ends the thread, and its batch with it.
ConnectFails ==
    /\ Alive /\ wpc = "connect"
    /\ "connect" \in Faults
    /\ wpc' = "dead"
    /\ lost' = lost \cup Range(batch)
    /\ batch' = <<>>
    /\ UNCHANGED <<proc, queue, next, txn, ending, rows, logged, dropped, reported, faults, signalled, kills, starts>>

InsertAll ==
    /\ Alive /\ wpc = "insert"
    /\ txn' = batch
    /\ wpc' = "commit"
    /\ UNCHANGED <<proc, queue, batch, next, ending, rows, history>>

\* executemany stops at some row: the rows before it stay in the open
\* transaction, unless the error made SQLite roll it back.
InsertAllFails ==
    /\ Alive /\ wpc = "insert"
    /\ Refused("statement")
    /\ \E k \in DOMAIN batch : txn' \in {<<>>, SubSeq(batch, 1, k - 1)}
    /\ wpc' = "retry" /\ next' = 1
    /\ UNCHANGED <<proc, queue, batch, ending, rows, logged, fates, signalled, kills, starts>>

CommitAll ==
    /\ Alive /\ wpc = "commit"
    /\ rows' = rows \o txn /\ txn' = <<>>
    /\ wpc' = "close"
    /\ UNCHANGED <<proc, queue, batch, next, ending, history>>

CommitAllFails ==
    /\ Alive /\ wpc = "commit"
    /\ Refused("commit")
    /\ txn' \in {txn, <<>>}
    /\ wpc' = "retry" /\ next' = 1
    /\ UNCHANGED <<proc, queue, batch, ending, rows, logged, fates, signalled, kills, starts>>

NextRow ==
    IF next < Len(batch) THEN wpc' = wpc /\ next' = next + 1
                         ELSE wpc' = "close" /\ next' = 1

RetryRow ==
    /\ Alive /\ wpc = "retry"
    /\ rows' = rows \o Inserted(txn, batch[next])
    /\ txn' = <<>>
    /\ NextRow
    /\ UNCHANGED <<proc, queue, batch, ending, history>>

RetryInsertFails ==
    /\ Alive /\ wpc = "retry"
    /\ Refused("statement")
    /\ txn' \in {txn, <<>>}
    /\ Report /\ NextRow
    /\ UNCHANGED <<proc, queue, batch, ending, rows, logged, dropped, lost, signalled, kills, starts>>

\* A slip: the try stands around the loop of the fallback, its first error ends the flush.
CommitFailsForAll ==
    /\ Alive /\ wpc = "retry"
    /\ Refused("commit")
    /\ txn' \in {Inserted(txn, batch[next]), <<>>}
    /\ Report
    /\ wpc' = "close" /\ next' = 1
    /\ UNCHANGED <<proc, queue, batch, ending, rows, logged, dropped, lost, signalled, kills, starts>>

RetryCommitFails ==
    /\ Alive /\ wpc = "retry"
    /\ Refused("commit")
    /\ txn' \in {Inserted(txn, batch[next]), <<>>}
    /\ Report /\ NextRow
    /\ UNCHANGED <<proc, queue, batch, ending, rows, logged, dropped, lost, signalled, kills, starts>>

\* close rolls back what was not committed; the loop starts a new batch.
Close ==
    /\ Alive /\ wpc = "close"
    /\ txn' = <<>> /\ batch' = <<>>
    /\ wpc' = IF ending THEN "stopped" ELSE "get"
    /\ UNCHANGED <<proc, queue, next, ending, rows, history>>

-----------------------------------------------------------------------------
(* The process: main() and what ends it.                                   *)

\* SIGINT or SIGTERM sets stop_event; nothing is awaited before the put.
Shutdown ==
    /\ proc = "up"
    /\ proc' = "putting"
    /\ signalled' = logged
    /\ UNCHANGED <<store, logged, fates, faults, kills, starts>>

PutPill ==
    /\ proc = "putting"
    /\ Len(queue) < MaxQueue
    /\ queue' = Append(queue, Pill)
    /\ proc' = "exiting"
    /\ UNCHANGED <<wpc, batch, next, txn, ending, rows, history>>

\* The memory of the process is gone, and an open transaction is rolled back.
Die ==
    /\ proc' = "down"
    /\ lost' = lost \cup InMemory
    /\ queue' = <<>> /\ batch' = <<>> /\ txn' = <<>>
    /\ UNCHANGED <<wpc, next, ending, rows, logged, dropped, reported, faults, signalled, starts>>

\* The interpreter does not wait for a daemon thread.
Exit == proc = "exiting" /\ Die /\ UNCHANGED kills

Kill ==
    /\ Alive /\ kills < MaxKills
    /\ kills' = kills + 1
    /\ Die

Restart ==
    /\ ~Alive /\ starts < MaxStarts
    /\ starts' = starts + 1
    /\ proc' = "up" /\ wpc' = "get" /\ next' = 1 /\ ending' = FALSE
    /\ UNCHANGED <<queue, batch, txn, rows, logged, fates, faults, signalled, kills>>

-----------------------------------------------------------------------------
Writer ==
    \/ Get \/ GetPill \/ GetTimeout
    \/ Connect \/ ConnectFails
    \/ InsertAll \/ InsertAllFails \/ CommitAll \/ CommitAllFails
    \/ RetryRow \/ RetryInsertFails \/ RetryCommitFails
    \/ Close

Process == Shutdown \/ PutPill \/ Exit \/ Kill \/ Restart

Next == Enqueue \/ Drop \/ Writer \/ Process

Spec == Init /\ [][Next]_vars

\* The writer thread is scheduled; main() goes on after its put, and
\* asyncio.run returns once the remaining tasks are cancelled.
Fairness == WF_vars(Writer) /\ WF_vars(PutPill) /\ WF_vars(Exit)

FairSpec == Spec /\ Fairness

-----------------------------------------------------------------------------
Events == 1 .. logged

\* Type correctness; the queue and the batch keep to their limits.
TypeOK ==
    /\ proc \in {"up", "putting", "exiting", "down"}
    /\ queue \in Seq(Events \cup {Pill}) /\ Len(queue) <= MaxQueue
    /\ wpc \in {"get", "connect", "insert", "commit", "retry", "close", "dead", "stopped"}
    /\ batch \in Seq(Events) /\ Len(batch) <= MaxBatch
    /\ next \in Nat \ {0}
    /\ txn \in Seq(Events) /\ rows \in Seq(Events)
    /\ ending \in BOOLEAN
    /\ logged \in Nat /\ faults \in Nat /\ signalled \in 0 .. logged /\ kills \in Nat /\ starts \in Nat
    /\ dropped \subseteq Events /\ reported \subseteq Events /\ lost \subseteq Events

Increasing(s) == \A i, j \in DOMAIN s : i < j => s[i] < s[j]

\* The table holds each event at most once, and in the order in which the
\* honeypots logged them, whatever the fallback of _flush_batch retried,
\* skipped or committed twice.
InOrder == Increasing(rows)

\* Why InOrder holds: what is committed, what the flush inserted and what is
\* still to come follow each other, also while the fallback of _flush_batch
\* walks over a batch of which some rows are inserted already.
Precedes(S, T) == \A m \in S, n \in T : m < n

QueueOrder ==
    /\ \A i, j \in DOMAIN queue : i < j /\ Pill \notin {queue[i], queue[j]} => queue[i] < queue[j]
    /\ Precedes(Range(rows) \cup Range(batch), Queued)

TxnOrder ==
    /\ Increasing(batch) /\ Increasing(txn)
    /\ Precedes(Range(rows), Range(txn)) /\ Range(txn) \subseteq Range(batch)

BatchAhead == wpc \in {"get", "connect", "insert"} => txn = <<>> /\ Precedes(Range(rows), Range(batch))

Filling == wpc = "get" => Len(batch) < MaxBatch

Halted == wpc \in {"dead", "stopped"} \/ ~Alive => batch = <<>> /\ txn = <<>>

RetryAhead ==
    wpc = "retry" /\ Alive =>
        /\ next \in DOMAIN batch
        /\ \A p \in next .. Len(batch) : batch[p] \notin Range(rows) \cup Range(txn) =>
              Precedes(Range(rows) \cup Range(txn), {batch[p]})

\* A flush has a batch, and commits all of it or falls back.
Flushed ==
    Alive => /\ wpc \in {"connect", "insert", "commit"} => batch # <<>>
             /\ wpc = "commit" => txn = batch

WriterOrder ==
    InOrder /\ QueueOrder /\ TxnOrder /\ BatchAhead /\ Filling /\ Halted /\ RetryAhead /\ Flushed

\* Every event logged is in memory, in the table, dropped at a full queue, or lost
\* with its thread or process, and in one of them only; or a flush gave it up, and
\* then an error was logged for it: none is gone without a trace.  The converse does
\* not hold, see Report: an error may be logged for an event that is stored.
OneFate ==
    /\ Events = InMemory \cup Range(rows) \cup dropped \cup reported \cup lost
    /\ Range(rows) \cap (dropped \cup lost) = {}
    /\ InMemory \cap (dropped \cup lost) = {}
    /\ dropped \cap (reported \cup lost) = {}

\* Why none is gone without a trace: the fallback has stored or reported each row
\* before the one it is at, and a flush all of them when it closes.
Tried(p) == batch[p] \in Range(rows) \cup reported

RowsAnswered ==
    Alive => /\ wpc = "retry" => \A p \in 1 .. next - 1 : Tried(p)
             /\ wpc = "close" => \A p \in DOMAIN batch : Tried(p)

\* The fallback of _flush_batch makes a flush proof against one refusal by
\* SQLite, of any statement or commit: it ends with every row of its batch in the
\* table, and has logged no error for any of them.
OneFaultAbsorbed ==
    wpc = "close" /\ faults <= 1 =>
        Range(batch) \subseteq Range(rows) /\ Range(batch) \cap reported = {}

\* The store implements the abstract log.
Log == INSTANCE EventLog WITH issued <- logged, pending <- InMemory, written <- rows
ImplementsLog == Log!LogSpec

\* As long as the writer thread lives, no event stays in memory for ever: the
\* one-second timeout of queue.get flushes a batch that does not fill up.
EventuallySettled ==
    \A n \in 1 .. MaxEvents : (n = logged) ~> (n \notin InMemory \/ wpc = "dead")

\* Unless the writer thread has died, main()'s blocking put(None) does not keep
\* the process from ending, although the queue may be full.
ShutdownCompletes == (proc = "putting") ~> (proc = "down" \/ wpc = "dead")

\* README.md:87 "events are batch-written to SQLite", which the pill's flush in
\* _writer_loop is there for: without a fault of SQLite and without a crash,
\* the events accepted before the shutdown signal are in the table when the
\* process has ended.
ShutdownKeepsEvents == proc = "down" => \A e \in lost : e > signalled
=============================================================================
