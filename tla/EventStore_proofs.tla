-------------------------- MODULE EventStore_proofs --------------------------
(***************************************************************************)
(* For every capacity, batch size, set of faults and number of events, the *)
(* event store keeps the types and limits, the order and the accounting of *)
(* the events, and implements EventLog.  Inv is the inductive invariant.   *)
(***************************************************************************)
EXTENDS EventStore, SequenceTheorems, FiniteSetTheorems, TLAPS

USE DEF Pill

-----------------------------------------------------------------------------
(* Sequences of events.                                                    *)

LEMMA AppendFacts ==
    ASSUME NEW S, NEW s \in Seq(S), NEW e \in S
    PROVE  /\ Append(s, e) \in Seq(S) /\ Len(Append(s, e)) = Len(s) + 1
           /\ Range(Append(s, e)) = Range(s) \cup {e}
BY AppendProperties, LenProperties DEF Range

LEMMA TailFacts ==
    ASSUME NEW S, NEW s \in Seq(S), s # <<>>
    PROVE  /\ Head(s) \in S /\ Head(s) = s[1]
           /\ Tail(s) \in Seq(S) /\ Len(Tail(s)) = Len(s) - 1
           /\ \A i \in DOMAIN Tail(s) : i + 1 \in DOMAIN s /\ Tail(s)[i] = s[i + 1]
           /\ Range(s) = {Head(s)} \cup Range(Tail(s))
<1>1. /\ Len(s) \in Nat \ {0} /\ DOMAIN s = 1 .. Len(s)
      /\ Tail(s) \in Seq(S) /\ Head(s) \in S
      /\ Len(Tail(s)) = Len(s) - 1 /\ DOMAIN Tail(s) = 1 .. Len(s) - 1
      /\ \A i \in 1 .. Len(Tail(s)) : Tail(s)[i] = s[i + 1]
  BY HeadTailProperties, LenProperties, EmptySeq
<1>2. Head(s) = s[1]
  BY <1>1
<1>3. \A i \in DOMAIN s : i = 1 \/ (i - 1 \in DOMAIN Tail(s) /\ s[i] = Tail(s)[i - 1])
  BY <1>1
<1> QED BY <1>1, <1>2, <1>3 DEF Range

LEMMA IncreasingAppend ==
    ASSUME NEW s \in Seq(Int), Increasing(s), NEW e \in Int, Precedes(Range(s), {e})
    PROVE  Increasing(Append(s, e))
BY AppendProperties, LenProperties DEF Increasing, Precedes, Range

LEMMA IncreasingConcat ==
    ASSUME NEW s \in Seq(Int), NEW t \in Seq(Int),
           Increasing(s), Increasing(t), Precedes(Range(s), Range(t))
    PROVE  Increasing(s \o t)
<1>1. /\ DOMAIN s = 1 .. Len(s) /\ DOMAIN t = 1 .. Len(t) /\ Len(s) \in Nat /\ Len(t) \in Nat
      /\ DOMAIN (s \o t) = 1 .. Len(s) + Len(t)
      /\ \A i \in 1 .. Len(s) + Len(t) :
            (s \o t)[i] = IF i <= Len(s) THEN s[i] ELSE t[i - Len(s)]
  BY ConcatProperties, LenProperties
<1> SUFFICES ASSUME NEW i \in DOMAIN (s \o t), NEW j \in DOMAIN (s \o t), i < j
             PROVE  (s \o t)[i] < (s \o t)[j]
  BY DEF Increasing
<1>2. CASE j <= Len(s)
  BY <1>1, <1>2 DEF Increasing
<1>3. CASE i > Len(s)
  BY <1>1, <1>3 DEF Increasing
<1>4. CASE i <= Len(s) /\ j > Len(s)
  <2>1. i \in DOMAIN s /\ j - Len(s) \in DOMAIN t
    BY <1>1, <1>4
  <2>2. s[i] < t[j - Len(s)]
    BY <2>1 DEF Precedes, Range
  <2> QED BY <1>1, <1>4, <2>2
<1> QED BY <1>1, <1>2, <1>3, <1>4

LEMMA PrefixFacts ==
    ASSUME NEW S, NEW s \in Seq(S), NEW k \in DOMAIN s, NEW p, p = SubSeq(s, 1, k - 1)
    PROVE  /\ p \in Seq(S) /\ DOMAIN p = 1 .. k - 1
           /\ \A i \in DOMAIN p : i \in DOMAIN s /\ p[i] = s[i]
           /\ Range(p) \subseteq Range(s)
<1>1. DOMAIN s = 1 .. Len(s) /\ Len(s) \in Nat /\ k \in 1 .. Len(s)
  BY LenProperties
<1>2. /\ p \in Seq(S) /\ Len(p) = k - 1
      /\ \A i \in 1 .. k - 1 : p[i] = s[i]
  <2>1. \A i \in 1 .. k - 1 : s[i] \in S
    BY <1>1, ElementOfSeq
  <2>2. /\ p \in Seq(S) /\ Len(p) = IF 1 <= k - 1 THEN (k - 1) - 1 + 1 ELSE 0
        /\ \A i \in 1 .. (k - 1) - 1 + 1 : p[i] = s[1 + i - 1]
    BY <2>1, <1>1, SubSeqProperties
  <2> QED BY <2>2, <1>1
<1>3. DOMAIN p = 1 .. k - 1
  BY <1>2, LenProperties
<1>4. \A i \in DOMAIN p : i \in DOMAIN s /\ p[i] = s[i]
  BY <1>1, <1>2, <1>3
<1>5. Range(p) \subseteq Range(s)
  BY <1>4 DEF Range
<1> QED BY <1>2, <1>3, <1>4, <1>5

-----------------------------------------------------------------------------
(* The inductive invariant: the types and limits hold because of what      *)
(* WriterOrder knows of the writer's position, and the accounting because  *)
(* the queue, the batch and the table hold different events.               *)

Inv == TypeOK /\ WriterOrder /\ OneFate /\ RowsAnswered

LEMMA InitInv == Init => Inv
<1> SUFFICES ASSUME Init PROVE Inv
  OBVIOUS
<1>1. /\ \A S : <<>> \in Seq(S) /\ Len(<<>>) = 0
      /\ Range(<<>>) = {} /\ Increasing(<<>>)
  BY EmptySeq DEF Range, Increasing
<1>2. TypeOK
  <2>1. 0 <= MaxQueue /\ 0 <= MaxBatch
    BY StoreAssumption
  <2>2. /\ queue \in Seq(Events \cup {Pill}) /\ batch \in Seq(Events)
        /\ txn \in Seq(Events) /\ rows \in Seq(Events)
        /\ Len(queue) <= MaxQueue /\ Len(batch) <= MaxBatch
    BY <1>1, <2>1 DEF Init
  <2>3. /\ next \in Nat \ {0} /\ logged \in Nat /\ faults \in Nat /\ signalled \in 0 .. logged
        /\ kills \in Nat /\ starts \in Nat
    BY DEF Init
  <2> QED BY <2>2, <2>3 DEF Init, TypeOK
<1>3. WriterOrder
  <2>1. InOrder /\ QueueOrder /\ TxnOrder
    BY <1>1 DEF Init, InOrder, QueueOrder, TxnOrder, Precedes, Queued
  <2>2. BatchAhead /\ Filling /\ Halted /\ RetryAhead /\ Flushed
    BY <1>1, StoreAssumption DEF Init, BatchAhead, Filling, Halted, RetryAhead, Flushed, Precedes, Alive
  <2> QED BY <2>1, <2>2 DEF WriterOrder
<1>4. OneFate
  BY <1>1 DEF Init, OneFate, Events, InMemory, Queued
<1>5. RowsAnswered
  BY DEF Init, RowsAnswered
<1> QED BY <1>2, <1>3, <1>4, <1>5 DEF Inv

LEMMA TypeStep ==
    ASSUME TypeOK, WriterOrder, [Next]_vars
    PROVE  TypeOK'
<1> USE StoreAssumption
<1>0. /\ Events \subseteq Int /\ Len(queue) \in Nat /\ Len(batch) \in Nat /\ Len(txn) \in Nat
      /\ DOMAIN batch = 1 .. Len(batch)
  BY LenProperties DEF TypeOK, Events
<1>e. /\ \A S : <<>> \in Seq(S)
      /\ Len(<<>>) = 0 /\ 0 <= MaxQueue /\ 0 <= MaxBatch
  BY EmptySeq
<1>1. ASSUME Enqueue PROVE TypeOK'
  <2>1. Events \subseteq Events' /\ logged + 1 \in Events' /\ logged' \in Nat
    BY <1>1 DEF Enqueue, TypeOK, Events
  <2>2. /\ queue \in Seq(Events' \cup {Pill}) /\ batch \in Seq(Events')
        /\ txn \in Seq(Events') /\ rows \in Seq(Events')
    <3>1. Events \cup {Pill} \subseteq Events' \cup {Pill}
      BY <2>1
    <3> QED BY <2>1, <3>1, SeqMonotonic DEF TypeOK
  <2>3. /\ queue' \in Seq(Events' \cup {Pill}) /\ Len(queue') = Len(queue) + 1
    <3>1. logged + 1 \in Events' \cup {Pill}
      BY <2>1
    <3> QED BY <1>1, <2>2, <3>1, AppendFacts DEF Enqueue
  <2>4. Len(queue') <= MaxQueue
    BY <1>0, <1>1, <2>3 DEF Enqueue
  <2> QED BY <1>1, <2>1, <2>2, <2>3, <2>4 DEF Enqueue, TypeOK, fates
<1>2. ASSUME Drop PROVE TypeOK'
  <2>1. Events \subseteq Events' /\ logged + 1 \in Events' /\ logged' \in Nat
    BY <1>2 DEF Drop, TypeOK, Events
  <2>2. /\ queue \in Seq(Events' \cup {Pill}) /\ batch \in Seq(Events')
        /\ txn \in Seq(Events') /\ rows \in Seq(Events')
    <3>1. Events \cup {Pill} \subseteq Events' \cup {Pill}
      BY <2>1
    <3> QED BY <2>1, <3>1, SeqMonotonic DEF TypeOK
  <2> QED BY <1>2, <2>1, <2>2 DEF Drop, TypeOK, store
<1>3. ASSUME Get PROVE TypeOK'
  <2>1. /\ Head(queue) \in Events \cup {Pill} /\ Tail(queue) \in Seq(Events \cup {Pill})
        /\ Len(Tail(queue)) = Len(queue) - 1
    BY <1>3, TailFacts DEF Get, TypeOK
  <2>2. Head(queue) \in Events
    BY <1>3, <2>1 DEF Get
  <2>3. batch' \in Seq(Events) /\ Len(batch') = Len(batch) + 1
    BY <1>3, <2>2, AppendFacts DEF Get, TypeOK
  <2>4. Len(batch') <= MaxBatch
    BY <1>0, <1>3, <2>3 DEF Get, WriterOrder, Filling
  <2>5. Events' = Events
    BY <1>3 DEF Get, Events, history
  <2>6. wpc' \in {"get", "connect"}
    BY <1>3 DEF Get
  <2> QED BY <1>0, <1>3, <2>1, <2>3, <2>4, <2>5, <2>6 DEF Get, TypeOK, history, fates
<1>4. ASSUME GetPill PROVE TypeOK'
  <2>1. Tail(queue) \in Seq(Events \cup {Pill}) /\ Len(Tail(queue)) = Len(queue) - 1
    BY <1>4, TailFacts DEF GetPill, TypeOK
  <2>2. wpc' \in {"stopped", "connect"}
    BY <1>4 DEF GetPill
  <2> QED BY <1>0, <1>4, <2>1, <2>2 DEF GetPill, TypeOK, Events, history, fates
<1>5. ASSUME GetTimeout PROVE TypeOK'
  BY <1>5 DEF GetTimeout, TypeOK, Events, history, fates
<1>6. ASSUME Connect PROVE TypeOK'
  BY <1>6 DEF Connect, TypeOK, Events, fates
<1>7. ASSUME ConnectFails PROVE TypeOK'
  <2>1. Range(batch) \subseteq Events
    BY RangeOfSeq DEF TypeOK
  <2> QED BY <1>7, <2>1, <1>e DEF ConnectFails, TypeOK, Events
<1>8. ASSUME InsertAll PROVE TypeOK'
  BY <1>8 DEF InsertAll, TypeOK, Events, history, fates
<1>9. ASSUME InsertAllFails PROVE TypeOK'
  <2>1. \A k \in DOMAIN batch : SubSeq(batch, 1, k - 1) \in Seq(Events)
    BY PrefixFacts DEF TypeOK
  <2>2. txn' \in Seq(Events)
    BY <1>9, <2>1, <1>e DEF InsertAllFails
  <2>3. /\ faults' \in Nat /\ next' \in Nat \ {0} /\ wpc' \in {"retry", "close"}
        /\ UNCHANGED <<proc, queue, batch, ending, rows, logged, fates, signalled, kills, starts>>
    BY <1>9 DEF InsertAllFails, Refused, TypeOK
  <2> QED BY <2>2, <2>3 DEF TypeOK, Events, fates
<1>10. ASSUME CommitAll PROVE TypeOK'
  <2>1. rows' \in Seq(Events)
    BY <1>10, ConcatProperties DEF CommitAll, TypeOK
  <2> QED BY <1>10, <2>1, <1>e DEF CommitAll, TypeOK, Events, history, fates
<1>11. ASSUME CommitAllFails PROVE TypeOK'
  <2>1. txn' \in Seq(Events)
    BY <1>11, <1>e DEF CommitAllFails, TypeOK
  <2> QED BY <1>11, <2>1 DEF CommitAllFails, Refused, TypeOK, Events, fates
<1>a. ASSUME wpc = "retry", Alive PROVE batch[next] \in Events /\ Inserted(txn, batch[next]) \in Seq(Events)
  <2>1. batch[next] \in Events
    BY <1>0, <1>a, ElementOfSeq DEF WriterOrder, RetryAhead, TypeOK
  <2> QED BY <2>1, AppendFacts DEF Inserted, TypeOK
<1>b. NextRow => wpc' \in {"close", wpc} /\ next' \in Nat \ {0}
  BY DEF NextRow, TypeOK
<1>12. ASSUME RetryRow PROVE TypeOK'
  <2>1. rows' \in Seq(Events)
    BY <1>12, <1>a, ConcatProperties DEF RetryRow, TypeOK
  <2> QED BY <1>12, <1>b, <2>1, <1>e DEF RetryRow, TypeOK, Events, history, fates
<1>13. ASSUME RetryInsertFails PROVE TypeOK'
  <2>1. txn' \in Seq(Events)
    BY <1>13, <1>e DEF RetryInsertFails, TypeOK
  <2>2. /\ faults' \in Nat /\ next' \in Nat \ {0} /\ wpc' \in {"retry", "close"}
        /\ UNCHANGED <<proc, queue, batch, ending, rows, logged, dropped, lost, signalled, kills, starts>>
    BY <1>13, <1>b DEF RetryInsertFails, Refused, TypeOK
  <2>3. reported' \subseteq Events
    BY <1>13, <1>a DEF RetryInsertFails, Report, TypeOK
  <2> QED BY <2>1, <2>2, <2>3 DEF TypeOK, Events
<1>14. ASSUME RetryCommitFails PROVE TypeOK'
  <2>1. txn' \in Seq(Events)
    BY <1>14, <1>a, <1>e DEF RetryCommitFails
  <2>2. /\ faults' \in Nat /\ next' \in Nat \ {0} /\ wpc' \in {"retry", "close"}
        /\ UNCHANGED <<proc, queue, batch, ending, rows, logged, dropped, lost, signalled, kills, starts>>
    BY <1>14, <1>b DEF RetryCommitFails, Refused, TypeOK
  <2>3. reported' \subseteq Events
    BY <1>14, <1>a DEF RetryCommitFails, Report, TypeOK
  <2> QED BY <2>1, <2>2, <2>3 DEF TypeOK, Events
<1>15. ASSUME Close PROVE TypeOK'
  BY <1>15, <1>e DEF Close, TypeOK, Events, history, fates
<1>16. ASSUME Shutdown PROVE TypeOK'
  BY <1>16 DEF Shutdown, TypeOK, Events, store, fates
<1>17. ASSUME PutPill PROVE TypeOK'
  <2>1. queue' \in Seq(Events \cup {Pill}) /\ Len(queue') = Len(queue) + 1
    BY <1>17, AppendFacts DEF PutPill, TypeOK
  <2>2. Len(queue') <= MaxQueue
    BY <1>0, <1>17, <2>1 DEF PutPill
  <2> QED BY <1>17, <2>1, <2>2 DEF PutPill, TypeOK, Events, history, fates
<1>18. ASSUME Die, kills' \in Nat PROVE TypeOK'
  <2>1. InMemory \subseteq Events
    BY RangeOfSeq DEF TypeOK, InMemory, Queued
  <2> QED BY <1>18, <2>1, <1>e DEF Die, TypeOK, Events
<1>19. ASSUME Exit PROVE TypeOK'
  BY <1>18, <1>19 DEF Exit, TypeOK
<1>20. ASSUME Kill PROVE TypeOK'
  <2>1. kills' \in Nat
    BY <1>20 DEF Kill, TypeOK
  <2> QED BY <1>18, <1>20, <2>1 DEF Kill
<1>21. ASSUME Restart PROVE TypeOK'
  <2>1. /\ starts' \in Nat /\ next' \in Nat \ {0} /\ proc' = "up" /\ wpc' = "get" /\ ending' = FALSE
        /\ UNCHANGED <<queue, batch, txn, rows, logged, fates, faults, signalled, kills>>
    BY <1>21 DEF Restart, TypeOK
  <2> QED BY <2>1 DEF TypeOK, Events, fates
<1>22. ASSUME UNCHANGED vars PROVE TypeOK'
  BY <1>22 DEF vars, store, history, fates, TypeOK, Events
<1> QED
  BY <1>1, <1>2, <1>3, <1>4, <1>5, <1>6, <1>7, <1>8, <1>9, <1>10, <1>11, <1>12, <1>13, <1>14,
     <1>15, <1>16, <1>17, <1>19, <1>20, <1>21, <1>22 DEF Next, Writer, Process

LEMMA OrderStep ==
    ASSUME TypeOK, WriterOrder, [Next]_vars
    PROVE  WriterOrder'
<1> USE DEF Alive
<1>0. /\ rows \in Seq(Int) /\ batch \in Seq(Int) /\ txn \in Seq(Int) /\ queue \in Seq(Int)
      /\ Range(rows) \subseteq Int /\ Range(batch) \subseteq Int /\ Range(txn) \subseteq Int
      /\ DOMAIN batch = 1 .. Len(batch) /\ Len(batch) \in Nat
      /\ DOMAIN queue = 1 .. Len(queue) /\ Len(queue) \in Nat
      /\ \A n \in Range(rows) \cup Range(batch) \cup Range(queue) : n <= logged
      /\ logged \in Int
  <2>1. Events \subseteq Int /\ Events \cup {Pill} \subseteq Int /\ logged \in Nat
    BY DEF Events, TypeOK
  <2>2. /\ Range(rows) \subseteq Events /\ Range(batch) \subseteq Events
        /\ Range(txn) \subseteq Events /\ Range(queue) \subseteq Events \cup {Pill}
    BY RangeOfSeq DEF TypeOK
  <2>3. \A n \in Events \cup {Pill} : n <= logged
    BY <2>1 DEF Events
  <2>4. rows \in Seq(Int) /\ batch \in Seq(Int) /\ txn \in Seq(Int) /\ queue \in Seq(Int)
    BY <2>1, SeqMonotonic DEF TypeOK
  <2>5. /\ DOMAIN batch = 1 .. Len(batch) /\ Len(batch) \in Nat
        /\ DOMAIN queue = 1 .. Len(queue) /\ Len(queue) \in Nat
    BY <2>4, LenProperties
  <2>6. \A n \in Range(rows) \cup Range(batch) \cup Range(queue) : n <= logged
    BY <2>2, <2>3
  <2>7. Range(rows) \subseteq Int /\ Range(batch) \subseteq Int /\ Range(txn) \subseteq Int
    BY <2>1, <2>2
  <2> QED BY <2>1, <2>4, <2>5, <2>6, <2>7
<1>e. Range(<<>>) = {} /\ Increasing(<<>>)
  BY DEF Range, Increasing
<1>p. /\ InOrder /\ QueueOrder /\ TxnOrder /\ BatchAhead /\ Filling /\ Halted /\ RetryAhead /\ Flushed
  BY DEF WriterOrder
<1>1. ASSUME Enqueue PROVE WriterOrder'
  <2>1. /\ queue' = Append(queue, logged + 1) /\ Len(queue') = Len(queue) + 1
        /\ DOMAIN queue' = 1 .. Len(queue) + 1
        /\ \A i \in DOMAIN queue : queue'[i] = queue[i]
        /\ queue'[Len(queue) + 1] = logged + 1
        /\ Range(queue') = Range(queue) \cup {logged + 1}
    <3>1. queue' = Append(queue, logged + 1) /\ logged + 1 \in Int
      BY <1>0, <1>1 DEF Enqueue
    <3>2. /\ queue' \in Seq(Int) /\ Len(queue') = Len(queue) + 1
          /\ Range(queue') = Range(queue) \cup {logged + 1}
      BY <1>0, <3>1, AppendFacts
    <3>3. DOMAIN queue' = 1 .. Len(queue) + 1
      BY <3>2, LenProperties
    <3>4. /\ \A i \in 1 .. Len(queue) : queue'[i] = queue[i]
          /\ queue'[Len(queue) + 1] = logged + 1
      BY <1>0, <3>1, AppendProperties
    <3> QED BY <1>0, <3>1, <3>2, <3>3, <3>4
  <2>2. UNCHANGED <<proc, wpc, batch, next, txn, rows>>
    BY <1>1 DEF Enqueue
  <2>3. ASSUME NEW i \in DOMAIN queue', NEW j \in DOMAIN queue', i < j,
               Pill \notin {queue'[i], queue'[j]}
        PROVE  queue'[i] < queue'[j]
    <3>1. CASE j \in DOMAIN queue
      BY <1>0, <1>p, <2>1, <2>3, <3>1 DEF QueueOrder
    <3>2. CASE j = Len(queue) + 1
      <4>1. i \in DOMAIN queue /\ queue'[i] = queue[i] /\ queue[i] \in Range(queue)
        BY <1>0, <2>1, <2>3, <3>2 DEF Range
      <4> QED BY <1>0, <2>1, <3>2, <4>1
    <3> QED BY <1>0, <2>1, <3>1, <3>2
  <2>4. Precedes(Range(rows) \cup Range(batch), Queued')
    BY <1>0, <1>p, <2>1 DEF QueueOrder, Precedes, Queued
  <2>5. QueueOrder'
    BY <2>2, <2>3, <2>4 DEF QueueOrder, Precedes
  <2> QED BY <1>p, <2>2, <2>5
          DEF WriterOrder, InOrder, TxnOrder, BatchAhead, Filling, Halted, RetryAhead, Flushed, Precedes, Increasing
<1>2. ASSUME Drop PROVE WriterOrder'
  BY <1>2, <1>p DEF Drop, store, WriterOrder, InOrder, QueueOrder, Queued, TxnOrder, BatchAhead, Filling,
                   Halted, RetryAhead, Flushed, Precedes, Increasing
\* What reading an item leaves in the queue is still in order.
<1>t. ASSUME queue # <<>>, queue' = Tail(queue)
      PROVE  /\ \A i, j \in DOMAIN queue' : i < j /\ Pill \notin {queue'[i], queue'[j]} => queue'[i] < queue'[j]
             /\ Range(queue) = {Head(queue)} \cup Range(queue')
             /\ Head(queue) # Pill => Precedes({Head(queue)}, Queued')
  <2>1. /\ \A i \in DOMAIN queue' : i + 1 \in DOMAIN queue /\ queue'[i] = queue[i + 1]
        /\ DOMAIN queue' = 1 .. Len(queue) - 1 /\ Len(queue) \in Nat \ {0}
        /\ Head(queue) = queue[1] /\ Range(queue) = {Head(queue)} \cup Range(queue')
    BY <1>0, <1>t, TailFacts, LenProperties, EmptySeq
  <2>2. \A i, j \in DOMAIN queue' : i < j /\ Pill \notin {queue'[i], queue'[j]} => queue'[i] < queue'[j]
    <3> SUFFICES ASSUME NEW i \in DOMAIN queue', NEW j \in DOMAIN queue', i < j,
                        Pill \notin {queue'[i], queue'[j]}
                 PROVE  queue'[i] < queue'[j]
      OBVIOUS
    <3>1. i + 1 \in DOMAIN queue /\ j + 1 \in DOMAIN queue /\ i + 1 < j + 1
      BY <2>1
    <3> QED BY <1>p, <2>1, <3>1 DEF QueueOrder
  <2>3. ASSUME Head(queue) # Pill, NEW n \in Queued' PROVE Head(queue) < n
    <3>1. PICK i \in DOMAIN queue' : queue'[i] = n /\ n # Pill
      BY <2>3 DEF Queued, Range
    <3>2. 1 \in DOMAIN queue /\ i + 1 \in DOMAIN queue /\ 1 < i + 1 /\ queue[i + 1] = n
      BY <1>0, <2>1, <3>1
    <3> QED BY <1>p, <2>1, <2>3, <3>1, <3>2 DEF QueueOrder
  <2> QED BY <2>1, <2>2, <2>3 DEF Precedes
<1>3. ASSUME Get PROVE WriterOrder'
  <2>1. /\ queue # <<>> /\ queue' = Tail(queue) /\ Head(queue) # Pill
        /\ batch' = Append(batch, Head(queue)) /\ wpc = "get" /\ wpc' \in {"get", "connect"}
        /\ UNCHANGED <<proc, next, txn, rows>>
    BY <1>3 DEF Get
  <2>2. Head(queue) \in Int /\ Head(queue) \in Queued /\ Queued' \subseteq Queued
    BY <1>0, <1>t, <2>1, TailFacts DEF Queued
  <2>3. Range(batch') = Range(batch) \cup {Head(queue)} /\ batch' # <<>> /\ Len(batch') = Len(batch) + 1
    <3>1. Range(batch') = Range(batch) \cup {Head(queue)} /\ Len(batch') = Len(batch) + 1
      BY <1>0, <2>1, <2>2, AppendFacts
    <3>2. Len(<<>>) = 0
      BY EmptySeq
    <3> QED BY <1>0, <3>1, <3>2
  <2>4. Increasing(batch')
    BY <1>0, <1>p, <2>1, <2>2, IncreasingAppend DEF QueueOrder, TxnOrder, Precedes
  <2>5. QueueOrder'
    BY <1>p, <1>t, <2>1, <2>2, <2>3 DEF QueueOrder, Precedes
  <2>6. txn = <<>> /\ Precedes(Range(rows), Range(batch'))
    BY <1>p, <2>1, <2>2, <2>3 DEF BatchAhead, QueueOrder, Precedes
  <2>7. TxnOrder' /\ BatchAhead'
    BY <1>e, <1>p, <2>1, <2>4, <2>6 DEF TxnOrder, BatchAhead, Precedes
  <2>8. Filling'
    BY <1>0, <1>3, <2>3, StoreAssumption DEF Get, Filling
  <2>9. InOrder' /\ Halted' /\ RetryAhead' /\ Flushed'
    BY <1>3, <1>p, <2>1, <2>3 DEF Get, InOrder, Halted, RetryAhead, Flushed, Increasing
  <2> QED BY <2>5, <2>7, <2>8, <2>9 DEF WriterOrder
<1>4. ASSUME GetPill PROVE WriterOrder'
  <2>1. /\ queue # <<>> /\ queue' = Tail(queue) /\ wpc = "get" /\ Alive
        /\ wpc' = IF batch = <<>> THEN "stopped" ELSE "connect"
        /\ UNCHANGED <<proc, next, txn, rows, batch>>
    BY <1>4 DEF GetPill
  <2>2. Queued' \subseteq Queued
    BY <1>t, <2>1 DEF Queued
  <2>3. QueueOrder'
    BY <1>p, <1>t, <2>1, <2>2 DEF QueueOrder, Precedes
  <2>4. InOrder' /\ TxnOrder' /\ BatchAhead' /\ Filling' /\ Halted' /\ RetryAhead' /\ Flushed'
    BY <1>p, <2>1 DEF InOrder, TxnOrder, BatchAhead, Filling, Halted, RetryAhead, Flushed, Precedes, Increasing
  <2> QED BY <2>3, <2>4 DEF WriterOrder
\* Steps that move the writer or the process and leave the data alone.
<1>5. ASSUME UNCHANGED <<queue, batch, txn, rows>> PROVE InOrder' /\ QueueOrder' /\ TxnOrder'
  BY <1>5, <1>p DEF InOrder, QueueOrder, Queued, TxnOrder, Precedes, Increasing
<1>6. ASSUME GetTimeout PROVE WriterOrder'
  <2>1. InOrder' /\ QueueOrder' /\ TxnOrder'
    BY <1>5, <1>6 DEF GetTimeout
  <2>2. BatchAhead' /\ Filling' /\ Halted' /\ RetryAhead' /\ Flushed'
    BY <1>6, <1>p DEF GetTimeout, BatchAhead, Filling, Halted, RetryAhead, Flushed, Precedes
  <2> QED BY <2>1, <2>2 DEF WriterOrder
<1>7. ASSUME Connect PROVE WriterOrder'
  <2>1. InOrder' /\ QueueOrder' /\ TxnOrder'
    BY <1>5, <1>7 DEF Connect
  <2>2. BatchAhead' /\ Filling' /\ Halted' /\ RetryAhead' /\ Flushed'
    BY <1>7, <1>p DEF Connect, BatchAhead, Filling, Halted, RetryAhead, Flushed, Precedes
  <2> QED BY <2>1, <2>2 DEF WriterOrder
<1>8. ASSUME ConnectFails PROVE WriterOrder'
  <2>1. /\ batch' = <<>> /\ wpc = "connect" /\ wpc' = "dead" /\ UNCHANGED <<proc, queue, next, txn, rows>>
    BY <1>8 DEF ConnectFails
  <2>2. txn = <<>>
    BY <1>p, <2>1 DEF BatchAhead
  <2>3. QueueOrder'
    BY <1>e, <1>p, <2>1 DEF QueueOrder, Queued, Precedes
  <2>4. InOrder' /\ TxnOrder' /\ BatchAhead' /\ Filling' /\ Halted' /\ RetryAhead' /\ Flushed'
    BY <1>e, <1>p, <2>1, <2>2
       DEF InOrder, TxnOrder, BatchAhead, Filling, Halted, RetryAhead, Flushed, Precedes, Increasing
  <2> QED BY <2>3, <2>4 DEF WriterOrder
<1>9. ASSUME InsertAll PROVE WriterOrder'
  <2>1. /\ txn' = batch /\ wpc = "insert" /\ wpc' = "commit" /\ Alive
        /\ UNCHANGED <<proc, queue, batch, next, rows>>
    BY <1>9 DEF InsertAll
  <2>2. QueueOrder'
    BY <1>p, <2>1 DEF QueueOrder, Queued, Precedes
  <2>3. InOrder' /\ TxnOrder' /\ BatchAhead' /\ Filling' /\ Halted' /\ RetryAhead' /\ Flushed'
    BY <1>p, <2>1 DEF InOrder, TxnOrder, BatchAhead, Filling, Halted, RetryAhead, Flushed, Precedes, Increasing
  <2> QED BY <2>2, <2>3 DEF WriterOrder

<1>10. ASSUME InsertAllFails PROVE WriterOrder'
  <2>1. PICK k \in DOMAIN batch : txn' \in {<<>>, SubSeq(batch, 1, k - 1)}
    BY <1>10 DEF InsertAllFails
  <2>2. /\ wpc = "insert" /\ Alive /\ wpc' = "retry" /\ next' = 1
        /\ UNCHANGED <<proc, queue, batch, rows>>
    BY <1>10 DEF InsertAllFails
  <2>3. Precedes(Range(rows), Range(batch)) /\ batch # <<>> /\ Increasing(batch)
    BY <1>p, <2>2 DEF BatchAhead, Flushed, TxnOrder
  <2>4. /\ Range(txn') \subseteq Range(batch)
        /\ Increasing(txn')
        /\ \A p \in DOMAIN batch : batch[p] \notin Range(txn') => Precedes(Range(txn'), {batch[p]})
    <3>1. CASE txn' = <<>>
      BY <1>e, <3>1 DEF Precedes
    <3>2. CASE txn' = SubSeq(batch, 1, k - 1)
      <4>1. /\ Range(txn') \subseteq Range(batch) /\ DOMAIN txn' = 1 .. k - 1
            /\ \A i \in DOMAIN txn' : i \in DOMAIN batch /\ txn'[i] = batch[i]
        <5>1. batch \in Seq(Int) /\ k \in DOMAIN batch
          BY <1>0
        <5>2. DOMAIN txn' = 1 .. k - 1
          BY <5>1, <3>2, PrefixFacts
        <5>3. \A i \in DOMAIN txn' : i \in DOMAIN batch /\ txn'[i] = batch[i]
          BY <5>1, <3>2, PrefixFacts
        <5>4. Range(txn') \subseteq Range(batch)
          BY <5>3 DEF Range
        <5> QED BY <5>2, <5>3, <5>4
      <4>2. Increasing(txn')
        BY <2>3, <4>1 DEF Increasing
      <4>3. ASSUME NEW p \in DOMAIN batch, batch[p] \notin Range(txn'), NEW m \in Range(txn')
            PROVE  m < batch[p]
        <5>1. PICK i \in DOMAIN txn' : txn'[i] = m
          BY DEF Range
        <5>2. p \notin DOMAIN txn'
          BY <4>1, <4>3 DEF Range
        <5>3. i < p
          BY <1>0, <4>1, <5>1, <5>2
        <5> QED BY <2>3, <4>1, <5>1, <5>3 DEF Increasing
      <4> QED BY <4>1, <4>2, <4>3 DEF Precedes
    <3> QED BY <2>1, <3>1, <3>2
  <2>5. TxnOrder'
    BY <2>2, <2>3, <2>4 DEF TxnOrder, Precedes
  <2>6. RetryAhead'
    <3>1. 1 \in DOMAIN batch
      BY <1>0, <2>3, EmptySeq
    <3>2. ASSUME NEW p \in 1 .. Len(batch), batch[p] \notin Range(rows) \cup Range(txn')
          PROVE  Precedes(Range(rows) \cup Range(txn'), {batch[p]})
      BY <1>0, <2>3, <2>4, <3>2 DEF Precedes, Range
    <3> QED BY <2>2, <3>1, <3>2 DEF RetryAhead, Precedes
  <2>7. QueueOrder'
    BY <1>p, <2>2 DEF QueueOrder, Queued, Precedes
  <2>8. InOrder' /\ BatchAhead' /\ Filling' /\ Halted' /\ Flushed'
    BY <1>p, <2>2 DEF InOrder, BatchAhead, Filling, Halted, Flushed, Increasing
  <2> QED BY <2>5, <2>6, <2>7, <2>8 DEF WriterOrder
<1>11. ASSUME CommitAll PROVE WriterOrder'
  <2>1. /\ wpc = "commit" /\ Alive /\ wpc' = "close" /\ rows' = rows \o txn /\ txn' = <<>>
        /\ UNCHANGED <<proc, queue, batch, next>>
    BY <1>11 DEF CommitAll
  <2>2. InOrder' /\ Range(rows') = Range(rows) \cup Range(txn)
    BY <1>0, <1>p, <2>1, IncreasingConcat, RangeConcatenation DEF InOrder, TxnOrder
  <2>3. QueueOrder'
    BY <1>p, <2>1, <2>2 DEF QueueOrder, Queued, TxnOrder, Precedes
  <2>4. TxnOrder'
    BY <1>e, <1>p, <2>1 DEF TxnOrder, Precedes, Increasing
  <2>5. BatchAhead' /\ Filling' /\ Halted' /\ RetryAhead' /\ Flushed'
    BY <1>p, <2>1 DEF BatchAhead, Filling, Halted, RetryAhead, Flushed
  <2> QED BY <2>2, <2>3, <2>4, <2>5 DEF WriterOrder
<1>12. ASSUME CommitAllFails PROVE WriterOrder'
  <2>1. /\ wpc = "commit" /\ Alive /\ wpc' = "retry" /\ next' = 1 /\ txn' \in {txn, <<>>}
        /\ UNCHANGED <<proc, queue, batch, rows>>
    BY <1>12 DEF CommitAllFails
  <2>2. txn = batch /\ batch # <<>> /\ Precedes(Range(rows), Range(batch))
    BY <1>p, <2>1 DEF Flushed, TxnOrder
  <2>3. InOrder' /\ QueueOrder'
    BY <1>p, <2>1 DEF InOrder, QueueOrder, Queued, Precedes, Increasing
  <2>4. TxnOrder'
    BY <1>e, <1>p, <2>1 DEF TxnOrder, Precedes, Increasing
  <2>5. RetryAhead'
    <3>1. 1 \in DOMAIN batch
      BY <1>0, <2>2, EmptySeq
    <3>2. \A p \in 1 .. Len(batch) : batch[p] \in Range(batch)
      BY <1>0 DEF Range
    <3> QED BY <1>e, <2>1, <2>2, <3>1, <3>2 DEF RetryAhead, Precedes
  <2>6. BatchAhead' /\ Filling' /\ Halted' /\ Flushed'
    BY <1>p, <2>1 DEF BatchAhead, Filling, Halted, Flushed
  <2> QED BY <2>3, <2>4, <2>5, <2>6 DEF WriterOrder
<1> DEFINE tried == Inserted(txn, batch[next])
\* The row the fallback tries: whether it is inserted or was there already,
\* the rows before it, with it, precede the missing rows after it.
<1>i. ASSUME wpc = "retry", Alive
      PROVE  /\ tried \in Seq(Int) /\ Increasing(tried)
             /\ Range(tried) \subseteq Range(batch) /\ Precedes(Range(rows), Range(tried))
             /\ \A p \in next + 1 .. Len(batch) :
                   /\ p \in DOMAIN batch
                   /\ batch[p] \notin Range(rows) \cup Range(tried) =>
                         Precedes(Range(rows) \cup Range(tried), {batch[p]})
                   /\ batch[p] \notin Range(rows) \cup Range(txn) =>
                         Precedes(Range(rows) \cup Range(txn), {batch[p]})
                   /\ batch[p] \notin Range(rows) => Precedes(Range(rows), {batch[p]})
             /\ next \in 1 .. Len(batch)
  <2>1. /\ next \in DOMAIN batch /\ batch[next] \in Int /\ batch[next] \in Range(batch)
        /\ next \in 1 .. Len(batch)
    BY <1>0, <1>i, <1>p DEF RetryAhead, Range
  <2>2. \A p \in next .. Len(batch) : batch[p] \notin Range(rows) \cup Range(txn) =>
            Precedes(Range(rows) \cup Range(txn), {batch[p]})
    BY <1>i, <1>p DEF RetryAhead
  <2>3. \A p \in next + 1 .. Len(batch) : p \in DOMAIN batch /\ p \in next .. Len(batch) /\ batch[next] < batch[p]
    <3>1. \A p \in next + 1 .. Len(batch) : p \in DOMAIN batch /\ p \in next .. Len(batch) /\ next < p
      BY <1>0, <2>1
    <3>2. \A i, j \in DOMAIN batch : i < j => batch[i] < batch[j]
      BY <1>p DEF TxnOrder, Increasing
    <3> QED BY <2>1, <3>1, <3>2
  <2>4. \A p \in next + 1 .. Len(batch) : batch[p] \notin Range(rows) => Precedes(Range(rows), {batch[p]})
    <3> SUFFICES ASSUME NEW p \in next + 1 .. Len(batch), batch[p] \notin Range(rows)
                 PROVE  Precedes(Range(rows), {batch[p]})
      OBVIOUS
    <3>1. CASE batch[p] \in Range(txn)
      BY <1>p, <3>1 DEF TxnOrder, Precedes
    <3>2. CASE batch[p] \notin Range(txn)
      BY <2>2, <2>3, <3>2 DEF Precedes
    <3> QED BY <3>1, <3>2
  <2>5. CASE batch[next] \in Range(rows) \cup Range(txn)
    <3>1. tried = txn
      BY <2>5 DEF Inserted
    <3> HIDE DEF tried
    <3> QED BY <1>0, <1>p, <2>1, <2>2, <2>3, <2>4, <3>1 DEF TxnOrder
  <2>6. CASE batch[next] \notin Range(rows) \cup Range(txn)
    <3>1. tried = Append(txn, batch[next])
      BY <2>6 DEF Inserted
    <3> HIDE DEF tried
    <3>2. tried \in Seq(Int) /\ Range(tried) = Range(txn) \cup {batch[next]}
      BY <1>0, <2>1, <3>1, AppendFacts
    <3>3. Precedes(Range(rows) \cup Range(txn), {batch[next]})
      <4>1. next \in next .. Len(batch)
        BY <1>0, <2>1
      <4> QED BY <2>2, <2>6, <4>1
    <3>4. Increasing(tried)
      BY <1>0, <1>p, <2>1, <3>1, <3>3, IncreasingAppend DEF TxnOrder, Precedes
    <3>5. Range(tried) \subseteq Range(batch) /\ Precedes(Range(rows), Range(tried))
      BY <1>p, <2>1, <3>2, <3>3 DEF TxnOrder, Precedes
    <3>6. ASSUME NEW p \in next + 1 .. Len(batch), batch[p] \notin Range(rows) \cup Range(tried)
          PROVE  Precedes(Range(rows) \cup Range(tried), {batch[p]})
      BY <2>2, <2>3, <3>2, <3>6 DEF Precedes
    <3> QED BY <2>1, <2>2, <2>3, <2>4, <3>2, <3>4, <3>5, <3>6
  <2> QED BY <2>5, <2>6
<1> HIDE DEF tried
<1>n. NextRow => \/ wpc' = wpc /\ next' = next + 1 /\ next < Len(batch)
                 \/ wpc' = "close"
  BY DEF NextRow
<1>13. ASSUME RetryRow PROVE WriterOrder'
  <2>1. /\ wpc = "retry" /\ Alive /\ rows' = rows \o tried /\ txn' = <<>> /\ NextRow
        /\ UNCHANGED <<proc, queue, batch>>
    BY <1>13 DEF RetryRow, tried
  <2>2. InOrder' /\ Range(rows') = Range(rows) \cup Range(tried)
    BY <1>0, <1>i, <1>p, <2>1, IncreasingConcat, RangeConcatenation DEF InOrder
  <2>3. QueueOrder'
    BY <1>i, <1>p, <2>1, <2>2 DEF QueueOrder, Queued, Precedes
  <2>4. TxnOrder'
    BY <1>e, <1>p, <2>1 DEF TxnOrder, Precedes, Increasing
  <2>5. RetryAhead'
    <3>1. CASE wpc' = "close"
      BY <3>1 DEF RetryAhead
    <3>2. CASE next' = next + 1 /\ next < Len(batch)
      <4>1. next + 1 \in DOMAIN batch
        BY <1>0, <1>i, <2>1, <3>2
      <4>2. ASSUME NEW p \in next + 1 .. Len(batch), batch[p] \notin Range(rows') \cup Range(txn')
            PROVE  Precedes(Range(rows') \cup Range(txn'), {batch[p]})
        BY <1>e, <1>i, <2>1, <2>2, <4>2
      <4> QED BY <2>1, <3>2, <4>1, <4>2 DEF RetryAhead, Precedes
    <3> QED BY <1>n, <2>1, <3>1, <3>2
  <2>6. BatchAhead' /\ Filling' /\ Halted' /\ Flushed'
    BY <1>n, <1>p, <2>1 DEF BatchAhead, Filling, Halted, Flushed
  <2> QED BY <2>2, <2>3, <2>4, <2>5, <2>6 DEF WriterOrder
<1>14. ASSUME wpc = "retry", Alive, NextRow, txn' \in {txn, tried, <<>>},
              UNCHANGED <<proc, queue, batch, rows>>
       PROVE  WriterOrder'
  <2>1. InOrder' /\ QueueOrder'
    BY <1>14, <1>p DEF InOrder, QueueOrder, Queued, Precedes, Increasing
  <2>2. TxnOrder'
    BY <1>14, <1>e, <1>i, <1>p DEF TxnOrder, Precedes, Increasing
  <2>3. RetryAhead'
    <3>1. CASE wpc' = "close"
      BY <3>1 DEF RetryAhead
    <3>2. CASE next' = next + 1 /\ next < Len(batch)
      <4>1. next + 1 \in DOMAIN batch
        BY <1>0, <1>14, <1>i, <3>2
      <4>2. ASSUME NEW p \in next + 1 .. Len(batch), batch[p] \notin Range(rows) \cup Range(txn')
            PROVE  Precedes(Range(rows) \cup Range(txn'), {batch[p]})
        BY <1>14, <1>e, <1>i, <4>2 DEF Precedes
      <4> QED BY <1>14, <3>2, <4>1, <4>2 DEF RetryAhead, Precedes
    <3> QED BY <1>14, <1>n, <3>1, <3>2
  <2>4. BatchAhead' /\ Filling' /\ Halted' /\ Flushed'
    BY <1>14, <1>n, <1>p DEF BatchAhead, Filling, Halted, Flushed
  <2> QED BY <2>1, <2>2, <2>3, <2>4 DEF WriterOrder
<1>15. ASSUME RetryInsertFails PROVE WriterOrder'
  BY <1>14, <1>15 DEF RetryInsertFails
<1>16. ASSUME RetryCommitFails PROVE WriterOrder'
  BY <1>14, <1>16 DEF RetryCommitFails, tried
<1>17. ASSUME Close PROVE WriterOrder'
  <2>1. /\ wpc = "close" /\ Alive /\ txn' = <<>> /\ batch' = <<>> /\ wpc' \in {"stopped", "get"}
        /\ UNCHANGED <<proc, queue, next, rows>>
    BY <1>17 DEF Close
  <2>2. Len(<<>>) < MaxBatch
    BY EmptySeq, StoreAssumption
  <2>3. QueueOrder'
    BY <1>e, <1>p, <2>1 DEF QueueOrder, Queued, Precedes
  <2>4. InOrder' /\ TxnOrder' /\ BatchAhead' /\ Filling' /\ Halted' /\ RetryAhead' /\ Flushed'
    BY <1>e, <1>p, <2>1, <2>2
       DEF InOrder, TxnOrder, BatchAhead, Filling, Halted, RetryAhead, Flushed, Precedes, Increasing
  <2> QED BY <2>3, <2>4 DEF WriterOrder
<1>18. ASSUME Shutdown PROVE WriterOrder'
  <2>1. InOrder' /\ QueueOrder' /\ TxnOrder'
    BY <1>5, <1>18 DEF Shutdown, store
  <2>2. BatchAhead' /\ Filling' /\ Halted' /\ RetryAhead' /\ Flushed'
    BY <1>18, <1>p DEF Shutdown, store, BatchAhead, Filling, Halted, RetryAhead, Flushed, Precedes
  <2> QED BY <2>1, <2>2 DEF WriterOrder
<1>19. ASSUME PutPill PROVE WriterOrder'
  <2>1. /\ proc = "putting" /\ proc' = "exiting" /\ queue' = Append(queue, Pill)
        /\ UNCHANGED <<wpc, batch, next, txn, rows>>
    BY <1>19 DEF PutPill
  <2>2. /\ Range(queue') = Range(queue) \cup {Pill} /\ queue' \in Seq(Int) /\ Len(queue') = Len(queue) + 1
        /\ \A i \in 1 .. Len(queue) : queue'[i] = queue[i]
        /\ queue'[Len(queue) + 1] = Pill
    BY <1>0, <2>1, AppendFacts, AppendProperties
  <2>3. \A i \in DOMAIN queue' : queue'[i] # Pill => i \in DOMAIN queue /\ queue'[i] = queue[i]
    BY <1>0, <2>2, LenProperties
  <2>4. QueueOrder'
    BY <1>p, <2>1, <2>2, <2>3 DEF QueueOrder, Queued, Precedes
  <2>5. InOrder' /\ TxnOrder' /\ BatchAhead' /\ Filling' /\ Halted' /\ RetryAhead' /\ Flushed'
    BY <1>p, <2>1 DEF InOrder, TxnOrder, BatchAhead, Filling, Halted, RetryAhead, Flushed, Precedes, Increasing
  <2> QED BY <2>4, <2>5 DEF WriterOrder
<1>20. ASSUME Die PROVE WriterOrder'
  <2>1. /\ proc' = "down" /\ queue' = <<>> /\ batch' = <<>> /\ txn' = <<>> /\ UNCHANGED <<wpc, next, rows>>
    BY <1>20 DEF Die
  <2>2. Len(<<>>) < MaxBatch /\ DOMAIN <<>> = {}
    BY EmptySeq, StoreAssumption
  <2>3. QueueOrder'
    BY <1>e, <2>1, <2>2 DEF QueueOrder, Queued, Precedes
  <2>4. InOrder' /\ TxnOrder' /\ BatchAhead' /\ Filling' /\ Halted' /\ RetryAhead' /\ Flushed'
    BY <1>e, <1>p, <2>1, <2>2
       DEF InOrder, TxnOrder, BatchAhead, Filling, Halted, RetryAhead, Flushed, Precedes, Increasing
  <2> QED BY <2>3, <2>4 DEF WriterOrder
<1>21. ASSUME Restart PROVE WriterOrder'
  <2>1. /\ ~Alive /\ proc' = "up" /\ wpc' = "get" /\ UNCHANGED <<queue, batch, txn, rows>>
    BY <1>21 DEF Restart
  <2>2. batch = <<>> /\ txn = <<>> /\ Len(<<>>) < MaxBatch
    BY <1>p, <2>1, EmptySeq, StoreAssumption DEF Halted
  <2>3. InOrder' /\ QueueOrder' /\ TxnOrder'
    BY <1>5, <2>1
  <2>4. BatchAhead' /\ Filling' /\ Halted' /\ RetryAhead' /\ Flushed'
    BY <1>e, <2>1, <2>2 DEF BatchAhead, Filling, Halted, RetryAhead, Flushed, Precedes
  <2> QED BY <2>3, <2>4 DEF WriterOrder
<1>22. ASSUME UNCHANGED vars PROVE WriterOrder'
  BY <1>22, <1>p DEF vars, store, WriterOrder, InOrder, QueueOrder, Queued, TxnOrder, BatchAhead, Filling,
                     Halted, RetryAhead, Flushed, Precedes, Increasing
<1> QED
  BY <1>1, <1>2, <1>3, <1>4, <1>6, <1>7, <1>8, <1>9, <1>10, <1>11, <1>12, <1>13, <1>15, <1>16,
     <1>17, <1>18, <1>19, <1>20, <1>21, <1>22 DEF Next, Writer, Process, Exit, Kill

\* How log_event and the writer move events through queue and batch.
LEMMA MemoryStep ==
    ASSUME TypeOK, Next
    PROVE  /\ Enqueue => Queued' = Queued \cup {logged + 1}
           /\ Get \/ GetPill \/ PutPill => Queued' \cup Range(batch') = Queued \cup Range(batch)
<1>0. /\ batch \in Seq(Events) /\ queue \in Seq(Events \cup {Pill}) /\ Events \cup {Pill} \subseteq Int
  BY DEF TypeOK, Events
<1>1. ASSUME Enqueue PROVE Queued' = Queued \cup {logged + 1}
  <2>1. logged + 1 \in Int /\ logged + 1 # Pill /\ queue \in Seq(Int)
    <3>1. queue \in Seq(Int)
      BY <1>0, SeqMonotonic
    <3>2. logged + 1 \in Int /\ logged + 1 # Pill
      BY DEF TypeOK
    <3> QED BY <3>1, <3>2
  <2>2. Range(queue') = Range(queue) \cup {logged + 1}
    BY <1>1, <2>1, AppendFacts DEF Enqueue
  <2> QED BY <2>1, <2>2 DEF Queued
<1>2. ASSUME Get PROVE Queued' \cup Range(batch') = Queued \cup Range(batch)
  <2>1. /\ queue # <<>> /\ queue' = Tail(queue) /\ Head(queue) # Pill
        /\ batch' = Append(batch, Head(queue))
    BY <1>2 DEF Get
  <2>2. Head(queue) \in Events /\ Range(queue) = {Head(queue)} \cup Range(queue')
    BY <1>0, <2>1, TailFacts
  <2>3. Range(batch') = Range(batch) \cup {Head(queue)}
    BY <1>0, <2>1, <2>2, AppendFacts
  <2> QED BY <2>1, <2>2, <2>3 DEF Queued
<1>3. ASSUME GetPill PROVE Queued' \cup Range(batch') = Queued \cup Range(batch)
  <2>1. queue # <<>> /\ queue' = Tail(queue) /\ Head(queue) = Pill /\ batch' = batch
    BY <1>3 DEF GetPill
  <2>2. Range(queue) = {Pill} \cup Range(queue')
    BY <1>0, <2>1, TailFacts
  <2> QED BY <2>1, <2>2 DEF Queued
<1>4. ASSUME PutPill PROVE Queued' \cup Range(batch') = Queued \cup Range(batch)
  <2>1. queue' = Append(queue, Pill) /\ batch' = batch
    BY <1>4 DEF PutPill
  <2>2. Range(queue') = Range(queue) \cup {Pill}
    <3>1. Pill \in Events \cup {Pill}
      OBVIOUS
    <3>2. Range(Append(queue, Pill)) = Range(queue) \cup {Pill}
      BY <1>0, <3>1, AppendFacts
    <3> QED BY <2>1, <3>2
  <2> QED BY <2>1, <2>2 DEF Queued
<1> QED BY <1>1, <1>2, <1>3, <1>4

\* The fallback's row is in the table after its commit.
LEMMA RowCommitted ==
    ASSUME NEW t \in Seq(Events), NEW e \in Events, rows \in Seq(Events)
    PROVE  /\ Range(rows \o Inserted(t, e)) = Range(rows) \cup Range(Inserted(t, e))
           /\ e \in Range(rows \o Inserted(t, e))
<1>1. Inserted(t, e) \in Seq(Events)
  BY AppendFacts DEF Inserted
<1>2. Range(rows \o Inserted(t, e)) = Range(rows) \cup Range(Inserted(t, e))
  BY <1>1, RangeConcatenation
<1>3. e \in Range(rows) \cup Range(Inserted(t, e))
  BY AppendFacts DEF Inserted
<1> QED BY <1>2, <1>3

LEMMA LastOne == ASSUME NEW n \in Nat, NEW k \in 1 .. n, ~(k < n) PROVE k = n
OBVIOUS

\* The fallback answers for one row at a time, and the commit of a whole batch for all.
LEMMA AnsweredStep ==
    ASSUME TypeOK, WriterOrder, RowsAnswered, [Next]_vars
    PROVE  RowsAnswered'
<1> USE DEF Alive, RowsAnswered, Tried
<1>1. /\ next \in Nat \ {0} /\ rows \in Seq(Events) /\ txn \in Seq(Events)
      /\ batch \in Seq(Events) /\ DOMAIN batch = 1 .. Len(batch) /\ Len(batch) \in Nat
  BY LenProperties DEF TypeOK
<1>2. CASE Enqueue \/ Drop \/ Shutdown \/ PutPill \/ UNCHANGED vars
  BY <1>2 DEF Enqueue, Drop, CanLog, Shutdown, PutPill, vars, store, history, fates
<1>3. CASE Get \/ GetPill \/ GetTimeout \/ Connect \/ ConnectFails \/ InsertAll \/ Close
  <2>1. wpc' \notin {"retry", "close"}
    BY <1>3 DEF Get, GetPill, GetTimeout, Connect, ConnectFails, InsertAll, Close
  <2> QED BY <2>1
<1>4. CASE InsertAllFails \/ CommitAllFails
  <2>1. wpc' = "retry" /\ next' = 1
    BY <1>4 DEF InsertAllFails, CommitAllFails
  <2> QED BY <2>1
<1>5. CASE CommitAll
  <2>1. Range(rows') = Range(rows) \cup Range(txn) /\ txn = batch /\ batch' = batch /\ wpc' = "close"
    BY <1>1, <1>5, RangeConcatenation DEF CommitAll, WriterOrder, Flushed
  <2> QED BY <2>1 DEF Range
<1>6. ASSUME wpc = "retry", Alive, UNCHANGED batch, NextRow,
             Range(rows) \subseteq Range(rows'), reported \subseteq reported', batch[next] \in Range(rows') \cup reported'
      PROVE  RowsAnswered'
  <2>1. next \in DOMAIN batch
    BY <1>6 DEF WriterOrder, RetryAhead
  <2>2. \A p \in 1 .. next : batch[p] \in Range(rows') \cup reported'
    <3>1. \A p \in 1 .. next : p = next \/ p \in 1 .. next - 1
      BY <1>1
    <3> QED BY <1>6, <3>1
  <2>3. CASE next < Len(batch)
    <3>1. wpc' = "retry" /\ next' - 1 = next
      BY <1>1, <1>6, <2>3 DEF NextRow
    <3> QED BY <1>6, <2>2, <3>1
  <2>4. CASE ~(next < Len(batch))
    <3>1. wpc' = "close" /\ next = Len(batch)
      BY <1>1, <1>6, <2>1, <2>4, LastOne DEF NextRow
    <3> QED BY <1>1, <1>6, <2>2, <3>1
  <2> QED BY <2>3, <2>4
<1>7. CASE RetryRow
  <2>1. wpc = "retry" /\ Alive /\ next \in DOMAIN batch
    BY <1>7 DEF RetryRow, WriterOrder, RetryAhead
  <2>2. batch[next] \in Events
    BY <1>1, <2>1, ElementOfSeq
  <2>3. Range(rows) \subseteq Range(rows') /\ batch[next] \in Range(rows')
    BY <1>1, <1>7, <2>2, RowCommitted DEF RetryRow
  <2> QED BY <1>6, <1>7, <2>3 DEF RetryRow, history, fates
<1>8. CASE RetryInsertFails \/ RetryCommitFails
  BY <1>6, <1>8 DEF RetryInsertFails, RetryCommitFails, Report
<1>9. CASE Exit \/ Kill \/ Restart
  BY <1>9 DEF Exit, Kill, Die, Restart
<1> QED BY <1>2, <1>3, <1>4, <1>5, <1>7, <1>8, <1>9 DEF Next, Writer, Process

LEMMA FateStep ==
    ASSUME TypeOK, WriterOrder, OneFate, RowsAnswered, [Next]_vars
    PROVE  OneFate'
<1> USE DEF Alive
<1>p. QueueOrder /\ TxnOrder /\ BatchAhead /\ Halted /\ RetryAhead
  BY DEF WriterOrder
<1>0. /\ rows \in Seq(Events) /\ batch \in Seq(Events) /\ txn \in Seq(Events)
      /\ queue \in Seq(Events \cup {Pill})
      /\ Range(rows) \subseteq Events /\ Queued \subseteq Events /\ Range(batch) \subseteq Events
      /\ dropped \subseteq Events /\ reported \subseteq Events /\ lost \subseteq Events
      /\ Events \subseteq Int
      /\ Range(txn) \subseteq Range(batch)
  BY <1>p, RangeOfSeq DEF TypeOK, Events, Queued, TxnOrder
\* The queue, the batch and the table hold different events.
<1>d. /\ Queued \cap Range(batch) = {} /\ Queued \cap Range(rows) = {}
      /\ wpc = "connect" => Range(batch) \cap Range(rows) = {}
  <2>1. \A n \in Events : ~(n < n)
    BY <1>0
  <2> QED BY <1>0, <1>p, <2>1 DEF QueueOrder, BatchAhead, Precedes
<1>e. Range(<<>>) = {}
  BY DEF Range
\* Events move between the queue and the batch, or nothing happens to them.
<1>m. ASSUME Queued' \cup Range(batch') = Queued \cup Range(batch), UNCHANGED <<rows, logged, fates>>
      PROVE  OneFate'
  BY <1>m DEF OneFate, InMemory, Events, fates
\* Events of the batch are committed.
<1>c. ASSUME NEW T, T \subseteq Range(batch), Range(rows') = Range(rows) \cup T,
             UNCHANGED <<queue, batch, logged, fates>>
      PROVE  OneFate'
  BY <1>c DEF OneFate, InMemory, Queued, Events, fates
\* The call of log_event has the next number, which no other event has.
<1>l. ASSUME logged' = logged + 1
      PROVE  Events' = Events \cup {logged + 1} /\ logged + 1 \notin Events
  BY <1>l DEF TypeOK, Events
<1>1. ASSUME Enqueue PROVE OneFate'
  <2>1. Queued' = Queued \cup {logged + 1}
    BY <1>1, MemoryStep DEF Next
  <2>2. logged' = logged + 1 /\ UNCHANGED <<rows, batch, dropped, reported, lost>>
    BY <1>1 DEF Enqueue, fates
  <2> QED BY <1>0, <1>l, <2>1, <2>2 DEF OneFate, InMemory
<1>2. ASSUME Drop PROVE OneFate'
  <2>1. /\ logged' = logged + 1 /\ dropped' = dropped \cup {logged + 1}
        /\ UNCHANGED <<queue, rows, batch, reported, lost>>
    BY <1>2 DEF Drop, store
  <2> QED BY <1>0, <1>l, <2>1 DEF OneFate, InMemory, Queued
<1>3. ASSUME Get \/ GetPill \/ PutPill PROVE OneFate'
  <2>1. Queued' \cup Range(batch') = Queued \cup Range(batch)
    BY <1>3, MemoryStep DEF Next, Writer, Process
  <2>2. UNCHANGED <<rows, logged, fates>>
    BY <1>3 DEF Get, GetPill, PutPill, history
  <2> QED BY <1>m, <2>1, <2>2
<1>4. ASSUME GetTimeout \/ Connect \/ InsertAll \/ InsertAllFails \/ CommitAllFails
             \/ Shutdown \/ Restart \/ UNCHANGED vars
      PROVE  OneFate'
  <2>1. UNCHANGED <<queue, batch, rows, logged, fates>>
    BY <1>4 DEF GetTimeout, Connect, InsertAll, InsertAllFails, CommitAllFails,
                Shutdown, Restart, vars, store, history
  <2> QED BY <1>m, <2>1 DEF Queued
<1>5. ASSUME ConnectFails PROVE OneFate'
  <2>1. /\ wpc = "connect" /\ lost' = lost \cup Range(batch) /\ batch' = <<>>
        /\ UNCHANGED <<queue, rows, logged, dropped, reported>>
    BY <1>5 DEF ConnectFails
  <2> QED BY <1>d, <1>e, <2>1 DEF OneFate, InMemory, Queued, Events
<1>6. ASSUME CommitAll PROVE OneFate'
  <2>1. rows' = rows \o txn /\ UNCHANGED <<queue, batch, logged, fates>>
    BY <1>6 DEF CommitAll, history
  <2>2. Range(rows') = Range(rows) \cup Range(txn)
    BY <1>0, <2>1, RangeConcatenation
  <2> QED BY <1>0, <1>c, <2>1, <2>2
<1>7. ASSUME RetryRow PROVE OneFate'
  <2> DEFINE tried == Inserted(txn, batch[next])
  <2>1. wpc = "retry" /\ Alive /\ rows' = rows \o tried /\ UNCHANGED <<queue, batch, logged, fates>>
    BY <1>7 DEF RetryRow, history
  <2>2. batch[next] \in Range(batch) /\ batch[next] \in Events
    BY <1>0, <1>p, <2>1 DEF RetryAhead, Range
  <2>3. tried \in Seq(Events) /\ Range(tried) \subseteq Range(batch)
    <3>1. /\ Append(txn, batch[next]) \in Seq(Events)
          /\ Range(Append(txn, batch[next])) = Range(txn) \cup {batch[next]}
      BY <1>0, <2>2, AppendFacts
    <3> QED BY <1>0, <2>2, <3>1 DEF Inserted
  <2> HIDE DEF tried
  <2>4. Range(rows') = Range(rows) \cup Range(tried)
    BY <1>0, <2>1, <2>3, RangeConcatenation
  <2> QED BY <1>c, <2>1, <2>3, <2>4
\* A row of the batch is reported: it is in memory or in the table, so not dropped.
<1>8. ASSUME RetryInsertFails \/ RetryCommitFails PROVE OneFate'
  <2>1. /\ wpc = "retry" /\ Alive /\ reported' = reported \cup {batch[next]}
        /\ UNCHANGED <<queue, batch, rows, logged, dropped, lost>>
    BY <1>8 DEF RetryInsertFails, RetryCommitFails, Report
  <2>2. batch[next] \in Range(batch) /\ batch[next] \in Events
    BY <1>0, <1>p, <2>1 DEF RetryAhead, Range
  <2>3. batch[next] \notin dropped
    BY <2>2 DEF OneFate, InMemory
  <2> QED BY <2>1, <2>2, <2>3 DEF OneFate, InMemory, Queued, Events
\* What the flush did not store it has reported.
<1>9. ASSUME Close PROVE OneFate'
  <2>1. /\ wpc = "close" /\ Alive /\ batch' = <<>>
        /\ UNCHANGED <<queue, rows, logged, dropped, reported, lost>>
    BY <1>9 DEF Close, history, fates
  <2>2. Range(batch) \subseteq Range(rows) \cup reported
    BY <2>1 DEF RowsAnswered, Tried, Range
  <2> QED BY <1>d, <1>e, <2>1, <2>2 DEF OneFate, InMemory, Queued, Events
<1>10. ASSUME Die PROVE OneFate'
  <2>1. /\ lost' = lost \cup InMemory /\ batch' = <<>> /\ queue' = <<>>
        /\ UNCHANGED <<rows, logged, dropped, reported>>
    BY <1>10 DEF Die
  <2>2. InMemory' = {}
    BY <1>e, <2>1 DEF InMemory, Queued
  <2>3. Events' = Events /\ Range(rows') = Range(rows)
    BY <2>1 DEF Events
  <2>4. Events' = InMemory' \cup Range(rows') \cup dropped' \cup reported' \cup lost'
    <3>1. Events = InMemory \cup Range(rows) \cup dropped \cup reported \cup lost
      BY DEF OneFate
    <3> QED BY <2>1, <2>2, <2>3, <3>1
  <2>5. Range(rows') \cap (dropped' \cup lost') = {} /\ dropped' \cap (reported' \cup lost') = {}
    <3>1. InMemory \cap Range(rows) = {}
      BY DEF InMemory
    <3> QED BY <2>1, <2>3, <3>1 DEF OneFate
  <2> QED BY <2>2, <2>4, <2>5 DEF OneFate
<1> QED
  BY <1>1, <1>2, <1>3, <1>4, <1>5, <1>6, <1>7, <1>8, <1>9, <1>10
     DEF Next, Writer, Process, Exit, Kill

-----------------------------------------------------------------------------
(* The results.                                                            *)

\* The inductive invariant holds in every reachable state of the write path of
\* DatabaseManager (log_event, _writer_loop, _flush_batch) and of main()'s end.
THEOREM Safety == Spec => []Inv
<1>1. Inv /\ [Next]_vars => Inv'
  BY TypeStep, OrderStep, AnsweredStep, FateStep DEF Inv
<1> QED BY InitInv, <1>1, PTL DEF Spec

\* The queue and the batch keep to their limits, and every variable to its type,
\* in log_event and _writer_loop, for every capacity and batch size.
THEOREM TypeCorrect == Spec => []TypeOK
<1>1. Inv => TypeOK
  BY DEF Inv
<1> QED BY Safety, <1>1, PTL

\* The table has every event at most once and in the order of log_event's calls,
\* whatever _flush_batch had to retry.
THEOREM StoredInOrder == Spec => []InOrder
<1>1. Inv => InOrder
  BY DEF Inv, WriterOrder
<1> QED BY Safety, <1>1, PTL

\* Every call of log_event is in one place or gone for a reason that left a trace,
\* across refusals by SQLite, the death of the thread, crashes and restarts.
THEOREM AccountedFor == Spec => []OneFate
<1>1. Inv => OneFate
  BY DEF Inv
<1> QED BY Safety, <1>1, PTL

-----------------------------------------------------------------------------
(* One refusal per flush.  A flush is at its first refusal when the        *)
(* fallback begins: as long as it is the only one, every row behind `next' *)
(* is committed, and no row of the batch is reported.                      *)

\* An event is reported by the fallback of its own flush, not before.
ReportedLate ==
    /\ Queued \cap reported = {}
    /\ wpc \notin {"retry", "close"} => Range(batch) \cap reported = {}

FirstRefusal ==
    /\ Alive /\ wpc \in {"insert", "commit"} => faults = 0
    /\ Alive /\ wpc = "retry" =>
          /\ faults >= 1
          /\ faults = 1 => /\ \A p \in 1 .. next - 1 : batch[p] \in Range(rows)
                           /\ Range(batch) \cap reported = {}

Absorbs == ReportedLate /\ FirstRefusal /\ OneFaultAbsorbed

LEMMA ReportedLateStep ==
    ASSUME Inv, ReportedLate, [Next]_vars
    PROVE  ReportedLate'
<1> USE DEF ReportedLate
<1>0. /\ reported \subseteq Events /\ Range(batch) \subseteq Events /\ logged + 1 \notin Events
      /\ Queued \cap Range(batch) = {}
  <2>1. /\ reported \subseteq Events /\ Range(batch) \subseteq Events /\ logged + 1 \notin Events
        /\ Events \subseteq Int
    BY RangeOfSeq DEF Inv, TypeOK, Events
  <2>2. \A n \in Events : ~(n < n)
    BY <2>1
  <2> QED BY <2>1, <2>2 DEF Inv, WriterOrder, QueueOrder, Precedes
<1>1. Range(<<>>) = {}
  BY DEF Range
<1>2. CASE Enqueue
  <2>1. Queued' = Queued \cup {logged + 1}
    BY <1>2, MemoryStep DEF Inv, Next
  <2>2. UNCHANGED <<wpc, batch, reported>>
    BY <1>2 DEF Enqueue, fates
  <2> QED BY <1>0, <2>1, <2>2
<1>3. CASE Get \/ GetPill \/ PutPill
  <2>1. Queued' \cup Range(batch') = Queued \cup Range(batch)
    BY <1>3, MemoryStep DEF Inv, Next, Writer, Process
  <2>2. CASE Get \/ GetPill
    <3>1. reported' = reported /\ wpc = "get"
      BY <2>2 DEF Get, GetPill, history, fates
    <3> QED BY <2>1, <3>1
  <2>3. CASE PutPill
    <3>1. UNCHANGED <<wpc, batch, reported>>
      BY <2>3 DEF PutPill, history, fates
    <3>2. Queued' \subseteq Queued
      <4>1. queue \in Seq(Events \cup {Pill}) /\ Pill \in Events \cup {Pill}
        BY DEF Inv, TypeOK
      <4>2. Range(Append(queue, Pill)) = Range(queue) \cup {Pill}
        BY <4>1, AppendFacts
      <4> QED BY <2>3, <4>2 DEF PutPill, Queued
    <3> QED BY <3>1, <3>2
  <2> QED BY <1>3, <2>2, <2>3
<1>4. CASE RetryInsertFails \/ RetryCommitFails
  <2>1. /\ wpc = "retry" /\ Alive /\ reported' = reported \cup {batch[next]} /\ UNCHANGED <<queue, batch>>
        /\ wpc' \in {"retry", "close"}
    BY <1>4 DEF RetryInsertFails, RetryCommitFails, Report, NextRow
  <2>2. batch[next] \in Range(batch)
    BY <2>1 DEF Inv, WriterOrder, RetryAhead, Range
  <2> QED BY <1>0, <2>1, <2>2 DEF Queued
<1>5. CASE RetryRow
  <2>1. wpc' \in {"retry", "close"} /\ UNCHANGED <<queue, batch, reported>>
    BY <1>5 DEF RetryRow, NextRow, history, fates
  <2> QED BY <2>1 DEF Queued
<1>6. CASE ConnectFails \/ Close
  <2>1. batch' = <<>> /\ UNCHANGED <<queue, reported>>
    BY <1>6 DEF ConnectFails, Close, history, fates
  <2> QED BY <1>1, <2>1 DEF Queued
<1>7. CASE Exit \/ Kill
  <2>1. batch' = <<>> /\ queue' = <<>> /\ reported' = reported
    BY <1>7 DEF Exit, Kill, Die
  <2> QED BY <1>1, <2>1 DEF Queued
<1>8. CASE Restart
  <2>1. batch = <<>> /\ UNCHANGED <<queue, batch, reported>>
    BY <1>8 DEF Restart, fates, Inv, WriterOrder, Halted
  <2> QED BY <1>1, <2>1 DEF Queued
<1>9. CASE Drop \/ Shutdown \/ UNCHANGED vars
  <2>1. UNCHANGED <<queue, wpc, batch, reported>>
    BY <1>9 DEF Drop, Shutdown, vars, store, history, fates
  <2> QED BY <2>1 DEF Queued
<1>10. CASE GetTimeout \/ Connect \/ InsertAll \/ InsertAllFails \/ CommitAll \/ CommitAllFails
  <2>1. UNCHANGED <<queue, batch, reported>> /\ wpc \notin {"retry", "close"}
    BY <1>10 DEF GetTimeout, Connect, InsertAll, InsertAllFails, CommitAll, CommitAllFails, history, fates
  <2> QED BY <2>1 DEF Queued
<1> QED BY <1>2, <1>3, <1>4, <1>5, <1>6, <1>7, <1>8, <1>9, <1>10 DEF Next, Writer, Process

LEMMA RetryRowAbsorbs ==
    ASSUME Inv, FirstRefusal, RetryRow
    PROVE  FirstRefusal' /\ OneFaultAbsorbed'
<1>1. /\ next \in Nat \ {0} /\ rows \in Seq(Events) /\ txn \in Seq(Events)
      /\ batch \in Seq(Events) /\ DOMAIN batch = 1 .. Len(batch) /\ Len(batch) \in Nat
  BY LenProperties DEF Inv, TypeOK
<1>2. wpc = "retry" /\ Alive /\ UNCHANGED <<proc, batch, faults, reported>>
  BY DEF RetryRow, history, fates
<1>3. next \in DOMAIN batch
  BY <1>2 DEF Inv, WriterOrder, RetryAhead
<1>4. faults \in Nat /\ faults >= 1
  BY <1>2 DEF FirstRefusal, Inv, TypeOK
<1>5. faults = 1 => /\ \A p \in 1 .. next : batch[p] \in Range(rows')
                    /\ Range(batch) \cap reported = {}
  <2>1. batch[next] \in Events
    BY <1>1, <1>3, ElementOfSeq
  <2>2. Range(rows) \subseteq Range(rows') /\ batch[next] \in Range(rows')
    BY <1>1, <2>1, RowCommitted DEF RetryRow
  <2>3. faults = 1 => /\ \A p \in 1 .. next - 1 : batch[p] \in Range(rows)
                      /\ Range(batch) \cap reported = {}
    BY <1>2 DEF FirstRefusal
  <2>4. \A p \in 1 .. next : p = next \/ p \in 1 .. next - 1
    BY <1>1
  <2> QED BY <2>2, <2>3, <2>4
<1>6. CASE next < Len(batch)
  <2>1. wpc' = "retry" /\ next' = next + 1
    BY <1>2, <1>6 DEF RetryRow, NextRow
  <2>2. next' - 1 = next
    BY <1>1, <2>1
  <2> QED BY <1>2, <1>4, <1>5, <2>1, <2>2 DEF FirstRefusal, OneFaultAbsorbed, Alive
<1>7. CASE ~(next < Len(batch))
  <2>1. wpc' = "close"
    BY <1>2, <1>7 DEF RetryRow, NextRow
  <2>2. next = Len(batch)
    BY <1>1, <1>3, <1>7, LastOne
  <2>3. faults = 1 => Range(batch) \subseteq Range(rows') /\ Range(batch) \cap reported = {}
    BY <1>1, <1>5, <2>2 DEF Range
  <2>4. faults <= 1 => faults = 1
    BY <1>4
  <2> QED BY <1>2, <2>1, <2>3, <2>4 DEF FirstRefusal, OneFaultAbsorbed
<1> QED BY <1>6, <1>7

LEMMA AbsorbsStep ==
    ASSUME Inv, Absorbs, [Next]_vars
    PROVE  FirstRefusal' /\ OneFaultAbsorbed'
<1> USE DEF Absorbs, FirstRefusal, OneFaultAbsorbed, Alive
<1>1. faults \in Nat /\ next \in Nat \ {0} /\ rows \in Seq(Events) /\ txn \in Seq(Events)
      /\ batch \in Seq(Events) /\ DOMAIN batch = 1 .. Len(batch) /\ Len(batch) \in Nat
  BY LenProperties DEF Inv, TypeOK
<1>2. Range(<<>>) = {}
  BY DEF Range
<1>3. CASE Enqueue \/ Drop \/ Shutdown \/ PutPill \/ UNCHANGED vars
  BY <1>3 DEF Enqueue, Drop, Shutdown, PutPill, vars, store, history, fates
<1>4. CASE Get \/ GetPill \/ GetTimeout \/ Connect \/ ConnectFails
  BY <1>4 DEF Get, GetPill, GetTimeout, Connect, ConnectFails, history, fates
<1>5. CASE InsertAll
  BY <1>5 DEF InsertAll, history
<1>6. CASE InsertAllFails \/ CommitAllFails
  <2>1. /\ wpc' = "retry" /\ next' = 1 /\ faults' = 1 /\ UNCHANGED <<batch, reported>>
        /\ wpc \notin {"retry", "close"}
    BY <1>1, <1>6 DEF InsertAllFails, CommitAllFails, Refused, fates
  <2> QED BY <2>1 DEF ReportedLate
<1>7. CASE CommitAll
  <2>1. /\ Range(rows') = Range(rows) \cup Range(txn) /\ txn = batch /\ UNCHANGED <<batch, reported>>
        /\ wpc = "commit" /\ wpc' = "close"
    BY <1>1, <1>7, RangeConcatenation DEF CommitAll, Inv, WriterOrder, Flushed, history, fates
  <2> QED BY <2>1 DEF ReportedLate
<1>8. CASE RetryRow
  BY <1>8, RetryRowAbsorbs
<1>9. CASE RetryInsertFails \/ RetryCommitFails
  <2>1. faults' \in Nat /\ faults' >= 2 /\ wpc' \in {"retry", "close"}
    BY <1>1, <1>9 DEF RetryInsertFails, RetryCommitFails, Refused, NextRow
  <2> QED BY <2>1
<1>10. CASE Close
  <2>1. wpc' \in {"stopped", "get"}
    BY <1>10 DEF Close
  <2> QED BY <2>1
<1>11. CASE Exit \/ Kill \/ Restart
  BY <1>2, <1>11 DEF Exit, Kill, Die, Restart
<1> QED BY <1>3, <1>4, <1>5, <1>6, <1>7, <1>8, <1>9, <1>10, <1>11 DEF Next, Writer, Process

LEMMA AlwaysAbsorbs == Spec => []Absorbs
<1>1. Init => Absorbs
  BY DEF Init, Absorbs, ReportedLate, FirstRefusal, OneFaultAbsorbed, Queued
<1>2. Inv /\ Absorbs /\ [Next]_vars => Absorbs'
  BY ReportedLateStep, AbsorbsStep DEF Absorbs
<1> QED BY Safety, <1>1, <1>2, PTL DEF Spec

\* _flush_batch ends with every row of its batch in the table, and no error logged for
\* any of them, when SQLite refused at most one of its statements and commits, for
\* every batch size and at any row.
THEOREM OneRefusalAbsorbed == Spec => []OneFaultAbsorbed
<1>1. Absorbs => OneFaultAbsorbed
  BY DEF Absorbs
<1> QED BY AlwaysAbsorbs, <1>1, PTL

-----------------------------------------------------------------------------
(* The store implements EventLog: an action of the store is an action of   *)
(* the log by what it does to the events in the queue and the batch, which *)
(* are pending as long as they are not in the table.                       *)

LEMMA LogStep ==
    ASSUME Inv, Inv', [Next]_vars
    PROVE  [Log!LogNext]_(Log!logVars)
<1>0. /\ rows \in Seq(Events) /\ batch \in Seq(Events) /\ txn \in Seq(Events)
      /\ Range(rows) \subseteq Events /\ logged + 1 \notin Events
      /\ Range(txn) \subseteq Range(batch)
  BY RangeOfSeq DEF Inv, TypeOK, Events, WriterOrder, TxnOrder
<1>1. CASE Enqueue
  <2>1. Queued' = Queued \cup {logged + 1}
    BY <1>1, MemoryStep DEF Inv, Next
  <2>2. logged' = logged + 1 /\ UNCHANGED <<rows, batch>>
    BY <1>1 DEF Enqueue
  <2>3. InMemory' = InMemory \cup {logged + 1}
    BY <1>0, <2>1, <2>2 DEF InMemory
  <2> QED BY <2>2, <2>3 DEF Log!Accept, Log!LogNext
<1>2. CASE Drop
  <2>1. logged' = logged + 1 /\ UNCHANGED <<queue, rows, batch>>
    BY <1>2 DEF Drop, store
  <2> QED BY <2>1 DEF Log!Refuse, Log!LogNext, InMemory, Queued
\* Rows of the batch go to the end of the table.
<1>3. ASSUME NEW t \in Seq(Events), Range(t) \subseteq Range(batch), rows' = rows \o t,
             UNCHANGED <<queue, batch, logged>>
      PROVE  Log!Write
  <2>1. Range(rows') = Range(rows) \cup Range(t)
    BY <1>0, <1>3, RangeConcatenation
  <2>2. Log!Extends(rows', rows)
    <3>1. /\ DOMAIN rows = 1 .. Len(rows) /\ Len(rows) \in Nat /\ Len(t) \in Nat
          /\ DOMAIN (rows \o t) = 1 .. Len(rows) + Len(t)
          /\ \A i \in 1 .. Len(rows) + Len(t) :
                (rows \o t)[i] = IF i <= Len(rows) THEN rows[i] ELSE t[i - Len(rows)]
      BY <1>0, ConcatProperties, LenProperties
    <3> QED BY <1>3, <3>1 DEF Log!Extends
  <2>3. Log!Increasing(rows')
    BY DEF Inv, WriterOrder, InOrder, Increasing, Log!Increasing
  <2>4. Range(rows') \subseteq Range(rows) \cup InMemory /\ InMemory' = InMemory \ Range(rows')
    BY <1>3, <2>1 DEF InMemory, Queued
  <2>5. Log!Range(rows) = Range(rows) /\ Log!Range(rows') = Range(rows')
    BY DEF Range, Log!Range
  <2> QED BY <1>3, <2>2, <2>3, <2>4, <2>5 DEF Log!Write
<1>4. CASE CommitAll
  BY <1>0, <1>3, <1>4 DEF CommitAll, history, Log!LogNext
<1>5. CASE RetryRow
  <2>1. /\ wpc = "retry" /\ Alive /\ rows' = rows \o Inserted(txn, batch[next])
        /\ UNCHANGED <<queue, batch, logged>>
    BY <1>5 DEF RetryRow, history
  <2>2. batch[next] \in Events /\ batch[next] \in Range(batch)
    <3>1. next \in DOMAIN batch
      BY <2>1 DEF Inv, WriterOrder, RetryAhead
    <3> QED BY <1>0, <3>1, LenProperties, ElementOfSeq DEF Range
  <2>3. Inserted(txn, batch[next]) \in Seq(Events) /\ Range(Inserted(txn, batch[next])) \subseteq Range(batch)
    BY <1>0, <2>2, AppendFacts DEF Inserted
  <2> QED BY <1>3, <2>1, <2>3 DEF Log!LogNext
<1>6. ASSUME UNCHANGED <<rows, logged>>, Queued' \cup Range(batch') \subseteq Queued \cup Range(batch)
      PROVE  Log!Forget
  BY <1>6 DEF InMemory, Log!Forget
<1>7. CASE Get \/ GetPill \/ PutPill
  <2>1. Queued' \cup Range(batch') = Queued \cup Range(batch)
    BY <1>7, MemoryStep DEF Inv, Next, Writer, Process
  <2>2. UNCHANGED <<rows, logged>>
    BY <1>7 DEF Get, GetPill, PutPill, history
  <2> QED BY <1>6, <2>1, <2>2 DEF Log!LogNext
<1>8. CASE GetTimeout \/ Connect \/ InsertAll \/ InsertAllFails \/ CommitAllFails \/ RetryInsertFails
           \/ RetryCommitFails \/ Shutdown \/ Restart \/ UNCHANGED vars
  <2>1. UNCHANGED <<queue, batch, rows, logged>>
    BY <1>8 DEF GetTimeout, Connect, InsertAll, InsertAllFails, CommitAllFails, RetryInsertFails,
                RetryCommitFails, Shutdown, Restart, vars, store, history
  <2> QED BY <1>6, <2>1 DEF Queued, Log!LogNext
<1>9. CASE ConnectFails \/ Close \/ Exit \/ Kill
  <2>1. batch' = <<>> /\ queue' \in {queue, <<>>} /\ UNCHANGED <<rows, logged>>
    BY <1>9 DEF ConnectFails, Close, Exit, Kill, Die, history
  <2>2. Range(<<>>) = {}
    BY DEF Range
  <2> QED BY <1>6, <2>1, <2>2 DEF Queued, Log!LogNext
<1> QED BY <1>1, <1>2, <1>4, <1>5, <1>7, <1>8, <1>9 DEF Next, Writer, Process

\* Every behaviour of the store is a behaviour of the abstract log: events
\* are accepted or refused, written at most once and in order, or forgotten.
THEOREM Refinement == Spec => ImplementsLog
<1>1. Init => Log!LogInit
  BY DEF Init, Log!LogInit, InMemory, Queued, Range
<1>2. Inv /\ Inv' /\ [Next]_vars => [Log!LogNext]_(Log!logVars)
  BY LogStep
<1> QED BY <1>1, <1>2, Safety, PTL DEF Spec, ImplementsLog, Log!LogSpec

-----------------------------------------------------------------------------
(* How much an end of the process or of the thread can take with it.       *)

LEMMA RangeSize ==
    ASSUME NEW S, NEW s \in Seq(S)
    PROVE  IsFiniteSet(Range(s)) /\ Cardinality(Range(s)) \in Nat /\ Cardinality(Range(s)) <= Len(s)
<1>1. Len(s) \in Nat /\ DOMAIN s = 1 .. Len(s)
  BY LenProperties
<1>2. IsFiniteSet(1 .. Len(s)) /\ Cardinality(1 .. Len(s)) = Len(s)
  BY <1>1, FS_Interval
<1>3. s \in [1 .. Len(s) -> Range(s)]
  BY <1>1, SeqDef DEF Range
<1>4. s \in Surjection(1 .. Len(s), Range(s))
  BY <1>1, <1>3 DEF Surjection, Range
<1>5. IsFiniteSet(Range(s)) /\ Cardinality(Range(s)) <= Len(s)
  BY <1>2, <1>4, FS_Surjection
<1> QED BY <1>5, FS_CardinalityType

\* What is in memory fits into the queue and the batch.
LEMMA MemoryBound ==
    ASSUME TypeOK, NEW S \in SUBSET (Queued \cup Range(batch))
    PROVE  Cardinality(S) <= MaxQueue + MaxBatch
<1>1. /\ IsFiniteSet(Range(queue)) /\ Cardinality(Range(queue)) \in Nat
      /\ Cardinality(Range(queue)) <= Len(queue) /\ Len(queue) \in Nat /\ Len(queue) <= MaxQueue
  BY RangeSize, LenProperties DEF TypeOK
<1>2. /\ IsFiniteSet(Range(batch)) /\ Cardinality(Range(batch)) \in Nat
      /\ Cardinality(Range(batch)) <= Len(batch) /\ Len(batch) \in Nat /\ Len(batch) <= MaxBatch
  BY RangeSize, LenProperties DEF TypeOK
<1> DEFINE both == Range(queue) \cup Range(batch)
<1>3. /\ IsFiniteSet(both) /\ IsFiniteSet(Range(queue) \cap Range(batch))
      /\ Cardinality(both)
          = Cardinality(Range(queue)) + Cardinality(Range(batch)) - Cardinality(Range(queue) \cap Range(batch))
  BY <1>1, <1>2, FS_Union, FS_Subset
<1>4. Cardinality(Range(queue) \cap Range(batch)) \in Nat
  BY <1>3, FS_CardinalityType
<1>5. S \subseteq both
  BY DEF Queued
<1> HIDE DEF both
<1>6. Cardinality(S) \in Nat /\ Cardinality(S) <= Cardinality(both) /\ Cardinality(both) \in Nat
  BY <1>3, <1>5, FS_Subset, FS_CardinalityType
<1> QED BY <1>1, <1>2, <1>3, <1>4, <1>6, StoreAssumption DEF StoreAssumption

\* What one step takes from memory without storing it.
LossBounded == Cardinality(lost' \ lost) <= MaxQueue + MaxBatch

\* No step, a crash included, loses more events than queue and batch hold together.
THEOREM LossIsBounded == Spec => [][LossBounded]_vars
<1>1. Inv /\ [Next]_vars => [LossBounded]_vars
  <2> SUFFICES ASSUME Inv, Next PROVE LossBounded
    OBVIOUS
  <2>1. ASSUME lost' = lost PROVE LossBounded
    <3>1. lost' \ lost = {}
      BY <2>1
    <3>2. {} \in SUBSET (Queued \cup Range(batch))
      OBVIOUS
    <3> QED BY <3>1, <3>2, MemoryBound DEF Inv, LossBounded
  <2>2. ASSUME lost' \in {lost \cup Range(batch), lost \cup InMemory} PROVE LossBounded
    <3>1. lost' \ lost \in SUBSET (Queued \cup Range(batch))
      BY <2>2 DEF InMemory
    <3> QED BY <3>1, MemoryBound DEF Inv, LossBounded
  <2>3. ASSUME ConnectFails \/ Exit \/ Kill
        PROVE  lost' \in {lost \cup Range(batch), lost \cup InMemory}
    BY <2>3 DEF ConnectFails, Exit, Kill, Die
  <2>4. ASSUME Enqueue \/ Drop \/ Shutdown \/ PutPill \/ Restart PROVE lost' = lost
    BY <2>4 DEF Enqueue, Drop, Shutdown, PutPill, Restart, history, fates
  <2>5. ASSUME Writer, ~ConnectFails PROVE lost' = lost
    BY <2>5 DEF Writer, Get, GetPill, GetTimeout, Connect, InsertAll, InsertAllFails, CommitAll,
                CommitAllFails, RetryRow, RetryInsertFails, RetryCommitFails, Close, history, fates
  <2> QED BY <2>1, <2>2, <2>3, <2>4, <2>5 DEF Next, Process
<1> QED BY <1>1, Safety, PTL DEF Spec

-----------------------------------------------------------------------------
(* A database that always opens and refuses once per flush at most.        *)

\* No error was logged for a row, and the writer thread lives.
Unfailing == reported = {} /\ wpc # "dead" /\ faults <= MaxFaults

\* Events are lost at the end of a process only.
LostWithProcess == lost' # lost => proc' = "down"

LEMMA UnfailingStep ==
    ASSUME MaxFaults <= 1, "connect" \notin Faults, Inv, Absorbs, Unfailing, [Next]_vars
    PROVE  Unfailing' /\ (lost' # lost => proc' = "down")
<1> USE DEF Unfailing
<1>1. faults \in Nat /\ MaxFaults \in Nat
  BY StoreAssumption DEF Inv, TypeOK, StoreAssumption
<1>2. CASE Enqueue \/ Drop \/ Shutdown \/ PutPill \/ Restart \/ UNCHANGED vars
  BY <1>2 DEF Enqueue, Drop, Shutdown, PutPill, Restart, vars, store, history, fates
<1>3. CASE Get \/ GetPill \/ GetTimeout \/ Connect \/ InsertAll \/ CommitAll \/ RetryRow \/ Close
  BY <1>1, <1>3
     DEF Get, GetPill, GetTimeout, Connect, InsertAll, CommitAll, RetryRow, NextRow, Close, history, fates
<1>4. CASE InsertAllFails \/ CommitAllFails
  BY <1>1, <1>4 DEF InsertAllFails, CommitAllFails, Refused, fates
\* The refusal that began the fallback was the one the database may make.
<1>5. CASE RetryInsertFails \/ RetryCommitFails
  <2>1. faults >= 1 /\ faults < MaxFaults
    BY <1>5 DEF RetryInsertFails, RetryCommitFails, Refused, Absorbs, FirstRefusal
  <2> QED BY <1>1, <2>1
<1>6. CASE ConnectFails
  BY <1>6 DEF ConnectFails
<1>7. CASE Exit \/ Kill
  BY <1>7 DEF Exit, Kill, Die
<1> QED BY <1>2, <1>3, <1>4, <1>5, <1>6, <1>7 DEF Next, Writer, Process

\* With at most one refusal per flush and a file that can be opened, the writer thread
\* never dies, _flush_batch logs no error, and only the end of the process loses events.
THEOREM RareFaultsLoseNothing ==
    MaxFaults <= 1 /\ "connect" \notin Faults =>
        (Spec => [](reported = {} /\ wpc # "dead") /\ [][LostWithProcess]_vars)
<1> SUFFICES ASSUME MaxFaults <= 1, "connect" \notin Faults
             PROVE  Spec => [](reported = {} /\ wpc # "dead") /\ [][LostWithProcess]_vars
  OBVIOUS
<1>1. Init => Unfailing
  BY StoreAssumption DEF Init, Unfailing, StoreAssumption
<1>2. Inv /\ Absorbs /\ Unfailing /\ [Next]_vars => Unfailing' /\ [LostWithProcess]_vars
  BY UnfailingStep DEF LostWithProcess
<1>3. Unfailing => reported = {} /\ wpc # "dead"
  BY DEF Unfailing
<1> QED BY <1>1, <1>2, <1>3, Safety, AlwaysAbsorbs, PTL DEF Spec

-----------------------------------------------------------------------------
(* What ShutdownKeepsEvents lacks: main() returns without joining the      *)
(* writer.  The pill stands behind every event accepted before the signal, *)
(* so that a writer that has read it and stopped has flushed all of them.  *)

\* The pill is put once, behind what was accepted before the signal.
PillBehind ==
    /\ proc \in {"up", "putting"} => ~ending /\ Pill \notin Range(queue)
    /\ ending => \A e \in Range(queue) : e > signalled
    /\ \A i, j \in DOMAIN queue : queue[i] = Pill /\ i < j => queue[j] > signalled
    /\ Alive /\ wpc = "stopped" => ending
    /\ ~Alive => queue = <<>>

LEMMA PillBehindStep == ASSUME Inv, PillBehind, [Next]_vars PROVE PillBehind'
<1>1. /\ queue \in Seq(Nat) /\ DOMAIN queue = 1 .. Len(queue) /\ Len(queue) \in Nat
      /\ logged \in Nat /\ signalled \in Nat /\ signalled <= logged
      /\ \A i \in DOMAIN queue : queue[i] \in Nat
  <2>1. queue \in Seq(Events \cup {Pill}) /\ logged \in Nat /\ signalled \in 0 .. logged
    BY DEF Inv, TypeOK
  <2>2. Events \cup {Pill} \subseteq Nat
    BY <2>1 DEF Events
  <2>3. queue \in Seq(Nat)
    BY <2>1, <2>2, SeqDef
  <2> QED BY <2>1, <2>3, LenProperties, ElementOfSeq
<1>2. Range(<<>>) = {} /\ DOMAIN <<>> = {}
  BY DEF Range
<1>3. CASE Enqueue
  <2>1. queue' = Append(queue, logged + 1) /\ UNCHANGED <<proc, ending, wpc, signalled>> /\ Alive
    BY <1>3 DEF Enqueue, CanLog, Alive
  <2>2. /\ Range(queue') = Range(queue) \cup {logged + 1} /\ DOMAIN queue' = 1 .. Len(queue) + 1
        /\ queue'[Len(queue) + 1] = logged + 1 /\ \A i \in DOMAIN queue : queue'[i] = queue[i]
    BY <1>1, <2>1, AppendFacts, AppendProperties
  <2>3. logged + 1 # Pill /\ logged + 1 > signalled
    BY <1>1
  <2>4. ASSUME NEW i \in DOMAIN queue', NEW j \in DOMAIN queue', queue'[i] = Pill, i < j
        PROVE  queue'[j] > signalled
    <3>1. i \in DOMAIN queue
      BY <1>1, <2>2, <2>3, <2>4
    <3>2. CASE j = Len(queue) + 1
      BY <2>2, <2>3, <3>2
    <3>3. CASE j \in DOMAIN queue
      BY <2>2, <2>4, <3>1, <3>3 DEF PillBehind
    <3> QED BY <1>1, <2>2, <3>2, <3>3
  <2> QED BY <2>1, <2>2, <2>3, <2>4 DEF PillBehind, Alive
<1>4. CASE Get \/ GetPill
  <2>1. /\ queue # <<>> /\ queue' = Tail(queue) /\ UNCHANGED <<proc, signalled>> /\ Alive
        /\ ending' = IF GetPill THEN TRUE ELSE ending
        /\ GetPill => Head(queue) = Pill
        /\ Get => wpc' # "stopped" /\ ~GetPill
    BY <1>4 DEF Get, GetPill, history
  <2>2. /\ Head(queue) = queue[1] /\ 1 \in DOMAIN queue
        /\ \A i \in DOMAIN queue' : i \in Nat \ {0} /\ i + 1 \in DOMAIN queue /\ queue'[i] = queue[i + 1]
        /\ Range(queue) = {Head(queue)} \cup Range(queue')
    <3>1. /\ Head(queue) = queue[1] /\ Len(queue') = Len(queue) - 1 /\ queue' \in Seq(Nat)
          /\ \A i \in DOMAIN queue' : i + 1 \in DOMAIN queue /\ queue'[i] = queue[i + 1]
          /\ Range(queue) = {Head(queue)} \cup Range(queue')
      BY <1>1, <2>1, TailFacts
    <3>2. DOMAIN queue' = 1 .. Len(queue')
      BY <3>1, LenProperties
    <3>3. Len(queue) # 0
      BY <1>1, <2>1, EmptySeq
    <3> QED BY <1>1, <3>1, <3>2, <3>3
  <2>3. ASSUME NEW i \in DOMAIN queue', NEW j \in DOMAIN queue', queue'[i] = Pill, i < j
        PROVE  queue'[j] > signalled
    <3>1. i + 1 < j + 1
      BY <2>2, <2>3
    <3> QED BY <2>2, <2>3, <3>1 DEF PillBehind
  <2>4. ASSUME GetPill, NEW e \in Range(queue') PROVE e > signalled
    <3>1. PICK j \in DOMAIN queue' : e = queue'[j]
      BY <2>4 DEF Range
    <3>2. j + 1 \in DOMAIN queue /\ 1 < j + 1 /\ queue[1] = Pill
      BY <2>1, <2>2, <2>4
    <3> QED BY <2>2, <3>1, <3>2 DEF PillBehind
  <2>5. GetPill => proc \notin {"up", "putting"}
    BY <2>1, <2>2 DEF PillBehind
  <2>6. Alive' /\ signalled' = signalled
    BY <2>1 DEF Alive
  <2>7. CASE GetPill
    BY <2>1, <2>3, <2>4, <2>5, <2>6, <2>7 DEF PillBehind
  <2>8. CASE Get
    BY <2>1, <2>2, <2>3, <2>6, <2>8 DEF PillBehind
  <2> QED BY <1>4, <2>7, <2>8
<1>5. ASSUME UNCHANGED <<proc, queue, ending, signalled>>, wpc' = "stopped" => ending \/ wpc' = wpc
      PROVE  PillBehind'
  BY <1>5 DEF PillBehind, Alive
<1>6. CASE Drop \/ UNCHANGED vars
  BY <1>5, <1>6 DEF Drop, vars, store, history
<1>7. CASE GetTimeout \/ Connect \/ ConnectFails \/ InsertAll \/ InsertAllFails \/ CommitAll \/ CommitAllFails
  BY <1>5, <1>7 DEF GetTimeout, Connect, ConnectFails, InsertAll, InsertAllFails, CommitAll, CommitAllFails, history
<1>8. CASE RetryRow \/ RetryInsertFails \/ RetryCommitFails
  BY <1>5, <1>8 DEF RetryRow, RetryInsertFails, RetryCommitFails, NextRow, history
<1>9. CASE Close
  BY <1>5, <1>9 DEF Close, history
<1>10. CASE Shutdown
  BY <1>10 DEF Shutdown, store, PillBehind, Alive, Range
<1>11. CASE PutPill
  <2>1. /\ proc = "putting" /\ proc' = "exiting" /\ queue' = Append(queue, Pill)
        /\ UNCHANGED <<wpc, ending, signalled>>
    BY <1>11 DEF PutPill, history
  <2>2. ~ending /\ Pill \notin Range(queue) /\ wpc # "stopped"
    BY <2>1 DEF PillBehind, Alive
  <2>3. DOMAIN queue' = 1 .. Len(queue) + 1 /\ \A i \in DOMAIN queue : queue'[i] = queue[i]
    BY <1>1, <2>1, AppendProperties, LenProperties
  <2>4. ASSUME NEW i \in DOMAIN queue', NEW j \in DOMAIN queue', queue'[i] = Pill, i < j PROVE FALSE
    <3>1. i \in DOMAIN queue
      BY <1>1, <2>3, <2>4
    <3> QED BY <2>2, <2>3, <2>4, <3>1 DEF Range
  <2> QED BY <2>1, <2>2, <2>4 DEF PillBehind, Alive
<1>12. CASE Exit \/ Kill
  <2>1. queue' = <<>> /\ proc' = "down"
    BY <1>12 DEF Exit, Kill, Die
  <2> QED BY <1>2, <2>1 DEF PillBehind, Alive
<1>13. CASE Restart
  <2>1. queue' = <<>> /\ proc' = "up" /\ wpc' = "get" /\ ending' = FALSE
    BY <1>13 DEF Restart, PillBehind
  <2> QED BY <1>2, <2>1 DEF PillBehind, Alive
<1> QED BY <1>3, <1>4, <1>6, <1>7, <1>8, <1>9, <1>10, <1>11, <1>12, <1>13 DEF Next, Writer, Process

\* What is lost at an exit after the writer came to its end was logged after the signal.
JoinedExitKeeps == Exit /\ wpc = "stopped" => \A e \in lost' \ lost : e > signalled

\* A main() that returned only after the writer had stopped would lose no event that
\* was accepted before the signal: the pill does its work, the join is what is missing.
THEOREM JoinIsEnough == Spec => [][JoinedExitKeeps]_vars
<1>1. Init => PillBehind
  BY DEF Init, PillBehind, Range, Alive
<1>2. Inv /\ PillBehind /\ [Next]_vars => PillBehind'
  BY PillBehindStep
<1>3. Inv /\ PillBehind => JoinedExitKeeps
  <2> SUFFICES ASSUME Inv, PillBehind, Exit, wpc = "stopped", NEW e \in lost' \ lost PROVE e > signalled
    BY DEF JoinedExitKeeps
  <2>1. Alive /\ ending /\ e \in InMemory
    BY DEF Exit, Die, Alive, PillBehind
  <2>2. Range(batch) = {}
    BY DEF Inv, WriterOrder, Halted, Range
  <2> QED BY <2>1, <2>2 DEF InMemory, Queued, PillBehind
<1> QED BY <1>1, <1>2, <1>3, Safety, PTL DEF Spec
=============================================================================
