------------------------------ MODULE EventLog ------------------------------
(***************************************************************************)
(* What the event store promises to the honeypots, without saying how: the *)
(* events are numbered in the order in which log_event is called; each one *)
(* is accepted or refused; an accepted event is written at most once, in   *)
(* the order of the calls, or it is forgotten.  EventStore implements it.  *)
(***************************************************************************)
EXTENDS Integers, Sequences, Functions

VARIABLES
    issued,     \* how many times log_event was called: the last event's number
    pending,    \* accepted events, neither written nor forgotten yet
    written     \* the numbers of the events in the table, in the table's order

logVars == <<issued, pending, written>>

Increasing(s) == \A i, j \in DOMAIN s : i < j => s[i] < s[j]
Extends(t, s) == \A i \in DOMAIN s : i \in DOMAIN t /\ t[i] = s[i]

LogInit == issued = 0 /\ pending = {} /\ written = <<>>

Accept ==
    /\ issued' = issued + 1
    /\ pending' = pending \cup {issued + 1}
    /\ UNCHANGED written

Refuse ==
    /\ issued' = issued + 1
    /\ UNCHANGED <<pending, written>>

\* Some pending events go to the end of the table, later ones after earlier ones.
Write ==
    /\ Extends(written', written)
    /\ Increasing(written')
    /\ Range(written') \subseteq Range(written) \cup pending
    /\ pending' = pending \ Range(written')
    /\ UNCHANGED issued

Forget ==
    /\ pending' \subseteq pending
    /\ UNCHANGED <<issued, written>>

LogNext == Accept \/ Refuse \/ Write \/ Forget

LogSpec == LogInit /\ [][LogNext]_logVars
=============================================================================
