---------------------------- MODULE SlidingWindow ----------------------------
(***************************************************************************)
(* What a rate limiter promises, without saying what it remembers: of the  *)
(* calls of an address, one passes if no more than Limit calls, itself     *)
(* included, were made in the Window that ends with it.  Calls that do not *)
(* pass count as well.  RateLimit implements it.                           *)
(***************************************************************************)
EXTENDS Integers, Sequences

CONSTANTS IPs, Limit, Window

VARIABLES
    now,        \* the time
    hits,       \* of each address, the times of all its calls
    passed      \* of each address, which of them passed

windowVars == <<now, hits, passed>>

NoHits  == [ip \in IPs |-> <<>>]
NoPass  == [ip \in IPs |-> {}]

\* The last call in s, made at t, passes: the one Limit calls before it, if there
\* is one, is no longer in the window.
Passes(s, t) == Len(s) <= Limit \/ t - s[Len(s) - Limit] >= Window

WindowInit == now = 0 /\ hits = NoHits /\ passed = NoPass

Advance == now' = now + 1 /\ UNCHANGED <<hits, passed>>

Hit(ip) ==
    /\ hits' = [hits EXCEPT ![ip] = Append(@, now)]
    /\ passed' = IF Passes(hits'[ip], now)
                 THEN [passed EXCEPT ![ip] = @ \cup {Len(hits'[ip])}] ELSE passed
    /\ UNCHANGED now

\* A process that starts anew knows nothing of the past.
Begin == hits' = NoHits /\ passed' = NoPass /\ UNCHANGED now

WindowNext == Advance \/ (\E ip \in IPs : Hit(ip)) \/ Begin

WindowSpec == WindowInit /\ [][WindowNext]_windowVars
=============================================================================
