------------------------------ MODULE RateLimit ------------------------------
(***************************************************************************)
(* ActiveDefense's rate limiter, which the HTTP middleware asks first: a   *)
(* bounded deque of times per address, and a cleanup that forgets quiet    *)
(* addresses.  The clock is taken not to go backwards; time is in ticks.   *)
(***************************************************************************)
EXTENDS Integers, Sequences, FiniteSets

CONSTANTS
    IPs,
    Limit,              \* CONFIG max_connections_per_ip
    Window,             \* the 60 s that count
    MaxLen,             \* maxlen of a deque
    Forget,             \* the 3600 s after which an address is forgotten
    CleanupInterval,    \* CONFIG session_cleanup_interval
    Slack,              \* bound on how late a busy loop runs the cleanup
    MaxTime, MaxHits    \* bounds on the time and on an address's calls

\* A deque that keeps no more than Limit times could never exceed Limit.
ASSUME RateAssumption ==
    /\ {Limit, Window, MaxLen, Forget, CleanupInterval, Slack, MaxTime, MaxHits} \subseteq Nat
    /\ MaxLen > Limit
    /\ Forget >= Window

VARIABLES
    now,            \* time.time()
    rate_limits,    \* a deque of times per address, <<>> if it has no entry
    sinceCleanup    \* how long ago the last cleanup ended

\* History: the times of all calls since the start, and which of them passed.
VARIABLES hits, passed

vars == <<now, rate_limits, sinceCleanup, hits, passed>>

Empty == [ip \in IPs |-> <<>>]

Init ==
    /\ now = 0 /\ rate_limits = Empty /\ sinceCleanup = 0
    /\ hits = Empty /\ passed = [ip \in IPs |-> {}]

\* Slips: no maxlen; a maxlen as large as the limit; a window that slides one
\* tick too late.
AppendedUnbounded(w, t) == Append(w, t)
AppendedShort(w, t) == IF Len(w) < Limit THEN Append(w, t) ELSE Append(Tail(w), t)
RecentInclusive(w) == Cardinality({i \in DOMAIN w : now - w[i] <= Window})

\* deque.append: a full deque drops its first element.
Appended(w, t) == IF Len(w) < MaxLen THEN Append(w, t) ELSE Append(Tail(w), t)

Recent(w) == Cardinality({i \in DOMAIN w : now - w[i] < Window})

\* A call is entered before it is counted, and also when it does not pass.
IsRateLimited(ip) ==
    /\ Len(hits[ip]) < MaxHits
    /\ rate_limits' = [rate_limits EXCEPT ![ip] = Appended(@, now)]
    /\ hits' = [hits EXCEPT ![ip] = Append(@, now)]
    /\ passed' = IF Recent(rate_limits'[ip]) > Limit THEN passed
                 ELSE [passed EXCEPT ![ip] = @ \cup {Len(hits'[ip])}]
    /\ UNCHANGED <<now, sinceCleanup>>

\* Slips: an address is forgotten once its oldest call is old; only entries
\* without any call are removed.
StaleByFirst == {ip \in IPs : rate_limits[ip] # <<>> => now - rate_limits[ip][1] > Forget}
StaleIfEmpty == {ip \in IPs : rate_limits[ip] = <<>>}

Stale == {ip \in IPs : \A i \in DOMAIN rate_limits[ip] : now - rate_limits[ip][i] > Forget}

CleanupOldConnections ==
    /\ sinceCleanup >= CleanupInterval
    /\ rate_limits' = [ip \in IPs |-> IF ip \in Stale THEN <<>> ELSE rate_limits[ip]]
    /\ sinceCleanup' = 0
    /\ UNCHANGED <<now, hits, passed>>

Tick ==
    /\ now < MaxTime /\ sinceCleanup < CleanupInterval + Slack
    /\ now' = now + 1 /\ sinceCleanup' = sinceCleanup + 1
    /\ UNCHANGED <<rate_limits, hits, passed>>

\* The table is only in memory.
Restart ==
    /\ rate_limits' = Empty /\ sinceCleanup' = 0
    /\ hits' = Empty /\ passed' = [ip \in IPs |-> {}]
    /\ UNCHANGED now

Next ==
    \/ \E ip \in IPs : IsRateLimited(ip)
    \/ CleanupOldConnections \/ Tick \/ Restart

Spec == Init /\ [][Next]_vars

-----------------------------------------------------------------------------
\* Type correctness; a deque keeps to its maxlen.
TypeOK ==
    /\ now \in Nat /\ sinceCleanup \in Nat
    /\ rate_limits \in [IPs -> Seq(Nat)] /\ hits \in [IPs -> Seq(Nat)]
    /\ passed \in [IPs -> SUBSET Nat]
    /\ \A ip \in IPs : Len(rate_limits[ip]) <= MaxLen

\* Whenever one looks, no more than Limit of an address's calls in the last
\* Window have passed: neither the bounded deque nor the cleanup lets one slip in.
PassBound ==
    \A ip \in IPs : Cardinality({p \in passed[ip] : now - hits[ip][p] < Window}) <= Limit

\* The table forgets: an address that stays in it called not longer ago than the
\* cleanups make certain, so quiet addresses do not fill the memory.
ForgetBound ==
    \A ip \in IPs : rate_limits[ip] # <<>> =>
        now - rate_limits[ip][Len(rate_limits[ip])] <= Forget + CleanupInterval + Slack

\* The limiter answers as one that remembers every call would: what the deque
\* pushed out and what the cleanup forgot never changes an answer.
Abstract == INSTANCE SlidingWindow
ImplementsWindow == Abstract!WindowSpec
=============================================================================
