------------------------------ MODULE Sessions ------------------------------
(***************************************************************************)
(* SessionManager's table of active sessions, and the lives of the         *)
(* handlers that open and end the sessions in it.  A connection (or a      *)
(* datagram) opens one session, under a fresh uuid4: a session is named    *)
(* after its connection.  Everything here runs on the event loop's thread, *)
(* so a handler's code between two awaits is one step; what is left to     *)
(* interleave are the handlers, the periodic cleanup and the clock.        *)
(*                                                                         *)
(* Time is a number of ticks; a session carries its age.                   *)
(***************************************************************************)
EXTENDS Integers, FiniteSets

CONSTANTS
    Conns,              \* connections and datagrams
    MaxSessions,        \* CONFIG max_sessions_in_memory
    MaxDuration,        \* CONFIG max_session_duration
    CleanupInterval,    \* CONFIG session_cleanup_interval
    Slack,              \* bound on how late a busy loop runs the cleanup
    WritesFail,         \* whether end_session's INSERT may fail
    MaxStarts           \* bound on starts of the process

ASSUME SessionsAssumption ==
    /\ IsFiniteSet(Conns)
    /\ {MaxSessions, CleanupInterval} \subseteq Nat \ {0}
    /\ {MaxDuration, Slack, MaxStarts} \subseteq Nat
    /\ WritesFail \in BOOLEAN

\* How a handler keeps its session: "guarded" ends it in a finally (MySQL, SMTP,
\* DNS over TCP); "banner" first greets outside of the try (FTP, Redis); "http" is
\* the middleware; "ssh" the callbacks; "unattended" handlers return or raise
\* without ending it (SNMP, DNS over UDP; Modbus, whose AttackEvent raises).
Kinds == {"guarded", "banner", "http", "ssh", "unattended"}

Reasons == {"disconnected", "completed", "eof", "connection_lost", "timeout"}

VARIABLES
    loop,       \* the event loop's thread: "running", "blocked", "down"
    handler,    \* of each connection: see Handlers
    kind,       \* of each connection's handler, "none" before
    active,     \* active_sessions: the connections with a session
    age,        \* how long ago each active session was created, else 0
    sinceCleanup,   \* how long ago the last cleanup ended
    rows        \* the table sessions: who and closed_reason

\* History: sessions popped whose INSERT failed; sessions that were in memory
\* when the process ended; starts of the process.
VARIABLES unrecorded, abandoned, starts

history == <<unrecorded, abandoned, starts>>
vars == <<loop, handler, kind, active, age, sinceCleanup, rows, history>>

\* "new": not connected yet.  "greeting": before the try.  "serving": in the
\* try, in the middleware, or between two callbacks.  "returned": the end of the
\* handler.  "died": left by an exception or a return that skips end_session.
Handlers == {"new", "greeting", "serving", "returned", "died"}

Recorded == {r.conn : r \in rows}
Created  == {c \in Conns : handler[c] # "new"}

-----------------------------------------------------------------------------
(* end_session: the first to pop the session records it, later calls find  *)
(* nothing.                                                                *)

Forgotten(S) == age' = [c \in Conns |-> IF c \in S THEN 0 ELSE age[c]]

\* The INSERT is not conditional on the pop.
EndedTwice(S, reason) ==
    /\ active' = active \ S /\ Forgotten(S)
    /\ rows' = rows \cup {[conn |-> c, reason |-> reason] : c \in S}
    /\ UNCHANGED unrecorded

\* A session whose INSERT fails is put back, as if it began now, for another try.
EndedUntilStored(S, reason) ==
    /\ Forgotten(S) /\ UNCHANGED unrecorded
    /\ \E failed \in IF WritesFail THEN SUBSET (S \cap active) ELSE {{}} :
          /\ active' = (active \ S) \cup failed
          /\ rows' = rows \cup {[conn |-> c, reason |-> reason] : c \in (S \cap active) \ failed}

\* An INSERT that fails is logged and not tried again.
Ended(S, reason) ==
    /\ active' = active \ S /\ Forgotten(S)
    /\ \E failed \in IF WritesFail THEN SUBSET (S \cap active) ELSE {{}} :
          /\ unrecorded' = unrecorded \cup failed
          /\ rows' = rows \cup {[conn |-> c, reason |-> reason] : c \in (S \cap active) \ failed}

Init ==
    /\ loop = "running"
    /\ handler = [c \in Conns |-> "new"]
    /\ kind = [c \in Conns |-> "none"]
    /\ active = {} /\ age = [c \in Conns |-> 0] /\ sinceCleanup = 0
    /\ rows = {} /\ unrecorded = {} /\ abandoned = {} /\ starts = 1

-----------------------------------------------------------------------------
(* create_session, called first by every handler.                          *)

Full == Cardinality(active) >= MaxSessions

\* Without the check there is room for any number of sessions.
OpenUnbounded(c, k) ==
    /\ loop = "running" /\ handler[c] = "new"
    /\ active' = active \cup {c}
    /\ kind' = [kind EXCEPT ![c] = k]
    /\ handler' = [handler EXCEPT ![c] = "serving"]
    /\ UNCHANGED <<loop, age, sinceCleanup, rows, history>>

Open(c, k) ==
    /\ loop = "running" /\ handler[c] = "new"
    /\ ~Full
    /\ active' = active \cup {c}
    /\ kind' = [kind EXCEPT ![c] = k]
    /\ handler' = [handler EXCEPT ![c] =
          CASE k = "banner" -> "greeting"
            [] k = "unattended" -> "died"
            [] OTHER -> "serving"]
    /\ UNCHANGED <<loop, age, sinceCleanup, rows, history>>

\* At the limit create_session calls end_session to evict the oldest session
\* while it holds the lock, a threading.Lock, which end_session waits for: the
\* thread waits for itself.
OpenAtLimit(c) ==
    /\ loop = "running" /\ handler[c] = "new"
    /\ Full
    /\ loop' = "blocked"
    /\ UNCHANGED <<handler, kind, active, age, sinceCleanup, rows, history>>

-----------------------------------------------------------------------------
(* The handlers.                                                           *)

\* FTP and Redis: the greeting is written, or the client is gone already and
\* drain raises, outside of the try.
Greet(c) ==
    /\ loop = "running" /\ kind[c] = "banner" /\ handler[c] = "greeting"
    /\ handler' = [handler EXCEPT ![c] = "serving"]
    /\ UNCHANGED <<loop, kind, active, age, sinceCleanup, rows, history>>

GreetFails(c) ==
    /\ loop = "running" /\ kind[c] = "banner" /\ handler[c] = "greeting"
    /\ handler' = [handler EXCEPT ![c] = "died"]
    /\ UNCHANGED <<loop, kind, active, age, sinceCleanup, rows, history>>

\* The loop of a handler ends but its session is not ended, as without finally.
ReturnKeepingSession(c) ==
    /\ loop = "running" /\ kind[c] \in {"guarded", "banner"} /\ handler[c] = "serving"
    /\ handler' = [handler EXCEPT ![c] = "returned"]
    /\ UNCHANGED <<loop, kind, active, age, sinceCleanup, rows, history>>

\* Silence, end of file, QUIT, or an exception: the finally follows.
Return(c) ==
    /\ loop = "running" /\ kind[c] \in {"guarded", "banner"} /\ handler[c] = "serving"
    /\ Ended({c}, "disconnected")
    /\ handler' = [handler EXCEPT ![c] = "returned"]
    /\ UNCHANGED <<loop, kind, sinceCleanup, abandoned, starts>>

\* HTTP: the route's handler answers, or raises through the middleware (an
\* aiohttp error response, a client that goes away).
Respond(c) ==
    /\ loop = "running" /\ kind[c] = "http" /\ handler[c] = "serving"
    /\ Ended({c}, "completed")
    /\ handler' = [handler EXCEPT ![c] = "returned"]
    /\ UNCHANGED <<loop, kind, sinceCleanup, abandoned, starts>>

RouteRaises(c) ==
    /\ loop = "running" /\ kind[c] = "http" /\ handler[c] = "serving"
    /\ handler' = [handler EXCEPT ![c] = "died"]
    /\ UNCHANGED <<loop, kind, active, age, sinceCleanup, rows, history>>

\* SSH: the shell's eof_received leaves the connection open; connection_lost
\* comes last.  Both end the session.
Eof(c) ==
    /\ loop = "running" /\ kind[c] = "ssh" /\ handler[c] = "serving"
    /\ Ended({c}, "eof")
    /\ UNCHANGED <<loop, handler, kind, sinceCleanup, abandoned, starts>>

ConnectionLost(c) ==
    /\ loop = "running" /\ kind[c] = "ssh" /\ handler[c] = "serving"
    /\ Ended({c}, "connection_lost")
    /\ handler' = [handler EXCEPT ![c] = "returned"]
    /\ UNCHANGED <<loop, kind, sinceCleanup, abandoned, starts>>

-----------------------------------------------------------------------------
(* periodic_session_cleanup and the clock.                                 *)

Expired == {c \in active : age[c] > MaxDuration}

\* The cleanup looks at sessions of one kind of handler only.
CleanupMissesOrphans ==
    /\ loop = "running" /\ sinceCleanup >= CleanupInterval
    /\ Ended({c \in Expired : handler[c] = "serving"}, "timeout")
    /\ sinceCleanup' = 0
    /\ UNCHANGED <<loop, handler, kind, abandoned, starts>>

Cleanup ==
    /\ loop = "running" /\ sinceCleanup >= CleanupInterval
    /\ Ended(Expired, "timeout")
    /\ sinceCleanup' = 0
    /\ UNCHANGED <<loop, handler, kind, abandoned, starts>>

\* sleep(CleanupInterval) is over after CleanupInterval; a loop that is busy in
\* a blocking call comes to the cleanup Slack later at most.
Tick ==
    /\ loop = "running"
    /\ sinceCleanup < CleanupInterval + Slack
    /\ sinceCleanup' = sinceCleanup + 1
    /\ age' = [c \in Conns |-> IF c \in active THEN age[c] + 1 ELSE 0]
    /\ UNCHANGED <<loop, handler, kind, active, rows, history>>

-----------------------------------------------------------------------------
(* The process.                                                            *)

\* asyncio.run cancels what still runs: the handlers inside a try with a
\* finally end their sessions; SSH callbacks may or may not come.
Stop ==
    /\ loop = "running"
    /\ loop' = "down"
    /\ LET unwound == {c \in Created : kind[c] \in {"guarded", "banner"} /\ handler[c] = "serving"}
           ssh     == {c \in Created : kind[c] = "ssh" /\ handler[c] = "serving"}
       IN  \E lost \in SUBSET ssh, failed \in IF WritesFail THEN SUBSET active ELSE {{}} :
             /\ rows' = rows
                  \cup {[conn |-> c, reason |-> "disconnected"] : c \in (unwound \cap active) \ failed}
                  \cup {[conn |-> c, reason |-> "connection_lost"] : c \in (lost \cap active) \ failed}
             /\ unrecorded' = unrecorded \cup ((unwound \cup lost) \cap active \cap failed)
             /\ abandoned' = abandoned \cup (active \ (unwound \cup lost))
    /\ active' = {} /\ Forgotten(Conns)
    /\ handler' = [c \in Conns |-> IF c \in Created THEN "died" ELSE "new"]
    /\ UNCHANGED <<kind, sinceCleanup, starts>>

\* A crash, or the end of a process whose loop is blocked.
Kill ==
    /\ loop # "down"
    /\ loop' = "down"
    /\ abandoned' = abandoned \cup active
    /\ active' = {} /\ Forgotten(Conns)
    /\ handler' = [c \in Conns |-> IF c \in Created THEN "died" ELSE "new"]
    /\ UNCHANGED <<kind, sinceCleanup, rows, unrecorded, starts>>

Restart ==
    /\ loop = "down" /\ starts < MaxStarts
    /\ loop' = "running" /\ sinceCleanup' = 0
    /\ starts' = starts + 1
    /\ UNCHANGED <<handler, kind, active, age, rows, unrecorded, abandoned>>

-----------------------------------------------------------------------------
Handle(c) ==
    \/ \E k \in Kinds : Open(c, k)
    \/ OpenAtLimit(c)
    \/ Greet(c) \/ GreetFails(c) \/ Return(c)
    \/ Respond(c) \/ RouteRaises(c)
    \/ Eof(c) \/ ConnectionLost(c)

Next ==
    \/ \E c \in Conns : Handle(c)
    \/ Cleanup \/ Tick
    \/ Stop \/ Kill \/ Restart

Spec == Init /\ [][Next]_vars

\* Time passes, and the loop runs a task that is due.  Nothing is assumed of
\* clients: they may keep a connection open for ever.
FairSpec == Spec /\ WF_vars(Tick) /\ WF_vars(Cleanup)

-----------------------------------------------------------------------------
\* Type correctness; the table keeps to max_sessions_in_memory.
TypeOK ==
    /\ loop \in {"running", "blocked", "down"}
    /\ handler \in [Conns -> Handlers] /\ kind \in [Conns -> Kinds \cup {"none"}]
    /\ active \subseteq Conns /\ age \in [Conns -> Nat] /\ sinceCleanup \in Nat
    /\ rows \subseteq [conn : Conns, reason : Reasons]
    /\ unrecorded \subseteq Conns /\ abandoned \subseteq Conns /\ starts \in Nat
    /\ Cardinality(active) <= MaxSessions

\* A session that was created is in the table of active sessions, or ended: with
\* one row and one reason, with a failed INSERT, or with the process.  Enders
\* that come late (a finally after the cleanup, connection_lost after eof) do
\* not give it a second end.
OneFate ==
    /\ Created = active \cup Recorded \cup unrecorded \cup abandoned
    /\ active \cap (Recorded \cup unrecorded \cup abandoned) = {}
    /\ Recorded \cap unrecorded = {} /\ (Recorded \cup unrecorded) \cap abandoned = {}
    /\ \A r, s \in rows : r.conn = s.conn => r = s

\* No session outlives the cleanup that follows its last permitted moment,
\* not even one whose handler died without ending it: the leaks of
\* FTP, Redis, HTTP, Modbus and the UDP services last this long at most.
AgeBound ==
    loop = "running" => \A c \in active : age[c] <= MaxDuration + CleanupInterval + Slack

\* The strengthening that is inductive: a session is never older than the
\* duration and the time since the cleanup that let it pass.
AgeInv ==
    /\ \A c \in active : age[c] <= MaxDuration + sinceCleanup
    /\ \A c \in Conns \ active : age[c] = 0
    /\ sinceCleanup <= CleanupInterval + Slack
    /\ loop = "down" => active = {}

\* A handler that came to its end has ended its session.
NoSessionAfterReturn == \A c \in active : handler[c] # "returned"

\* What the table sessions says of a session stands: rows are neither removed nor
\* given another reason, by enders that race or by a restart.
RowsKept == rows \subseteq rows' /\ \A r \in rows, s \in rows' : r.conn = s.conn => r = s
RowsStand == [][RowsKept]_vars

\* What becomes of each session.
Fate(c) ==
    IF c \in active THEN "open"
    ELSE IF c \in Recorded THEN (CHOOSE r \in rows : r.conn = c).reason
    ELSE IF c \in unrecorded THEN "unrecorded"
    ELSE IF c \in abandoned THEN "abandoned" ELSE "none"

Registry == INSTANCE SessionRegistry WITH
    Names  <- Conns,
    Ends   <- Reasons \cup {"unrecorded", "abandoned"},
    fate   <- [c \in Conns |-> Fate(c)],
    served <- {c \in Conns : handler[c] = "returned"}

\* Whatever races, fails or crashes, the table is a registry: a session has one end,
\* which no later ender, restart or row changes, and it has it when its handler
\* returns.
ImplementsRegistry == Registry!RegistrySpec

\* Every session leaves the table, also when its client never does anything:
\* unless the event loop is blocked for ever.
EverySessionEnds == \A c \in Conns : (c \in active) ~> (c \notin active \/ loop = "blocked")

\* simplepot.py:952-954 ends the oldest session as 'evicted' to make room at the
\* limit: so the loop goes on serving.
EvictionMakesRoom == loop # "blocked"
=============================================================================
