--------------------------- MODULE Sessions_proofs ---------------------------
(***************************************************************************)
(* For every set of connections and every limit, duration, interval and    *)
(* slack: sessions have one fate, rows stand, and no session outlives the  *)
(* cleanup.  The limit on the table needs no more than create_session's    *)
(* check; the ages need AgeInv; the rows follow from the fates.            *)
(***************************************************************************)
EXTENDS Sessions, FiniteSetTheorems, TLAPS

LEMMA InitInv == Init => TypeOK /\ OneFate /\ AgeInv /\ NoSessionAfterReturn
<1> SUFFICES ASSUME Init PROVE TypeOK /\ OneFate /\ AgeInv /\ NoSessionAfterReturn
  OBVIOUS
<1>1. TypeOK
  BY FS_EmptySet, SessionsAssumption DEF Init, TypeOK, Handlers
<1>2. OneFate /\ AgeInv /\ NoSessionAfterReturn
  BY SessionsAssumption DEF Init, OneFate, AgeInv, NoSessionAfterReturn, Created, Recorded
<1> QED BY <1>1, <1>2

-----------------------------------------------------------------------------
(* What end_session does to the table and the rows.                        *)

LEMMA EndedFacts ==
    ASSUME TypeOK, NEW S \in SUBSET Conns, NEW reason \in Reasons, Ended(S, reason)
    PROVE  /\ active' = active \ S
           /\ age' = [c \in Conns |-> IF c \in S THEN 0 ELSE age[c]]
           /\ Cardinality(active') <= MaxSessions
           /\ rows \subseteq rows' /\ rows' \subseteq [conn : Conns, reason : Reasons]
           /\ \A r \in rows' : r \in rows \/ (r.conn \in active /\ r.reason = reason)
           /\ Recorded' \cup unrecorded' = Recorded \cup unrecorded \cup (S \cap active)
           /\ OneFate => Recorded' \cap unrecorded' = {}
           /\ unrecorded' \subseteq Conns
<1>1. PICK failed \in SUBSET (S \cap active) :
        /\ unrecorded' = unrecorded \cup failed
        /\ rows' = rows \cup {[conn |-> c, reason |-> reason] : c \in (S \cap active) \ failed}
  BY DEF Ended
<1>2. active' = active \ S /\ age' = [c \in Conns |-> IF c \in S THEN 0 ELSE age[c]]
  BY DEF Ended, Forgotten
<1>3. Recorded' = Recorded \cup ((S \cap active) \ failed)
  <2>1. ASSUME NEW c \in (S \cap active) \ failed PROVE c \in Recorded'
    <3>1. [conn |-> c, reason |-> reason] \in rows'
      BY <1>1
    <3>2. [conn |-> c, reason |-> reason].conn = c
      OBVIOUS
    <3> QED BY <3>1, <3>2 DEF Recorded
  <2>2. Recorded \subseteq Recorded'
    BY <1>1 DEF Recorded
  <2>3. Recorded' \subseteq Recorded \cup ((S \cap active) \ failed)
    BY <1>1 DEF Recorded
  <2> QED BY <2>1, <2>2, <2>3
<1>4. rows' \subseteq [conn : Conns, reason : Reasons]
  BY <1>1 DEF TypeOK
<1>5. \A r \in rows' : r \in rows \/ (r.conn \in active /\ r.reason = reason)
  BY <1>1
<1>6. OneFate => Recorded' \cap unrecorded' = {}
  BY <1>1, <1>3 DEF OneFate
<1>7. Cardinality(active') <= MaxSessions
  <2>1. IsFiniteSet(active)
    BY FS_Subset, SessionsAssumption DEF TypeOK
  <2>2. active' \subseteq active
    BY <1>2
  <2>3. IsFiniteSet(active') /\ Cardinality(active') <= Cardinality(active)
    BY <2>1, <2>2, FS_Subset
  <2> QED BY <2>1, <2>3, FS_CardinalityType, SessionsAssumption DEF TypeOK
<1> QED BY <1>1, <1>2, <1>3, <1>4, <1>5, <1>6, <1>7 DEF TypeOK

-----------------------------------------------------------------------------
(* Type correctness, and the limit.                                        *)

LEMMA TypeStep == TypeOK /\ [Next]_vars => TypeOK'
<1> SUFFICES ASSUME TypeOK, [Next]_vars PROVE TypeOK'
  OBVIOUS
<1> USE SessionsAssumption
<1>1. ASSUME NEW c \in Conns, NEW k \in Kinds, Open(c, k) PROVE TypeOK'
  <2>1. IsFiniteSet(active)
    BY FS_Subset DEF TypeOK
  <2>2. active' = active \cup {c} /\ ~(Cardinality(active) >= MaxSessions)
    BY <1>1 DEF Open, Full
  <2>3. Cardinality(active') <= MaxSessions
    <3>1. Cardinality(active) \in Nat
      BY <2>1, FS_CardinalityType
    <3>2. Cardinality(active \cup {c}) \in {Cardinality(active), Cardinality(active) + 1}
      BY <2>1, FS_AddElement
    <3>3. MaxSessions \in Nat
      OBVIOUS
    <3> QED BY <2>2, <3>1, <3>2, <3>3
  <2>4. (CASE k = "banner" -> "greeting" [] k = "unattended" -> "died" [] OTHER -> "serving") \in Handlers
    BY DEF Handlers
  <2>5. handler' \in [Conns -> Handlers] /\ kind' \in [Conns -> Kinds \cup {"none"}]
    BY <1>1, <2>4 DEF Open, TypeOK
  <2>6. active' \subseteq Conns
    BY <1>1 DEF Open, TypeOK
  <2>7. UNCHANGED <<loop, age, sinceCleanup, rows, unrecorded, abandoned, starts>>
    BY <1>1 DEF Open, history
  <2> QED BY <2>3, <2>5, <2>6, <2>7 DEF TypeOK
<1>2. ASSUME NEW S \in SUBSET Conns, NEW reason \in Reasons, Ended(S, reason),
             handler' \in [Conns -> Handlers], sinceCleanup' \in Nat,
             UNCHANGED <<loop, kind, abandoned, starts>>
      PROVE TypeOK'
  <2>1. age' \in [Conns -> Nat]
    <3>1. age' = [c \in Conns |-> IF c \in S THEN 0 ELSE age[c]]
      BY <1>2, EndedFacts
    <3> QED BY <3>1 DEF TypeOK
  <2>2. active' \subseteq Conns /\ Cardinality(active') <= MaxSessions
    BY <1>2, EndedFacts DEF TypeOK
  <2>3. rows' \subseteq [conn : Conns, reason : Reasons] /\ unrecorded' \subseteq Conns
    BY <1>2, EndedFacts
  <2> QED BY <1>2, <2>1, <2>2, <2>3 DEF TypeOK
<1>3. ASSUME NEW c \in Conns, Handle(c) PROVE TypeOK'
  <2>1. CASE OpenAtLimit(c)
    BY <2>1 DEF OpenAtLimit, TypeOK, history
  <2>2. CASE Greet(c)
    BY <2>2 DEF Greet, TypeOK, history, Handlers
  <2>3. CASE GreetFails(c)
    BY <2>3 DEF GreetFails, TypeOK, history, Handlers
  <2>4. CASE Return(c)
    BY <2>4, <1>2 DEF Return, TypeOK, Handlers, Reasons
  <2>5. CASE Respond(c)
    BY <2>5, <1>2 DEF Respond, TypeOK, Handlers, Reasons
  <2>6. CASE RouteRaises(c)
    BY <2>6 DEF RouteRaises, TypeOK, history, Handlers
  <2>7. CASE Eof(c)
    BY <2>7, <1>2 DEF Eof, TypeOK, Reasons
  <2>8. CASE ConnectionLost(c)
    BY <2>8, <1>2 DEF ConnectionLost, TypeOK, Handlers, Reasons
  <2> QED BY <1>1, <1>3, <2>1, <2>2, <2>3, <2>4, <2>5, <2>6, <2>7, <2>8 DEF Handle
<1>4. CASE Cleanup
  <2>1. Expired \in SUBSET Conns
    BY DEF Expired, TypeOK
  <2>2. Ended(Expired, "timeout") /\ sinceCleanup' = 0 /\ UNCHANGED <<loop, handler, kind, abandoned, starts>>
    BY <1>4 DEF Cleanup
  <2>3. age' \in [Conns -> Nat]
    BY <2>1, <2>2, EndedFacts DEF TypeOK, Reasons
  <2> QED BY <2>1, <2>2, <2>3, EndedFacts DEF TypeOK, Reasons
<1>5. CASE Tick
  BY <1>5 DEF Tick, TypeOK, history
<1>6. ASSUME Stop \/ Kill PROVE TypeOK'
  <2>1. active' = {} /\ Cardinality(active') <= MaxSessions
    BY <1>6, FS_EmptySet DEF Stop, Kill
  <2>2. age' \in [Conns -> Nat] /\ handler' \in [Conns -> Handlers]
    BY <1>6 DEF Stop, Kill, Forgotten, TypeOK, Handlers
  <2>3. rows' \subseteq [conn : Conns, reason : Reasons]
    BY <1>6 DEF Stop, Kill, TypeOK, Created, Reasons
  <2>4. unrecorded' \subseteq Conns /\ abandoned' \subseteq Conns
    BY <1>6 DEF Stop, Kill, TypeOK
  <2>5. loop' = "down" /\ UNCHANGED <<kind, sinceCleanup, starts>>
    BY <1>6 DEF Stop, Kill
  <2> QED BY <2>1, <2>2, <2>3, <2>4, <2>5 DEF TypeOK
<1>7. CASE Restart
  BY <1>7 DEF Restart, TypeOK
<1>8. CASE UNCHANGED vars
  BY <1>8 DEF vars, history, TypeOK
<1> QED BY <1>3, <1>4, <1>5, <1>6, <1>7, <1>8 DEF Next

\* An Ended that keeps the handlers out of "new" preserves the fates.
LEMMA EndedKeepsFates ==
    ASSUME TypeOK, OneFate, NEW S \in SUBSET Conns, NEW reason \in Reasons, Ended(S, reason),
           Created' = Created, abandoned' = abandoned
    PROVE  OneFate'
<1>1. /\ active' = active \ S
      /\ Recorded' \cup unrecorded' = Recorded \cup unrecorded \cup (S \cap active)
      /\ Recorded' \cap unrecorded' = {}
  BY EndedFacts
<1>2. \A r, s \in rows' : r.conn = s.conn => r = s
  <2> SUFFICES ASSUME NEW r \in rows', NEW s \in rows', r.conn = s.conn PROVE r = s
    OBVIOUS
  <2>1. /\ r \in rows \/ (r.conn \in active /\ r.reason = reason)
        /\ s \in rows \/ (s.conn \in active /\ s.reason = reason)
    BY EndedFacts
  <2>2. r \in [conn : Conns, reason : Reasons] /\ s \in [conn : Conns, reason : Reasons]
    BY EndedFacts
  <2>3. \A q \in rows : q.conn \notin active
    BY DEF OneFate, Recorded
  <2>4. CASE r \in rows /\ s \in rows
    BY <2>4 DEF OneFate
  <2>5. CASE r.reason = reason /\ s.reason = reason
    BY <2>2, <2>5
  <2> QED BY <2>1, <2>3, <2>4, <2>5
<1>3. Created' = active' \cup Recorded' \cup unrecorded' \cup abandoned'
  BY <1>1 DEF OneFate
<1>4. active' \cap (Recorded' \cup unrecorded' \cup abandoned') = {}
  BY <1>1 DEF OneFate
<1>5. (Recorded' \cup unrecorded') \cap abandoned' = {}
  BY <1>1 DEF OneFate
<1> QED BY <1>1, <1>2, <1>3, <1>4, <1>5 DEF OneFate

LEMMA FateStep == TypeOK /\ OneFate /\ [Next]_vars => OneFate'
<1> SUFFICES ASSUME TypeOK, OneFate, [Next]_vars PROVE OneFate'
  OBVIOUS
<1>1. ASSUME UNCHANGED <<active, rows, unrecorded, abandoned>>, Created' = Created PROVE OneFate'
  BY <1>1 DEF OneFate, Recorded
<1>2. ASSUME NEW c \in Conns, Handle(c) PROVE OneFate'
  <2>1. ASSUME NEW k \in Kinds, Open(c, k) PROVE OneFate'
    <3>1. active' = active \cup {c} /\ Recorded' = Recorded /\ UNCHANGED <<rows, unrecorded, abandoned>>
      BY <2>1 DEF Open, history, Recorded
    <3>2. c \notin Created
      BY <2>1 DEF Open, Created
    <3>3. Created' = Created \cup {c}
      BY <2>1 DEF Open, Created, TypeOK
    <3> QED BY <3>1, <3>2, <3>3 DEF OneFate
  <2>2. CASE OpenAtLimit(c)
    BY <1>1, <2>2 DEF OpenAtLimit, history, Created
  <2>3. CASE Greet(c) \/ GreetFails(c) \/ RouteRaises(c)
    BY <1>1, <2>3 DEF Greet, GreetFails, RouteRaises, history, Created, TypeOK
  <2>4. CASE Return(c)
    <3>1. Created' = Created
      BY <2>4 DEF Return, Created, TypeOK
    <3> QED BY <2>4, <3>1, EndedKeepsFates DEF Return, Reasons
  <2>5. CASE Respond(c)
    <3>1. Created' = Created
      BY <2>5 DEF Respond, Created, TypeOK
    <3> QED BY <2>5, <3>1, EndedKeepsFates DEF Respond, Reasons
  <2>6. CASE Eof(c)
    <3>1. Created' = Created
      BY <2>6 DEF Eof, Created
    <3> QED BY <2>6, <3>1, EndedKeepsFates DEF Eof, Reasons
  <2>7. CASE ConnectionLost(c)
    <3>1. Created' = Created
      BY <2>7 DEF ConnectionLost, Created, TypeOK
    <3> QED BY <2>7, <3>1, EndedKeepsFates DEF ConnectionLost, Reasons
  <2> QED BY <1>2, <2>1, <2>2, <2>3, <2>4, <2>5, <2>6, <2>7 DEF Handle
<1>3. CASE Cleanup
  <2>1. Expired \in SUBSET Conns /\ "timeout" \in Reasons
    BY DEF Expired, TypeOK, Reasons
  <2>2. Created' = Created /\ abandoned' = abandoned /\ Ended(Expired, "timeout")
    BY <1>3 DEF Cleanup, Created
  <2> QED BY <2>1, <2>2, EndedKeepsFates
<1>4. CASE Tick
  BY <1>1, <1>4 DEF Tick, history, Created
<1>5. CASE Stop
  <2> DEFINE unwound == {c \in Created : kind[c] \in {"guarded", "banner"} /\ handler[c] = "serving"}
             ssh == {c \in Created : kind[c] = "ssh" /\ handler[c] = "serving"}
  <2>1. PICK lost \in SUBSET ssh, failed \in SUBSET active :
          /\ rows' = rows
               \cup {[conn |-> c, reason |-> "disconnected"] : c \in (unwound \cap active) \ failed}
               \cup {[conn |-> c, reason |-> "connection_lost"] : c \in (lost \cap active) \ failed}
          /\ unrecorded' = unrecorded \cup ((unwound \cup lost) \cap active \cap failed)
          /\ abandoned' = abandoned \cup (active \ (unwound \cup lost))
    BY <1>5 DEF Stop
  <2> HIDE DEF unwound, ssh
  <2>2. active' = {}
    BY <1>5 DEF Stop
  <2>3. Created' = Created
    BY <1>5 DEF Stop, Created
  <2>4. unwound \cap lost = {}
    BY DEF unwound, ssh
  <2>5. Recorded' = Recorded \cup (((unwound \cup lost) \cap active) \ failed)
    <3>1. ASSUME NEW c \in ((unwound \cup lost) \cap active) \ failed PROVE c \in Recorded'
      <4>1. [conn |-> c, reason |-> "disconnected"] \in rows' \/ [conn |-> c, reason |-> "connection_lost"] \in rows'
        BY <2>1
      <4>2. [conn |-> c, reason |-> "disconnected"].conn = c /\ [conn |-> c, reason |-> "connection_lost"].conn = c
        OBVIOUS
      <4> QED BY <4>1, <4>2 DEF Recorded
    <3>2. Recorded \subseteq Recorded'
      BY <2>1 DEF Recorded
    <3>3. Recorded' \subseteq Recorded \cup (((unwound \cup lost) \cap active) \ failed)
      BY <2>1 DEF Recorded
    <3> QED BY <3>1, <3>2, <3>3
  <2>6. \A r, s \in rows' : r.conn = s.conn => r = s
    <3> SUFFICES ASSUME NEW r \in rows', NEW s \in rows', r.conn = s.conn PROVE r = s
      OBVIOUS
    <3>1. \A q \in rows : q.conn \notin active
      BY DEF OneFate, Recorded
    <3>2. CASE r \in rows
      BY <2>1, <3>1, <3>2 DEF OneFate
    <3>3. CASE s \in rows
      BY <2>1, <3>1, <3>3 DEF OneFate
    <3>4. CASE r \notin rows /\ s \notin rows
      BY <2>1, <2>4, <3>4
    <3> QED BY <3>2, <3>3, <3>4
  <2> QED BY <2>1, <2>2, <2>3, <2>5, <2>6 DEF OneFate
<1>6. CASE Kill
  <2>1. active' = {} /\ abandoned' = abandoned \cup active /\ UNCHANGED <<rows, unrecorded>>
    BY <1>6 DEF Kill
  <2>2. Created' = Created /\ Recorded' = Recorded
    BY <1>6 DEF Kill, Created, Recorded
  <2> QED BY <2>1, <2>2 DEF OneFate
<1>7. CASE Restart
  BY <1>1, <1>7 DEF Restart, Created
<1>8. CASE UNCHANGED vars
  BY <1>1, <1>8 DEF vars, history, Created
<1> QED BY <1>2, <1>3, <1>4, <1>5, <1>6, <1>7, <1>8 DEF Next

-----------------------------------------------------------------------------
(* The ages, and the handlers that returned.                               *)

LEMMA AgeStep == TypeOK /\ TypeOK' /\ AgeInv /\ [Next]_vars => AgeInv'
<1> SUFFICES ASSUME TypeOK, TypeOK', AgeInv, [Next]_vars PROVE AgeInv'
  OBVIOUS
<1> USE SessionsAssumption
<1>1. ASSUME NEW S \in SUBSET Conns, NEW reason \in Reasons, Ended(S, reason),
             UNCHANGED <<loop, sinceCleanup>>
      PROVE AgeInv'
  <2>1. active' = active \ S /\ age' = [c \in Conns |-> IF c \in S THEN 0 ELSE age[c]]
    BY <1>1, EndedFacts
  <2> QED BY <1>1, <2>1 DEF AgeInv, TypeOK
<1>2. ASSUME NEW c \in Conns, Handle(c) PROVE AgeInv'
  <2>1. ASSUME NEW k \in Kinds, Open(c, k) PROVE AgeInv'
    <3>1. active' = active \cup {c} /\ UNCHANGED <<loop, age, sinceCleanup>> /\ loop = "running"
      BY <2>1 DEF Open
    <3> QED BY <3>1 DEF AgeInv, TypeOK
  <2>2. CASE OpenAtLimit(c)
    BY <2>2 DEF OpenAtLimit, AgeInv
  <2>3. CASE Greet(c) \/ GreetFails(c) \/ RouteRaises(c)
    BY <2>3 DEF Greet, GreetFails, RouteRaises, AgeInv
  <2>4. CASE Return(c)
    BY <1>1, <2>4 DEF Return, Reasons
  <2>5. CASE Respond(c)
    BY <1>1, <2>5 DEF Respond, Reasons
  <2>6. CASE Eof(c)
    BY <1>1, <2>6 DEF Eof, Reasons
  <2>7. CASE ConnectionLost(c)
    BY <1>1, <2>7 DEF ConnectionLost, Reasons
  <2> QED BY <1>2, <2>1, <2>2, <2>3, <2>4, <2>5, <2>6, <2>7 DEF Handle
<1>3. CASE Cleanup
  <2>1. Expired \in SUBSET Conns /\ "timeout" \in Reasons
    BY DEF Expired, TypeOK, Reasons
  <2>2. Ended(Expired, "timeout") /\ sinceCleanup' = 0 /\ loop' = loop
    BY <1>3 DEF Cleanup
  <2>3. active' = active \ Expired /\ age' = [c \in Conns |-> IF c \in Expired THEN 0 ELSE age[c]]
    BY <2>1, <2>2, EndedFacts
  <2> QED BY <2>2, <2>3 DEF AgeInv, TypeOK, Expired
<1>4. CASE Tick
  <2>1. /\ sinceCleanup < CleanupInterval + Slack /\ sinceCleanup' = sinceCleanup + 1
        /\ age' = [c \in Conns |-> IF c \in active THEN age[c] + 1 ELSE 0]
        /\ active' = active /\ loop' = "running"
    BY <1>4 DEF Tick
  <2>2. CleanupInterval \in Nat /\ Slack \in Nat /\ MaxDuration \in Nat
    OBVIOUS
  <2> QED BY <2>1, <2>2 DEF AgeInv, TypeOK
<1>5. ASSUME Stop \/ Kill PROVE AgeInv'
  <2>1. active' = {} /\ age' = [c \in Conns |-> 0] /\ sinceCleanup' = sinceCleanup
    BY <1>5 DEF Stop, Kill, Forgotten
  <2> QED BY <2>1 DEF AgeInv
<1>6. CASE Restart
  <2>1. active' = active /\ age' = age /\ sinceCleanup' = 0 /\ loop = "down" /\ loop' = "running"
    BY <1>6 DEF Restart
  <2> QED BY <2>1 DEF AgeInv, TypeOK
<1>7. CASE UNCHANGED vars
  BY <1>7 DEF vars, AgeInv
<1> QED BY <1>2, <1>3, <1>4, <1>5, <1>6, <1>7 DEF Next

LEMMA ReturnStep ==
    TypeOK /\ OneFate /\ NoSessionAfterReturn /\ [Next]_vars => NoSessionAfterReturn'
<1> SUFFICES ASSUME TypeOK, OneFate, NoSessionAfterReturn, [Next]_vars PROVE NoSessionAfterReturn'
  OBVIOUS
<1>1. ASSUME NEW c \in Conns, NEW reason \in Reasons, Ended({c}, reason),
             handler' \in {handler, [handler EXCEPT ![c] = "returned"]}
      PROVE NoSessionAfterReturn'
  <2>1. active' = active \ {c}
    BY <1>1 DEF Ended
  <2> QED BY <1>1, <2>1 DEF NoSessionAfterReturn, TypeOK
<1>2. ASSUME NEW c \in Conns, Handle(c) PROVE NoSessionAfterReturn'
  <2>1. ASSUME NEW k \in Kinds, Open(c, k) PROVE NoSessionAfterReturn'
    <3>1. active' = active \cup {c} /\ \A d \in Conns \ {c} : handler'[d] = handler[d]
      BY <2>1 DEF Open, TypeOK
    <3>2. handler'[c] # "returned"
      BY <2>1 DEF Open, TypeOK
    <3> QED BY <3>1, <3>2 DEF NoSessionAfterReturn, TypeOK
  <2>2. CASE OpenAtLimit(c)
    BY <2>2 DEF OpenAtLimit, NoSessionAfterReturn
  <2>3. CASE Greet(c) \/ GreetFails(c) \/ RouteRaises(c)
    BY <2>3 DEF Greet, GreetFails, RouteRaises, NoSessionAfterReturn, TypeOK
  <2>4. CASE Return(c)
    BY <1>1, <2>4 DEF Return, Reasons
  <2>5. CASE Respond(c)
    BY <1>1, <2>5 DEF Respond, Reasons
  <2>6. CASE Eof(c)
    BY <1>1, <2>6 DEF Eof, Reasons
  <2>7. CASE ConnectionLost(c)
    BY <1>1, <2>7 DEF ConnectionLost, Reasons
  <2> QED BY <1>2, <2>1, <2>2, <2>3, <2>4, <2>5, <2>6, <2>7 DEF Handle
<1>3. CASE Cleanup
  BY <1>3 DEF Cleanup, Ended, NoSessionAfterReturn
<1>4. CASE Tick \/ Restart
  BY <1>4 DEF Tick, Restart, NoSessionAfterReturn
<1>5. CASE Stop \/ Kill
  BY <1>5 DEF Stop, Kill, NoSessionAfterReturn
<1>6. CASE UNCHANGED vars
  BY <1>6 DEF vars, NoSessionAfterReturn
<1> QED BY <1>2, <1>3, <1>4, <1>5, <1>6 DEF Next

-----------------------------------------------------------------------------
(* Theorems.                                                               *)

Inv == TypeOK /\ OneFate /\ AgeInv /\ NoSessionAfterReturn

\* The inductive invariant of the session table.
THEOREM Safety == Spec => []Inv
<1>1. Init => Inv
  BY InitInv DEF Inv
<1>2. Inv /\ [Next]_vars => Inv'
  BY TypeStep, FateStep, AgeStep, ReturnStep DEF Inv
<1> QED BY <1>1, <1>2, PTL DEF Spec

\* Types, and create_session's limit.
THEOREM TypeCorrect == Spec => []TypeOK
<1>1. Inv => TypeOK
  BY DEF Inv
<1> QED BY <1>1, Safety, PTL

\* Each session that was created is active or has exactly one end.
THEOREM SessionsHaveOneFate == Spec => []OneFate
<1>1. Inv => OneFate
  BY DEF Inv
<1> QED BY <1>1, Safety, PTL

\* A handler that came to its end has ended its session.
THEOREM ReturnEndsSession == Spec => []NoSessionAfterReturn
<1>1. Inv => NoSessionAfterReturn
  BY DEF Inv
<1> QED BY <1>1, Safety, PTL

\* Leaked or not, no session is older than the duration, an interval and the
\* slack of the loop.
THEOREM AgesAreBounded == Spec => []AgeBound
<1>1. Inv => AgeBound
  <2> SUFFICES ASSUME Inv, NEW c \in active
               PROVE age[c] <= MaxDuration + CleanupInterval + Slack
    BY DEF AgeBound
  <2>1. age[c] \in Nat /\ sinceCleanup \in Nat
    BY DEF Inv, TypeOK
  <2>2. age[c] <= MaxDuration + sinceCleanup /\ sinceCleanup <= CleanupInterval + Slack
    BY DEF Inv, AgeInv
  <2>3. MaxDuration \in Nat /\ CleanupInterval \in Nat /\ Slack \in Nat
    BY SessionsAssumption
  <2> QED BY <2>1, <2>2, <2>3
<1> QED BY <1>1, Safety, PTL

\* What the table sessions says of a session stands.
THEOREM RowsAreFinal == Spec => RowsStand
<1>1. Inv /\ Inv' /\ [Next]_vars => [RowsKept]_vars
  <2> SUFFICES ASSUME Inv, Inv', [Next]_vars PROVE RowsKept
    OBVIOUS
  <2>1. rows \subseteq rows'
    <3>1. ASSUME NEW S, NEW reason, Ended(S, reason) PROVE rows \subseteq rows'
      BY <3>1 DEF Ended
    <3>2. ASSUME NEW c \in Conns, Handle(c) PROVE rows \subseteq rows'
      BY <3>1, <3>2 DEF Handle, Open, OpenAtLimit, Greet, GreetFails, Return, Respond,
                        RouteRaises, Eof, ConnectionLost
    <3>3. CASE Cleanup
      BY <3>1, <3>3 DEF Cleanup
    <3>4. CASE Tick \/ Stop \/ Kill \/ Restart
      BY <3>4 DEF Tick, Stop, Kill, Restart
    <3>5. CASE UNCHANGED vars
      BY <3>5 DEF vars
    <3> QED BY <3>2, <3>3, <3>4, <3>5 DEF Next
  <2>2. \A r, s \in rows' : r.conn = s.conn => r = s
    BY DEF Inv, OneFate
  <2> QED BY <2>1, <2>2 DEF RowsKept
<1> QED BY <1>1, Safety, PTL DEF Spec, RowsStand

-----------------------------------------------------------------------------
(* The table is a registry.                                                *)

\* The row of a recorded session says what became of it.
LEMMA FateOfRecorded ==
    ASSUME Inv, NEW r \in rows
    PROVE  r.conn \in Conns /\ Fate(r.conn) = r.reason /\ r.reason \in Reasons
<1>1. r \in [conn : Conns, reason : Reasons]
  BY DEF Inv, TypeOK
<1>2. r.conn \in Recorded /\ r.conn \notin active
  BY DEF Recorded, Inv, OneFate
<1>3. (CHOOSE q \in rows : q.conn = r.conn) = r
  BY DEF Inv, OneFate
<1> QED BY <1>1, <1>2, <1>3 DEF Fate

\* The fate of a session says in which of the sets it is.
FatesKnown ==
    \A c \in Conns :
        /\ Fate(c) \in Reasons \cup {"unrecorded", "abandoned", "none", "open"}
        /\ c \in active <=> Fate(c) = "open"
        /\ c \notin Created <=> Fate(c) = "none"

LEMMA FatesAreKnown == Inv => FatesKnown
<1> SUFFICES ASSUME Inv, NEW c \in Conns
             PROVE  /\ Fate(c) \in Reasons \cup {"unrecorded", "abandoned", "none", "open"}
                    /\ c \in active <=> Fate(c) = "open"
                    /\ c \notin Created <=> Fate(c) = "none"
  BY DEF FatesKnown
<1>1. ASSUME c \in Recorded PROVE Fate(c) \in Reasons
  <2>1. PICK r \in rows : r.conn = c
    BY <1>1 DEF Recorded
  <2> QED BY <2>1, FateOfRecorded
<1>2. Created = active \cup Recorded \cup unrecorded \cup abandoned
  BY DEF Inv, OneFate
<1>3. CASE c \in active
  BY <1>2, <1>3 DEF Fate
<1>4. CASE c \in Recorded
  <2>1. c \notin active
    BY <1>4 DEF Inv, OneFate
  <2> QED BY <1>1, <1>2, <1>4, <2>1 DEF Reasons
<1>5. CASE c \in unrecorded
  <2>1. c \notin active \cup Recorded
    BY <1>5 DEF Inv, OneFate
  <2> QED BY <1>2, <1>5, <2>1 DEF Fate
<1>6. CASE c \in abandoned
  <2>1. c \notin active \cup Recorded \cup unrecorded
    BY <1>6 DEF Inv, OneFate
  <2> QED BY <1>2, <1>6, <2>1 DEF Fate
<1>7. CASE c \notin Created
  BY <1>2, <1>7 DEF Fate
<1> QED BY <1>2, <1>3, <1>4, <1>5, <1>6, <1>7

LEMMA FatesStayKnown == Inv' => FatesKnown'
BY FatesAreKnown, PTL

\* An end stands as long as no row, failure or abandonment is taken back.
LEMMA EndStands ==
    ASSUME Inv, Inv', NEW c \in Conns, rows \subseteq rows',
           unrecorded \subseteq unrecorded', abandoned \subseteq abandoned',
           c \in Recorded \cup unrecorded \cup abandoned
    PROVE  Fate(c)' = Fate(c)
<1>1. CASE c \in Recorded
  <2>1. PICK r \in rows : r.conn = c
    BY <1>1 DEF Recorded
  <2>2. r \in rows' /\ Fate(c) = r.reason
    BY <2>1, FateOfRecorded
  <2>3. r \in [conn : Conns, reason : Reasons]
    BY DEF Inv, TypeOK
  <2>4. c \in Recorded' /\ c \notin active'
    BY <2>1, <2>2 DEF Recorded, Inv, OneFate
  <2>5. (CHOOSE q \in rows' : q.conn = c) = r
    BY <2>1, <2>2 DEF Inv, OneFate
  <2> QED BY <2>2, <2>4, <2>5 DEF Fate
<1>2. CASE c \in unrecorded
  <2>1. c \in unrecorded' /\ c \notin active' \cup Recorded' /\ c \notin active \cup Recorded
    BY <1>2 DEF Inv, OneFate
  <2> QED BY <1>2, <2>1 DEF Fate
<1>3. CASE c \in abandoned
  <2>1. /\ c \in abandoned' /\ c \notin active' \cup Recorded' \cup unrecorded'
        /\ c \notin active \cup Recorded \cup unrecorded
    BY <1>3 DEF Inv, OneFate
  <2> QED BY <1>3, <2>1 DEF Fate
<1> QED BY <1>1, <1>2, <1>3

\* What every step but Open does: it may end sessions, and takes back no end.
Ending ==
    /\ Created' = Created /\ active' \subseteq active
    /\ rows \subseteq rows' /\ unrecorded \subseteq unrecorded' /\ abandoned \subseteq abandoned'

LEMMA EndingEnds == ASSUME Inv, Inv', Ending PROVE Registry!EndSome
<1>1. FatesKnown /\ FatesKnown'
  BY FatesAreKnown, FatesStayKnown
<1>2. \A c \in Conns : Fate(c)' \in Registry!Fates
  BY <1>1 DEF FatesKnown, Registry!Fates
<1>3. ASSUME NEW c \in Conns, Fate(c) = "open" PROVE Fate(c)' # "none"
  BY <1>1, <1>3 DEF FatesKnown, Ending
<1>4. ASSUME NEW c \in Conns, Fate(c) # "open" PROVE Fate(c)' = Fate(c)
  <2>1. CASE c \in Created
    BY <1>1, <1>4, <2>1, EndStands DEF FatesKnown, Ending, Inv, OneFate
  <2>2. CASE c \notin Created
    BY <1>1, <2>2 DEF FatesKnown, Ending
  <2> QED BY <2>1, <2>2
<1> QED BY <1>2, <1>3, <1>4 DEF Registry!EndSome

LEMMA EndedEnds ==
    ASSUME NEW S \in SUBSET Conns, NEW reason \in Reasons, Inv, Ended(S, reason),
           Created' = Created, abandoned' = abandoned
    PROVE  Ending
<1>1. active' = active \ S /\ rows \subseteq rows'
  BY EndedFacts DEF Inv
<1>2. unrecorded \subseteq unrecorded'
  BY DEF Ended
<1> QED BY <1>1, <1>2 DEF Ending

\* The steps of the handlers other than create_session, of the cleanup, the clock
\* and the start: handlers that returned stay so.
LEMMA LiveStepEnds ==
    ASSUME Inv,
           \/ \E c \in Conns : Handle(c) /\ ~(\E k \in Kinds : Open(c, k))
           \/ Cleanup \/ Tick \/ Restart
    PROVE  /\ Ending
           /\ \A d \in Conns : handler[d] = "returned" => handler'[d] = "returned"
<1> DEFINE Stay == \A d \in Conns : handler[d] = "returned" => handler'[d] = "returned"
<1>1. handler \in [Conns -> Handlers]
  BY DEF Inv, TypeOK
<1>2. ASSUME UNCHANGED <<active, rows, unrecorded, abandoned>>, Created' = Created PROVE Ending
  BY <1>2 DEF Ending
<1>3. ASSUME NEW c \in Conns, handler[c] = "serving",
             NEW reason \in Reasons, Ended({c}, reason), abandoned' = abandoned,
             handler' \in {handler, [handler EXCEPT ![c] = "returned"]}
      PROVE  Ending /\ Stay
  <2>1. Created' = Created /\ Stay
    BY <1>1, <1>3 DEF Created
  <2> QED BY <1>3, <2>1, EndedEnds
<1>4. ASSUME NEW c \in Conns, Handle(c), ~(\E k \in Kinds : Open(c, k)) PROVE Ending /\ Stay
  <2>1. CASE OpenAtLimit(c)
    BY <1>2, <2>1 DEF OpenAtLimit, history, Created
  <2>2. CASE Greet(c) \/ GreetFails(c) \/ RouteRaises(c)
    <3>1. Created' = Created /\ Stay
      BY <1>1, <2>2 DEF Greet, GreetFails, RouteRaises, Created
    <3> QED BY <1>2, <2>2, <3>1 DEF Greet, GreetFails, RouteRaises, history
  <2>3. CASE Return(c)
    BY <1>3, <2>3 DEF Return, Reasons
  <2>4. CASE Respond(c)
    BY <1>3, <2>4 DEF Respond, Reasons
  <2>5. CASE Eof(c)
    BY <1>3, <2>5 DEF Eof, Reasons
  <2>6. CASE ConnectionLost(c)
    BY <1>3, <2>6 DEF ConnectionLost, Reasons
  <2> QED BY <1>4, <2>1, <2>2, <2>3, <2>4, <2>5, <2>6 DEF Handle
<1>5. CASE Cleanup
  <2>1. Expired \in SUBSET Conns /\ "timeout" \in Reasons
    BY DEF Expired, Inv, TypeOK, Reasons
  <2>2. Created' = Created /\ Stay /\ abandoned' = abandoned /\ Ended(Expired, "timeout")
    BY <1>5 DEF Cleanup, Created
  <2> QED BY <2>1, <2>2, EndedEnds
<1>6. CASE Tick \/ Restart
  BY <1>2, <1>6 DEF Tick, Restart, history, Created
<1> QED BY <1>4, <1>5, <1>6

\* The end of the process: nothing is in memory, nobody returns any more.
LEMMA StopEnds ==
    ASSUME Inv, Stop \/ Kill
    PROVE  Ending /\ active' = {} /\ \A d \in Conns : handler'[d] # "returned"
<1>1. Created' = Created /\ active' = {} /\ \A d \in Conns : handler'[d] # "returned"
  BY DEF Stop, Kill, Created
<1>2. rows \subseteq rows' /\ unrecorded \subseteq unrecorded' /\ abandoned \subseteq abandoned'
  BY DEF Stop, Kill
<1> QED BY <1>1, <1>2 DEF Ending

\* Every step opens a session, ends some, or is the end of the process.
LEMMA RegistryStep ==
    Inv /\ Inv' /\ [Next]_vars => [Registry!RegistryNext]_(Registry!registryVars)
<1> SUFFICES ASSUME Inv, Inv', [Next]_vars
             PROVE  [Registry!RegistryNext]_(Registry!registryVars)
  OBVIOUS
<1> DEFINE Served == {c \in Conns : handler[c] = "returned"}
<1>0. FatesKnown /\ FatesKnown'
  BY FatesAreKnown, FatesStayKnown
<1>1. ASSUME NEW c \in Conns, NEW k \in Kinds, Open(c, k) PROVE Registry!OpenSession(c)
  <2>1. /\ c \notin Created /\ active' = active \cup {c} /\ UNCHANGED <<rows, unrecorded, abandoned>>
        /\ Created' = Created \cup {c} /\ Served' = Served
    BY <1>1 DEF Open, history, Created, Inv, TypeOK, Handlers
  <2>2. Fate(c) = "none" /\ Fate(c)' = "open"
    BY <1>0, <2>1 DEF FatesKnown
  <2>3. ASSUME NEW d \in Conns \ {c} PROVE Fate(d)' = Fate(d)
    BY <2>1 DEF Fate, Recorded
  <2>4. [d \in Conns |-> Fate(d)]' = [[d \in Conns |-> Fate(d)] EXCEPT ![c] = "open"]
    BY <2>2, <2>3
  <2> QED BY <2>1, <2>2, <2>4 DEF Registry!OpenSession
<1>2. \A c \in Conns : handler'[c] = "returned" => Fate(c)' \in Reasons \cup {"unrecorded", "abandoned"}
  BY <1>0 DEF FatesKnown, Inv, NoSessionAfterReturn, Created
<1>3. ASSUME \/ \E c \in Conns : Handle(c) /\ ~(\E k \in Kinds : Open(c, k))
             \/ Cleanup \/ Tick \/ Restart
      PROVE  Registry!EndSessions
  <2>1. Registry!EndSome
    BY <1>3, LiveStepEnds, EndingEnds
  <2>2. Served \subseteq Served'
    BY <1>3, LiveStepEnds
  <2> QED BY <1>2, <2>1, <2>2 DEF Registry!EndSessions
<1>4. ASSUME Stop \/ Kill PROVE Registry!Halt
  <2>1. Registry!EndSome /\ active' = {} /\ Served' = {}
    BY <1>4, StopEnds, EndingEnds
  <2> QED BY <1>0, <2>1 DEF Registry!Halt, FatesKnown
<1>5. ASSUME UNCHANGED vars PROVE UNCHANGED Registry!registryVars
  BY <1>5 DEF vars, history, Fate, Recorded, Registry!registryVars
<1> QED BY <1>1, <1>3, <1>4, <1>5 DEF Next, Handle, Registry!RegistryNext

LEMMA RegistryBegins == Init => Registry!RegistryInit
BY DEF Init, Fate, Recorded, Registry!RegistryInit

\* The table is a registry: each session is opened once and ended once, and no
\* race of enders, failed INSERT, crash or restart changes its end.
THEOREM RefinesRegistry == Spec => ImplementsRegistry
BY RegistryBegins, RegistryStep, Safety, PTL DEF Spec, ImplementsRegistry, Registry!RegistrySpec

-----------------------------------------------------------------------------
(* When the loop is blocked.                                               *)

\* create_session waits for its own lock at the limit only.
BlockedFull == loop = "blocked" => Cardinality(active) = MaxSessions

\* The loop blocks at the limit and nowhere else, and then keeps the table full
\* until the process ends.
THEOREM BlockedOnlyAtLimit == Spec => []BlockedFull
<1>1. Init => BlockedFull
  BY DEF Init, BlockedFull
<1>2. Inv /\ BlockedFull /\ [Next]_vars => BlockedFull'
  <2> SUFFICES ASSUME Inv, BlockedFull, [Next]_vars PROVE BlockedFull'
    OBVIOUS
  <2>1. ASSUME NEW c \in Conns, OpenAtLimit(c) PROVE BlockedFull'
    <3>1. IsFiniteSet(active)
      BY FS_Subset, SessionsAssumption DEF Inv, TypeOK
    <3>2. Cardinality(active) \in Nat /\ MaxSessions \in Nat
      BY <3>1, FS_CardinalityType, SessionsAssumption
    <3>3. Cardinality(active) >= MaxSessions /\ Cardinality(active) <= MaxSessions
      BY <2>1 DEF OpenAtLimit, Full, Inv, TypeOK
    <3> QED BY <2>1, <3>2, <3>3 DEF OpenAtLimit, BlockedFull
  <2>2. ASSUME NEW c \in Conns, Handle(c), ~OpenAtLimit(c) PROVE loop' = "running"
    BY <2>2 DEF Handle, Open, Greet, GreetFails, Return, Respond, RouteRaises, Eof, ConnectionLost
  <2>3. ASSUME Cleanup \/ Tick \/ Stop \/ Kill \/ Restart PROVE loop' # "blocked"
    BY <2>3 DEF Cleanup, Tick, Stop, Kill, Restart
  <2>4. CASE UNCHANGED vars
    BY <2>4 DEF vars, BlockedFull
  <2> QED BY <2>1, <2>2, <2>3, <2>4 DEF Next, BlockedFull
<1> QED BY <1>1, <1>2, Safety, PTL DEF Spec

\* The other side of EvictionMakesRoom: with no more connections and datagrams than
\* max_sessions_in_memory the loop is never blocked.
THEOREM NeverBlockedBelowLimit ==
    Cardinality(Conns) <= MaxSessions => (Spec => []EvictionMakesRoom)
<1> SUFFICES ASSUME Cardinality(Conns) <= MaxSessions PROVE Spec => []EvictionMakesRoom
  OBVIOUS
<1>1. Init => EvictionMakesRoom
  BY DEF Init, EvictionMakesRoom
<1>2. Inv /\ EvictionMakesRoom /\ [Next]_vars => EvictionMakesRoom'
  <2> SUFFICES ASSUME Inv, EvictionMakesRoom, [Next]_vars PROVE EvictionMakesRoom'
    OBVIOUS
  <2>1. ASSUME NEW c \in Conns, OpenAtLimit(c) PROVE FALSE
    <3>1. c \notin active
      BY <2>1 DEF OpenAtLimit, Inv, OneFate, Created
    <3>2. active \subseteq Conns \ {c} /\ IsFiniteSet(Conns)
      BY <3>1, SessionsAssumption DEF Inv, TypeOK
    <3>3. Cardinality(Conns \ {c}) = Cardinality(Conns) - 1 /\ IsFiniteSet(Conns \ {c})
      BY <3>2, FS_RemoveElement
    <3>4. Cardinality(active) <= Cardinality(Conns \ {c}) /\ IsFiniteSet(active)
      BY <3>2, <3>3, FS_Subset
    <3>5. /\ Cardinality(active) \in Nat /\ Cardinality(Conns) \in Nat
          /\ MaxSessions \in Nat /\ Cardinality(active) >= MaxSessions
      BY <2>1, <3>2, <3>4, FS_CardinalityType, SessionsAssumption DEF OpenAtLimit, Full
    <3> QED BY <3>3, <3>4, <3>5
  <2>2. ASSUME NEW c \in Conns, Handle(c), ~OpenAtLimit(c) PROVE loop' = "running"
    BY <2>2 DEF Handle, Open, Greet, GreetFails, Return, Respond, RouteRaises, Eof, ConnectionLost
  <2>3. ASSUME Cleanup \/ Tick \/ Stop \/ Kill \/ Restart PROVE loop' # "blocked"
    BY <2>3 DEF Cleanup, Tick, Stop, Kill, Restart
  <2> QED BY <2>1, <2>2, <2>3 DEF Next, EvictionMakesRoom, vars
<1> QED BY <1>1, <1>2, Safety, PTL DEF Spec
=============================================================================
