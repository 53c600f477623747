--------------------------- MODULE Scoring_proofs ---------------------------
(***************************************************************************)
(* Theorems about Scoring, for every set of addresses, texts and servers   *)
(* and all steps of frequency.                                             *)
(***************************************************************************)
EXTENDS Scoring, FiniteSetTheorems, TLAPS

-----------------------------------------------------------------------------
(* The parts of a score.                                                   *)

LEMMA Addend == ASSUME NEW c, NEW n \in Nat PROVE If(c, n) \in 0 .. n
BY DEF If

LEMMA FlagScoresNat == ASSUME NEW S PROVE FlagScores(S) \in Nat
BY DEF FlagScores, If

LEMMA ContentNat == ASSUME NEW e PROVE Content(e) \in Nat
<1>1. FlagScores(e.text.found) \in Nat /\ FlagScores(e.extra) \in Nat
  BY FlagScoresNat
<1>2. If(e.text.pattern, 15) \in Nat /\ If(e.executed /\ e.text.command, 10) \in Nat
  BY DEF If
<1> HIDE DEF If, FlagScores
<1> QED  BY <1>1, <1>2 DEF Content

LEMMA FrequencyRange == ASSUME NEW n \in Nat PROVE Frequency(n) \in 0 .. 20
BY DEF Frequency, If

LEMMA FrequencyGrows ==
    ASSUME NEW m \in Nat, NEW n \in Nat, m <= n PROVE Frequency(m) <= Frequency(n)
BY ScoringAssumption DEF Frequency, If

LEMMA BehaviourRange == ASSUME NEW p, p.count \in Nat PROVE Behaviour(p) \in 0 .. 30
<1>1. Frequency(p.count) \in 0 .. 20
  BY FrequencyRange
<1>2. If(Cardinality(p.protocols) > 2, 10) \in 0 .. 10
  BY DEF If
<1> QED  BY <1>1, <1>2 DEF Behaviour

\* The parts of a sum, each in its range.
LEMMA SumParts ==
    ASSUME NEW p, p.count \in Nat, NEW ip, NEW e
    PROVE  \E u \in 0 .. 5, k \in 0 .. 30 :
              /\ Sum(p, ip, e) = u + Behaviour(p) + k + Content(e)
              /\ ip \notin listed => k = 0
<1>1. If(e.user, 5) \in 0 .. 5 /\ If(ip \in listed, 30) \in 0 .. 30
  BY DEF If
<1>2. ip \notin listed => If(ip \in listed, 30) = 0
  BY DEF If
<1> QED  BY <1>1, <1>2 DEF Sum

LEMMA ScoreRange ==
    ASSUME NEW p, p.count \in Nat, NEW ip, NEW e PROVE Score(p, ip, e) \in 0 .. 100
<1>1. Sum(p, ip, e) \in Nat
  BY SumParts, BehaviourRange, ContentNat
<1> QED  BY <1>1 DEF Score

\* Without content there is a limit to what behaviour earns.
LEMMA BehaviourLimit ==
    ASSUME NEW p, p.count \in Nat, NEW ip, NEW e, ~(Content(e) > 0)
    PROVE  Score(p, ip, e) <= 65 /\ (ip \notin listed => Score(p, ip, e) <= 35)
<1>1. Content(e) = 0
  BY ContentNat
<1>2. Sum(p, ip, e) \in Nat /\ Sum(p, ip, e) <= 65 /\ (ip \notin listed => Sum(p, ip, e) <= 35)
  BY <1>1, SumParts, BehaviourRange
<1> QED  BY <1>2 DEF Score

\* More events and more protocols earn more.
LEMMA ScoreGrows ==
    ASSUME NEW p, NEW q, p.count \in Nat, q.count \in Nat, p.count <= q.count,
           p.protocols \subseteq q.protocols, IsFiniteSet(q.protocols), NEW ip, NEW e
    PROVE  Score(q, ip, e) >= Score(p, ip, e)
<1>1. Frequency(p.count) <= Frequency(q.count)
      /\ Frequency(p.count) \in Nat /\ Frequency(q.count) \in Nat
  BY FrequencyGrows, FrequencyRange
<1>2. Cardinality(p.protocols) \in Nat /\ Cardinality(q.protocols) \in Nat
      /\ Cardinality(p.protocols) <= Cardinality(q.protocols)
  BY FS_Subset, FS_CardinalityType
<1>3. If(Cardinality(p.protocols) > 2, 10) <= If(Cardinality(q.protocols) > 2, 10)
      /\ If(Cardinality(p.protocols) > 2, 10) \in Nat /\ If(Cardinality(q.protocols) > 2, 10) \in Nat
  BY <1>2 DEF If
<1>4. Behaviour(p) \in Nat /\ Behaviour(q) \in Nat /\ Behaviour(p) <= Behaviour(q)
  BY <1>1, <1>3 DEF Behaviour
<1>5. If(e.user, 5) \in Nat /\ If(ip \in listed, 30) \in Nat /\ Content(e) \in Nat
  BY ContentNat DEF If
<1>6. Sum(p, ip, e) \in Nat /\ Sum(q, ip, e) \in Nat /\ Sum(p, ip, e) <= Sum(q, ip, e)
  BY <1>4, <1>5 DEF Sum
<1> QED  BY <1>6 DEF Score

-----------------------------------------------------------------------------
(* The inductive invariant.                                                *)

\* No event is of a life to come; without content none scores above what behaviour
\* earns.
LogOK ==
    \A ev \in logged :
        /\ ev.ip \in Ips /\ ev.score \in 0 .. 100
        /\ ev.life \in Nat /\ ev.life <= life[ev.ip]
        /\ ~ev.content => ev.score <= 65 /\ (ev.ip \notin listed => ev.score <= 35)

\* ProfileSumsUp for one address.
Remembers(ip) ==
    /\ profiles[ip].techniques = UNION {ev.techniques : ev \in Evidence(ip)}
    /\ \A ev \in Evidence(ip) : ev.score <= profiles[ip].score
    /\ profiles[ip].score # 0 => \E ev \in Evidence(ip) : ev.score = profiles[ip].score
Traced(ip) ==
    rows[ip].score # 0 =>
        \E ev \in logged : ev.ip = ip /\ ev.profiled /\ ev.score = rows[ip].score

\* ProfileSumsUp needs LogOK: a forgotten profile begins with no evidence because no
\* event carries the number of the life that begins.
IInv == TypeOK /\ LogOK /\ \A ip \in Ips : Remembers(ip) /\ Traced(ip)

LEMMA Sums == (\A ip \in Ips : Remembers(ip) /\ Traced(ip)) <=> ProfileSumsUp
BY DEF Remembers, Traced, ProfileSumsUp

LEMMA BlankFacts ==
    /\ DOMAIN Blank = {"count", "score", "protocols", "techniques"}
    /\ Blank.count = 0 /\ Blank.score = 0 /\ Blank.protocols = {} /\ Blank.techniques = {}
BY DEF Blank

LEMMA InitInv == Init => IInv
<1> SUFFICES ASSUME Init PROVE IInv
  OBVIOUS
<1>1. \A ip \in Ips : profiles[ip] = Blank /\ rows[ip] = Blank /\ life[ip] = 0
  BY DEF Init
<1>2. /\ DOMAIN profiles = Ips /\ DOMAIN rows = Ips /\ life \in [Ips -> Nat]
      /\ listed \subseteq Ips /\ logged = {}
  BY DEF Init
<1>3. IsFiniteSet({})
  BY FS_EmptySet
<1>4. TypeOK
  <2>1. Records(profiles) /\ Records(rows)
    BY <1>1, <1>2, <1>3, BlankFacts DEF Records
  <2>2. \A ev \in logged : ev.ip \in Ips /\ ev.score \in 0 .. 100
    BY <1>2
  <2> QED  BY <2>1, <2>2, <1>2, Zenon DEF TypeOK
<1>5. LogOK
  BY <1>2 DEF LogOK
<1>6. ASSUME NEW ip \in Ips PROVE Remembers(ip) /\ Traced(ip)
  <2>1. Evidence(ip) = {}
    BY <1>2 DEF Evidence
  <2> QED  BY <2>1, <1>1, BlankFacts DEF Remembers, Traced
<1> QED  BY <1>4, <1>5, <1>6 DEF IInv

-----------------------------------------------------------------------------
(* The steps.                                                              *)

LEMMA EntryFacts ==
    ASSUME NEW ip \in Ips, NEW e, NEW b, TypeOK, NEW n, n = Entry(ip, e, b)
    PROVE  /\ n.ip = ip /\ n.score = Score(profiles[ip], ip, e) /\ n.score \in 0 .. 100
           /\ n.techniques = Techniques(e) /\ n.profiled = b
           /\ n.life = life[ip] /\ life[ip] \in Nat
           /\ ~n.content => n.score <= 65 /\ (ip \notin listed => n.score <= 35)
<1>1. /\ n.ip = ip /\ n.score = Score(profiles[ip], ip, e) /\ n.techniques = Techniques(e)
      /\ n.profiled = b /\ n.life = life[ip] /\ n.content = (Content(e) > 0)
  BY DEF Entry
<1>2. profiles[ip].count \in Nat /\ life[ip] \in Nat
  BY DEF TypeOK, Records
<1>3. n.score \in 0 .. 100
  BY <1>1, <1>2, ScoreRange
<1>4. ASSUME ~n.content PROVE n.score <= 65 /\ (ip \notin listed => n.score <= 35)
  <2>1. ~(Content(e) > 0)
    BY <1>1, <1>4, Zenon
  <2>2. Score(profiles[ip], ip, e) <= 65
        /\ (ip \notin listed => Score(profiles[ip], ip, e) <= 35)
    BY <2>1, <1>2, BehaviourLimit
  <2> QED  BY <2>2, <1>1
<1> QED  BY <1>1, <1>2, <1>3, <1>4

LEMMA LogGrows ==
    ASSUME IInv, NEW ip \in Ips, NEW e, NEW b \in BOOLEAN,
           logged' = logged \cup {Entry(ip, e, b)}, UNCHANGED <<listed, life>>
    PROVE  LogOK'
<1> DEFINE n == Entry(ip, e, b)
<1>1. n.ip = ip /\ n.score \in 0 .. 100 /\ n.life = life[ip] /\ life[ip] \in Nat
      /\ (~n.content => n.score <= 65 /\ (ip \notin listed => n.score <= 35))
  BY EntryFacts DEF IInv
<1>2. \A ev \in logged' : ev \in logged \/ ev = n
  OBVIOUS
<1> HIDE DEF n
<1> QED  BY <1>1, <1>2 DEF IInv, LogOK

LEMMA ReportInv == ASSUME IInv, NEW ip \in Ips, NEW e, Report(ip, e) PROVE IInv'
<1> DEFINE score == Score(profiles[ip], ip, e)
           q == Updated(profiles[ip], e, score)
           n == Entry(ip, e, TRUE)
<1>1. /\ DOMAIN profiles = Ips /\ DOMAIN rows = Ips
      /\ profiles[ip].count \in Nat /\ profiles[ip].score \in 0 .. 100
      /\ IsFiniteSet(profiles[ip].protocols)
  BY DEF IInv, TypeOK, Records
<1>2. score \in 0 .. 100
  BY <1>1, ScoreRange
<1>3. /\ DOMAIN q = {"count", "score", "protocols", "techniques"}
      /\ q.count = profiles[ip].count + 1
      /\ q.score = IF score > profiles[ip].score THEN score ELSE profiles[ip].score
      /\ q.protocols = profiles[ip].protocols \cup {e.protocol}
      /\ q.techniques = profiles[ip].techniques \cup Techniques(e)
  BY DEF Updated
<1>4. n.ip = ip /\ n.score = score /\ n.techniques = Techniques(e) /\ n.profiled = TRUE
      /\ n.life = life[ip]
  BY DEF Entry
<1>5. /\ logged' = logged \cup {n} /\ profiles' = [profiles EXCEPT ![ip] = q]
      /\ rows' = [rows EXCEPT ![ip] = q] \/ rows' = rows
      /\ listed' = listed /\ life' = life
  BY DEF Report, Upsert
<1>6. LogOK'
  BY <1>5, LogGrows
<1> HIDE DEF score, q, n
<1>7. q.count \in Nat /\ IsFiniteSet(q.protocols)
  BY <1>1, <1>3, FS_AddElement
<1>8. q.score \in 0 .. 100 /\ q.score >= profiles[ip].score /\ q.score >= score
       /\ (q.score = profiles[ip].score \/ q.score = score)
  BY <1>1, <1>2, <1>3
<1>9. n.score \in 0 .. 100
  BY <1>2, <1>4
<1>10. \A a \in Ips : profiles'[a] = IF a = ip THEN q ELSE profiles[a]
  BY <1>1, <1>5
<1>11. \A a \in Ips : rows'[a] = rows[a] \/ (a = ip /\ rows'[a] = q)
  BY <1>1, <1>5
<1>12. DOMAIN profiles' = Ips /\ DOMAIN rows' = Ips
  BY <1>1, <1>5
<1>13. TypeOK'
  <2>1. Records(profiles)'
    BY <1>3, <1>7, <1>8, <1>10, <1>12 DEF IInv, TypeOK, Records
  <2>2. Records(rows)'
    BY <1>3, <1>7, <1>8, <1>11, <1>12 DEF IInv, TypeOK, Records
  <2> QED  BY <2>1, <2>2, <1>4, <1>9, <1>5 DEF IInv, TypeOK
<1>14. ASSUME NEW a \in Ips PROVE Remembers(a)'
  <2>1. CASE a # ip
    <3>1. Evidence(a)' = Evidence(a)
      BY <2>1, <1>4, <1>5 DEF Evidence
    <3> QED  BY <3>1, <2>1, <1>10 DEF IInv, Remembers
  <2>2. CASE a = ip
    <3>1. Evidence(ip)' = Evidence(ip) \cup {n}
      BY <1>4, <1>5 DEF Evidence
    <3>2. profiles'[ip] = q
      BY <1>10
    <3>3. Remembers(ip)
      BY DEF IInv
    <3>4. q.techniques = UNION {ev.techniques : ev \in Evidence(ip) \cup {n}}
      BY <3>3, <1>3, <1>4 DEF Remembers
    <3>5. ASSUME NEW ev \in Evidence(ip) \cup {n} PROVE ev.score <= q.score
      <4>1. CASE ev = n
        BY <4>1, <1>2, <1>8, <1>4
      <4>2. CASE ev \in Evidence(ip)
        <5>1. ev.score \in 0 .. 100 /\ ev.score <= profiles[ip].score
          BY <4>2, <3>3 DEF IInv, LogOK, Evidence, Remembers
        <5>2. profiles[ip].score \in 0 .. 100 /\ q.score \in 0 .. 100
              /\ profiles[ip].score <= q.score
          BY <1>1, <1>8
        <5>3. \A x, y, z \in 0 .. 100 : x <= y /\ y <= z => x <= z
          OBVIOUS
        <5> QED  BY <5>1, <5>2, <5>3, ZenonT(30)
      <4> QED  BY <4>1, <4>2
    <3>6. q.score # 0 => \E ev \in Evidence(ip) \cup {n} : ev.score = q.score
      BY <3>3, <1>8, <1>4 DEF Remembers
    <3> QED  BY <2>2, <3>1, <3>2, <3>4, <3>5, <3>6 DEF Remembers
  <2> QED  BY <2>1, <2>2
<1>15. ASSUME NEW a \in Ips PROVE Traced(a)'
  <2>1. CASE rows'[a] = rows[a]
    BY <2>1, <1>5 DEF IInv, Traced
  <2>2. CASE a = ip /\ rows'[a] = q
    <3>1. q.score # 0 => \E ev \in logged' : ev.ip = ip /\ ev.profiled /\ ev.score = q.score
      BY <1>8, <1>4, <1>5 DEF IInv, Remembers, Evidence
    <3> QED  BY <2>2, <3>1 DEF Traced
  <2> QED  BY <2>1, <2>2, <1>11
<1> QED  BY <1>6, <1>13, <1>14, <1>15 DEF IInv

LEMMA MailInv == ASSUME IInv, NEW ip \in Ips, NEW e, Mail(ip, e) PROVE IInv'
<1> DEFINE n == Entry(ip, e, FALSE)
<1>1. logged' = logged \cup {n} /\ UNCHANGED <<listed, profiles, rows, life>>
  BY DEF Mail
<1>2. LogOK'
  BY <1>1, LogGrows
<1>3. n.ip = ip /\ n.profiled = FALSE /\ n.score \in 0 .. 100
  <2>1. n.ip = ip /\ n.profiled = FALSE /\ n.score = Score(profiles[ip], ip, e)
    BY DEF Entry
  <2>2. profiles[ip].count \in Nat
    BY DEF IInv, TypeOK, Records
  <2> HIDE DEF n
  <2> QED  BY <2>1, <2>2, ScoreRange
<1> HIDE DEF n
<1>4. TypeOK'
  BY <1>1, <1>3 DEF IInv, TypeOK, Records
<1>5. ASSUME NEW a \in Ips PROVE Remembers(a)' /\ Traced(a)'
  <2>1. Evidence(a)' = Evidence(a)
    BY <1>1, <1>3 DEF Evidence
  <2> QED  BY <2>1, <1>1 DEF IInv, Remembers, Traced
<1> QED  BY <1>2, <1>4, <1>5 DEF IInv

LEMMA RewriteInv == ASSUME IInv, NEW ip \in Ips, Rewrite(ip) PROVE IInv'
<1>1. DOMAIN rows = Ips /\ UNCHANGED <<listed, profiles, life, logged>>
      /\ rows' = [rows EXCEPT ![ip] = profiles[ip]]
  BY DEF Rewrite, IInv, TypeOK, Records
<1>2. \A a \in Ips : rows'[a] = rows[a] \/ (a = ip /\ rows'[a] = profiles[ip])
  BY <1>1
<1>3. DOMAIN rows' = Ips
  BY <1>1
<1>4. TypeOK' /\ LogOK'
  BY <1>1, <1>2, <1>3 DEF IInv, TypeOK, LogOK, Records
<1>5. ASSUME NEW a \in Ips PROVE Remembers(a)' /\ Traced(a)'
  <2>1. Evidence(a)' = Evidence(a)
    BY <1>1 DEF Evidence
  <2>2. Remembers(a)'
    BY <2>1, <1>1 DEF IInv, Remembers
  <2>3. Traced(a)'
    BY <1>1, <1>2 DEF IInv, Remembers, Traced, Evidence
  <2> QED  BY <2>2, <2>3
<1> QED  BY <1>4, <1>5 DEF IInv

LEMMA ForgetInv == ASSUME IInv, NEW gone \in SUBSET Ips, Forget(gone) PROVE IInv'
<1>1. UNCHANGED <<listed, rows, logged>> /\ life \in [Ips -> Nat]
  BY DEF Forget, IInv, TypeOK
<1>2. \A a \in Ips : profiles'[a] = (IF a \in gone THEN Blank ELSE profiles[a])
                     /\ life'[a] = (IF a \in gone THEN life[a] + 1 ELSE life[a])
  BY DEF Forget
<1>3. DOMAIN profiles' = Ips /\ life' \in [Ips -> Nat]
  BY <1>1 DEF Forget
<1>4. TypeOK'
  <2>1. IsFiniteSet({})
    BY FS_EmptySet
  <2>2. Records(profiles)'
    <3> SUFFICES ASSUME NEW a \in Ips
                 PROVE  /\ DOMAIN profiles'[a] = {"count", "score", "protocols", "techniques"}
                        /\ profiles'[a].count \in Nat /\ profiles'[a].score \in 0 .. 100
                        /\ IsFiniteSet(profiles'[a].protocols)
      BY <1>3 DEF Records
    <3>1. CASE a \in gone
      BY <3>1, <2>1, <1>2, BlankFacts
    <3>2. CASE a \notin gone
      BY <3>2, <1>2 DEF IInv, TypeOK, Records
    <3> QED  BY <3>1, <3>2
  <2> QED  BY <2>2, <1>1, <1>3 DEF IInv, TypeOK, Records
<1>5. LogOK'
  <2> SUFFICES ASSUME NEW ev \in logged
               PROVE  /\ ev.ip \in Ips /\ ev.score \in 0 .. 100
                      /\ ev.life \in Nat /\ ev.life <= life'[ev.ip]
                      /\ ~ev.content => ev.score <= 65 /\ (ev.ip \notin listed => ev.score <= 35)
    BY <1>1 DEF LogOK
  <2>1. ev.ip \in Ips /\ ev.life \in Nat /\ ev.life <= life[ev.ip] /\ life[ev.ip] \in Nat
    BY <1>1 DEF IInv, LogOK
  <2>2. ev.life <= life'[ev.ip]
    BY <2>1, <1>2
  <2> QED  BY <2>1, <2>2 DEF IInv, LogOK
<1>6. ASSUME NEW a \in Ips PROVE Remembers(a)' /\ Traced(a)'
  <2>1. Traced(a)'
    BY <1>1 DEF IInv, Traced
  <2>2. CASE a \in gone
    <3>1. ASSUME NEW ev \in logged, ev.ip = a PROVE ev.life # life'[a]
      BY <3>1, <2>2, <1>1, <1>2 DEF IInv, LogOK
    <3>2. Evidence(a)' = {}
      BY <3>1, <1>1 DEF Evidence
    <3> QED  BY <3>2, <2>1, <2>2, <1>2, BlankFacts DEF Remembers
  <2>3. CASE a \notin gone
    <3>1. Evidence(a)' = Evidence(a)
      BY <2>3, <1>1, <1>2 DEF Evidence
    <3> QED  BY <3>1, <2>1, <2>3, <1>2 DEF IInv, Remembers
  <2> QED  BY <2>2, <2>3
<1> QED  BY <1>4, <1>5, <1>6 DEF IInv

LEMMA Inductive == IInv /\ [Next]_vars => IInv'
<1> SUFFICES ASSUME IInv, [Next]_vars PROVE IInv'
  OBVIOUS
<1>1. CASE UNCHANGED vars
  BY <1>1 DEF vars, IInv, TypeOK, Records, LogOK, Remembers, Traced, Evidence
<1>2. CASE Next
  BY <1>2, ReportInv, MailInv, RewriteInv, ForgetInv DEF Next
<1> QED  BY <1>1, <1>2

LEMMA Invariant == Spec => []IInv
BY InitInv, Inductive, PTL DEF Spec

-----------------------------------------------------------------------------
(* The theorems.                                                           *)

\* Scores of events, profiles and rows are between 0 and 100 (calculate_threat_score,
\* update_profile), whatever is found in a text.
THEOREM Types == Spec => []TypeOK
<1>1. IInv => TypeOK
  BY DEF IInv
<1> QED  BY <1>1, Invariant, PTL

\* A profile is the sum of its events, and every row that bans or exports an address
\* goes back to one (update_profile, upsert_profile, cleanup_profiles).
THEOREM SumsUp == Spec => []ProfileSumsUp
<1>1. IInv => ProfileSumsUp
  BY Sums DEF IInv
<1> QED  BY <1>1, Invariant, PTL

\* Without content no address reaches the threshold of alerts and bans, and only one of
\* a listed network is exported (calculate_threat_score): 5 + 20 + 10 + 30 < 70.
THEOREM ContentDecides == Spec => []ContentNeeded
<1>1. ASSUME IInv, NEW ip \in Ips, \A ev \in logged : ev.ip = ip => ~ev.content
      PROVE  /\ \A ev \in logged : ev.ip = ip => ev.score < 70
             /\ profiles[ip].score < 70 /\ rows[ip].score < 70
             /\ ip \notin listed => ip \notin Indicators
  <2>1. ASSUME NEW ev \in logged, ev.ip = ip
        PROVE  ev.score < 70 /\ (ip \notin listed => ev.score < 50)
    BY <1>1, <2>1 DEF IInv, LogOK
  <2>2. profiles[ip].score < 70
    BY <2>1, <1>1 DEF IInv, Remembers, Evidence
  <2>3. rows[ip].score < 70 /\ (ip \notin listed => ~(rows[ip].score >= 50))
    <3>1. CASE rows[ip].score = 0
      BY <3>1
    <3>2. CASE rows[ip].score # 0
      <4>1. PICK ev \in logged : ev.ip = ip /\ ev.score = rows[ip].score
        BY <3>2, <1>1 DEF IInv, Traced
      <4>2. ev.score \in 0 .. 100
        BY <1>1 DEF IInv, LogOK
      <4> QED  BY <4>1, <4>2, <2>1
    <3> QED  BY <3>1, <3>2
  <2> QED  BY <2>1, <2>2, <2>3 DEF Indicators
<1>2. IInv => ContentNeeded
  BY <1>1 DEF ContentNeeded
<1> QED  BY <1>2, Invariant, PTL

\* As long as a profile lives, what an address does never lowers the score of what it
\* does next (calculate_threat_score, update_profile).
THEOREM Grows == Spec => SuspicionGrows
<1>1. ASSUME IInv, Next, NEW ip \in Ips, NEW e, life'[ip] = life[ip]
      PROVE  Score(profiles'[ip], ip, e) >= Score(profiles[ip], ip, e)
  <2> DEFINE p == profiles[ip]
             q == profiles'[ip]
  <2>1. p.count \in Nat /\ p.score \in 0 .. 100 /\ IsFiniteSet(p.protocols)
        /\ DOMAIN profiles = Ips
    BY <1>1 DEF IInv, TypeOK, Records
  <2>2. q = p \/ \E m : q = Updated(p, m, Score(p, ip, m))
    <3>1. CASE \E a \in Ips : \E m \in Profiled : Report(a, m)
      <4>1. PICK a \in Ips, m \in Profiled : Report(a, m)
        BY <3>1
      <4>2. profiles' = [profiles EXCEPT ![a] = Updated(profiles[a], m, Score(profiles[a], a, m))]
        BY <4>1 DEF Report
      <4> QED  BY <4>2, <2>1
    <3>2. CASE \E a \in Ips : (\E m \in Unprofiled : Mail(a, m)) \/ Rewrite(a)
      BY <3>2 DEF Mail, Rewrite
    <3>3. CASE \E gone \in SUBSET Ips \ {{}} : Forget(gone)
      <4>1. PICK gone \in SUBSET Ips : Forget(gone)
        BY <3>3
      <4>2. ip \notin gone
        BY <4>1, <1>1 DEF Forget, IInv, TypeOK
      <4> QED  BY <4>1, <4>2 DEF Forget
    <3> QED  BY <1>1, <3>1, <3>2, <3>3 DEF Next
  <2> HIDE DEF p, q
  <2>3. p.count <= q.count /\ q.count \in Nat /\ p.protocols \subseteq q.protocols
        /\ IsFiniteSet(q.protocols)
    <3>1. CASE q = p
      BY <3>1, <2>1
    <3>2. ASSUME NEW m, q = Updated(p, m, Score(p, ip, m))
          PROVE  q.count = p.count + 1 /\ q.count \in Nat /\ p.protocols \subseteq q.protocols
                 /\ IsFiniteSet(q.protocols)
      <4>1. q.count = p.count + 1 /\ q.protocols = p.protocols \cup {m.protocol}
        BY <3>2 DEF Updated
      <4> QED  BY <4>1, <2>1, FS_AddElement
    <3>3. CASE \E m : q = Updated(p, m, Score(p, ip, m))
      BY <3>2, <3>3, <2>1
    <3> QED  BY <2>2, <3>1, <3>3
  <2>4. Score(q, ip, e) >= Score(p, ip, e)
    BY <2>1, <2>3, ScoreGrows
  <2> QED  BY <2>4 DEF p, q
<1>2. IInv /\ [Next]_vars => [NeverTrusted]_vars
  BY <1>1 DEF NeverTrusted
<1> QED  BY <1>2, Invariant, PTL DEF Spec, SuspicionGrows

-----------------------------------------------------------------------------
(* Profiles and rows implement Reputation.                                 *)

LEMMA StandingBegins == Init => Standing!ReputationInit
BY BlankFacts DEF Init, Best, InTable, Standing!ReputationInit

LEMMA ReportRaises ==
    ASSUME TypeOK, NEW ip \in Ips, NEW e, Report(ip, e)
    PROVE  \E s \in 0 .. 100 : Standing!Raise(ip, s)
<1> DEFINE s == Score(profiles[ip], ip, e)
           q == Updated(profiles[ip], e, s)
<1>1. DOMAIN profiles = Ips /\ DOMAIN rows = Ips /\ profiles[ip].count \in Nat
  BY DEF TypeOK, Records
<1>2. s \in 0 .. 100
  BY <1>1, ScoreRange
<1>3. q.score = IF s > profiles[ip].score THEN s ELSE profiles[ip].score
  BY DEF Updated
<1>4. profiles' = [profiles EXCEPT ![ip] = q] /\ (rows' = [rows EXCEPT ![ip] = q] \/ rows' = rows)
  BY DEF Report, Upsert
<1> HIDE DEF s, q
<1>5. Best[ip] = profiles[ip].score
  BY DEF Best
<1>6. Best' = [Best EXCEPT ![ip] = q.score] /\ Best'[ip] = q.score
  BY <1>1, <1>4 DEF Best
<1>7. InTable' \in {InTable, [InTable EXCEPT ![ip] = q.score]}
  BY <1>1, <1>4 DEF InTable
<1>8. Standing!Raise(ip, s)
  BY <1>3, <1>5, <1>6, <1>7 DEF Standing!Raise, Standing!Kept
<1> QED  BY <1>2, <1>8

LEMMA StandingStep ==
    TypeOK /\ [Next]_vars => [Standing!ReputationNext]_(Standing!reputationVars)
<1> SUFFICES ASSUME TypeOK, [Next]_vars
             PROVE  Standing!ReputationNext \/ UNCHANGED <<Best, InTable>>
  BY DEF Standing!reputationVars
<1>1. ASSUME NEW ip \in Ips, NEW e \in Profiled, Report(ip, e) PROVE Standing!ReputationNext
  BY <1>1, ReportRaises DEF Standing!ReputationNext
<1>2. ASSUME NEW ip \in Ips, NEW e, Mail(ip, e) PROVE UNCHANGED <<Best, InTable>>
  BY <1>2 DEF Mail, Best, InTable
<1>3. ASSUME NEW ip \in Ips, Rewrite(ip) PROVE Standing!Store(ip)
  <2>1. rows' = [rows EXCEPT ![ip] = profiles[ip]] /\ profiles' = profiles /\ DOMAIN rows = Ips
    BY <1>3 DEF Rewrite, TypeOK, Records
  <2>2. InTable' = [InTable EXCEPT ![ip] = Best[ip]] /\ Best' = Best
    BY <2>1 DEF InTable, Best
  <2> QED  BY <2>2 DEF Standing!Store, Standing!Kept
<1>4. ASSUME NEW gone \in SUBSET Ips, Forget(gone) PROVE Standing!Forget(gone)
  <2>1. rows' = rows /\ profiles' = [ip \in Ips |-> IF ip \in gone THEN Blank ELSE profiles[ip]]
    BY <1>4 DEF Forget
  <2> QED  BY <2>1, BlankFacts DEF Standing!Forget, Best, InTable
<1>5. ASSUME UNCHANGED vars PROVE UNCHANGED <<Best, InTable>>
  BY <1>5 DEF vars, Best, InTable
<1> QED  BY <1>1, <1>2, <1>3, <1>4, <1>5 DEF Next, Standing!ReputationNext

\* Events raise scores, only forgetting lowers them, and rows show what the profile said
\* when they were written: for any weights, texts and steps of frequency.
THEOREM RefinesReputation == Spec => ImplementsReputation
BY StandingBegins, StandingStep, Types, PTL
   DEF Spec, ImplementsReputation, Standing!ReputationSpec

-----------------------------------------------------------------------------
(* Passwords.                                                              *)

\* However often it is tried and wherever it comes from, a login scores less than the
\* 70 of alerts and of the ban: none of its flags, SSH_BRUTE_FORCE included, has a
\* weight.
LoginsHarmless ==
    \A ip \in Ips : \A e \in Logins : Score(profiles[ip], ip, e) <= 65

LEMMA LoginsHaveNoContent == ASSUME NEW e \in Logins PROVE Content(e) = 0
<1>1. e.text = NoText /\ e.executed = FALSE
      /\ e.extra \in {{"SSH_AUTH_ATTEMPT"}, {"SSH_AUTH_ATTEMPT", "SSH_BRUTE_FORCE"},
                      {"FTP_AUTH"}, {"MYSQL_AUTH"}}
  BY DEF Logins, Sent
<1>2. FlagScores(e.text.found) = 0
  BY <1>1 DEF FlagScores, If, NoText
<1>3. FlagScores(e.extra) = 0
  BY <1>1 DEF FlagScores, If
<1> QED  BY <1>1, <1>2, <1>3 DEF Content, If, NoText

\* No password attack is alerted or leads to a ban by its own score, whatever the
\* profile of its address.
THEOREM LoginsStayBelow == Spec => []LoginsHarmless
<1>1. TypeOK => LoginsHarmless
  <2> SUFFICES ASSUME TypeOK, NEW ip \in Ips, NEW e \in Logins
               PROVE  Score(profiles[ip], ip, e) <= 65
    BY DEF LoginsHarmless
  <2>1. profiles[ip].count \in Nat
    BY DEF TypeOK, Records
  <2>2. Content(e) = 0
    BY LoginsHaveNoContent
  <2> QED  BY <2>1, <2>2, BehaviourLimit
<1> QED  BY <1>1, Types, PTL
=============================================================================
