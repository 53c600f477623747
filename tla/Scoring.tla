------------------------------- MODULE Scoring ------------------------------
(***************************************************************************)
(* How threat scores come about: what analyze_payload finds in a text and  *)
(* a handler adds, what the address has done before (frequency, protocols) *)
(* and whether it is on the list of known bad networks make the score of   *)
(* an event (calculate_threat_score); update_profile keeps the highest one *)
(* and the MITRE techniques, upsert_profile writes them to the row by      *)
(* which addresses are banned and exported.                                *)
(*                                                                         *)
(* A text counts by what the code finds in it.  A handler builds, logs and *)
(* enters an event without an await: one step.  Which handler runs when is *)
(* in Honeypots, what bans do to profiles and rows in Defense.             *)
(***************************************************************************)
EXTENDS Naturals, FiniteSets

CONSTANTS
    Ips,                \* addresses
    Texts,              \* payloads and commands, by what is found in them
    Serving,            \* protocols whose server listens
    Few, Some, Many,    \* steps of frequency (10, 50, 100)
    MaxCount,           \* bound on the events of a profile
    MaxEvents, MaxLives \* bounds on logged events and on lives of profiles

\* The checks of analyze_payload with a weight, and those without.
Weighted == {"SQL_INJECTION", "RCE", "WEBSHELL", "COMMAND_INJECTION", "LFI_TRAVERSAL", "XSS",
             "SSRF", "ICS_ATTACK", "CRYPTO_MINING", "BOTNET", "DNS_TUNNELING"}
Checks == (Weighted \ {"ICS_ATTACK"}) \cup
          {"NOSQL_INJECTION", "XXE", "SCANNER", "LARGE_PAYLOAD", "BINARY_PAYLOAD"}

ASSUME ScoringAssumption ==
    /\ Texts \subseteq [pattern : BOOLEAN, command : BOOLEAN, found : SUBSET Checks]
    /\ Few \in Nat /\ Some \in Nat /\ Many \in Nat /\ Few <= Some /\ Some <= Many

VARIABLES
    listed,     \* the addresses within the networks of _load_known_bad_ips, for ever
    profiles,   \* SessionManager.profiles: see Blank
    rows,       \* attacker_profiles, Blank when there is no row
    life        \* how often the profile of each address has been forgotten

\* History: the events that were scored and logged; those of connections and of FTP's
\* files are logged without a score.
VARIABLE logged

vars == <<listed, profiles, rows, life, logged>>

\* What get_or_create_profile begins with, and reads of addresses without a profile.
Blank == [count |-> 0, score |-> 0, protocols |-> {}, techniques |-> {}]

Init ==
    /\ listed \in SUBSET Ips
    /\ profiles = [ip \in Ips |-> Blank] /\ rows = [ip \in Ips |-> Blank]
    /\ life = [ip \in Ips |-> 0] /\ logged = {}

-----------------------------------------------------------------------------
(* What the handlers pass to _build_event.                                 *)

NoText == [pattern |-> FALSE, command |-> FALSE, found |-> {}]

\* user: one of the ten common names.  executed: the text is the event's command, too.
Sent(protocol, type, users, texts, executed, extras) ==
    [protocol : {protocol}, type : {type}, user : users, text : texts,
     executed : {executed}, extra : extras]

\* Logins carry no payload: of what is typed only the name counts.
Logins ==
    Sent("SSH", "AUTH_ATTEMPT", BOOLEAN, {NoText}, FALSE,
         {{"SSH_AUTH_ATTEMPT"}, {"SSH_AUTH_ATTEMPT", "SSH_BRUTE_FORCE"}})
    \cup Sent("FTP", "AUTH_PASS", BOOLEAN, {NoText}, FALSE, {{"FTP_AUTH"}})
    \cup Sent("MYSQL", "AUTH_ATTEMPT", BOOLEAN, {NoText}, FALSE, {{"MYSQL_AUTH"}})

Commands ==
    Sent("SSH", "COMMAND", {FALSE}, Texts, TRUE, {{"SSH_COMMAND"}})
    \cup Sent("REDIS", "COMMAND", {FALSE}, Texts, TRUE, {{"REDIS_UNAUTH"}})

\* Names that are long or have many dots are taken for a tunnel.
Queries ==
    Sent("DNS", "DNS_QUERY", {FALSE}, Texts, TRUE,
         {{"SNMP_ENUM"}, {"DNS_TUNNELING", "SNMP_ENUM"}})
    \cup Sent("DNS", "DNS_QUERY_UDP", {FALSE}, Texts, TRUE, {{}, {"DNS_TUNNELING"}})

Requests ==
    Sent("HTTP", "HTTP_REQUEST", {FALSE}, Texts, FALSE, {{}})
    \cup Sent("WS", "WS_MESSAGE", {FALSE}, Texts, FALSE, {{}})
    \cup Sent("SNMP", "SNMP_REQUEST", {FALSE}, Texts, FALSE, {{"SNMP_ENUM"}})

Mails == Sent("SMTP", "MAIL_DATA", {FALSE}, Texts, FALSE, {{}})

Served(messages) == {e \in messages : e.protocol \in Serving}

\* Those that are entered in the profile of the address, and those that are not.
Profiled == Served(Logins \cup Commands \cup Queries \cup Requests)
Unprofiled == Served(Mails)

-----------------------------------------------------------------------------
(* map_mitre_techniques.  XXE, NOSQL and SQL injection are one technique,  *)
(* as are the three logins by password; it is listed once.                 *)

Technique ==
    [SSH_BRUTE_FORCE |-> "T1110.001", SSH_CREDENTIAL_STUFFING |-> "T1110.004",
     SSH_AUTH_ATTEMPT |-> "T1078", SSH_COMMAND |-> "T1059.004", SQL_INJECTION |-> "T1190",
     XSS |-> "T1059.007", LFI_TRAVERSAL |-> "T1083", COMMAND_INJECTION |-> "T1059",
     SSRF |-> "T1090", RCE |-> "T1203", WEBSHELL |-> "T1505.003", SCANNER |-> "T1595",
     CRYPTO_MINING |-> "T1496", BOTNET |-> "T1583", NOSQL_INJECTION |-> "T1190",
     XXE |-> "T1190", FTP_AUTH |-> "T1110.001", MYSQL_AUTH |-> "T1110.001",
     SMTP_AUTH |-> "T1110.001", REDIS_UNAUTH |-> "T1078.003", ICS_ATTACK |-> "T0855",
     DNS_TUNNELING |-> "T1071.004", SNMP_ENUM |-> "T1046", LARGE_PAYLOAD |-> "T1499",
     BINARY_PAYLOAD |-> "T1027"]

Techniques(e) ==
    {Technique[f] : f \in (e.text.found \cup e.extra \cup {e.type}) \cap DOMAIN Technique}

-----------------------------------------------------------------------------
(* calculate_threat_score.                                                 *)

If(condition, points) == IF condition THEN points ELSE 0

FlagScores(flags) ==
    If("SQL_INJECTION" \in flags, 20) + If("RCE" \in flags, 30) + If("WEBSHELL" \in flags, 30)
    + If("COMMAND_INJECTION" \in flags, 25) + If("LFI_TRAVERSAL" \in flags, 15)
    + If("XSS" \in flags, 10) + If("SSRF" \in flags, 20) + If("ICS_ATTACK" \in flags, 40)
    + If("CRYPTO_MINING" \in flags, 20) + If("BOTNET" \in flags, 25)
    + If("DNS_TUNNELING" \in flags, 20)

\* What the text and the handler's flags add.  A flag that both find counts twice.
Content(e) ==
    If(e.text.pattern, 15) + If(e.executed /\ e.text.command, 10)
    + FlagScores(e.text.found) + FlagScores(e.extra)

\* Slips: each step of frequency adds to the one below, or two are exchanged.
FrequencyAdded(count) == If(count > Many, 20) + If(count > Some, 10) + If(count > Few, 5)
FrequencySwapped(count) ==
    IF count > Many THEN 10 ELSE IF count > Some THEN 20 ELSE If(count > Few, 5)

Frequency(count) ==
    IF count > Many THEN 20 ELSE IF count > Some THEN 10 ELSE If(count > Few, 5)

\* What the address has done before: p is its profile as it was before the event.
Behaviour(p) == Frequency(p.count) + If(Cardinality(p.protocols) > 2, 10)

\* is_tor and is_vpn are never set.
Sum(p, ip, e) == If(e.user, 5) + Behaviour(p) + If(ip \in listed, 30) + Content(e)

\* A slip: nothing limits the sum.
Uncapped(p, ip, e) == Sum(p, ip, e)

Score(p, ip, e) == IF Sum(p, ip, e) > 100 THEN 100 ELSE Sum(p, ip, e)

-----------------------------------------------------------------------------
(* Events and profiles.                                                    *)

Entry(ip, e, profiled) ==
    [ip |-> ip, score |-> Score(profiles[ip], ip, e), techniques |-> Techniques(e),
     content |-> Content(e) > 0, life |-> life[ip], profiled |-> profiled]

\* A slip: the last score replaces the highest one.
UpdatedToLast(p, e, score) ==
    [count |-> p.count + 1, score |-> score,
     protocols |-> p.protocols \cup {e.protocol},
     techniques |-> p.techniques \cup Techniques(e)]

\* update_profile.
Updated(p, e, score) ==
    [count |-> p.count + 1, score |-> IF score > p.score THEN score ELSE p.score,
     protocols |-> p.protocols \cup {e.protocol},
     techniques |-> p.techniques \cup Techniques(e)]

\* upsert_profile writes the profile as it is, or fails and only logs it.
Upsert(ip, p) == rows' = [rows EXCEPT ![ip] = p] \/ rows' = rows

Report(ip, e) ==
    /\ profiles[ip].count < MaxCount /\ Cardinality(logged) < MaxEvents
    /\ logged' = logged \cup {Entry(ip, e, TRUE)}
    /\ profiles' = [profiles EXCEPT ![ip] = Updated(@, e, Score(@, ip, e))]
    /\ Upsert(ip, Updated(profiles[ip], e, Score(profiles[ip], ip, e)))
    /\ UNCHANGED <<listed, life>>

\* The bodies of mails are scored and logged; their handler ends there.
Mail(ip, e) ==
    /\ Cardinality(logged) < MaxEvents
    /\ logged' = logged \cup {Entry(ip, e, FALSE)}
    /\ UNCHANGED <<listed, profiles, rows, life>>

\* A ban on the dashboard and the analysis write the profile there is.
Rewrite(ip) ==
    /\ rows' = [rows EXCEPT ![ip] = profiles[ip]]
    /\ UNCHANGED <<listed, profiles, life, logged>>

\* cleanup_profiles forgets some profiles, a restart all; the rows stay.
Forget(gone) ==
    /\ \A ip \in gone : life[ip] < MaxLives
    /\ profiles' = [ip \in Ips |-> IF ip \in gone THEN Blank ELSE profiles[ip]]
    /\ life' = [ip \in Ips |-> IF ip \in gone THEN life[ip] + 1 ELSE life[ip]]
    /\ UNCHANGED <<listed, rows, logged>>

\* _handle_export_stix, up to its limit of a hundred.
Indicators == {ip \in Ips : rows[ip].score >= 50}

Next ==
    \/ \E ip \in Ips : \E e \in Profiled : Report(ip, e)
    \/ \E ip \in Ips : \E e \in Unprofiled : Mail(ip, e)
    \/ \E ip \in Ips : Rewrite(ip)
    \/ \E gone \in SUBSET Ips \ {{}} : Forget(gone)

Spec == Init /\ [][Next]_vars

-----------------------------------------------------------------------------
Records(r) ==
    /\ DOMAIN r = Ips
    /\ \A ip \in Ips :
          /\ DOMAIN r[ip] = {"count", "score", "protocols", "techniques"}
          /\ r[ip].count \in Nat /\ r[ip].score \in 0 .. 100 /\ IsFiniteSet(r[ip].protocols)

TypeOK ==
    /\ listed \subseteq Ips /\ Records(profiles) /\ Records(rows)
    /\ life \in [Ips -> Nat]
    /\ \A ev \in logged : ev.ip \in Ips /\ ev.score \in 0 .. 100

\* The events of an address that made its profile.
Evidence(ip) == {ev \in logged : ev.ip = ip /\ ev.profiled /\ ev.life = life[ip]}

\* Whatever is forgotten or written in between, a profile has the highest score and
\* the techniques of its events, and what a row says for a ban or an export is the
\* score of an event that was logged.
ProfileSumsUp ==
    \A ip \in Ips :
        /\ profiles[ip].techniques = UNION {ev.techniques : ev \in Evidence(ip)}
        /\ \A ev \in Evidence(ip) : ev.score <= profiles[ip].score
        /\ profiles[ip].score # 0 => \E ev \in Evidence(ip) : ev.score = profiles[ip].score
        /\ rows[ip].score # 0 =>
              \E ev \in logged : ev.ip = ip /\ ev.profiled /\ ev.score = rows[ip].score

\* An address that never sent anything in which the code finds something scores below
\* the threshold of alerts and of the automatic ban (70) however often it comes and
\* over how many protocols, even from a listed network; from another one it is not
\* exported as malicious either.  Logins alone are such: no password attack is
\* alerted or banned.
ContentNeeded ==
    \A ip \in Ips :
        (\A ev \in logged : ev.ip = ip => ~ev.content) =>
            /\ \A ev \in logged : ev.ip = ip => ev.score < 70
            /\ profiles[ip].score < 70 /\ rows[ip].score < 70
            /\ ip \notin listed => ip \notin Indicators

Best    == [ip \in Ips |-> profiles[ip].score]
InTable == [ip \in Ips |-> rows[ip].score]

Standing == INSTANCE Reputation WITH Points <- 0 .. 100, best <- Best, kept <- InTable

\* What makes a score, and which messages are entered, is of no consequence to who
\* reads it: profiles and rows keep the contract that Defense keeps as well.
ImplementsReputation == Standing!ReputationSpec

\* As long as its profile is not forgotten, an address is never scored lower for what
\* it did before: the same message gets the same score or a higher one.
NeverTrusted ==
    \A ip \in Ips : \A e \in Profiled \cup Unprofiled :
        life'[ip] = life[ip] => Score(profiles'[ip], ip, e) >= Score(profiles[ip], ip, e)
SuspicionGrows == [][NeverTrusted]_vars
=============================================================================
