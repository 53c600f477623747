------------------------------ MODULE Defense -------------------------------
(***************************************************************************)
(* How attackers come to be banned.  Every event that a handler reports    *)
(* raises the profile of its IP address (SessionManager.profiles), which   *)
(* is written through to the table attacker_profiles.  Once a minute       *)
(* periodic_threat_analysis reads that table and bans (ActiveDefense) who  *)
(* reached the threshold; the dashboard bans and unbans by hand; bans are  *)
(* enforced by rules of iptables.  Profiles and bans are in memory, and no *)
(* start of the process loads them; table and rules outlive the process.   *)
(*                                                                         *)
(* All of it runs on the event loop's thread: the code between two awaits  *)
(* is one step.  The analysis gives way only where send_alert waits for a  *)
(* channel, and then goes on with the rows it read before.                 *)
(***************************************************************************)
EXTENDS Integers, FiniteSets

CONSTANTS
    Ips,            \* valid IP addresses
    Scores,         \* what calculate_threat_score returns, within 0 .. 100
    Threshold,      \* of the automatic ban (70)
    MaxProfiles,    \* limit of cleanup_profiles (50000)
    MaxByHand,      \* bound on the dashboard's bans, and on its unbans
    MaxFaults,      \* bound on failures of upsert_profile, of iptables for an address
    MaxStarts       \* bound on starts of the process

ASSUME DefenseAssumption ==
    /\ IsFiniteSet(Ips)
    /\ Scores \subseteq Nat
    /\ Threshold \in Nat \ {0}
    /\ {MaxProfiles, MaxByHand, MaxFaults, MaxStarts} \subseteq Nat

VARIABLES
    up,         \* the process runs
    banned,     \* banned_ips
    profiles,   \* SessionManager.profiles, by IP address
    rows,       \* the table attacker_profiles, by IP address
    rules,      \* how many DROP rules iptables has for each IP address
    analysis,   \* periodic_threat_analysis: "asleep", "running", "alerting"
    todo        \* the rows of high_threat it has still to look at

\* History; no guard but the bounds reads it.
VARIABLES
    reached,    \* who ever had an event that scored the threshold
    autobanned, \* whom the analysis ever banned
    pardoned,   \* banned, then unbanned by hand and not banned again, in this start
    evicted,    \* lost its profile while banned or pardoned, in this start
    unsaved,    \* whose last upsert_profile failed
    byHand,     \* bans by hand of each IP address
    slips,      \* calls of iptables for each IP address that failed
    unbans, faults, starts

memory  == <<banned, profiles>>
counts  == <<unbans, faults, starts>>
history == <<reached, autobanned, pardoned, evicted, unsaved, byHand, slips, counts>>
vars    == <<up, memory, rows, rules, analysis, todo, history>>

\* Of an AttackerProfile: threat_score and is_banned.
Profile == [score : Nat, flag : BOOLEAN]
Blank   == [score |-> 0, flag |-> FALSE]

Put(f, ip, p) == [x \in DOMAIN f \cup {ip} |-> IF x = ip THEN p ELSE f[x]]
Without(f, S) == [x \in DOMAIN f \ S |-> f[x]]

\* get_or_create_profile.
ProfileOf(ip) == IF ip \in DOMAIN profiles THEN profiles[ip] ELSE Blank

\* The loop's thread is free for another task.
Free == up /\ analysis # "running"

Flagged(p)  == [p EXCEPT !.flag = TRUE]
\* A slip: the last score replaces the highest one.
ScoredLast(p, s) == [p EXCEPT !.score = s]

Scored(p, s) == [p EXCEPT !.score = IF s > @ THEN s ELSE @]

-----------------------------------------------------------------------------
(* What an operation does to the table and to iptables.  Either may fail:  *)
(* the code goes on.                                                       *)

\* upsert_profile replaces score and flag of the row by the profile's.
Upserted(ip) ==
    /\ rows' = Put(rows, ip, profiles'[ip])
    /\ unsaved' = unsaved \ {ip}
    /\ UNCHANGED faults

UpsertFailed(ip) ==
    /\ faults < MaxFaults
    /\ faults' = faults + 1
    /\ unsaved' = unsaved \cup {ip}
    /\ UNCHANGED rows

Saved(ip) == Upserted(ip) \/ UpsertFailed(ip)

RuleFailed(ip) ==
    /\ slips[ip] < MaxFaults
    /\ slips' = [slips EXCEPT ![ip] = @ + 1]
    /\ UNCHANGED rules

RuleAdded(ip) ==
    \/ rules' = [rules EXCEPT ![ip] = @ + 1] /\ UNCHANGED slips
    \/ RuleFailed(ip)

RuleRemoved(ip) ==
    \/ rules' = [rules EXCEPT ![ip] = IF @ > 0 THEN @ - 1 ELSE 0] /\ UNCHANGED slips
    \/ RuleFailed(ip)

\* Slips the code could have made in a ban: no upsert_profile follows, or the flag
\* of the profile is forgotten.
BanUnsaved(ip) ==
    /\ banned' = banned \cup {ip}
    /\ profiles' = Put(profiles, ip, Flagged(ProfileOf(ip)))
    /\ pardoned' = pardoned \ {ip} /\ evicted' = evicted \ {ip}
    /\ RuleAdded(ip)
    /\ UNCHANGED <<faults, rows, unsaved>>

BanWithoutFlag(ip) ==
    /\ banned' = banned \cup {ip}
    /\ profiles' = Put(profiles, ip, ProfileOf(ip))
    /\ pardoned' = pardoned \ {ip} /\ evicted' = evicted \ {ip}
    /\ RuleAdded(ip) /\ Saved(ip)

\* A ban: ban_ip, the flag of the profile, upsert_profile.
Banned(ip) ==
    /\ banned' = banned \cup {ip}
    /\ profiles' = Put(profiles, ip, Flagged(ProfileOf(ip)))
    /\ pardoned' = pardoned \ {ip} /\ evicted' = evicted \ {ip}
    /\ RuleAdded(ip) /\ Saved(ip)

Init ==
    /\ up = TRUE
    /\ banned = {} /\ profiles = [ip \in {} |-> Blank]
    /\ rows = [ip \in {} |-> Blank] /\ rules = [ip \in Ips |-> 0]
    /\ analysis = "asleep" /\ todo = {}
    /\ reached = {} /\ autobanned = {} /\ pardoned = {} /\ evicted = {} /\ unsaved = {}
    /\ byHand = [ip \in Ips |-> 0] /\ slips = [ip \in Ips |-> 0]
    /\ unbans = 0 /\ faults = 0 /\ starts = 1

-----------------------------------------------------------------------------
(* The handlers.  Most of them ask neither is_banned nor the rules before  *)
(* they report, and a connection may be older than the ban of its address: *)
(* an event of any address is possible at any time.                        *)

\* _build_event and update_profile, with no await between them.
Report(ip, s) ==
    /\ Free
    /\ profiles' = Put(profiles, ip, Scored(ProfileOf(ip), s))
    /\ reached' = IF s >= Threshold THEN reached \cup {ip} ELSE reached
    /\ Saved(ip)
    /\ UNCHANGED <<up, banned, rules, analysis, todo, autobanned, pardoned, evicted,
                   byHand, slips, unbans, starts>>

\* The body of a mail: _build_event makes a profile, and no update_profile follows.
Glimpse(ip) ==
    /\ Free /\ ip \notin DOMAIN profiles
    /\ profiles' = Put(profiles, ip, Blank)
    /\ UNCHANGED <<up, banned, rows, rules, analysis, todo, history>>

-----------------------------------------------------------------------------
(* The dashboard.                                                          *)

HandleBan(ip) ==
    /\ Free /\ byHand[ip] < MaxByHand
    /\ Banned(ip)
    /\ byHand' = [byHand EXCEPT ![ip] = @ + 1]
    /\ UNCHANGED <<up, analysis, todo, reached, autobanned, unbans, starts>>

\* A slip: the address stays in banned_ips.
UnbanRuleOnly(ip) ==
    /\ Free /\ unbans < MaxByHand
    /\ pardoned' = pardoned \cup ({ip} \cap banned)
    /\ RuleRemoved(ip)
    /\ unbans' = unbans + 1
    /\ UNCHANGED <<up, banned, profiles, rows, analysis, todo, reached, autobanned,
                   evicted, unsaved, byHand, faults, starts>>

\* Only the ban and a rule go: profile and row stay flagged.
HandleUnban(ip) ==
    /\ Free /\ unbans < MaxByHand
    /\ banned' = banned \ {ip}
    /\ pardoned' = pardoned \cup ({ip} \cap banned)
    /\ RuleRemoved(ip)
    /\ unbans' = unbans + 1
    /\ UNCHANGED <<up, profiles, rows, analysis, todo, reached, autobanned, evicted,
                   unsaved, byHand, faults, starts>>

-----------------------------------------------------------------------------
(* periodic_threat_analysis.                                               *)

\* A slip: the query forgets the threshold.
HighThreatAll == {ip \in DOMAIN rows : ~rows[ip].flag}

HighThreat == {ip \in DOMAIN rows : rows[ip].score >= Threshold /\ ~rows[ip].flag}

\* A slip: the try stands around the loop, so that an error of the SELECT ends the
\* task.
WakeOrDie ==
    /\ up /\ analysis = "asleep"
    /\ todo' = HighThreat
    /\ analysis' \in {"running", "dead"}
    /\ UNCHANGED <<up, memory, rows, rules, history>>

\* The minute is over and the table can be read.  (An error of the SELECT is
\* caught: nothing changes until the next minute.)
Wake ==
    /\ up /\ analysis = "asleep"
    /\ todo' = HighThreat
    /\ analysis' = "running"
    /\ UNCHANGED <<up, memory, rows, rules, history>>

\* A slip: the test of is_banned is forgotten.
AutoBanAgain(ip) ==
    /\ up /\ analysis = "running" /\ ip \in todo
    /\ Banned(ip)
    /\ autobanned' = autobanned \cup {ip}
    /\ todo' = todo \ {ip} /\ analysis' = "running"
    /\ UNCHANGED <<up, reached, byHand, unbans, starts>>

\* send_alert gives way only if it is not within its cooldown and has a channel
\* to send to.  An upsert that cannot connect raises, and ends the round.
AutoBan(ip) ==
    /\ up /\ analysis = "running"
    /\ ip \in todo /\ ip \notin banned
    /\ Banned(ip)
    /\ autobanned' = autobanned \cup {ip}
    /\ \/ todo' = todo \ {ip} /\ analysis' \in {"running", "alerting"}
       \/ todo' = {} /\ analysis' = "asleep" /\ ip \in unsaved'
    /\ UNCHANGED <<up, reached, byHand, unbans, starts>>

SkipBanned(ip) ==
    /\ up /\ analysis = "running"
    /\ ip \in todo /\ ip \in banned
    /\ todo' = todo \ {ip}
    /\ UNCHANGED <<up, memory, rows, rules, analysis, history>>

\* Every channel answered, failed or came to its ten seconds.
Alerted ==
    /\ up /\ analysis = "alerting"
    /\ analysis' = "running"
    /\ UNCHANGED <<up, memory, rows, rules, todo, history>>

EndRound ==
    /\ up /\ analysis = "running" /\ todo = {}
    /\ analysis' = "asleep"
    /\ UNCHANGED <<up, memory, rows, rules, todo, history>>

-----------------------------------------------------------------------------
(* cleanup_profiles forgets the profiles seen last the longest ago, which  *)
(* may be those of any addresses.                                          *)

CleanupProfiles ==
    /\ Free /\ Cardinality(DOMAIN profiles) > MaxProfiles
    /\ \E gone \in SUBSET DOMAIN profiles :
          /\ Cardinality(gone) = Cardinality(DOMAIN profiles) - MaxProfiles
          /\ profiles' = Without(profiles, gone)
          /\ evicted' = evicted \cup (gone \cap (banned \cup pardoned))
    /\ UNCHANGED <<up, banned, rows, rules, analysis, todo, reached, autobanned, pardoned,
                   unsaved, byHand, slips, counts>>

-----------------------------------------------------------------------------
(* The process.  The container restarts it (docker-compose.yml), on the    *)
(* host's network: the rules are gone only if the host restarted as well.  *)

Stop ==
    /\ up /\ starts < MaxStarts
    /\ up' = FALSE
    /\ banned' = {} /\ profiles' = [ip \in {} |-> Blank]
    /\ analysis' = "asleep" /\ todo' = {}
    /\ pardoned' = {} /\ evicted' = {}
    /\ UNCHANGED <<rows, rules, reached, autobanned, unsaved, byHand, slips, counts>>

Restart ==
    /\ ~up
    /\ up' = TRUE
    /\ rules' \in {rules, [ip \in Ips |-> 0]}
    /\ starts' = starts + 1
    /\ UNCHANGED <<memory, rows, analysis, todo, reached, autobanned, pardoned, evicted,
                   unsaved, byHand, slips, unbans, faults>>

-----------------------------------------------------------------------------
Analysis ==
    \/ Wake
    \/ \E ip \in Ips : AutoBan(ip) \/ SkipBanned(ip)
    \/ Alerted \/ EndRound

Next ==
    \/ \E ip \in Ips : \/ \E s \in Scores : Report(ip, s)
                       \/ Glimpse(ip)
                       \/ HandleBan(ip) \/ HandleUnban(ip)
    \/ Analysis
    \/ CleanupProfiles
    \/ Stop \/ Restart

Spec == Init /\ [][Next]_vars

\* The analysis sleeps a minute at a time, an alert waits ten seconds at most,
\* and the container restarts the process (restart: unless-stopped).  Nothing is
\* assumed of attackers, operators or the cleanup.
FairSpec == Spec /\ WF_vars(Analysis) /\ WF_vars(Restart)

-----------------------------------------------------------------------------
TypeOK ==
    /\ up \in BOOLEAN
    /\ banned \subseteq Ips
    /\ DOMAIN profiles \subseteq Ips /\ \A ip \in DOMAIN profiles : profiles[ip] \in Profile
    /\ DOMAIN rows \subseteq Ips /\ \A ip \in DOMAIN rows : rows[ip] \in Profile
    /\ rules \in [Ips -> Nat]
    /\ analysis \in {"asleep", "running", "alerting"} /\ todo \subseteq Ips
    /\ {reached, autobanned, pardoned, evicted, unsaved} \subseteq SUBSET Ips
    /\ byHand \in [Ips -> Nat] /\ slips \in [Ips -> Nat]
    /\ {unbans, faults, starts} \subseteq Nat

\* The flag of a profile in memory stands for every ban of this start, those that an
\* unban by hand took back included; only cleanup_profiles loses it.
FlagStands ==
    /\ \A ip \in DOMAIN profiles : profiles[ip].flag => ip \in banned \cup pardoned
    /\ \A ip \in (banned \cup pardoned) \ evicted : ip \in DOMAIN profiles /\ profiles[ip].flag

\* And so, unless the flag is lost or was not written, an address that was unbanned
\* is taken up by no round of the analysis that begins later, whatever it does next:
\* an unban by hand is final.
FlagExplained ==
    /\ FlagStands
    /\ \A ip \in pardoned \ (evicted \cup unsaved) : ip \notin HighThreat

\* The table is written through: the row of an address shows what its profile
\* holds, unless the last write failed; whoever wrote last, handler, analysis or
\* dashboard.
WrittenThrough ==
    \A ip \in DOMAIN profiles :
        profiles[ip] # Blank /\ ip \notin unsaved => ip \in DOMAIN rows /\ rows[ip] = profiles[ip]

\* A banned address is dropped by the firewall, unless iptables failed for it.
FirewallFollows == \A ip \in banned : slips[ip] = 0 => rules[ip] > 0

\* Bans by hand aside, rules do not pile up: an address has one rule for each
\* start of the process at most, although an analysis that was held up goes on
\* with rows that are stale, and a flag may be lost with its profile.
RulesBounded == \A ip \in Ips : rules[ip] <= byHand[ip] + slips[ip] + starts

\* What is inductive.
RulesAccounted ==
    \A ip \in Ips :
        rules[ip] <= byHand[ip] + slips[ip] + (starts - 1) + (IF ip \in banned \/ ~up THEN 1 ELSE 0)

\* Nobody is banned automatically without an event of its own that reached the
\* threshold: not through a stale row, a lost profile or a restart.
AutoBanDeserved == autobanned \subseteq reached

\* What carries it: scores and rows in flight come from events.
ScoresEarned ==
    /\ \A ip \in DOMAIN profiles : profiles[ip].score >= Threshold => ip \in reached
    /\ \A ip \in DOMAIN rows : rows[ip].score >= Threshold => ip \in reached
    /\ todo \subseteq reached

\* What profiles and rows say of each address: 0 if there is none.
Score(f, ip) == IF ip \in DOMAIN f THEN f[ip].score ELSE 0
Best    == [ip \in Ips |-> Score(profiles, ip)]
InTable == [ip \in Ips |-> Score(rows, ip)]

Standing == INSTANCE Reputation WITH Points <- Scores, best <- Best, kept <- InTable

\* Bans, unbans, rounds of the analysis, evictions and restarts leave the scores of
\* profiles and rows to the events: none of them lowers a score but by forgetting the
\* profile, and none writes to the table what the profile does not say.
ImplementsReputation == Standing!ReputationSpec

\* Who stands in the table at the threshold and not flagged as banned is banned
\* in the end, or stands there no more: also when alerts are slow, writes fail and
\* the process restarts.
HighThreatIsBanned ==
    \A ip \in Ips : (ip \in HighThreat) ~> (ip \in banned \/ ip \notin HighThreat)

\* README.md:51 "Per-IP attacker profiling" and :57 "SQLite persistence": what the
\* table says of an attacker is not lost; the score update_profile takes the
\* maximum of does not fall.
ScoreKept ==
    [][\A ip \in DOMAIN rows : ip \in DOMAIN rows' /\ rows'[ip].score >= rows[ip].score]_vars
=============================================================================
