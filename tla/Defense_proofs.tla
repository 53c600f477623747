--------------------------- MODULE Defense_proofs ---------------------------
(***************************************************************************)
(* For any addresses, scores, threshold and limits.  An operation disturbs *)
(* the state of the one address it is about; what a ban, an upsert and a   *)
(* call of iptables do to that address is stated once, and the invariants  *)
(* are proved from it action by action.                                    *)
(***************************************************************************)
EXTENDS Defense, TLAPS

IInv ==
    /\ TypeOK /\ FlagStands /\ WrittenThrough
    /\ FirewallFollows /\ RulesAccounted /\ ScoresEarned /\ AutoBanDeserved
    /\ starts >= 1

\* A process that is down bans nobody.
DownForgets == ~up => banned = {}

LEMMA InitInv == Init => IInv
<1> SUFFICES ASSUME Init PROVE IInv
  OBVIOUS
<1>1. TypeOK
  BY DEF Init, TypeOK
<1>2. FlagStands /\ WrittenThrough /\ ScoresEarned /\ AutoBanDeserved /\ FirewallFollows
  BY DEF Init, FlagStands, WrittenThrough, ScoresEarned, AutoBanDeserved, FirewallFollows
<1>3. RulesAccounted /\ starts >= 1
  BY DEF Init, RulesAccounted
<1> QED BY <1>1, <1>2, <1>3 DEF IInv

-----------------------------------------------------------------------------
(* Profiles and rows.                                                      *)

LEMMA ProfileFacts ==
    ASSUME TypeOK, NEW ip \in Ips
    PROVE  /\ ProfileOf(ip) \in Profile
           /\ Flagged(ProfileOf(ip)) \in Profile
           /\ Flagged(ProfileOf(ip)).flag = TRUE
           /\ Flagged(ProfileOf(ip)).score = ProfileOf(ip).score
           /\ \A s \in Nat :
                 /\ Scored(ProfileOf(ip), s) \in Profile
                 /\ Scored(ProfileOf(ip), s).flag = ProfileOf(ip).flag
                 /\ Scored(ProfileOf(ip), s).score \in {s, ProfileOf(ip).score}
<1>1. ProfileOf(ip) \in Profile
  BY DEF TypeOK, ProfileOf, Blank, Profile
<1> QED BY <1>1 DEF Flagged, Scored, Profile

\* An address's profile becomes p and is written, or its write fails.
Wrote(ip, p) ==
    /\ profiles' = Put(profiles, ip, p)
    /\ Saved(ip)

LEMMA WroteFacts ==
    ASSUME TypeOK, WrittenThrough, NEW ip \in Ips, NEW p \in Profile, Wrote(ip, p)
    PROVE  /\ DOMAIN profiles' \subseteq Ips /\ \A x \in DOMAIN profiles' : profiles'[x] \in Profile
           /\ DOMAIN rows' \subseteq Ips /\ \A x \in DOMAIN rows' : rows'[x] \in Profile
           /\ unsaved' \subseteq Ips /\ faults' \in Nat
           /\ WrittenThrough'
           /\ \A x \in DOMAIN rows' : (x # ip /\ x \in DOMAIN rows /\ rows'[x] = rows[x])
                                      \/ (x = ip /\ rows'[x] = p)
                                      \/ (x \in DOMAIN rows /\ rows'[x] = rows[x])
           /\ DOMAIN profiles' = DOMAIN profiles \cup {ip} /\ profiles'[ip] = p
           /\ \A x \in DOMAIN profiles' \ {ip} : profiles'[x] = profiles[x]
<1>1. /\ DOMAIN profiles' = DOMAIN profiles \cup {ip} /\ profiles'[ip] = p
      /\ \A x \in DOMAIN profiles \ {ip} : profiles'[x] = profiles[x]
  BY DEF Wrote, Put
<1>2. CASE Upserted(ip)
  <2>1. rows' = Put(rows, ip, p) /\ unsaved' = unsaved \ {ip} /\ faults' = faults
    BY <1>1, <1>2 DEF Upserted
  <2>2. /\ DOMAIN rows' = DOMAIN rows \cup {ip} /\ rows'[ip] = p
        /\ \A x \in DOMAIN rows \ {ip} : rows'[x] = rows[x]
    BY <2>1 DEF Put
  <2>3. WrittenThrough'
    BY <1>1, <2>1, <2>2 DEF WrittenThrough
  <2> QED BY <1>1, <2>1, <2>2, <2>3 DEF TypeOK
<1>3. CASE UpsertFailed(ip)
  <2>1. rows' = rows /\ unsaved' = unsaved \cup {ip} /\ faults' \in Nat
    BY <1>3 DEF UpsertFailed, TypeOK
  <2>2. WrittenThrough'
    BY <1>1, <2>1 DEF WrittenThrough
  <2> QED BY <1>1, <2>1, <2>2 DEF TypeOK
<1> QED BY <1>2, <1>3 DEF Wrote, Saved

\* A call of iptables adds a rule for an address or counts as a slip.
LEMMA RuleFacts ==
    ASSUME TypeOK, NEW ip \in Ips, RuleAdded(ip)
    PROVE  /\ rules' \in [Ips -> Nat] /\ slips' \in [Ips -> Nat]
           /\ \A x \in Ips \ {ip} : rules'[x] = rules[x] /\ slips'[x] = slips[x]
           /\ rules'[ip] + slips'[ip] = rules[ip] + slips[ip] + 1
           /\ slips'[ip] = slips[ip] => rules'[ip] = rules[ip] + 1
           /\ slips'[ip] >= slips[ip] /\ rules'[ip] <= rules[ip] + 1
           /\ slips'[ip] = slips[ip] \/ (slips'[ip] = slips[ip] + 1 /\ rules'[ip] = rules[ip])
  BY DEF RuleAdded, RuleFailed, TypeOK

\* A ban, by hand or by the analysis, of one who earned the score in its row.
LEMMA BannedKeeps ==
    ASSUME IInv, NEW ip \in Ips, Banned(ip),
           UNCHANGED <<up, reached, unbans, starts>>,
           todo' \in SUBSET todo, analysis' \in {"asleep", "running", "alerting"}
    PROVE  /\ byHand' \in [Ips -> Nat] /\ autobanned' \in SUBSET Ips => TypeOK'
           /\ FlagStands' /\ WrittenThrough' /\ FirewallFollows' /\ ScoresEarned'
           /\ banned' = banned \cup {ip} /\ RuleAdded(ip)
<1> DEFINE p == Flagged(ProfileOf(ip))
<1>1. TypeOK /\ WrittenThrough
  BY DEF IInv
<1>2. p \in Profile /\ p.flag = TRUE /\ p.score = ProfileOf(ip).score
  BY <1>1, ProfileFacts
<1>3. /\ banned' = banned \cup {ip} /\ RuleAdded(ip) /\ Wrote(ip, p)
      /\ pardoned' = pardoned \ {ip} /\ evicted' = evicted \ {ip}
  BY DEF Banned, Wrote
<1> HIDE DEF p
<1>4. /\ DOMAIN profiles' \subseteq Ips /\ \A x \in DOMAIN profiles' : profiles'[x] \in Profile
      /\ DOMAIN rows' \subseteq Ips /\ \A x \in DOMAIN rows' : rows'[x] \in Profile
      /\ unsaved' \subseteq Ips /\ faults' \in Nat
      /\ WrittenThrough'
      /\ \A x \in DOMAIN rows' : (x # ip /\ x \in DOMAIN rows /\ rows'[x] = rows[x])
                                 \/ (x = ip /\ rows'[x] = p)
                                 \/ (x \in DOMAIN rows /\ rows'[x] = rows[x])
      /\ DOMAIN profiles' = DOMAIN profiles \cup {ip} /\ profiles'[ip] = p
      /\ \A x \in DOMAIN profiles' \ {ip} : profiles'[x] = profiles[x]
  BY <1>1, <1>2, <1>3, WroteFacts
<1>5. rules' \in [Ips -> Nat] /\ slips' \in [Ips -> Nat]
  BY <1>1, <1>3, RuleFacts
<1>6. ASSUME byHand' \in [Ips -> Nat], autobanned' \in SUBSET Ips PROVE TypeOK'
  BY <1>1, <1>3, <1>4, <1>5, <1>6 DEF TypeOK
<1>7. FlagStands'
  BY <1>2, <1>3, <1>4 DEF IInv, FlagStands
<1>8. FirewallFollows'
  <2> SUFFICES ASSUME NEW x \in banned', slips'[x] = 0 PROVE rules'[x] > 0
    BY DEF FirewallFollows
  <2>1. CASE x = ip
    <3>1. slips[ip] \in Nat /\ rules[ip] \in Nat /\ slips'[ip] = 0
      BY <1>1, <2>1 DEF TypeOK
    <3>2. slips'[ip] = slips[ip] \/ slips'[ip] = slips[ip] + 1
      BY <1>1, <1>3, RuleFacts
    <3>3. slips'[ip] = slips[ip] => rules'[ip] = rules[ip] + 1
      BY <1>1, <1>3, RuleFacts
    <3> QED BY <2>1, <3>1, <3>2, <3>3
  <2>2. CASE x # ip
    <3>1. x \in banned /\ x \in Ips
      BY <1>1, <1>3, <2>2 DEF TypeOK
    <3>2. rules'[x] = rules[x] /\ slips'[x] = slips[x]
      BY <1>1, <1>3, <2>2, <3>1, RuleFacts
    <3> QED BY <3>1, <3>2 DEF IInv, FirewallFollows
  <2> QED BY <2>1, <2>2
<1>9. ScoresEarned'
  <2>1. p.score >= Threshold => ip \in reached
    BY <1>2, DefenseAssumption DEF IInv, ScoresEarned, ProfileOf, Blank
  <2>2. \A x \in DOMAIN profiles' : profiles'[x].score >= Threshold => x \in reached'
    BY <1>4, <2>1 DEF IInv, ScoresEarned
  <2>3. \A x \in DOMAIN rows' : rows'[x].score >= Threshold => x \in reached'
    BY <1>4, <2>1 DEF IInv, ScoresEarned
  <2>4. todo' \subseteq reached'
    BY DEF IInv, ScoresEarned
  <2> QED BY <2>2, <2>3, <2>4 DEF ScoresEarned
<1> QED BY <1>3, <1>4, <1>6, <1>7, <1>8, <1>9

-----------------------------------------------------------------------------
(* Every step keeps the invariant.                                         *)

LEMMA HandlerStep ==
    ASSUME IInv, NEW ip \in Ips, (\E s \in Scores : Report(ip, s)) \/ Glimpse(ip)
    PROVE  IInv'
<1> USE DefenseAssumption
<1>1. ASSUME NEW s \in Scores, Report(ip, s) PROVE IInv'
  <2> DEFINE p == Scored(ProfileOf(ip), s)
  <2>1. TypeOK /\ WrittenThrough /\ s \in Nat
    BY DEF IInv
  <2>2. /\ p \in Profile /\ p.flag = ProfileOf(ip).flag
        /\ p.score = s \/ p.score = ProfileOf(ip).score
    BY <2>1, ProfileFacts
  <2>3. /\ Wrote(ip, p)
        /\ reached' = IF s >= Threshold THEN reached \cup {ip} ELSE reached
        /\ UNCHANGED <<up, banned, rules, analysis, todo, autobanned, pardoned, evicted,
                       byHand, slips, unbans, starts>>
    BY <1>1 DEF Report, Wrote
  <2> HIDE DEF p
  <2>4. /\ DOMAIN profiles' \subseteq Ips /\ \A x \in DOMAIN profiles' : profiles'[x] \in Profile
        /\ DOMAIN rows' \subseteq Ips /\ \A x \in DOMAIN rows' : rows'[x] \in Profile
        /\ unsaved' \subseteq Ips /\ faults' \in Nat
        /\ WrittenThrough'
        /\ \A x \in DOMAIN rows' : (x # ip /\ x \in DOMAIN rows /\ rows'[x] = rows[x])
                                   \/ (x = ip /\ rows'[x] = p)
                                   \/ (x \in DOMAIN rows /\ rows'[x] = rows[x])
        /\ DOMAIN profiles' = DOMAIN profiles \cup {ip} /\ profiles'[ip] = p
        /\ \A x \in DOMAIN profiles' \ {ip} : profiles'[x] = profiles[x]
    BY <2>1, <2>2, <2>3, WroteFacts
  <2>5. TypeOK'
    BY <2>1, <2>3, <2>4 DEF TypeOK
  <2>6. FlagStands'
    <3>1. p.flag => ip \in banned \cup pardoned
      BY <2>2 DEF IInv, FlagStands, ProfileOf, Blank
    <3>2. ip \in (banned \cup pardoned) \ evicted => p.flag
      BY <2>2 DEF IInv, FlagStands, ProfileOf
    <3> QED BY <2>3, <2>4, <3>1, <3>2 DEF IInv, FlagStands
  <2>7. FirewallFollows' /\ RulesAccounted'
    BY <2>3 DEF IInv, FirewallFollows, RulesAccounted
  <2>8. ScoresEarned'
    <3>1. p.score >= Threshold => ip \in reached'
      BY <2>2, <2>3 DEF IInv, ScoresEarned, ProfileOf, Blank
    <3> QED BY <2>3, <2>4, <3>1 DEF IInv, ScoresEarned
  <2>9. AutoBanDeserved' /\ starts' >= 1
    BY <2>3 DEF IInv, AutoBanDeserved
  <2> QED BY <2>4, <2>5, <2>6, <2>7, <2>8, <2>9 DEF IInv
<1>2. CASE Glimpse(ip)
  <2>1. /\ DOMAIN profiles' = DOMAIN profiles \cup {ip} /\ profiles'[ip] = Blank
        /\ \A x \in DOMAIN profiles : profiles'[x] = profiles[x]
        /\ ip \notin DOMAIN profiles
    BY <1>2 DEF Glimpse, Put
  <2>2. UNCHANGED <<up, banned, rows, rules, analysis, todo, history>>
    BY <1>2 DEF Glimpse
  <2>3. Blank \in Profile /\ Blank.score = 0 /\ Blank.flag = FALSE
    BY DEF Blank, Profile
  <2>4. TypeOK'
    <3>1. DOMAIN profiles' \subseteq Ips /\ \A x \in DOMAIN profiles' : profiles'[x] \in Profile
      BY <2>1, <2>3 DEF IInv, TypeOK
    <3> QED BY <2>2, <3>1 DEF IInv, TypeOK, history, counts
  <2>5. ScoresEarned'
    <3>1. \A x \in DOMAIN profiles' : profiles'[x].score >= Threshold => x \in reached
      BY <2>1, <2>3 DEF IInv, ScoresEarned
    <3> QED BY <2>2, <3>1 DEF IInv, ScoresEarned, history
  <2>6. WrittenThrough'
    BY <2>1, <2>2 DEF IInv, WrittenThrough, history
  <2>7. FirewallFollows' /\ RulesAccounted' /\ AutoBanDeserved' /\ starts' >= 1
    BY <2>2 DEF IInv, FirewallFollows, RulesAccounted, AutoBanDeserved, history, counts
  <2>8. FlagStands'
    <3>1. \A x \in DOMAIN profiles' : profiles'[x].flag => x \in banned \cup pardoned
      BY <2>1, <2>3 DEF IInv, FlagStands
    <3>2. \A x \in (banned \cup pardoned) \ evicted : x \in DOMAIN profiles' /\ profiles'[x].flag
      BY <2>1 DEF IInv, FlagStands
    <3> QED BY <2>2, <3>1, <3>2 DEF FlagStands, history
  <2> QED BY <2>4, <2>5, <2>6, <2>7, <2>8 DEF IInv
<1> QED BY <1>1, <1>2

LEMMA DashboardStep ==
    ASSUME IInv, NEW ip \in Ips, HandleBan(ip) \/ HandleUnban(ip)
    PROVE  IInv'
<1>0. TypeOK
  BY DEF IInv
<1>1. CASE HandleBan(ip)
  <2>1. /\ Banned(ip) /\ byHand' = [byHand EXCEPT ![ip] = @ + 1]
        /\ UNCHANGED <<up, analysis, todo, reached, autobanned, unbans, starts>>
    BY <1>1 DEF HandleBan
  <2>2. todo' \in SUBSET todo /\ analysis' \in {"asleep", "running", "alerting"}
    BY <1>0, <2>1 DEF TypeOK
  <2>3. byHand' \in [Ips -> Nat] /\ autobanned' \in SUBSET Ips
    BY <1>0, <2>1 DEF TypeOK
  <2>4. /\ TypeOK' /\ FlagStands' /\ WrittenThrough' /\ FirewallFollows' /\ ScoresEarned'
        /\ banned' = banned \cup {ip} /\ RuleAdded(ip)
    BY <2>1, <2>2, <2>3, BannedKeeps
  <2>5. RulesAccounted'
    <3> SUFFICES ASSUME NEW x \in Ips
                 PROVE rules'[x] <= byHand'[x] + slips'[x] + (starts' - 1)
                                    + (IF x \in banned' \/ ~up' THEN 1 ELSE 0)
      BY DEF RulesAccounted
    <3>1. rules[x] <= byHand[x] + slips[x] + (starts - 1) + (IF x \in banned \/ ~up THEN 1 ELSE 0)
      BY DEF IInv, RulesAccounted
    <3>2. /\ rules[x] \in Nat /\ byHand[x] \in Nat /\ slips[x] \in Nat /\ starts \in Nat
          /\ rules'[x] \in Nat /\ slips'[x] \in Nat
      BY <1>0, <2>4 DEF TypeOK
    <3>3. CASE x = ip
      <4>1. rules'[x] <= rules[x] + 1 /\ slips'[x] >= slips[x]
        BY <1>0, <2>4, <3>3, RuleFacts
      <4>2. byHand'[x] = byHand[x] + 1 /\ x \in banned'
        BY <1>0, <2>1, <2>4, <3>3 DEF TypeOK
      <4> QED BY <2>1, <3>1, <3>2, <4>1, <4>2
    <3>4. CASE x # ip
      <4>1. rules'[x] = rules[x] /\ slips'[x] = slips[x]
        BY <1>0, <2>4, <3>4, RuleFacts
      <4>2. byHand'[x] = byHand[x] /\ (x \in banned' <=> x \in banned)
        BY <1>0, <2>1, <2>4, <3>4 DEF TypeOK
      <4> QED BY <2>1, <3>1, <3>2, <4>1, <4>2
    <3> QED BY <3>3, <3>4
  <2>6. AutoBanDeserved' /\ starts' >= 1
    BY <2>1 DEF IInv, AutoBanDeserved
  <2> QED BY <2>4, <2>5, <2>6 DEF IInv
<1>2. CASE HandleUnban(ip)
  <2>1. /\ banned' = banned \ {ip} /\ pardoned' = pardoned \cup ({ip} \cap banned) /\ RuleRemoved(ip)
        /\ unbans' = unbans + 1
        /\ UNCHANGED <<up, profiles, rows, analysis, todo, reached, autobanned, evicted,
                       unsaved, byHand, faults, starts>>
    BY <1>2 DEF HandleUnban
  <2>2. /\ rules' \in [Ips -> Nat] /\ slips' \in [Ips -> Nat]
        /\ \A x \in Ips \ {ip} : rules'[x] = rules[x] /\ slips'[x] = slips[x]
        /\ \/ rules'[ip] = (IF rules[ip] > 0 THEN rules[ip] - 1 ELSE 0) /\ slips'[ip] = slips[ip]
           \/ rules'[ip] = rules[ip] /\ slips'[ip] = slips[ip] + 1
    BY <1>0, <2>1 DEF RuleRemoved, RuleFailed, TypeOK
  <2>3. TypeOK'
    BY <1>0, <2>1, <2>2 DEF TypeOK
  <2>4. WrittenThrough' /\ ScoresEarned' /\ AutoBanDeserved' /\ starts' >= 1
    BY <2>1 DEF IInv, WrittenThrough, ScoresEarned, AutoBanDeserved
  <2>7. FlagStands'
    BY <2>1 DEF IInv, FlagStands
  <2>5. FirewallFollows'
    BY <1>0, <2>1, <2>2 DEF IInv, FirewallFollows, TypeOK
  <2>6. RulesAccounted'
    <3> SUFFICES ASSUME NEW x \in Ips
                 PROVE rules'[x] <= byHand'[x] + slips'[x] + (starts' - 1)
                                    + (IF x \in banned' \/ ~up' THEN 1 ELSE 0)
      BY DEF RulesAccounted
    <3>1. rules[x] <= byHand[x] + slips[x] + (starts - 1) + (IF x \in banned \/ ~up THEN 1 ELSE 0)
      BY DEF IInv, RulesAccounted
    <3>2. /\ rules[x] \in Nat /\ byHand[x] \in Nat /\ slips[x] \in Nat /\ starts \in Nat /\ starts >= 1
      BY <1>0 DEF TypeOK, IInv
    <3>3. CASE x = ip
      <4>1. CASE rules'[ip] = rules[ip] /\ slips'[ip] = slips[ip] + 1
        BY <2>1, <3>1, <3>2, <3>3, <4>1
      <4>2. CASE rules'[ip] = (IF rules[ip] > 0 THEN rules[ip] - 1 ELSE 0) /\ slips'[ip] = slips[ip]
        BY <2>1, <3>1, <3>2, <3>3, <4>2
      <4> QED BY <2>2, <4>1, <4>2
    <3>4. CASE x # ip
      <4>1. rules'[x] = rules[x] /\ slips'[x] = slips[x] /\ (x \in banned' <=> x \in banned)
        BY <2>1, <2>2, <3>4
      <4> QED BY <2>1, <3>1, <3>2, <4>1
    <3> QED BY <3>3, <3>4
  <2> QED BY <2>3, <2>4, <2>5, <2>6, <2>7 DEF IInv
<1> QED BY <1>1, <1>2

LEMMA AnalysisStep == ASSUME IInv, Analysis PROVE IInv'
<1>0. TypeOK
  BY DEF IInv
<1>1. CASE Wake
  <2>1. todo' = HighThreat /\ analysis' = "running" /\ UNCHANGED <<up, memory, rows, rules, history>>
    BY <1>1 DEF Wake
  <2>2. TypeOK'
    BY <1>0, <2>1 DEF TypeOK, HighThreat, memory, history, counts
  <2>3. ScoresEarned'
    BY <2>1 DEF IInv, ScoresEarned, HighThreat, memory, history
  <2>4. FlagStands' /\ WrittenThrough' /\ FirewallFollows' /\ RulesAccounted'
    BY <2>1 DEF IInv, FlagStands, WrittenThrough, FirewallFollows, RulesAccounted,
                memory, history, counts
  <2>5. AutoBanDeserved' /\ starts' >= 1
    BY <2>1 DEF IInv, AutoBanDeserved, history, counts
  <2> QED BY <2>2, <2>3, <2>4, <2>5 DEF IInv
<1>2. ASSUME NEW ip \in Ips, AutoBan(ip) PROVE IInv'
  <2>1. /\ up /\ ip \in todo /\ ip \notin banned
        /\ Banned(ip) /\ autobanned' = autobanned \cup {ip}
        /\ todo' \in SUBSET todo /\ analysis' \in {"asleep", "running", "alerting"}
        /\ UNCHANGED <<up, reached, byHand, unbans, starts>>
    BY <1>2 DEF AutoBan
  <2>2. byHand' \in [Ips -> Nat] /\ autobanned' \in SUBSET Ips
    BY <1>0, <2>1 DEF TypeOK
  <2>3. /\ TypeOK' /\ FlagStands' /\ WrittenThrough' /\ FirewallFollows' /\ ScoresEarned'
        /\ banned' = banned \cup {ip} /\ RuleAdded(ip)
    BY <2>1, <2>2, BannedKeeps
  <2>4. RulesAccounted'
    <3> SUFFICES ASSUME NEW x \in Ips
                 PROVE rules'[x] <= byHand'[x] + slips'[x] + (starts' - 1)
                                    + (IF x \in banned' \/ ~up' THEN 1 ELSE 0)
      BY DEF RulesAccounted
    <3>1. rules[x] <= byHand[x] + slips[x] + (starts - 1) + (IF x \in banned \/ ~up THEN 1 ELSE 0)
      BY DEF IInv, RulesAccounted
    <3>2. /\ rules[x] \in Nat /\ byHand[x] \in Nat /\ slips[x] \in Nat /\ starts \in Nat
          /\ rules'[x] \in Nat /\ slips'[x] \in Nat
      BY <1>0, <2>3 DEF TypeOK
    <3>3. CASE x = ip
      <4>1. rules'[x] <= rules[x] + 1 /\ slips'[x] >= slips[x]
        BY <1>0, <2>3, <3>3, RuleFacts
      <4> QED BY <2>1, <2>3, <3>1, <3>2, <3>3, <4>1
    <3>4. CASE x # ip
      <4>1. rules'[x] = rules[x] /\ slips'[x] = slips[x]
        BY <1>0, <2>3, <3>4, RuleFacts
      <4>2. x \in banned' <=> x \in banned
        BY <2>3, <3>4
      <4> QED BY <2>1, <3>1, <3>2, <4>1, <4>2
    <3> QED BY <3>3, <3>4
  <2>5. AutoBanDeserved' /\ starts' >= 1
    BY <2>1 DEF IInv, AutoBanDeserved, ScoresEarned
  <2> QED BY <2>3, <2>4, <2>5 DEF IInv
<1>3. CASE (\E ip \in Ips : SkipBanned(ip)) \/ Alerted \/ EndRound
  <2>1. /\ todo' \in SUBSET todo /\ analysis' \in {"asleep", "running", "alerting"}
        /\ UNCHANGED <<up, memory, rows, rules, history>>
    BY <1>0, <1>3 DEF SkipBanned, Alerted, EndRound, TypeOK
  <2>2. TypeOK'
    BY <1>0, <2>1 DEF TypeOK, memory, history, counts
  <2>3. ScoresEarned' /\ FlagStands' /\ WrittenThrough'
    BY <2>1 DEF IInv, ScoresEarned, FlagStands, WrittenThrough, memory, history
  <2>4. FirewallFollows' /\ RulesAccounted' /\ AutoBanDeserved' /\ starts' >= 1
    BY <2>1 DEF IInv, FirewallFollows, RulesAccounted, AutoBanDeserved, memory, history, counts
  <2> QED BY <2>2, <2>3, <2>4 DEF IInv
<1> QED BY <1>1, <1>2, <1>3 DEF Analysis

LEMMA CleanupStep == ASSUME IInv, CleanupProfiles PROVE IInv'
<1>0. TypeOK
  BY DEF IInv
<1>1. PICK gone \in SUBSET DOMAIN profiles :
        profiles' = Without(profiles, gone) /\ evicted' = evicted \cup (gone \cap (banned \cup pardoned))
  BY DEF CleanupProfiles
<1>2. UNCHANGED <<up, banned, rows, rules, analysis, todo, reached, autobanned, pardoned,
                  unsaved, byHand, slips, counts>>
  BY DEF CleanupProfiles
<1>3. DOMAIN profiles' = DOMAIN profiles \ gone /\ \A x \in DOMAIN profiles' : profiles'[x] = profiles[x]
  BY <1>1 DEF Without
<1>4. TypeOK'
  BY <1>0, <1>1, <1>2, <1>3 DEF TypeOK, counts
<1>5. FlagStands'
  BY <1>1, <1>2, <1>3 DEF IInv, FlagStands
<1>6. WrittenThrough' /\ ScoresEarned'
  BY <1>2, <1>3 DEF IInv, WrittenThrough, ScoresEarned
<1>7. FirewallFollows' /\ RulesAccounted' /\ AutoBanDeserved' /\ starts' >= 1
  BY <1>2 DEF IInv, FirewallFollows, RulesAccounted, AutoBanDeserved, counts
<1> QED BY <1>4, <1>5, <1>6, <1>7 DEF IInv

LEMMA ProcessStep == ASSUME IInv, DownForgets, Stop \/ Restart PROVE IInv'
<1>0. TypeOK
  BY DEF IInv
<1>1. CASE Stop
  <2>1. /\ up' = FALSE /\ banned' = {} /\ DOMAIN profiles' = {} /\ analysis' = "asleep" /\ todo' = {}
        /\ pardoned' = {} /\ evicted' = {}
        /\ UNCHANGED <<rows, rules, reached, autobanned, unsaved, byHand, slips, counts>>
    BY <1>1 DEF Stop
  <2>2. TypeOK'
    BY <1>0, <2>1 DEF TypeOK, counts
  <2>3. FlagStands' /\ WrittenThrough' /\ FirewallFollows' /\ ScoresEarned'
    BY <2>1 DEF IInv, FlagStands, WrittenThrough, FirewallFollows, ScoresEarned
  <2>4. RulesAccounted'
    <3> SUFFICES ASSUME NEW x \in Ips
                 PROVE rules[x] <= byHand[x] + slips[x] + (starts - 1) + 1
      BY <2>1 DEF RulesAccounted, counts
    <3>1. rules[x] <= byHand[x] + slips[x] + (starts - 1) + (IF x \in banned \/ ~up THEN 1 ELSE 0)
      BY DEF IInv, RulesAccounted
    <3>2. rules[x] \in Nat /\ byHand[x] \in Nat /\ slips[x] \in Nat /\ starts \in Nat
      BY <1>0 DEF TypeOK
    <3> QED BY <3>1, <3>2
  <2>5. AutoBanDeserved' /\ starts' >= 1
    BY <2>1 DEF IInv, AutoBanDeserved, counts
  <2> QED BY <2>2, <2>3, <2>4, <2>5 DEF IInv
<1>2. CASE Restart
  <2>1. /\ ~up /\ up' = TRUE /\ rules' \in {rules, [ip \in Ips |-> 0]} /\ starts' = starts + 1
        /\ UNCHANGED <<banned, profiles, rows, analysis, todo, reached, autobanned, pardoned,
                       evicted, unsaved, byHand, slips, unbans, faults>>
    BY <1>2 DEF Restart, memory
  <2>2. TypeOK' /\ starts' >= 1
    BY <1>0, <2>1 DEF TypeOK, IInv
  <2>3. FlagStands' /\ WrittenThrough' /\ ScoresEarned' /\ AutoBanDeserved'
    BY <2>1 DEF IInv, FlagStands, WrittenThrough, ScoresEarned, AutoBanDeserved
  <2>4. FirewallFollows'
    BY <2>1 DEF IInv, FirewallFollows, DownForgets
  <2>5. RulesAccounted'
    <3> SUFFICES ASSUME NEW x \in Ips
                 PROVE rules'[x] <= byHand[x] + slips[x] + starts + (IF x \in banned THEN 1 ELSE 0)
      BY <1>0, <2>1 DEF RulesAccounted, TypeOK
    <3>1. rules[x] <= byHand[x] + slips[x] + (starts - 1) + 1
      BY <2>1 DEF IInv, RulesAccounted
    <3>2. rules[x] \in Nat /\ byHand[x] \in Nat /\ slips[x] \in Nat /\ starts \in Nat
      BY <1>0 DEF TypeOK
    <3>3. rules'[x] = rules[x] \/ rules'[x] = 0
      BY <2>1
    <3> QED BY <3>1, <3>2, <3>3
  <2> QED BY <2>2, <2>3, <2>4, <2>5 DEF IInv
<1> QED BY <1>1, <1>2

-----------------------------------------------------------------------------
(* Theorems.                                                               *)

\* The inductive invariant of profiles, table, bans and rules.
THEOREM Safety == Spec => []IInv
<1>1. IInv /\ DownForgets /\ [Next]_vars => IInv'
  <2> SUFFICES ASSUME IInv, DownForgets, [Next]_vars PROVE IInv'
    OBVIOUS
  <2>1. CASE UNCHANGED vars
    <3>1. TypeOK' /\ FlagStands' /\ WrittenThrough' /\ ScoresEarned'
      BY <2>1 DEF IInv, TypeOK, FlagStands, WrittenThrough, ScoresEarned, vars, memory, history, counts
    <3>2. FirewallFollows' /\ RulesAccounted' /\ AutoBanDeserved' /\ starts' >= 1
      BY <2>1 DEF IInv, FirewallFollows, RulesAccounted, AutoBanDeserved, vars, memory, history, counts
    <3> QED BY <3>1, <3>2 DEF IInv
  <2> QED BY <2>1, HandlerStep, DashboardStep, AnalysisStep, CleanupStep, ProcessStep DEF Next
<1>2. DownForgets /\ [Next]_vars => DownForgets'
  BY DEF DownForgets, Next, Report, Glimpse, HandleBan, HandleUnban, Analysis, Wake, AutoBan,
         SkipBanned, Alerted, EndRound, CleanupProfiles, Stop, Restart, Free, vars, memory
<1>3. Init => DownForgets
  BY DEF Init, DownForgets
<1> QED BY <1>1, <1>2, <1>3, InitInv, PTL DEF Spec

\* Types.
THEOREM TypeCorrect == Spec => []TypeOK
<1>1. IInv => TypeOK
  BY DEF IInv
<1> QED BY <1>1, Safety, PTL

\* Flag and ban list differ by a pardon or an eviction only, and a flag that is written
\* keeps the analysis from whom an operator unbanned.
THEOREM FlagIsExplained == Spec => []FlagExplained
<1>1. IInv => FlagExplained
  <2> SUFFICES ASSUME IInv, NEW ip \in pardoned \ (evicted \cup unsaved)
               PROVE  ip \notin HighThreat
    BY DEF IInv, FlagExplained
  <2>1. ip \in DOMAIN profiles /\ profiles[ip].flag
    BY DEF IInv, FlagStands
  <2>2. profiles[ip] # Blank
    BY <2>1 DEF Blank
  <2>3. ip \in DOMAIN rows /\ rows[ip] = profiles[ip]
    BY <2>1, <2>2 DEF IInv, WrittenThrough
  <2> QED BY <2>1, <2>3 DEF HighThreat
<1> QED BY <1>1, Safety, PTL

\* The table shows what the profiles in memory hold.
THEOREM TableIsWrittenThrough == Spec => []WrittenThrough
<1>1. IInv => WrittenThrough
  BY DEF IInv
<1> QED BY <1>1, Safety, PTL

\* Banned addresses are dropped, unless iptables failed.
THEOREM BannedAreDropped == Spec => []FirewallFollows
<1>1. IInv => FirewallFollows
  BY DEF IInv
<1> QED BY <1>1, Safety, PTL

\* Rules do not pile up.
THEOREM RulesAreBounded == Spec => []RulesBounded
<1>1. IInv => RulesBounded
  <2> SUFFICES ASSUME IInv, NEW x \in Ips PROVE rules[x] <= byHand[x] + slips[x] + starts
    BY DEF RulesBounded
  <2>1. rules[x] \in Nat /\ byHand[x] \in Nat /\ slips[x] \in Nat /\ starts \in Nat
    BY DEF IInv, TypeOK
  <2>2. rules[x] <= byHand[x] + slips[x] + (starts - 1) + (IF x \in banned \/ ~up THEN 1 ELSE 0)
    BY DEF IInv, RulesAccounted
  <2> QED BY <2>1, <2>2
<1> QED BY <1>1, Safety, PTL

\* Automatic bans are earned.
THEOREM AutoBansAreDeserved == Spec => []AutoBanDeserved
<1>1. IInv => AutoBanDeserved
  BY DEF IInv
<1> QED BY <1>1, Safety, PTL

-----------------------------------------------------------------------------
(* Profiles and table implement Reputation.                                *)

\* A profile that is written, or whose write fails.
LEMMA WroteStanding ==
    ASSUME NEW ip \in Ips, NEW p, Wrote(ip, p)
    PROVE  /\ Best' = [Best EXCEPT ![ip] = p.score]
           /\ InTable' \in {InTable, [InTable EXCEPT ![ip] = p.score]}
<1>1. profiles' = Put(profiles, ip, p) /\ rows' \in {rows, Put(rows, ip, p)}
  BY DEF Wrote, Saved, Upserted, UpsertFailed, Put
<1>2. ASSUME NEW f, NEW x \in Ips
      PROVE  Score(Put(f, ip, p), x) = IF x = ip THEN p.score ELSE Score(f, x)
  BY DEF Score, Put
<1>3. Best' = [Best EXCEPT ![ip] = p.score]
  BY <1>1, <1>2 DEF Best
<1>4. InTable' \in {InTable, [InTable EXCEPT ![ip] = p.score]}
  BY <1>1, <1>2 DEF InTable
<1> QED BY <1>3, <1>4

LEMMA ProfileScore == ASSUME NEW ip \in Ips PROVE ProfileOf(ip).score = Best[ip]
BY DEF ProfileOf, Blank, Best, Score

LEMMA ReportRaises ==
    ASSUME TypeOK, NEW ip \in Ips, NEW s \in Scores, Report(ip, s) PROVE Standing!Raise(ip, s)
<1> DEFINE p == Scored(ProfileOf(ip), s)
<1>1. Wrote(ip, p)
  BY DEF Report, Wrote
<1>2. p.score = IF s > Best[ip] THEN s ELSE Best[ip]
  BY ProfileFacts, ProfileScore DEF Scored, Profile
<1> HIDE DEF p
<1>3. Best' = [Best EXCEPT ![ip] = p.score] /\ Best'[ip] = p.score
  BY <1>1, WroteStanding DEF Best
<1>4. InTable' \in {InTable, [InTable EXCEPT ![ip] = p.score]}
  BY <1>1, WroteStanding
<1> QED BY <1>2, <1>3, <1>4 DEF Standing!Raise, Standing!Kept

LEMMA BannedStores ==
    ASSUME TypeOK, NEW ip \in Ips, Banned(ip)
    PROVE  Standing!Store(ip) \/ UNCHANGED <<Best, InTable>>
<1>1. Wrote(ip, Flagged(ProfileOf(ip)))
  BY DEF Banned, Wrote
<1>2. Flagged(ProfileOf(ip)).score = Best[ip]
  BY ProfileFacts, ProfileScore
<1>3. Best' = [Best EXCEPT ![ip] = Best[ip]]
  BY <1>1, <1>2, WroteStanding
<1>4. Best' = Best
  BY <1>3 DEF Best
<1>5. InTable' \in {InTable, [InTable EXCEPT ![ip] = Best[ip]]}
  BY <1>1, <1>2, WroteStanding
<1> QED BY <1>4, <1>5 DEF Standing!Store, Standing!Kept

\* Steps that leave profiles and rows alone.
LEMMA OthersStand == ASSUME UNCHANGED <<profiles, rows>> PROVE UNCHANGED <<Best, InTable>>
BY DEF Best, InTable, Score

LEMMA StandingStep ==
    TypeOK /\ [Next]_vars => [Standing!ReputationNext]_(Standing!reputationVars)
<1> SUFFICES ASSUME TypeOK, [Next]_vars
             PROVE  Standing!ReputationNext \/ UNCHANGED <<Best, InTable>>
  BY DEF Standing!reputationVars
<1>1. ASSUME NEW ip \in Ips, NEW s \in Scores, Report(ip, s)
      PROVE  Standing!ReputationNext
  BY <1>1, ReportRaises DEF Standing!ReputationNext
<1>2. ASSUME NEW ip \in Ips, Banned(ip)
      PROVE  Standing!ReputationNext \/ UNCHANGED <<Best, InTable>>
  BY <1>2, BannedStores DEF Standing!ReputationNext
<1>3. ASSUME NEW ip \in Ips, HandleBan(ip) \/ AutoBan(ip) PROVE Banned(ip)
  BY <1>3 DEF HandleBan, AutoBan
<1>4. ASSUME NEW ip \in Ips, Glimpse(ip) PROVE UNCHANGED <<Best, InTable>>
  <2>1. profiles' = Put(profiles, ip, Blank) /\ ip \notin DOMAIN profiles /\ rows' = rows
    BY <1>4 DEF Glimpse
  <2> QED BY <2>1 DEF Best, InTable, Score, Put, Blank
<1>5. ASSUME NEW ip \in Ips, HandleUnban(ip) \/ SkipBanned(ip) PROVE UNCHANGED <<Best, InTable>>
  BY <1>5, OthersStand DEF HandleUnban, SkipBanned, memory
<1>6. ASSUME Wake \/ Alerted \/ EndRound \/ Restart PROVE UNCHANGED <<Best, InTable>>
  BY <1>6, OthersStand DEF Wake, Alerted, EndRound, Restart, memory
<1>7. CASE CleanupProfiles
  <2>1. PICK gone \in SUBSET DOMAIN profiles : profiles' = Without(profiles, gone)
    BY <1>7 DEF CleanupProfiles
  <2>2. gone \in SUBSET Ips /\ rows' = rows
    BY <1>7, <2>1 DEF CleanupProfiles, TypeOK
  <2>3. Standing!Forget(gone)
    BY <2>1, <2>2 DEF Standing!Forget, Best, InTable, Score, Without
  <2> QED BY <2>2, <2>3 DEF Standing!ReputationNext
<1>8. CASE Stop
  <2>1. profiles' = [ip \in {} |-> Blank] /\ rows' = rows
    BY <1>8 DEF Stop
  <2>2. Standing!Forget(Ips)
    BY <2>1 DEF Standing!Forget, Best, InTable, Score
  <2> QED BY <2>2 DEF Standing!ReputationNext
<1>9. CASE UNCHANGED vars
  BY <1>9, OthersStand DEF vars, memory
<1> QED BY <1>1, <1>2, <1>3, <1>4, <1>5, <1>6, <1>7, <1>8, <1>9 DEF Next, Analysis

LEMMA StandingBegins == Init => Standing!ReputationInit
BY DEF Init, Best, InTable, Score, Standing!ReputationInit

\* Scores belong to the events: no ban, unban, round of the analysis, eviction or
\* restart lowers one but by forgetting the profile, and rows show what profiles said.
THEOREM RefinesReputation == Spec => ImplementsReputation
BY StandingBegins, StandingStep, TypeCorrect, PTL
   DEF Spec, ImplementsReputation, Standing!ReputationSpec

\* The score of a row falls only if nothing of its address is known any more, or the
\* last write for it failed.
FallExplained ==
    \A ip \in DOMAIN rows :
        /\ ip \in DOMAIN rows'
        /\ rows'[ip].score < rows[ip].score => ProfileOf(ip) = Blank \/ ip \in unsaved

\* Where ScoreKept fails: at the first write for an address whose profile was lost,
\* or one whose row could not be written.
THEOREM FallsAreExplained == Spec => [][FallExplained]_vars
<1>1. IInv /\ IInv' /\ [Next]_vars => [FallExplained]_vars
  <2> SUFFICES ASSUME IInv, IInv', Next, NEW ip \in DOMAIN rows
               PROVE  /\ ip \in DOMAIN rows'
                      /\ rows'[ip].score < rows[ip].score => ProfileOf(ip) = Blank \/ ip \in unsaved
    BY DEF FallExplained
  <2>1. ip \in Ips /\ DOMAIN rows \subseteq DOMAIN rows'
    <3>1. ip \in Ips
      BY DEF IInv, TypeOK
    <3>2. ASSUME NEW x \in Ips, Saved(x) PROVE DOMAIN rows \subseteq DOMAIN rows'
      BY <3>2 DEF Saved, Upserted, UpsertFailed, Put
    <3>3. ASSUME NEW x \in Ips, NEW s \in Scores, Report(x, s) PROVE Saved(x)
      BY <3>3 DEF Report
    <3>4. ASSUME NEW x \in Ips, HandleBan(x) \/ AutoBan(x) PROVE Saved(x)
      BY <3>4 DEF HandleBan, AutoBan, Banned
    <3>5. ASSUME NEW x \in Ips, Glimpse(x) \/ HandleUnban(x) \/ SkipBanned(x) PROVE rows' = rows
      BY <3>5 DEF Glimpse, HandleUnban, SkipBanned
    <3>6. ASSUME Wake \/ Alerted \/ EndRound \/ CleanupProfiles \/ Stop \/ Restart PROVE rows' = rows
      BY <3>6 DEF Wake, Alerted, EndRound, CleanupProfiles, Stop, Restart
    <3> QED BY <3>1, <3>2, <3>3, <3>4, <3>5, <3>6 DEF Next, Analysis
  <2>2. ASSUME ProfileOf(ip) # Blank, ip \notin unsaved PROVE ~(rows'[ip].score < rows[ip].score)
    <3>1. Best[ip] = InTable[ip] /\ InTable[ip] = rows[ip].score /\ InTable[ip] \in Nat
      BY <2>1, <2>2 DEF IInv, TypeOK, WrittenThrough, ProfileOf, Best, InTable, Score, Profile
    <3>2. InTable'[ip] = rows'[ip].score
      BY <2>1 DEF InTable, Score
    <3>3. Standing!ReputationNext \/ UNCHANGED <<Best, InTable>>
      BY StandingStep DEF IInv, Standing!reputationVars
    <3>4. InTable' = InTable \/ InTable'[ip] = InTable[ip] \/ InTable'[ip] >= InTable[ip]
      <4>1. ASSUME NEW x \in Ips, NEW s \in Scores, Standing!Raise(x, s)
            PROVE  InTable'[ip] >= InTable[ip]
        <5>1. s \in Nat
          BY DefenseAssumption
        <5>2. x = ip => Best'[x] >= Best[ip]
          BY <2>1, <3>1, <4>1, <5>1 DEF Standing!Raise, Best
        <5>3. InTable' \in {InTable, [InTable EXCEPT ![x] = Best'[x]]}
          BY <4>1 DEF Standing!Raise, Standing!Kept
        <5>4. CASE x = ip
          <6>1. InTable'[ip] = InTable[ip] \/ InTable'[ip] = Best'[ip]
            BY <2>1, <5>3, <5>4 DEF InTable
          <6> QED BY <3>1, <5>2, <5>4, <6>1
        <5>5. CASE x # ip
          <6>1. InTable'[ip] = InTable[ip]
            BY <2>1, <5>3, <5>5 DEF InTable
          <6> QED BY <3>1, <6>1
        <5> QED BY <5>4, <5>5
      <4>2. ASSUME NEW x \in Ips, Standing!Store(x) PROVE InTable'[ip] = InTable[ip]
        BY <2>1, <3>1, <4>2 DEF Standing!Store, Standing!Kept, InTable
      <4>3. ASSUME NEW gone, Standing!Forget(gone) PROVE InTable' = InTable
        BY <4>3 DEF Standing!Forget
      <4> QED BY <3>3, <4>1, <4>2, <4>3 DEF Standing!ReputationNext
    <3>5. rows'[ip].score \in Nat
      BY <2>1 DEF IInv, TypeOK, Profile
    <3> QED BY <3>1, <3>2, <3>4, <3>5
  <2> QED BY <2>1, <2>2
<1> QED BY <1>1, Safety, PTL DEF Spec
=============================================================================
