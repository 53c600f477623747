-------------------------- MODULE Honeypots_proofs --------------------------
(***************************************************************************)
(* For any connections, addresses and cooldown: gates hold, credentials    *)
(* can be traced, high scores are alerted and alerts agree with profiles.  *)
(***************************************************************************)
EXTENDS Honeypots, TLAPS

-----------------------------------------------------------------------------
(* The inductive invariant.                                                *)

\* A connection has a protocol from its arrival; before, it left no trace.
Traces ==
    \A c \in Conns :
        /\ protocol[c] = "none" <=> place[c] = "new"
        /\ place[c] = "new" => c \notin creds \cup bannedThen \cup limited /\ \A e \in events : e.conn # c

\* Where only the handlers of some protocols come to.
Ways ==
    \A c \in Conns :
        /\ place[c] = "shell" => protocol[c] = "SSH" /\ c \in creds
        /\ place[c] \in {"reading", "routing", "websocket"} => protocol[c] = "HTTP"
        /\ place[c] \in {"serving", "mail", "greeting"} => protocol[c] \in {"SSH", "FTP", "MYSQL", "SMTP", "REDIS", "DNS"}
        /\ place[c] = "greeting" => protocol[c] \in {"FTP", "REDIS"}

\* A connection whose credentials may be captured without an event of their own
\* has one already.
Begun ==
    \A c \in Conns : place[c] = "routing" \/ protocol[c] = "SMTP" => \E e \in events : e.conn = c

\* Who was turned away stays so.
Away ==
    \A c \in bannedThen \cup limited : protocol[c] \in {"HTTP", "FTP", "SNMP"} => place[c] = "refused"

\* Only an alert starts a cooldown.
CooldownExplained == \A ip \in IPs : ShouldAlert(ip) \/ ip \in alerted

DueAreHot == \A e \in due : peer[e.conn] \in hot

Inv ==
    /\ TypeOK /\ Traces /\ Ways /\ Begun /\ Away /\ DueAreHot /\ CooldownExplained
    /\ GateHolds /\ CredentialsTraceable /\ HighScoresAlerted /\ AlertedAreHot

-----------------------------------------------------------------------------
LEMMA InvInit == ASSUME Init PROVE Inv
<1>1. TypeOK
  BY HoneypotsAssumption DEF Init, TypeOK, HoneypotsAssumption, Places
<1>2. CooldownExplained
  BY HoneypotsAssumption DEF Init, CooldownExplained, ShouldAlert, HoneypotsAssumption
<1> QED BY <1>1, <1>2 DEF Init, Inv, Traces, Ways, Begun, Away, DueAreHot, GateHolds,
                    CredentialsTraceable, HighScoresAlerted, AlertedAreHot

\* Each kind of event, entered for a connection that may speak.
LEMMA EventFacts ==
    ASSUME Inv, NEW c \in Conns, NEW t \in Types, NEW h \in BOOLEAN, NEW e, e = Event(c, t, h),
           \/ Logged(e) /\ (h => t \in Silent)
           \/ Profiled(e) /\ t \in Silent
           \/ Reported(e),
           peer' = peer, alerted \subseteq alerted'
    PROVE  /\ events' = events \cup {e} /\ e \in Events /\ e.conn = c /\ e.type = t
           /\ due' \subseteq events' /\ hot \subseteq hot' /\ hot' \subseteq IPs
           /\ DueAreHot' /\ HighScoresAlerted'
<1>1. e \in Events /\ e.conn = c /\ e.type = t /\ e.high = h
  BY DEF Event, Events
<1>2. /\ events \subseteq Events /\ due \subseteq events /\ hot \subseteq IPs
      /\ peer \in [Conns -> IPs]
  BY DEF Inv, TypeOK
<1>3. events' = events \cup {e}
  BY DEF Logged, Profiled, Reported
<1>4. due' \in {due, due \cup {e}} /\ hot' \in {hot, hot \cup {peer[c]}}
  BY <1>1 DEF Logged, Profiled, Reported
<1>5. due' = due \/ peer[c] \in hot'
  BY <1>1 DEF Logged, Profiled, Reported
<1>6. DueAreHot'
  BY <1>1, <1>4, <1>5 DEF Inv, DueAreHot
<1>7. h /\ t \notin Silent => e \in due'
  BY <1>1 DEF Logged, Profiled, Reported
<1>8. HighScoresAlerted'
  BY <1>1, <1>3, <1>4, <1>7 DEF Inv, HighScoresAlerted
<1> QED BY <1>1, <1>2, <1>3, <1>4, <1>6, <1>8

\* What an arrival leaves alone, and what it has to see to.
LEMMA ArrivalKeeps ==
    ASSUME Inv, NEW c \in Conns, NEW p \in Protocols, NEW next \in Places, Arrives(c, p, next),
           NEW new, events' = events \cup new, new \subseteq Events,
           \A e \in new : e.conn = c /\ e.type # "COMMAND",
           creds' = creds, limited' \in {limited, limited \cup {c}},
           due' \subseteq events', hot \subseteq hot', hot' \subseteq IPs,
           DueAreHot', HighScoresAlerted',
           next \notin {"new", "shell", "routing", "websocket", "mail"},
           next = "reading" => p = "HTTP",
           next = "greeting" => p \in {"FTP", "REDIS"},
           next = "serving" => p \in {"SSH", "MYSQL", "SMTP", "DNS"},
           p = "SMTP" => new # {},
           c \in bannedThen' \cup limited' /\ p \in {"HTTP", "FTP", "SNMP"} => next = "refused" /\ new = {}
    PROVE  Inv'
<1>1. /\ place[c] = "new" /\ place' = [place EXCEPT ![c] = next] /\ protocol' = [protocol EXCEPT ![c] = p]
      /\ bannedThen' \in {bannedThen, bannedThen \cup {c}}
      /\ peer' = peer /\ banned_ips' = banned_ips /\ sinceAlert' = sinceAlert /\ alerted' = alerted
  BY DEF Arrives, At, alerting
<1>2. TypeOK /\ TypeOK'
  <2>1. TypeOK
    BY DEF Inv
  <2> QED BY <1>1, <2>1 DEF TypeOK
<1>3. p # "none" /\ c \notin creds \cup bannedThen \cup limited /\ \A e \in events : e.conn # c
  BY <1>1 DEF Inv, Traces, Protocols
<1>4. /\ place' \in [Conns -> Places] /\ place'[c] = next /\ protocol'[c] = p
      /\ \A d \in Conns \ {c} : place'[d] = place[d] /\ protocol'[d] = protocol[d]
  BY <1>1, <1>2 DEF TypeOK
<1>5. Traces'
  BY <1>1, <1>3, <1>4 DEF Inv, Traces
<1>6. Ways'
  BY <1>1, <1>3, <1>4 DEF Inv, Ways
<1>7. Begun'
  <2> SUFFICES ASSUME NEW d \in Conns, place'[d] = "routing" \/ protocol'[d] = "SMTP"
               PROVE  \E e \in events' : e.conn = d
    BY DEF Begun
  <2>1. CASE d = c
    BY <1>4, <2>1
  <2>2. CASE d # c
    BY <1>4, <2>2 DEF Inv, Begun
  <2> QED BY <2>1, <2>2
<1>8. Away'
  BY <1>1, <1>2, <1>4 DEF Inv, Away, TypeOK
<1>9. GateHolds'
  <2> SUFFICES ASSUME NEW d \in bannedThen' \cup limited', protocol'[d] \in {"HTTP", "FTP", "SNMP"}
               PROVE  d \notin creds /\ \A e \in events' : e.conn # d
    BY DEF GateHolds
  <2>1. CASE d = c
    BY <1>3, <1>4, <2>1
  <2>2. CASE d # c
    <3>1. d \in bannedThen \cup limited /\ d \in Conns
      BY <1>1, <1>2, <2>2 DEF TypeOK
    <3> QED BY <1>4, <2>2, <3>1 DEF Inv, GateHolds
  <2> QED BY <2>1, <2>2
<1>10. CredentialsTraceable'
  <2>1. \A e \in events : e.conn \in Conns
    BY <1>2 DEF TypeOK, Events
  <2>2. \A d \in creds : \E e \in events' : e.conn = d
    BY DEF Inv, CredentialsTraceable
  <2>3. \A e \in events' : e.type = "COMMAND" /\ protocol'[e.conn] = "SSH" => e.conn \in creds
    BY <1>3, <1>4, <2>1 DEF Inv, CredentialsTraceable
  <2> QED BY <2>2, <2>3 DEF CredentialsTraceable
<1>11. AlertedAreHot' /\ CooldownExplained'
  BY <1>1 DEF Inv, AlertedAreHot, CooldownExplained, ShouldAlert
<1> QED BY <1>2, <1>5, <1>6, <1>7, <1>8, <1>9, <1>10, <1>11 DEF Inv

\* The same for a step of a connection that has arrived.
LEMMA ConversationKeeps ==
    ASSUME Inv, NEW c \in Conns, NEW next \in Places, place[c] \notin {"new", "refused"}, Goes(c, next),
           Unchanged,
           NEW new, events' = events \cup new, new \subseteq Events, \A e \in new : e.conn = c,
           creds' \in {creds, creds \cup {c}},
           due' \subseteq events', hot \subseteq hot', hot' \subseteq IPs,
           DueAreHot', HighScoresAlerted',
           next \notin {"new", "reading", "greeting", "refused"},
           next = "shell" => protocol[c] = "SSH" /\ c \in creds',
           next \in {"routing", "websocket"} => protocol[c] = "HTTP",
           next \in {"serving", "mail"} => protocol[c] \in {"SSH", "FTP", "MYSQL", "SMTP", "REDIS", "DNS"},
           next = "routing" \/ creds' # creds => \E e \in events' : e.conn = c,
           \A e \in new : e.type = "COMMAND" /\ protocol[c] = "SSH" => c \in creds'
    PROVE  Inv'
<1>1. /\ place' = [place EXCEPT ![c] = next] /\ protocol' = protocol /\ peer' = peer
      /\ banned_ips' = banned_ips /\ sinceAlert' = sinceAlert /\ alerted' = alerted
      /\ bannedThen' = bannedThen /\ limited' = limited
  BY DEF Goes, Unchanged, alerting
<1>2. TypeOK /\ TypeOK'
  <2>1. TypeOK
    BY DEF Inv
  <2> QED BY <1>1, <2>1 DEF TypeOK
<1>3. place'[c] = next /\ \A d \in Conns \ {c} : place'[d] = place[d]
  BY <1>1, <1>2 DEF TypeOK
<1>4. ~(c \in bannedThen \cup limited /\ protocol[c] \in {"HTTP", "FTP", "SNMP"})
  BY DEF Inv, Away
<1>5. Traces'
  BY <1>1, <1>3 DEF Inv, Traces
<1>6. Ways'
  BY <1>1, <1>3 DEF Inv, Ways
<1>7. Begun'
  BY <1>1, <1>3 DEF Inv, Begun
<1>8. Away'
  BY <1>1, <1>2, <1>3, <1>4 DEF Inv, Away, TypeOK
<1>9. GateHolds'
  BY <1>1, <1>2, <1>4 DEF Inv, GateHolds, TypeOK
<1>10. CredentialsTraceable'
  BY <1>1 DEF Inv, CredentialsTraceable
<1>11. AlertedAreHot' /\ CooldownExplained'
  BY <1>1 DEF Inv, AlertedAreHot, CooldownExplained, ShouldAlert
<1> QED BY <1>2, <1>5, <1>6, <1>7, <1>8, <1>9, <1>10, <1>11 DEF Inv

\* A step that enters no event.
LEMMA QuietFacts ==
    ASSUME Inv, UNCHANGED <<events, hot, due, peer, alerted>>
    PROVE  /\ events' = events \cup {} /\ due' \subseteq events' /\ hot \subseteq hot' /\ hot' \subseteq IPs
           /\ DueAreHot' /\ HighScoresAlerted'
  BY DEF Inv, TypeOK, DueAreHot, HighScoresAlerted

\* An arrival that enters an event, and one that enters none.
LEMMA LoudArrival ==
    ASSUME Inv, NEW c \in Conns, NEW p \in Protocols, NEW next \in {"greeting", "serving", "closed"},
           Arrives(c, p, next), UNCHANGED <<creds, limited>>,
           NEW t \in Types, NEW h \in BOOLEAN, NEW e, e = Event(c, t, h), t # "COMMAND",
           \/ Logged(e) /\ (h => t \in Silent)
           \/ Profiled(e) /\ t \in Silent
           \/ Reported(e),
           next = "greeting" => p \in {"FTP", "REDIS"},
           next = "serving" => p \in {"SSH", "MYSQL", "SMTP"},
           p \in {"FTP", "HTTP", "SNMP"} => ~IsBanned(c)
    PROVE  Inv'
<1> DEFINE new == {e}
<1>1. /\ events' = events \cup new /\ e \in Events /\ e.conn = c /\ e.type = t
      /\ due' \subseteq events' /\ hot \subseteq hot' /\ hot' \subseteq IPs
      /\ DueAreHot' /\ HighScoresAlerted'
  BY EventFacts DEF Arrives, alerting
<1>2. new # {} /\ new \subseteq Events /\ \A x \in new : x.conn = c /\ x.type # "COMMAND"
  BY <1>1
<1>3. c \in bannedThen' \cup limited' => p \notin {"FTP", "HTTP", "SNMP"}
  BY DEF Arrives, At, IsBanned, Inv, Traces
<1>4. next \in Places /\ creds' = creds /\ limited' = limited
  BY DEF Places
<1> HIDE DEF new
<1> QED BY <1>1, <1>2, <1>3, <1>4, ArrivalKeeps

LEMMA QuietArrival ==
    ASSUME Inv, NEW c \in Conns, NEW p \in Protocols \ {"SMTP"}, NEW next \in {"refused", "serving", "reading", "raised", "closed"},
           Arrives(c, p, next), UNCHANGED <<detection>>, limited' \in {limited, limited \cup {c}},
           next = "reading" => p = "HTTP" /\ ~IsBanned(c) /\ limited' = limited,
           next = "serving" => p = "DNS",
           next \in {"raised", "closed"} => p \in {"MODBUS", "DNS_UDP"}
    PROVE  Inv'
<1> DEFINE new == {}
<1>1. /\ events' = events \cup new /\ creds' = creds
      /\ due' \subseteq events' /\ hot \subseteq hot' /\ hot' \subseteq IPs
      /\ DueAreHot' /\ HighScoresAlerted'
  BY QuietFacts DEF Arrives, alerting, detection
<1>2. new = {} /\ new \subseteq Events /\ \A x \in new : x.conn = c /\ x.type # "COMMAND"
  OBVIOUS
<1>3. c \in bannedThen' \cup limited' /\ p \in {"FTP", "HTTP", "SNMP"} => next = "refused"
  BY DEF Arrives, At, IsBanned, Inv, Traces
<1>4. next \in Places
  BY DEF Places
<1> HIDE DEF new
<1> QED BY <1>1, <1>2, <1>3, <1>4, ArrivalKeeps

\* The same for conversations.
LEMMA LoudConversation ==
    ASSUME Inv, NEW c \in Conns, NEW next \in Places, place[c] \notin {"new", "refused"}, Goes(c, next),
           Unchanged, creds' \in {creds, creds \cup {c}},
           NEW t \in Types, NEW h \in BOOLEAN, NEW e, e = Event(c, t, h),
           \/ Logged(e) /\ (h => t \in Silent)
           \/ Profiled(e) /\ t \in Silent
           \/ Reported(e),
           next \notin {"new", "reading", "greeting", "refused"},
           next = "shell" => protocol[c] = "SSH" /\ c \in creds',
           next \in {"routing", "websocket"} => protocol[c] = "HTTP",
           next \in {"serving", "mail"} => protocol[c] \in {"SSH", "FTP", "MYSQL", "SMTP", "REDIS", "DNS"},
           t = "COMMAND" /\ protocol[c] = "SSH" => c \in creds'
    PROVE  Inv'
<1> DEFINE new == {e}
<1>1. /\ events' = events \cup new /\ e \in Events /\ e.conn = c /\ e.type = t
      /\ due' \subseteq events' /\ hot \subseteq hot' /\ hot' \subseteq IPs
      /\ DueAreHot' /\ HighScoresAlerted'
  BY EventFacts DEF Goes, Unchanged, alerting
<1>2. /\ new \subseteq Events /\ \A x \in new : x.conn = c
      /\ \A x \in new : x.type = "COMMAND" /\ protocol[c] = "SSH" => c \in creds'
      /\ \E x \in events' : x.conn = c
  BY <1>1
<1> HIDE DEF new
<1> QED BY <1>1, <1>2, ConversationKeeps

LEMMA QuietConversation ==
    ASSUME Inv, NEW c \in Conns, NEW next \in Places, place[c] \notin {"new", "refused"}, Goes(c, next),
           Unchanged, creds' \in {creds, creds \cup {c}}, UNCHANGED <<events, hot, due>>,
           next \notin {"new", "reading", "greeting", "refused", "shell", "routing"},
           next = "websocket" => protocol[c] = "HTTP",
           next \in {"serving", "mail"} => protocol[c] \in {"SSH", "FTP", "MYSQL", "SMTP", "REDIS", "DNS"},
           creds' # creds => place[c] = "routing" \/ protocol[c] = "SMTP"
    PROVE  Inv'
<1> DEFINE new == {}
<1>1. /\ events' = events \cup new
      /\ due' \subseteq events' /\ hot \subseteq hot' /\ hot' \subseteq IPs
      /\ DueAreHot' /\ HighScoresAlerted'
  BY QuietFacts DEF Goes, Unchanged, alerting
<1>2. /\ new \subseteq Events /\ \A x \in new : x.conn = c
      /\ \A x \in new : x.type = "COMMAND" /\ protocol[c] = "SSH" => c \in creds'
      /\ next = "routing" \/ creds' # creds => \E x \in events' : x.conn = c
  BY DEF Inv, Begun
<1>3. next \in {"routing", "websocket"} => protocol[c] = "HTTP"
  OBVIOUS
<1>4. next = "shell" => protocol[c] = "SSH" /\ c \in creds'
  OBVIOUS
<1> HIDE DEF new
<1> QED BY <1>1, <1>2, <1>3, <1>4, ConversationKeeps

-----------------------------------------------------------------------------
(* Every step keeps the invariant.                                         *)

LEMMA ArriveStep == ASSUME Inv, NEW c \in Conns, Arrive(c) PROVE Inv'
<1> USE DEF Types, Protocols
<1>1. ASSUME NEW p \in {"SSH", "MYSQL", "SMTP", "REDIS"}, Connect(c, p) PROVE Inv'
  <2>1. CASE p = "REDIS"
    BY <1>1, <2>1, LoudArrival DEF Connect
  <2>2. CASE p # "REDIS"
    <3>1. /\ Arrives(c, p, "serving") /\ Logged(Event(c, "CONNECTION", FALSE))
          /\ UNCHANGED <<creds, limited>> /\ p \in {"SSH", "MYSQL", "SMTP"}
      BY <1>1, <2>2 DEF Connect
    <3> QED BY <3>1, LoudArrival
  <2> QED BY <2>1, <2>2
<1>2. ASSUME NEW p \in {"FTP", "HTTP", "SNMP"}, Refuse(c, p) PROVE Inv'
  BY <1>2, QuietArrival DEF Refuse
<1>3. ASSUME ConnectFtp(c) PROVE Inv'
  BY <1>3, LoudArrival DEF ConnectFtp
<1>4. ASSUME ConnectDns(c) PROVE Inv'
  BY <1>4, QuietArrival DEF ConnectDns
<1>5. ASSUME ConnectModbus(c) PROVE Inv'
  BY <1>5, QuietArrival DEF ConnectModbus
<1>6. ASSUME Request(c) PROVE Inv'
  BY <1>6, QuietArrival DEF Request
<1>7. ASSUME TooManyRequests(c) PROVE Inv'
  BY <1>7, QuietArrival DEF TooManyRequests
<1>8. ASSUME DnsUdpGarbled(c) PROVE Inv'
  BY <1>8, QuietArrival DEF DnsUdpGarbled
<1>9. ASSUME NEW h \in BOOLEAN, Snmp(c, h) PROVE Inv'
  BY <1>9, LoudArrival DEF Snmp
<1>10. ASSUME NEW h \in BOOLEAN, DnsUdp(c, h) PROVE Inv'
  BY <1>10, LoudArrival DEF DnsUdp, Silent
<1> QED BY <1>1, <1>2, <1>3, <1>4, <1>5, <1>6, <1>7, <1>8, <1>9, <1>10 DEF Arrive

LEMMA ConverseStep == ASSUME Inv, NEW c \in Conns, Converse(c) PROVE Inv'
<1> USE DEF Types, Places
<1>1. /\ place[c] = "greeting" => protocol[c] \in {"FTP", "REDIS"}
      /\ place[c] = "shell" => protocol[c] = "SSH" /\ c \in creds
      /\ place[c] \in {"reading", "routing", "websocket"} => protocol[c] = "HTTP"
      /\ TypeOK
  BY DEF Inv, Ways
<1>2. place' = place /\ place \in [Conns -> Places] => place' = [place EXCEPT ![c] = place[c]]
  OBVIOUS
<1>3. UNCHANGED conversation => Goes(c, place[c])
  BY <1>1, <1>2 DEF conversation, Goes, TypeOK
<1>4. ASSUME Greet(c) PROVE Inv'
  BY <1>1, <1>4, QuietConversation DEF Greet, At, detection
<1>5. ASSUME Close(c) PROVE Inv'
  BY <1>5, QuietConversation DEF Close, detection
<1>6. ASSUME HttpLogin(c) PROVE Inv'
  BY <1>6, QuietConversation DEF HttpLogin, At
<1>7. ASSUME OpenWebsocket(c) PROVE Inv'
  BY <1>1, <1>7, QuietConversation DEF OpenWebsocket, At, detection
<1>8. ASSUME FileCommand(c) PROVE Inv'
  BY <1>3, <1>8, LoudConversation DEF FileCommand, At
<1>9. ASSUME SmtpAuth(c) PROVE Inv'
  BY <1>3, <1>9, QuietConversation DEF SmtpAuth, At
<1>10. ASSUME Data(c) PROVE Inv'
  BY <1>10, QuietConversation DEF Data, At, detection
<1>11. ASSUME NEW h \in BOOLEAN, LogRequest(c, h) PROVE Inv'
  BY <1>1, <1>11, LoudConversation DEF LogRequest, At
<1>12. ASSUME NEW h \in BOOLEAN, WsMessage(c, h) PROVE Inv'
  BY <1>1, <1>3, <1>12, LoudConversation DEF WsMessage, At, Silent
<1>13. ASSUME NEW h \in BOOLEAN, Command(c, h) PROVE Inv'
  BY <1>1, <1>3, <1>13, LoudConversation DEF Command, At
<1>14. ASSUME NEW h \in BOOLEAN, EndOfMail(c, h) PROVE Inv'
  BY <1>1, <1>14, LoudConversation DEF EndOfMail, At, Silent, Inv, Ways
<1>15. ASSUME NEW h \in BOOLEAN, NEW next \in {"serving", "shell"}, ValidatePassword(c, h, next) PROVE Inv'
  BY <1>15, LoudConversation DEF ValidatePassword, Captured, At
<1>16. ASSUME NEW h \in BOOLEAN, FtpPass(c, h) PROVE Inv'
  BY <1>16, LoudConversation DEF FtpPass, Captured, At
<1>17. ASSUME NEW h \in BOOLEAN, MySQLAuth(c, h) PROVE Inv'
  BY <1>17, LoudConversation DEF MySQLAuth, Captured, At
<1>18. ASSUME NEW h \in BOOLEAN, RedisCommand(c, h) PROVE Inv'
  BY <1>3, <1>18, LoudConversation DEF RedisCommand, At
<1>19. ASSUME NEW h \in BOOLEAN, NEW next \in {"serving", "closed"}, Query(c, h, next) PROVE Inv'
  BY <1>19, LoudConversation DEF Query, At
<1> QED
  BY <1>4, <1>5, <1>6, <1>7, <1>8, <1>9, <1>10, <1>11, <1>12, <1>13, <1>14, <1>15, <1>16, <1>17, <1>18, <1>19
  DEF Converse

\* Steps that leave conversations and events alone.
LEMMA OthersKeep ==
    ASSUME Inv, UNCHANGED <<conversation, events, creds, hot, bannedThen, limited>>,
           banned_ips' \subseteq IPs, sinceAlert' \in [IPs -> 0 .. Cooldown + 1],
           due' \subseteq due, alerted \subseteq alerted', alerted' \subseteq hot,
           \A e \in due \ due' : peer[e.conn] \in alerted', CooldownExplained'
    PROVE  Inv'
<1>1. TypeOK'
  BY DEF Inv, TypeOK, conversation
<1>2. Traces' /\ Ways' /\ Begun' /\ Away'
  BY DEF Inv, Traces, Ways, Begun, Away, conversation
<1>3. DueAreHot' /\ HighScoresAlerted' /\ AlertedAreHot'
  BY DEF Inv, DueAreHot, HighScoresAlerted, AlertedAreHot, conversation
<1>4. GateHolds' /\ CredentialsTraceable'
  BY DEF Inv, GateHolds, CredentialsTraceable, conversation
<1> QED BY <1>1, <1>2, <1>3, <1>4 DEF Inv

LEMMA AlertFacts ==
    ASSUME Inv, NEW ip \in hot, Alert(ip)
    PROVE  /\ sinceAlert' \in [IPs -> 0 .. Cooldown + 1] /\ CooldownExplained'
           /\ alerted \subseteq alerted' /\ alerted' \subseteq hot /\ ip \in alerted'
<1>1. ip \in IPs /\ sinceAlert \in [IPs -> 0 .. Cooldown + 1] /\ alerted \subseteq hot /\ CooldownExplained
  BY DEF Inv, TypeOK, AlertedAreHot
<1>2. CASE ShouldAlert(ip)
  <2>1. sinceAlert' = [sinceAlert EXCEPT ![ip] = 0] /\ alerted' = alerted \cup {ip}
    BY <1>2 DEF Alert
  <2> QED BY <1>1, <2>1, HoneypotsAssumption DEF CooldownExplained, ShouldAlert, HoneypotsAssumption
<1>3. CASE ~ShouldAlert(ip)
  <2>1. sinceAlert' = sinceAlert /\ alerted' = alerted
    BY <1>3 DEF Alert, alerting
  <2> QED BY <1>1, <1>3, <2>1 DEF CooldownExplained, ShouldAlert
<1> QED BY <1>2, <1>3

LEMMA OthersStep ==
    ASSUME Inv, \/ \E e \in due : SendAlert(e)
                \/ \E ip \in IPs : AutoBan(ip) \/ Ban(ip) \/ Unban(ip)
                \/ Tick
                \/ UNCHANGED vars
    PROVE  Inv'
<1>1. /\ banned_ips \subseteq IPs /\ hot \subseteq IPs /\ sinceAlert \in [IPs -> 0 .. Cooldown + 1]
      /\ alerted \subseteq hot /\ CooldownExplained
  BY DEF Inv, TypeOK, AlertedAreHot
<1>2. ASSUME NEW e \in due, SendAlert(e) PROVE Inv'
  <2>1. peer[e.conn] \in hot /\ Alert(peer[e.conn])
    BY <1>2 DEF SendAlert, Inv, DueAreHot
  <2>2. due' \subseteq due /\ \A x \in due \ due' : x = e
    BY <1>2 DEF SendAlert
  <2> QED BY <1>1, <1>2, <2>1, <2>2, AlertFacts, OthersKeep DEF SendAlert
<1>3. ASSUME NEW ip \in IPs, AutoBan(ip) PROVE Inv'
  <2>1. ip \in hot /\ Alert(ip)
    BY <1>3 DEF AutoBan
  <2> QED BY <1>1, <1>3, <2>1, AlertFacts, OthersKeep DEF AutoBan, detection
<1>4. ASSUME NEW ip \in IPs, Ban(ip) \/ Unban(ip) PROVE Inv'
  <2>1. /\ UNCHANGED <<conversation, events, creds, hot, due, bannedThen, limited, sinceAlert, alerted>>
        /\ banned_ips' \subseteq IPs
    BY <1>1, <1>4 DEF Ban, Unban, detection, alerting
  <2>2. CooldownExplained'
    BY <1>1, <2>1 DEF CooldownExplained, ShouldAlert
  <2> QED BY <1>1, <2>1, <2>2, OthersKeep
<1>5. ASSUME Tick PROVE Inv'
  <2>1. /\ UNCHANGED <<conversation, events, creds, hot, due, bannedThen, limited, alerted, banned_ips>>
        /\ sinceAlert' = [ip \in IPs |-> IF sinceAlert[ip] > Cooldown THEN Cooldown + 1 ELSE sinceAlert[ip] + 1]
    BY <1>5 DEF Tick, detection
  <2>2. sinceAlert' \in [IPs -> 0 .. Cooldown + 1]
    BY <1>1, <2>1, HoneypotsAssumption DEF HoneypotsAssumption
  <2>3. CooldownExplained'
    BY <1>1, <2>1, HoneypotsAssumption DEF HoneypotsAssumption, CooldownExplained, ShouldAlert
  <2> QED BY <1>1, <2>1, <2>2, <2>3, OthersKeep
<1>6. ASSUME UNCHANGED vars PROVE Inv'
  <2>1. UNCHANGED <<conversation, events, creds, hot, due, bannedThen, limited, alerted, banned_ips, sinceAlert>>
    BY <1>6 DEF vars, detection, alerting
  <2>2. CooldownExplained'
    BY <1>1, <2>1 DEF CooldownExplained, ShouldAlert
  <2> QED BY <1>1, <2>1, <2>2, OthersKeep
<1> QED BY <1>2, <1>3, <1>4, <1>5, <1>6

\* The handlers, alerts, bans and the clock keep the invariant.
THEOREM Invariance == Spec => []Inv
<1>1. Inv /\ [Next]_vars => Inv'
  <2> SUFFICES ASSUME Inv, [Next]_vars PROVE Inv'
    OBVIOUS
  <2>1. CASE Next
    BY <2>1, ArriveStep, ConverseStep, OthersStep DEF Next
  <2>2. CASE UNCHANGED vars
    BY <2>2, OthersStep
  <2> QED BY <2>1, <2>2
<1> QED BY <1>1, InvInit, PTL DEF Spec

-----------------------------------------------------------------------------
\* Type correctness.
THEOREM HoneypotTypes == Spec => []TypeOK
<1>1. Inv => TypeOK
  BY DEF Inv
<1> QED BY <1>1, Invariance, PTL

\* FTP, HTTP and SNMP store nothing of who was banned or too fast when he came,
\* whatever becomes of the ban while a request waits.
THEOREM TurnedAwayLeaveNothing == Spec => []GateHolds
<1>1. Inv => GateHolds
  BY DEF Inv
<1> QED BY <1>1, Invariance, PTL

\* Credentials belong to a session with events; commands over SSH to one with
\* credentials.
THEOREM CredentialsHaveSessions == Spec => []CredentialsTraceable
<1>1. Inv => CredentialsTraceable
  BY DEF Inv
<1> QED BY <1>1, Invariance, PTL

\* No event at the threshold goes without an alert for its address, and alerts go
\* out only for addresses whose profile or row is at the threshold.
THEOREM AlertsAndScoresMatch == Spec => []AlertsMatchScores
<1>1. Inv => AlertsMatchScores
  BY DEF Inv, AlertsMatchScores
<1> QED BY <1>1, Invariance, PTL
=============================================================================
