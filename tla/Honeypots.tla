------------------------------ MODULE Honeypots ------------------------------
(***************************************************************************)
(* The protocol handlers from the connection to the alert: which of them   *)
(* ask whether an address is banned or too fast, what they log, whose      *)
(* events reach the profile, and which alerts follow.  One life of the     *)
(* process; sessions and their ends are in Sessions, what becomes of the   *)
(* logged events in EventStore, the profiles' rows in Defense.  Each       *)
(* request of HTTP is a connection of its own here.                        *)
(*                                                                         *)
(* Handlers run on the event loop: the code between two awaits is a step.  *)
(* An event counts by its connection, its type and whether its score       *)
(* reaches the threshold of alerts.                                        *)
(***************************************************************************)
EXTENDS Integers

CONSTANTS
    Conns,      \* connections and datagrams
    IPs,        \* their addresses
    Cooldown    \* AlertManager._cooldown

ASSUME HoneypotsAssumption == Cooldown \in Nat

Protocols == {"SSH", "HTTP", "FTP", "MYSQL", "SMTP", "REDIS", "MODBUS", "DNS", "DNS_UDP", "SNMP"}

\* What handlers log.  Connections and file commands are not scored, bodies of
\* mails are scored and not entered in the profile.
Types == {"CONNECTION", "FILE", "MAIL_DATA", "AUTH", "COMMAND", "DNS_QUERY", "HTTP_REQUEST",
          "WS_MESSAGE", "DNS_QUERY_UDP", "SNMP_REQUEST"}

Events == [conn : Conns, type : Types, high : BOOLEAN]

\* "greeting": before the loop (FTP, Redis).  "reading": the middleware waits for
\* the body.  "routing", "websocket": in the route's handler.  "serving": in the
\* loop, for SSH before the login; "shell" after it.  "mail": in the body of a
\* mail.  "refused": sent away at once.  "raised": left by an exception.
Places == {"new", "greeting", "reading", "routing", "websocket", "serving", "shell", "mail",
           "closed", "refused", "raised"}

VARIABLES
    place,      \* of each connection
    protocol,   \* of each connection, "none" before
    peer,       \* the address of each connection
    banned_ips, \* ActiveDefense.banned_ips
    events,     \* what log_event was called with
    creds,      \* connections with a row in captured_credentials
    hot,        \* addresses whose profile or row is at the threshold
    due,        \* events whose send_alert is scheduled and has not run
    sinceAlert  \* time since _alerted_ips of each address, up to Cooldown + 1

\* History: connections whose address was banned when they came; connections
\* that the rate limiter turned away; addresses for which an alert went out.
VARIABLES bannedThen, limited, alerted

conversation == <<place, protocol, peer>>
detection    == <<events, creds, hot, due>>
alerting     == <<sinceAlert, alerted>>
vars == <<conversation, banned_ips, detection, alerting, bannedThen, limited>>

Init ==
    /\ place = [c \in Conns |-> "new"]
    /\ protocol = [c \in Conns |-> "none"]
    /\ peer \in [Conns -> IPs]
    /\ hot \in SUBSET IPs      \* the rows of earlier lives are in the table
    /\ banned_ips = {} /\ events = {} /\ creds = {} /\ due = {}
    /\ sinceAlert = [ip \in IPs |-> Cooldown + 1]
    /\ bannedThen = {} /\ limited = {} /\ alerted = {}

-----------------------------------------------------------------------------
(* What handlers do with an event.                                         *)

Event(c, t, h) == [conn |-> c, type |-> t, high |-> h]

\* log_event only.
Logged(e) == events' = events \cup {e} /\ UNCHANGED <<hot, due>>

\* log_event and update_profile.
Profiled(e) ==
    /\ events' = events \cup {e}
    /\ hot' = IF e.high THEN hot \cup {peer[e.conn]} ELSE hot
    /\ UNCHANGED due

\* Slips: an event alerts, but is not logged, or not entered in the profile.
ReportedUnlogged(e) ==
    /\ UNCHANGED events
    /\ hot' = IF e.high THEN hot \cup {peer[e.conn]} ELSE hot
    /\ due' = IF e.high THEN due \cup {e} ELSE due
ReportedUnprofiled(e) ==
    /\ events' = events \cup {e}
    /\ due' = IF e.high THEN due \cup {e} ELSE due
    /\ UNCHANGED hot

\* And an alert, if the score asks for one; it runs as a task of its own.
Reported(e) ==
    /\ events' = events \cup {e}
    /\ hot' = IF e.high THEN hot \cup {peer[e.conn]} ELSE hot
    /\ due' = IF e.high THEN due \cup {e} ELSE due

\* The next place of a connection.
At(c, p) == place[c] = p
Goes(c, p) == place' = [place EXCEPT ![c] = p] /\ UNCHANGED <<protocol, peer>>

\* A connection or datagram for the handler of protocol p.
Arrives(c, p, next) ==
    /\ At(c, "new")
    /\ place' = [place EXCEPT ![c] = next]
    /\ protocol' = [protocol EXCEPT ![c] = p]
    /\ bannedThen' = IF peer[c] \in banned_ips THEN bannedThen \cup {c} ELSE bannedThen
    /\ UNCHANGED <<peer, banned_ips, alerting>>

-----------------------------------------------------------------------------
(* Connections.                                                            *)

IsBanned(c) == peer[c] \in banned_ips

\* SSH, MySQL, SMTP and Redis log the connection, whoever it comes from.
Connect(c, p) ==
    /\ Arrives(c, p, IF p = "REDIS" THEN "greeting" ELSE "serving")
    /\ Logged(Event(c, "CONNECTION", FALSE))
    /\ UNCHANGED <<creds, limited>>

ConnectFtp(c) ==
    /\ ~IsBanned(c)
    /\ Arrives(c, "FTP", "greeting")
    /\ Logged(Event(c, "CONNECTION", FALSE))
    /\ UNCHANGED <<creds, limited>>

\* FTP, HTTP and SNMP turn away who is banned.
Refuse(c, p) ==
    /\ IsBanned(c)
    /\ Arrives(c, p, "refused")
    /\ UNCHANGED <<detection, limited>>

ConnectDns(c) ==
    /\ Arrives(c, "DNS", "serving")
    /\ UNCHANGED <<detection, limited>>

\* The first statement after create_session raises: AttackEvent takes no
\* extra_flags.  Nothing is logged and no alert scheduled.
ConnectModbus(c) ==
    /\ Arrives(c, "MODBUS", "raised")
    /\ UNCHANGED <<detection, limited>>

\* The middleware asks for bans, then for the rate, then waits for the body.
\* RateLimit has the limiter's answer; here it may be either.
\* The slip first: no question about bans.
RequestUngated(c) ==
    /\ Arrives(c, "HTTP", "reading")
    /\ UNCHANGED <<detection, limited>>

Request(c) ==
    /\ ~IsBanned(c)
    /\ Arrives(c, "HTTP", "reading")
    /\ UNCHANGED <<detection, limited>>

TooManyRequests(c) ==
    /\ ~IsBanned(c)
    /\ Arrives(c, "HTTP", "refused")
    /\ limited' = limited \cup {c}
    /\ UNCHANGED detection

-----------------------------------------------------------------------------
(* Conversations.                                                          *)

Unchanged == UNCHANGED <<banned_ips, alerting, bannedThen, limited>>

\* FTP, Redis: the greeting is sent, and the loop begins.
Greet(c) == At(c, "greeting") /\ Goes(c, "serving") /\ UNCHANGED detection /\ Unchanged

\* The body is there, or 10 s are over: the request is reported in any case.
LogRequest(c, h) ==
    /\ At(c, "reading")
    /\ Goes(c, "routing")
    /\ Reported(Event(c, "HTTP_REQUEST", h))
    /\ UNCHANGED creds /\ Unchanged

\* The login forms of WordPress, phpMyAdmin and /login.
HttpLogin(c) ==
    /\ At(c, "routing")
    /\ Goes(c, "closed")
    /\ creds' = creds \cup {c}
    /\ UNCHANGED <<events, hot, due>> /\ Unchanged

OpenWebsocket(c) == At(c, "routing") /\ Goes(c, "websocket") /\ UNCHANGED detection /\ Unchanged

WsMessage(c, h) ==
    /\ At(c, "websocket")
    /\ Profiled(Event(c, "WS_MESSAGE", h))
    /\ UNCHANGED <<conversation, creds>> /\ Unchanged

\* Credentials are captured and the attempt reported.
Captured(c, h) == creds' = creds \cup {c} /\ Reported(Event(c, "AUTH", h)) /\ Unchanged

\* A password for SSH, which may open the shell.
ValidatePassword(c, h, next) ==
    /\ At(c, "serving") /\ protocol[c] = "SSH"
    /\ Goes(c, next)
    /\ Captured(c, h)

\* PASS of FTP.
FtpPass(c, h) ==
    /\ At(c, "serving") /\ protocol[c] = "FTP"
    /\ Goes(c, "serving")
    /\ Captured(c, h)

\* The client's only packet of MySQL; the answer ends the connection.
MySQLAuth(c, h) ==
    /\ At(c, "serving") /\ protocol[c] = "MYSQL"
    /\ Goes(c, "closed")
    /\ Captured(c, h)

\* Slip: a command is taken before the login, too.
CommandAnywhere(c, h) ==
    /\ protocol[c] = "SSH" /\ place[c] \in {"serving", "shell"}
    /\ Reported(Event(c, "COMMAND", h))
    /\ UNCHANGED <<conversation, creds>> /\ Unchanged

\* A line in the shell of SSH.
Command(c, h) ==
    /\ At(c, "shell")
    /\ Reported(Event(c, "COMMAND", h))
    /\ UNCHANGED <<conversation, creds>> /\ Unchanged

RedisCommand(c, h) ==
    /\ At(c, "serving") /\ protocol[c] = "REDIS"
    /\ Reported(Event(c, "COMMAND", h))
    /\ UNCHANGED <<conversation, creds>> /\ Unchanged

\* RETR and STOR.
FileCommand(c) ==
    /\ At(c, "serving") /\ protocol[c] = "FTP"
    /\ Logged(Event(c, "FILE", FALSE))
    /\ UNCHANGED <<conversation, creds>> /\ Unchanged

\* AUTH PLAIN is captured and makes no event.
SmtpAuth(c) ==
    /\ At(c, "serving") /\ protocol[c] = "SMTP"
    /\ creds' = creds \cup {c}
    /\ UNCHANGED <<conversation, events, hot, due>> /\ Unchanged

Data(c) ==
    /\ At(c, "serving") /\ protocol[c] = "SMTP"
    /\ Goes(c, "mail") /\ UNCHANGED detection /\ Unchanged

EndOfMail(c, h) ==
    /\ At(c, "mail")
    /\ Goes(c, "serving")
    /\ Logged(Event(c, "MAIL_DATA", h))
    /\ UNCHANGED creds /\ Unchanged

\* A query over TCP; what follows it may raise, which ends the connection.
Query(c, h, next) ==
    /\ At(c, "serving") /\ protocol[c] = "DNS"
    /\ Goes(c, next)
    /\ Reported(Event(c, "DNS_QUERY", h))
    /\ UNCHANGED creds /\ Unchanged

\* The client is done, silent for too long or gone, or an exception ends it.
Close(c) ==
    /\ place[c] \in {"greeting", "routing", "websocket", "serving", "shell", "mail"}
    /\ Goes(c, "closed") /\ UNCHANGED detection /\ Unchanged

-----------------------------------------------------------------------------
(* Datagrams: handled at once.                                             *)

Snmp(c, h) ==
    /\ ~IsBanned(c)
    /\ Arrives(c, "SNMP", "closed")
    /\ Reported(Event(c, "SNMP_REQUEST", h))
    /\ UNCHANGED <<creds, limited>>

DnsUdp(c, h) ==
    /\ Arrives(c, "DNS_UDP", "closed")
    /\ Profiled(Event(c, "DNS_QUERY_UDP", h))
    /\ UNCHANGED <<creds, limited>>

\* A datagram that is no query.
DnsUdpGarbled(c) ==
    /\ Arrives(c, "DNS_UDP", "closed")
    /\ UNCHANGED <<detection, limited>>

-----------------------------------------------------------------------------
(* Alerts.                                                                 *)

ShouldAlert(ip) == sinceAlert[ip] > Cooldown

\* Slip: there is one time for all addresses.
AlertShared(ip) ==
    IF ShouldAlert(ip) THEN sinceAlert' = [q \in IPs |-> 0] /\ alerted' = alerted \cup {ip}
    ELSE UNCHANGED alerting

\* The alert goes to the table and the channels, whose failures are logged.
Alert(ip) ==
    IF ShouldAlert(ip)
    THEN sinceAlert' = [sinceAlert EXCEPT ![ip] = 0] /\ alerted' = alerted \cup {ip}
    ELSE UNCHANGED alerting

SendAlert(e) ==
    /\ e \in due
    /\ due' = due \ {e}
    /\ Alert(peer[e.conn])
    /\ UNCHANGED <<conversation, banned_ips, events, creds, hot, bannedThen, limited>>

\* The analysis bans an address at the threshold, and alerts; Defense has more.
AutoBan(ip) ==
    /\ ip \in hot \ banned_ips
    /\ banned_ips' = banned_ips \cup {ip}
    /\ Alert(ip)
    /\ UNCHANGED <<conversation, detection, bannedThen, limited>>

\* The dashboard.
Ban(ip) ==
    /\ banned_ips' = banned_ips \cup {ip}
    /\ UNCHANGED <<conversation, detection, alerting, bannedThen, limited>>

Unban(ip) ==
    /\ banned_ips' = banned_ips \ {ip}
    /\ UNCHANGED <<conversation, detection, alerting, bannedThen, limited>>

Tick ==
    /\ sinceAlert' = [ip \in IPs |-> IF sinceAlert[ip] > Cooldown THEN Cooldown + 1 ELSE sinceAlert[ip] + 1]
    /\ UNCHANGED <<conversation, banned_ips, detection, alerted, bannedThen, limited>>

-----------------------------------------------------------------------------
Arrive(c) ==
    \/ \E p \in {"SSH", "MYSQL", "SMTP", "REDIS"} : Connect(c, p)
    \/ \E p \in {"FTP", "HTTP", "SNMP"} : Refuse(c, p)
    \/ ConnectFtp(c) \/ ConnectDns(c) \/ ConnectModbus(c)
    \/ Request(c) \/ TooManyRequests(c)
    \/ DnsUdpGarbled(c)
    \/ \E h \in BOOLEAN : Snmp(c, h) \/ DnsUdp(c, h)

Converse(c) ==
    \/ Greet(c) \/ Close(c)
    \/ HttpLogin(c) \/ OpenWebsocket(c)
    \/ FileCommand(c) \/ SmtpAuth(c) \/ Data(c)
    \/ \E h \in BOOLEAN :
          \/ LogRequest(c, h) \/ WsMessage(c, h) \/ EndOfMail(c, h)
          \/ FtpPass(c, h) \/ MySQLAuth(c, h) \/ Command(c, h) \/ RedisCommand(c, h)
          \/ \E next \in {"serving", "shell"} : ValidatePassword(c, h, next)
          \/ \E next \in {"serving", "closed"} : Query(c, h, next)

Next ==
    \/ \E c \in Conns : Arrive(c) \/ Converse(c)
    \/ \E e \in due : SendAlert(e)
    \/ \E ip \in IPs : AutoBan(ip) \/ Ban(ip) \/ Unban(ip)
    \/ Tick

Spec == Init /\ [][Next]_vars

-----------------------------------------------------------------------------
\* Type correctness.
TypeOK ==
    /\ place \in [Conns -> Places] /\ protocol \in [Conns -> Protocols \cup {"none"}]
    /\ peer \in [Conns -> IPs]
    /\ banned_ips \subseteq IPs /\ hot \subseteq IPs /\ alerted \subseteq IPs
    /\ events \subseteq Events /\ due \subseteq events
    /\ creds \subseteq Conns /\ bannedThen \subseteq Conns /\ limited \subseteq Conns
    /\ sinceAlert \in [IPs -> 0 .. Cooldown + 1]

\* Whoever was banned when he came, or too fast, leaves no trace in the tables
\* of events and credentials by HTTP, FTP or SNMP: not even when the ban is
\* lifted while a request waits for its body.
GateHolds ==
    \A c \in bannedThen \cup limited :
        protocol[c] \in {"HTTP", "FTP", "SNMP"} =>
            c \notin creds /\ \A e \in events : e.conn # c

\* Captured credentials can be traced: their session has an event, and an SSH
\* session has commands only once it has credentials.
CredentialsTraceable ==
    /\ \A c \in creds : \E e \in events : e.conn = c
    /\ \A e \in events : e.type = "COMMAND" /\ protocol[e.conn] = "SSH" => e.conn \in creds

Silent == {"CONNECTION", "FILE", "MAIL_DATA", "WS_MESSAGE", "DNS_QUERY_UDP"}

\* An event at the threshold has its alert scheduled, or one went out for its
\* address, whatever the cooldown suppressed; messages over websockets, mails and
\* queries by UDP excepted, whose handlers never alert.
HighScoresAlerted ==
    \A e \in events : e.high /\ e.type \notin Silent => e \in due \/ peer[e.conn] \in alerted

\* Alerts and bans agree: an alert goes out only for addresses whose profile is at
\* the threshold, so each of them is a candidate for the analysis.
AlertedAreHot == alerted \subseteq hot

\* Alerts and scores match, in both directions: a score that asks for an alert
\* has one, and no alert goes out that no score asked for.
AlertsMatchScores == HighScoresAlerted /\ AlertedAreHot

\* README.md:81 "Modbus: responds with error code, raises ICS alert": a Modbus
\* connection that was accepted has an alert scheduled, or one went out.
ModbusAlerts ==
    \A c \in Conns : protocol[c] = "MODBUS" =>
        (\E e \in due : e.conn = c) \/ peer[c] \in alerted
=============================================================================
