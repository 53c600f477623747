# SimplePot in TLA+

Specifications of SimplePot's own logic, the TLC configurations that check them
on small instances and TLAPS proofs for all values of their constants. The
models are translated from `src/simplepot.py` (the file the dockerfile ships; the
directory *For Developers (Discrete Modular)* holds the same logic in several
files). `PROJECT.json` maps every definition to the lines it stands for.

## The system

SimplePot is one Python process: an asyncio event loop that runs everything but
one daemon thread, which writes events to SQLite. What runs on the loop is
atomic from one `await` to the next; only the writer thread, the clock, the
clients, SQLite, iptables and crashes are outside of it.

| Component | State | Operations | Correct when | Module |
| --- | --- | --- | --- | --- |
| Event store (`DatabaseManager`) | `_write_queue` (5000), the writer's batch (50), table `events` | `log_event`, `_writer_loop`, `_flush_batch`, pill at shutdown | events are stored once, in order; none is gone without a trace; nothing stays in memory; the shutdown ends | `EventStore`, `EventLog` |
| Session table (`SessionManager`) | `active_sessions`, table `sessions` | `create_session`, `end_session`, `cleanup_sessions` | one end per session; leaks are reaped; the limit holds | `Sessions`, `SessionRegistry` |
| Profiles and bans (`SessionManager`, `ActiveDefense`, `periodic_threat_analysis`, dashboard) | `profiles`, table `attacker_profiles`, `banned_ips`, rules of iptables | `update_profile`, `ban_ip`, `unban_ip`, the analysis, `cleanup_profiles` | flag, ban, row and rule agree; bans are earned and happen | `Defense`, `Reputation` |
| Rate limiter (`ActiveDefense`) | a deque of times per address | `is_rate_limited`, `cleanup_old_connections` | no more than 50 requests pass in 60 s; the cleanup forgets nothing that counts | `RateLimit`, `SlidingWindow` |
| Alerts (`AlertManager`) | `_alerted_ips` | `send_alert` | an alert is suppressed only by an earlier one for the same address; alerts and scores agree | `Honeypots` |
| Scoring (`ThreatIntelligence`) | the list of bad networks; score, count, protocols and techniques of a profile | `calculate_threat_score`, `map_mitre_techniques`, `analyze_payload`, STIX selection | scores within 0..100; profiles sum up their events; behaviour alone condemns nobody | `Scoring`, `Reputation` |
| Protocol handlers | one task per connection or datagram | the loops of eleven protocols | each interaction logs its event and updates the profile; bans and limits hold where they are asked; alerts agree with profiles | `Honeypots`; their sessions in `Sessions` |
| SQLite locks, retention (`purge_old_data`, `get_stats`, `end_session`) | the transaction of the connection the loop's thread keeps; the write lock | the writes of four tables, the purge, statistics, sessions, batches | connections do not get in each other's way; old rows go | `Connections`, `Process` |
| Start and servers (`main`, `run_*_server`, `generate_self_signed_cert`) | what listens; host key, key, certificate, tables | the servers in their order, stop, crash, restart | one server's failure is its own; every start completes what an earlier one left | `Startup`, `Process` |
| Health (`HealthMonitor`), dashboard reads and exports | – | a record per check; statistics; JSON and STIX exports | an export is of one state | their effect on the connection in `Process`, STIX in `Scoring` |
| Metrics | counters | – | – | not modelled: no code reads them |

How they interact: a handler creates a session, logs events (queue), updates the
profile (memory, then the table, in the same step) and starts alerts; the
analysis reads the table of profiles and bans; handlers of HTTP, FTP and SNMP ask
`is_banned`, that of HTTP asks `is_rate_limited`; the cleanup reaps sessions,
profiles and rate windows every 300 s; profiles, credentials, alerts, health records,
the purge and the statistics share one connection to SQLite, sessions and batches
have their own; `main` starts the servers one by one and stops everything with a pill.

What is hard: the fallback of `_flush_batch` after a fault half-way; four enders
of one session; rows of the analysis that go stale while an alert is sent; state
that lives in memory, in a table and in the firewall at once and is restarted or
evicted in parts; a lock taken twice; a shutdown that waits for nobody; a
transaction that outlives the call that began it; files that are half made.
`PROJECT.json` lists these hazards with their lines.

## Modules

`EventLog` – the abstract promise: events are numbered by the calls of
`log_event`, accepted or refused, written at most once and in order, or forgotten.

`EventStore` – the write path. `queue`, `batch`, `txn` (inserted, not committed),
`rows` (the table) and `wpc`, the place of the writer thread: `get` is
`_writer_loop` at `queue.get`; `connect`, `insert`, `commit`, `retry`, `close` are
the statements of `_flush_batch`; `dead` is a thread ended by an exception
(connecting stands outside of the try), `stopped` one that read the pill. SQLite
may refuse a connection, a statement or a commit; a failed `executemany` leaves a
prefix of the batch in the transaction, or nothing if SQLite rolled back.
`proc` follows `main`: `putting` is the blocking `put(None)`, `exiting` the time
until the interpreter ends and takes the daemon thread with it. The wish of
`_writer_loop` to flush after 2 s is a free choice of `Get`. The histories
(`logged`, `dropped`, `reported`, `lost`, `signalled`) state the properties:
`reported` are the rows for which the fallback logged an error, entered by the step
that logs it.
Left out: credentials, alerts and health rows, which are written directly (see
`Connections`).

`Sessions` – `active_sessions` and its users. A session has the name of its
connection (a fresh uuid4); handlers differ in how they keep it: `guarded` by a
finally (MySQL, SMTP, DNS over TCP), `banner` with a greeting before the try
(FTP, Redis), `http` in the middleware, `ssh` in callbacks, `unattended` (SNMP,
DNS over UDP, and Modbus, whose handler raises on its first statement after
`create_session`: `AttackEvent` has no `extra_flags`). The clock ticks; a session
carries its age; the cleanup is due after `CleanupInterval` and at most `Slack`
late. `OpenAtLimit` is `create_session` calling `end_session` with the lock held.

`SessionRegistry` – the abstract promise of the table: a session is opened once, ended
once, its end stands, and none is open when its handler has come to its end or the
process has ended. It does not say who ends sessions. `Sessions` maps to it by `Fate`:
the reason in the row, or `unrecorded` (the INSERT failed) or `abandoned` (nothing
ended it before the process did).

`Defense` – per IP address: the profile's score and flag in memory and in the
table, the ban list, the number of DROP rules. `Report` is `_build_event` and
`update_profile` (no await between them), `Glimpse` the body of a mail, which
makes a profile and does not save it, `HandleBan`/`HandleUnban` the dashboard,
`Wake`/`AutoBan`/`SkipBanned`/`Alerted`/`EndRound` the analysis. Between `Wake`
and the end of the round nothing else runs, unless `send_alert` waits
(`alerting`). Upserts and calls of iptables may fail; the code ignores it. A
restart loses memory and keeps the table; the rules stay (the container uses the
host's network) unless the host restarted. A failed upsert leaves the row as it was;
that the statement may have run and be committed by a later write of the same
connection (`CommitRefused` of `Connections`) is left out. Abstracted: the counts and lists of a
profile, validity of addresses, which of the evicted profiles is the oldest.

`Reputation` – the abstract promise of the profiles: events raise the score of an
address, only forgetting it lowers it, and the table is written with the score of that
moment. `Defense` (few scores; bans, rounds, failing writes) and `Scoring` (computed
scores) implement it: what they abstract from each other does not meet anywhere else.

`SlidingWindow` – the abstract promise of a rate limiter that remembers every call.

`RateLimit` – `rate_limits`, a deque of times per address with at most `MaxLen` of
them, as `is_rate_limited` and `cleanup_old_connections` leave it. A call is
entered before it is counted and also when it is refused. An address without an
entry is an empty deque (the code's defaultdict). `hits` and `passed` are
histories: all calls of this process, and which of them passed. The clock is
assumed not to go backwards (the code uses `time.time()`), the limit to be
smaller than the length of a deque (50 and 200; the code accepts more, and then
nothing is ever limited) and forgetting to take longer
than the window (3600 s and 60 s).

`Honeypots` – a connection or datagram, its `protocol` and its `place` in the
handler: `reading` is the middleware's await of the body, `routing` the route's
handler, `shell` and `mail` the modes of SSH and SMTP, `raised` the end of every
Modbus connection. An interaction is one step from await to await: it enters an
event, the profile (`hot`: addresses at the threshold) and schedules an alert (`due`).
There are four such mixtures, and which handler uses which is the point:
`Logged` (connections, FTP's files, mails), `Profiled` (WebSocket, DNS over UDP),
`Reported` (the rest), and credentials without an event (HTTP logins, SMTP's AUTH).
Scheduled alerts run later in any order. The table may have rows of an earlier life
(`Init` leaves `hot` free): the analysis alerts for them. The limiter's answer is a free choice
here, bans come and go at any time. Within one life of the process, and without eviction of
profiles (that is in `Defense`); each HTTP request is a connection; payloads are
only their score, at the threshold or not; what is answered is left out.
`alerted` are the addresses that had an alert since the start: it never shrinks, so that
AlertsMatchScores says little of an address after its first alert, and no property
bounds how often an address is alerted. That an alert marks its cooldown and then fails
in every channel is not modelled.

`Connections` – who holds SQLite's write lock. `txn` is the transaction of the
connection `_get_conn` keeps: `begun` holds nothing yet (Python's sqlite3 sends
BEGIN before a statement that writes), `reading` has the snapshot of its first read,
`writing` the lock. A write is its statement and its commit in one step
(`Committed`); a refused statement leaves what was begun (`Refused`) and a refused
commit its rows and the lock (`CommitRefused`), because no `except` rolls back, unless
SQLite rolls back itself (`RolledBack`). `Purge` never
reaches its commit: VACUUM within the transaction of the DELETEs is an error.
`stale` says that another connection committed since the snapshot: then every write
is refused at once (`Silenced`, `Ignored`). `EndSession` runs on the thread that
holds the lock, so that it cannot wait for it; the writer thread waits and gives up.
How SQLite answers is external to `src/` and was taken from how Python's sqlite3
behaves with these statements: the definitions are marked so in `PROJECT.json`.

`Startup` – `main`. `next` is the place in the order of the servers. A server is up
(`Serve`), its port is taken, or its file cannot be loaded; the last two are one
`None` in the code. `making` is the file that `run_ssh_server` or
`generate_self_signed_cert` is writing: opening leaves it `torn`, and a kill or an
error before the end leaves it so. `OpenFails` is an error before any file has changed
(chmod, open or read): the server is skipped as well, and `unopened` keeps it for this
start. `Stop` closes what `main` closes; the servers of
HTTP and TCP go with the process.

`Process` – both together: when operations of `Connections` run (handlers as soon as
something listens, periodic tasks after the boot, nothing on the loop while a file is
made), and what the end of the process releases.

`Scoring` – an event's score from its text (what the regular expressions and
substrings find is an input), the flags its handler adds, and the profile before it.
`Profiled` are the events that `update_profile` enters, `Unprofiled` the mails. `life`
counts how often a profile was forgotten, by `cleanup_profiles` or a restart: it
ties events to the profile they made. `listed` is chosen once.

`MC*` add TLC's symmetry sets and data; `*_proofs` hold the theorems. Definitions marked as
slips (in the sections before the operations, or next to one) are not part of any
specification: each is an operation with a plausible mistake, which a property
must find.

## Runs

| Run | Module, cfg | Shows |
| --- | --- | --- |
| event_store | `MCEventStore.cfg` | TypeOK (with the limits), InOrder, OneFate, OneFaultAbsorbed; refinement ImplementsLog; EventuallySettled, ShutdownCompletes |
| event_store_shutdown | `EventStoreShutdown.cfg` | violated: ShutdownKeepsEvents |
| sessions | `Sessions.cfg` | TypeOK (with the limit), OneFate, AgeBound; refinement ImplementsRegistry; EverySessionEnds |
| sessions_limit | `SessionsLimit.cfg` | violated: EvictionMakesRoom |
| defense | `Defense.cfg` | TypeOK, FlagExplained, WrittenThrough, FirewallFollows, RulesBounded, AutoBanDeserved; refinement ImplementsReputation |
| defense_live | `DefenseLive.cfg` | HighThreatIsBanned |
| defense_history | `DefenseHistory.cfg` | violated: ScoreKept |
| rate_limit | `RateLimit.cfg` | TypeOK (with the length), PassBound, ForgetBound; refinement ImplementsWindow |
| honeypots | `Honeypots.cfg` | TypeOK, GateHolds, CredentialsTraceable, AlertsMatchScores |
| honeypots_modbus | `HoneypotsModbus.cfg` | violated: ModbusAlerts |
| process | `Process.cfg` | TypeOK, TroubleExplained, DegradedExplained, NothingSkipped, SilentForLife, BrokenForGood; RetentionTakesEffect |
| scoring | `Scoring.cfg` | TypeOK (scores within 0..100), ProfileSumsUp, ContentNeeded, SuspicionGrows; refinement ImplementsReputation |

Deadlock is not checked: a system that is down after its last permitted start, or
out of events, calls or connections, stops. (The one real deadlock, `OpenAtLimit`, is an action of its
own and the subject of `sessions_limit`.)

Bounds, and why they are enough:

* Event store: four events, a queue of two and batches of three. Drops, a full
  queue at the shutdown, a partly filled batch, a batch with a first, middle and
  last row for the fallback, and a next batch all occur. Two refusals in a flush are one
  more than it absorbs. A crash and a restart: later ones start from the same
  kinds of states.
* Sessions: two connections for one place (the limit is met with any mix of kinds
  and leaks), so that safety and liveness are checked on the same instance; its
  safety properties are proved for any number of connections and places. Ages up to
  duration + interval + slack + 1. `sessions_limit` has three connections.
* Defense: two addresses (one can go stale while the other is alerted for), room
  for one profile, so that any address can be evicted; scores 0 and 80 around
  the threshold 70; one ban by hand per address, an unban, one failed upsert and one
  failed call of iptables per address, two starts. The liveness run leaves
  the dashboard out to stay small.

* Rate limiter: a limit of two in a window of two ticks, deques of three: an address
  is limited, calls leave the window and the deque, and the cleanup forgets and
  meets the same address again within seven ticks and four calls.
* Honeypots: two connections are enough for a request that waits while another one
  of the same or of another address brings a ban, an unban or an alert; an
  alert suppresses those that follow it until the clock moves, so that the cooldown is
  met running and over (longer ones are covered by the proofs).
* Process: the four servers with a history of their own, one that a stop closes and
  one that it leaves open; one refusal, after which the transaction that is left open
  meets reads, purges, sessions and batches in any order; one taken port or one file that
  cannot be opened per start; two starts,
  so that the second one meets every state of files and tables the first can leave.
  More refusals of any kind, starts and servers are covered by the proofs.
* Scoring: one address, because no step relates two (the proofs are for any set);
  the steps of frequency at 0, 1 and 2 events instead of 10, 50 and 100, so that four
  events pass all of them; one text without findings and one whose findings with a
  listed network exceed 100; four protocols, so that the third is met, one each with
  logins, requests without and with a flag of the handler, and mails.

`starts`, `kills`, `faults`, `slips`, `byHand`, `unbans`, the time, calls and the number of events
are counted only for the bounds and the histories.

### Fairness

* `EventStore`: weak fairness of the writer thread (the scheduler runs it), of
  the blocked put once there is room, and of the interpreter's exit. Nothing is
  assumed of SQLite beyond the bound on refusals in a flush: a `timeout=30`
  connection answers or raises.
* `Sessions`: time passes and the cleanup runs when due. Handlers get none: a
  client may keep its connection for ever, which is the point of the property.
* `Process`: strong fairness of the purge and of the periodic health check, weak
  fairness of the writer thread. The periodic tasks are due again and again; their
  writes wait for the lock while the writer holds it, some milliseconds at most once
  in two seconds, with a timeout of 30 s, so that a task that is due infinitely often
  gets its turn. Nothing is assumed of handlers or the dashboard.
* `Defense`: the analysis goes on (sleep of 60 s, alerts bounded by the 10 s of
  aiohttp), and the container restarts the process (`restart: unless-stopped`).

### Disagreements between documentation and code

* `ShutdownKeepsEvents`: README.md:87 and the flush for the pill in `_writer_loop`
  promise that accepted events are written; `main` does not join the daemon thread.
* `EvictionMakesRoom`: simplepot.py:952-954 means to evict the oldest session; it
  calls `end_session` with a non-reentrant lock held, and the loop blocks for ever.
* `ModbusAlerts`: README.md:81 says Modbus answers and raises an ICS alert; its handler
  raises a TypeError at simplepot.py:1751, before both.
* `ScoreKept`: README.md:51 and :57 promise persistent profiles per IP; profiles are
  never loaded and the upsert overwrites the row.

Met on the way and not stated as runs: "DB batch write error" (simplepot.py:426) may be
logged for an event that is stored: a row whose commit fails stays in the transaction,
and the next row's commit takes it along; a row that was stored and is tried again may
fail too. The other direction is OneFate: what a flush gives up, it has reported.
`unban_ip` leaves the flag, so an unbanned
address is never banned automatically again while its profile lives, and a second
ban by hand adds a second rule of which an unban removes one (`FlagExplained`,
`RulesBounded` name both). README.md:75 has each connection check rate limits and bans:
only HTTP, FTP and SNMP ask for bans, only HTTP for the rate (`GateHolds` names them).
README.md:88 has scores at the threshold alerted: WebSocket messages, mails and DNS
over UDP are not (`AlertsMatchScores` names them). README.md:64 mentions tarpitting:
nothing calls `should_tarpit`.

Of the connections: the purge always fails at VACUUM, reports an error and keeps the
write lock until the next write of the kept connection commits (`RetentionTakesEffect`
holds because the health check writes each minute; until then sessions and batches
are denied, `TroubleExplained`). A commit that SQLite refuses without rolling back does
the same. `DATA_RETENTION_DAYS` of `.env.example` is never read;
`sessions` and `attacker_profiles` are never purged. After one refused statement, a
page of the dashboard and a commit of the writer, nothing on the kept connection is
stored until a restart (`SilentForLife`).

Of the start: a torn host key or certificate is never replaced (`BrokenForGood`), while
a torn private key is, because without a certificate the pair is made anew
(`TornKeyHeals`); "ALL
HONEYPOT SERVICES STARTED" is logged whatever is up.

Of the scores: a login has no payload and reaches 5 + 20 + 10 + 30 = 65 at most
(`ContentNeeded`), so the `*_BRUTE_FORCE` alerts at simplepot.py:1092, 1494 and 1580 are
never sent (in `Honeypots`, which leaves the score of a login free, they are: its
properties hold for more than the code can do). README.md:84 maps techniques from flags and event type: no event type is a key of
`MITRE_ATTACK_MAP`. `is_tor` and `is_vpn` are never set; the weight of ICS_ATTACK is
never used, Modbus raises before; every DNS query over TCP is marked SNMP_ENUM;
DNS_TUNNELING counts twice when the text and the handler find it; a mail's score
enters no profile. README.md:58 promises anonymised addresses: the exports hold
`ip_address` as it is.

## Proofs

Everything below is proved by TLAPS for all values of the constants that satisfy
the named assumptions (`StoreAssumption`, `SessionsAssumption`,
`DefenseAssumption`, `RateAssumption`, `HoneypotsAssumption`, `ConnectionsAssumption`,
`StartupAssumption`, `ScoringAssumption`): any capacities, durations, numbers of connections, addresses
and faults. They assume no fairness.

Arguments for each module:

* `EventStore_proofs`: TypeOK, InOrder, OneFate, OneFaultAbsorbed and the refinement of
  `EventLog`.
  InOrder is not inductive: `WriterOrder` adds that what is committed, what is in the
  transaction, the rest of the batch and the queue follow each other, also
  while the fallback is at row `next` (`RetryAhead`). Because a batch is a
  contiguous part of the calls in increasing order, skipping a row never lets a
  later row overtake one that is stored afterwards. OneFate needs `RowsAnswered`: every
  row behind `next`, and every row of a flush that closes, is stored or was reported, so
  that the batch `Close` discards holds nothing unaccounted for. OneFaultAbsorbed needs
  `Absorbs`: the fallback starts with the first refusal (`FirstRefusal`), and as long as
  it is the only one, every row behind `next` is committed and none of the batch is
  reported, which rests on `ReportedLate`: no event is reported before its own flush.
  The refinement follows an action's effect on queue and batch (`MemoryStep`).
  Three theorems are about loss. `LossIsBounded`: a step loses at most what queue and
  batch hold, 5050 events as configured, because `WriterOrder` bounds what is on its
  way. `RareFaultsLoseNothing`: with one refusal per flush at most and a file that can be
  opened, no error is logged and the thread lives (`Unfailing`: the refusal that began a
  fallback was the only one there may be). `JoinIsEnough` diagnoses the violation of
  ShutdownKeepsEvents: whenever the writer has read the pill, everything accepted
  before the signal is settled (`PillBehind`: these events are in front of the pill), so
  an exit that waited for it would lose none of them.
* `Sessions_proofs`: TypeOK with the limit, OneFate, AgeBound, and the refinement of
  `SessionRegistry`. AgeBound needs `AgeInv`: no session is older than the duration and
  the time since the last cleanup. The refinement goes by ender: what ends a session
  moves its fate from open to an end, every other step leaves all fates (`EndStands`);
  that a session is in one of four places (OneFate, on both sides of a step) makes its
  end final. Two more consequences, `ReturnEndsSession` and `RowsAreFinal`, and two theorems
  about the violated EvictionMakesRoom: a blocked loop has its table full
  (`BlockedOnlyAtLimit`), and with no more connections than places it never blocks
  (`NeverBlockedBelowLimit`).
* `Defense_proofs`: TypeOK, FlagExplained, WrittenThrough, FirewallFollows,
  RulesBounded, AutoBanDeserved. FlagExplained has two parts: `FlagStands`, which is in
  the inductive invariant (the flag of a profile stands for every ban of this start,
  taken back or not), and that an unban is final for the analysis, which follows from it
  and from WrittenThrough. RulesBounded needs `RulesAccounted` (a ban in
  force pays for its own rule), AutoBanDeserved needs `ScoresEarned` (profiles,
  rows and the rows the analysis holds at the threshold all come from events).
  The refinement of `Reputation` has a lemma for steps that write one row
  (`WroteStanding`) and one for those that touch neither scores nor rows
  (`OthersStand`). `FallsAreExplained` bounds the violation of ScoreKept: a row's score
  falls only at a write for an address whose profile was lost (a restart, an eviction)
  or whose last write had failed.
* `RateLimit_proofs`: TypeOK, PassBound, ForgetBound and the refinement of
  `SlidingWindow`. The inductive invariant says that the deque of an address is the
  end of its calls: what the deque pushed out leaves more than the limit behind it, what
  the cleanup forgot is out of the window. Counting the recent entries then gives
  the answer that the call before the limit's last ones would.
* `Honeypots_proofs`: TypeOK, GateHolds, CredentialsTraceable, AlertsMatchScores. The invariant adds what can lead to a violation several steps
  later: a gated connection that was turned away stays `refused` (`Away`); a place from
  which credentials can be captured without an event has one already (`Begun`);
  the shell has credentials (`Ways`); scheduled alerts are for addresses at the
  threshold (`DueAreHot`); a running cooldown had its alert (`CooldownExplained`).
  Actions are proved in four groups, arrivals and conversations that enter an
  event or none.

* `Process_proofs`: TypeOK, TroubleExplained, DegradedExplained, NothingSkipped,
  SilentForLife, BrokenForGood, for any list of plain servers, any number of refusals
  of SQLite, of ports and of files, and of starts. Two invariants: `StartInv` for the start (`MakingOK` ties the
  file that is being made to the place in the order, `TornExplained` a torn file to
  the cut that made it, `BehindOK` says of each server the boot has passed what
  DegradedExplained says of all), `LockInv` for the connections (TroubleExplained,
  and a transaction with deletions had a purge). TroubleExplained alone is not
  inductive: that deletions belong to a purge is what explains a later denial.
  `TornKeyHeals` is the other side of BrokenForGood: once a certificate has been opened
  the key is whole, and a broken pair or host key was cut in its making.
* `Scoring_proofs`: TypeOK, ProfileSumsUp, ContentNeeded, SuspicionGrows and the refinement of
  `Reputation`, for any set of
  addresses and texts and any steps of frequency in their order. ProfileSumsUp needs
  that no event belongs to a later life than the current one; ContentNeeded follows
  from the sums (20 + 10 for behaviour, 30 for a list, 5 for a name) together with rows
  and profiles holding scores of logged events. SuspicionGrows needs that counts and
  protocols of a profile only grow within a life. `LoginsStayBelow` is the bound of 65
  for every login, whatever its address sent before.

Only model-checked, because fairness and ENABLED are out of the prover's reach:
EventuallySettled, ShutdownCompletes, EverySessionEnds, HighThreatIsBanned,
RetentionTakesEffect. Every invariant, action property and refinement that a passing run
checks is also a theorem. Of the four violated properties, three have theorems that say
under which conditions they hold (`JoinIsEnough`, `NeverBlockedBelowLimit`,
`FallsAreExplained`); ModbusAlerts fails on every Modbus connection.

## Plan

What is left, in order of what it would add:

1. Composition of `Scoring` with `Honeypots`, so that `high` is no longer a free choice;
   `Reputation`, which `Scoring` and `Defense` both implement, is the first half of it.
2. The lists of a profile and their limits in the table (50, 100, 200 entries), with the
   order in which they fill.
3. `EventLog` with a bound on loss as an action property of its own, so that
   `LossIsBounded` follows from the refinement.

## Not modelled

* Metrics: counters that only the exporter reads.
* What is answered to clients (the fake shell, HTTP's pages, SNMP's and DNS's
  answers): no state of the program depends on it.
* The dashboard's queries on connections of their own, HTML and JSON: reads and
  formatting.
* The measurements of the health checks, the messages of the alert channels.
* The modular copy: the same logic; the models are mapped to the file that is shipped.
