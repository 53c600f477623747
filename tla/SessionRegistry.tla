-------------------------- MODULE SessionRegistry ---------------------------
(***************************************************************************)
(* What the session table promises to the honeypots, without saying who    *)
(* ends sessions, when or how often: a session is opened once and ended    *)
(* once, its end stands for ever, and a handler that came to its end left  *)
(* no session open.  Sessions implements it.                               *)
(***************************************************************************)
CONSTANTS
    Names,      \* session ids
    Ends        \* what may become of a session

VARIABLES
    fate,       \* of each session: "none" before it is opened, "open", or its end
    served      \* the sessions whose handler came to its end, in this process

registryVars == <<fate, served>>

RegistryInit == fate = [s \in Names |-> "none"] /\ served = {}

OpenSession(s) ==
    /\ fate[s] = "none"
    /\ fate' = [fate EXCEPT ![s] = "open"]
    /\ UNCHANGED served

Fates == Ends \cup {"none", "open"}

\* Some of the open sessions are ended, by their handlers or by others.
EndSome ==
    /\ fate' \in [Names -> Fates]
    /\ \A s \in Names :
          IF fate[s] = "open" THEN fate'[s] # "none" ELSE fate'[s] = fate[s]

EndSessions ==
    /\ EndSome
    /\ served \subseteq served' /\ \A s \in served' : fate'[s] \in Ends

\* The end of the process: no session is left open, and nothing is served.
Halt ==
    /\ EndSome
    /\ \A s \in Names : fate'[s] # "open"
    /\ served' = {}

RegistryNext == (\E s \in Names : OpenSession(s)) \/ EndSessions \/ Halt

RegistrySpec == RegistryInit /\ [][RegistryNext]_registryVars
=============================================================================
