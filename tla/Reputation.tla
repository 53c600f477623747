----------------------------- MODULE Reputation -----------------------------
(***************************************************************************)
(* What the profiles promise to whoever acts on them, the automatic ban,   *)
(* the alerts, the export: events raise the score of an address and        *)
(* nothing lowers it but forgetting it altogether; what is kept in the     *)
(* table is a score the address had when it was written.  Defense and      *)
(* Scoring, which look at profiles from their two sides, implement it.     *)
(***************************************************************************)
EXTENDS Naturals

CONSTANTS
    Ips,        \* addresses
    Points      \* scores of events

VARIABLES
    best,       \* the highest score of each address, 0 before its first event
    kept        \* its score in the table, 0 when it has no row

reputationVars == <<best, kept>>

ReputationInit == best = [ip \in Ips |-> 0] /\ kept = [ip \in Ips |-> 0]

Kept(ip, score) == [kept EXCEPT ![ip] = score]

\* An event; the table is written or not.
Raise(ip, s) ==
    /\ best' = [best EXCEPT ![ip] = IF s > @ THEN s ELSE @]
    /\ kept' \in {kept, Kept(ip, best'[ip])}

\* The table is written for another reason, a ban for instance.
Store(ip) == kept' = Kept(ip, best[ip]) /\ UNCHANGED best

\* Addresses are forgotten; the table stays.
Forget(gone) ==
    /\ best' = [ip \in Ips |-> IF ip \in gone THEN 0 ELSE best[ip]]
    /\ UNCHANGED kept

ReputationNext ==
    \/ \E ip \in Ips, s \in Points : Raise(ip, s)
    \/ \E ip \in Ips : Store(ip)
    \/ \E gone \in SUBSET Ips : Forget(gone)

ReputationSpec == ReputationInit /\ [][ReputationNext]_reputationVars
=============================================================================
