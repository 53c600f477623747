------------------------------ MODULE MCScoring -----------------------------
(* Scoring for TLC: texts without and with findings, one of them enough for *)
(* the highest score together with a listed network.                        *)
EXTENDS Scoring, TLC

MCTexts ==
    {NoText,
     [pattern |-> TRUE, command |-> TRUE, found |-> {"RCE", "BOTNET", "SQL_INJECTION", "XXE"}]}
=============================================================================
