------------------------------ MODULE MCProcess -----------------------------
(* Process for TLC: of the servers that need no file, one that a stop closes *)
(* and one that it leaves open.                                              *)
EXTENDS Process, TLC

MCPlain == <<"ftp", "snmp">>
=============================================================================
