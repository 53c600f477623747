---------------------------- MODULE MCEventStore ----------------------------
(* EventStore with a queue of two, batches of three and every kind of fault. *)
EXTENDS EventStore

=============================================================================
