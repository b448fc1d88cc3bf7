------------------------- MODULE MCExecutionChannel -------------------------
(***************************************************************************)
(* The runs of ExecutionChannel.  The bounds of each run are in its .cfg;  *)
(* this module adds what the repository's documents claim of the channel   *)
(* and the code does not keep, even without faults.                        *)
(***************************************************************************)
EXTENDS ExecutionChannel

\* SYSTEM_SPECIFICATION 27.3: the execution engine waits for the ack or for the
\* timeout.  An ack of an older command - left by a NONE command, which nobody
\* waits for, or written after its timeout - ends the wait with an exception.
WaitEndsInVerdict ==
    [][pc = "waiting" /\ pc' # "waiting" => pc' \in {"recordAck", "timeoutControl"}]_vars

\* SYSTEM_SPECIFICATION, risk.max_open_positions_per_instance (one here): the
\* terminal holds no more positions of the instance than the limit.  The risk
\* rule counts the belief, which loses a position that status does not show yet.
OnePosition == Cardinality(OpenTickets) <= 1
=============================================================================
