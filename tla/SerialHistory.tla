--------------------------- MODULE SerialHistory ---------------------------
(***************************************************************************)
(* What the engine promises about transactions: a database is the list of  *)
(* the statements that changed it. A transaction works on a private        *)
(* extension of the durable list; COMMIT makes all of it durable, ROLLBACK *)
(* and a crash drop all of it. Where the list moves to another file, the   *)
(* list as it was then may come back until the move has settled.           *)
(***************************************************************************)
EXTENDS Naturals, Sequences

CONSTANT Statements   \* the write sets of the statements that change something

VARIABLES durable,    \* the statements a reopened database has
          current,    \* the statements the session sees
          inTxn,      \* is a transaction open?
          setbacks    \* the lists a power loss may lead back to

histVars == <<durable, current, inTxn, setbacks>>

HistInit == durable = <<>> /\ current = <<>> /\ inTxn = FALSE /\ setbacks = {}

HistExec ==
  /\ \E w \in Statements : current' = Append(current, w)
  /\ durable' = IF inTxn THEN durable ELSE current'
  /\ UNCHANGED <<inTxn, setbacks>>

HistBegin  == ~inTxn /\ inTxn' = TRUE /\ UNCHANGED <<durable, current, setbacks>>
HistCommit == inTxn /\ inTxn' = FALSE /\ durable' = current /\ UNCHANGED <<current, setbacks>>
HistAbort  == inTxn' = FALSE /\ current' = durable /\ UNCHANGED <<durable, setbacks>>

(* The list moves to another file, and the move settles.                   *)
HistMove   == setbacks' = setbacks \cup {durable} /\ UNCHANGED <<durable, current, inTxn>>
HistSettle == setbacks' = {} /\ UNCHANGED <<durable, current, inTxn>>

(* A power loss: the present list, or one from before a move.              *)
HistPowerLoss ==
  /\ durable' \in {durable} \cup setbacks
  /\ current' = durable'
  /\ inTxn' = FALSE
  /\ setbacks' = {}

HistNext ==
  \/ HistExec \/ HistBegin \/ HistCommit \/ HistAbort
  \/ HistMove \/ HistSettle \/ HistPowerLoss

HistSpec == HistInit /\ [][HistNext]_histVars
=============================================================================
