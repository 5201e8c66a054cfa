------------------------------ MODULE DurableKV ------------------------------
(***************************************************************************)
(* What the storage layer promises its callers, without a log: a           *)
(* key-value table in which an acknowledged batch survives every crash of  *)
(* the process, and a batch that was not acknowledged is, after a crash,   *)
(* applied whole or not at all. A power loss can do one thing more: undo a *)
(* checkpoint that has not settled, with everything acknowledged since.    *)
(***************************************************************************)
EXTENDS KV

VARIABLES up,        \* is the store open?
          visible,   \* the table get() reads while the store is open
          pending,   \* the batch being committed, <<>> when there is none
          outcomes,  \* the tables a crash now could leave behind
          setbacks   \* those from before checkpoints that have not settled

absVars == <<up, visible, pending, outcomes, setbacks>>

-----------------------------------------------------------------------------
AbsInit ==
  /\ up = FALSE
  /\ visible = Empty
  /\ pending = <<>>
  /\ outcomes = {Empty}
  /\ setbacks = {}

(* A batch is handed to the store. From here on a crash may leave it       *)
(* applied, as a whole, on top of what is visible.                         *)
Submit ==
  /\ up
  /\ pending = <<>>
  /\ pending' \in Seq(Entries) \ {<<>>}
  /\ outcomes' = outcomes \cup {ApplyOps(visible, pending')}
  /\ UNCHANGED <<up, visible, setbacks>>

(* The pending batch returns Ok: it is visible, and a crash can leave      *)
(* nothing else behind, setbacks apart.                                    *)
Acknowledge ==
  /\ up
  /\ pending # <<>>
  /\ visible' = ApplyOps(visible, pending)
  /\ outcomes' = {visible'}
  /\ pending' = <<>>
  /\ UNCHANGED <<up, setbacks>>

(* Everything visible becomes crash-proof without any new write, but what  *)
(* a crash could have left before may come back until the checkpoint has   *)
(* settled.                                                                *)
Checkpoint ==
  /\ up
  /\ pending = <<>>
  /\ outcomes' = {visible}
  /\ setbacks' = setbacks \cup outcomes
  /\ UNCHANGED <<up, visible, pending>>

Settle ==
  /\ setbacks' = {}
  /\ UNCHANGED <<up, visible, pending, outcomes>>

(* The end of the process can only narrow down what may be found           *)
(* afterwards; a power loss may undo checkpoints that have not settled.    *)
AbsCrash ==
  /\ up' = FALSE
  /\ visible' = Empty
  /\ pending' = <<>>
  /\ \/ /\ outcomes' \in (SUBSET outcomes) \ {{}}
        /\ setbacks' = setbacks
     \/ /\ outcomes' \in (SUBSET (outcomes \cup setbacks)) \ {{}}
        /\ setbacks' = {}

(* Recovery shows one of the possible tables.                              *)
AbsRecover ==
  /\ ~up
  /\ up' = TRUE
  /\ visible' \in outcomes
  /\ UNCHANGED <<pending, outcomes, setbacks>>

AbsNext == Submit \/ Acknowledge \/ Checkpoint \/ Settle \/ AbsCrash \/ AbsRecover

AbsSpec == AbsInit /\ [][AbsNext]_absVars
=============================================================================
