------------------------------ MODULE StateCell ------------------------------
(***************************************************************************)
(* What the state of one actor generation promises, without the machinery  *)
(* that implements it.  Snapshots are numbered in the order in which they  *)
(* are issued.  Only the newest one can still reach storage, and only      *)
(* until it is acknowledged or the generation is sealed by its stop.       *)
(***************************************************************************)
EXTENDS Naturals

VARIABLES
  issued,   \* number of snapshots issued so far; the newest has this number
  durable,  \* number of the snapshot in storage, 0 before the first write
  lastOk,   \* newest snapshot if it was acknowledged as saved, 0 otherwise
  sealed    \* the generation's stop has been acknowledged

vars == <<issued, durable, lastOk, sealed>>

Init ==
  /\ issued = 0
  /\ durable = 0
  /\ lastOk = 0
  /\ sealed = FALSE

Issue ==
  /\ issued' = issued + 1
  /\ lastOk' = 0
  /\ UNCHANGED <<durable, sealed>>

Write ==
  /\ ~sealed
  /\ issued # 0
  /\ lastOk = 0
  /\ durable' = issued
  /\ UNCHANGED <<issued, lastOk, sealed>>

Acknowledge ==
  /\ issued # 0
  /\ durable = issued
  /\ lastOk' = issued
  /\ UNCHANGED <<issued, durable, sealed>>

Seal ==
  /\ sealed' = TRUE
  /\ UNCHANGED <<issued, durable, lastOk>>

Next == Issue \/ Write \/ Acknowledge \/ Seal

Spec == Init /\ [][Next]_vars
=============================================================================
