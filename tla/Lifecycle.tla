------------------------------ MODULE Lifecycle ------------------------------
(***************************************************************************)
(* What a MountHandle promises its host: the states of MountLifecycle and   *)
(* the transitions between them.  A mount is pending while an attempt runs; *)
(* an attempt ends mounted or failed; a mounted definition may still fail;  *)
(* only a failed mount is attempted again; disposal is final.               *)
(***************************************************************************)
EXTENDS Naturals

VARIABLES status, attempt

lifecycle == <<status, attempt>>

Init == status = "pending" /\ attempt = 0

\* beginAttempt(): the first one, or a retry() after a failure.
BeginAttempt ==
  /\ status = "error" \/ (status = "pending" /\ attempt = 0)
  /\ status' = "pending"
  /\ attempt' = attempt + 1

SettleMounted ==
  /\ status = "pending" /\ attempt > 0
  /\ status' = "mounted"
  /\ UNCHANGED attempt

SettleError ==
  /\ status \in {"pending", "mounted"} /\ attempt > 0
  /\ status' = "error"
  /\ UNCHANGED attempt

MarkDisposed ==
  /\ status # "disposed"
  /\ status' = "disposed"
  /\ UNCHANGED attempt

Next == BeginAttempt \/ SettleMounted \/ SettleError \/ MarkDisposed

Spec == Init /\ [][Next]_lifecycle
=============================================================================
