----------------------------- MODULE MCUserStore -----------------------------
(* UserStore for TLC: one key, where saves, answers and sync states meet.  That slots of   *)
(* different keys stay apart is proved.                                                     *)
EXTENDS UserStore

CONSTANTS k1
=============================================================================
