--------------------------- MODULE MCAuthentication ---------------------------
(***************************************************************************)
(* Session and SignIn for TLC: the requests of a page over the runtime's    *)
(* session service, and the callers of the shell's own token source.  The   *)
(* service sees of the token source only that it answers or not, which      *)
(* Session leaves open, so the two share no variable: the first state says  *)
(* which of them a behaviour is about, and the other one rests.             *)
(***************************************************************************)
EXTENDS Session

CONSTANTS Tabs, MaxFamilies, MaxSerial, Callers, HasLocks, CopyRaces

VARIABLES
  about,
  page, url, id, session, held, calls, rejected, renewing, lost, posts, codes, used, current,
  revoked, cut, foreign

Gate == INSTANCE SignIn WITH inFlight <- renewing

ASSUME GateAssumption == Gate!SignInAssumption

gate == <<page, url, id, session, held, calls, rejected, renewing, lost, posts, codes, used,
          current, revoked, cut, foreign>>

AuthenticationInit == Init /\ Gate!Init /\ about \in {"requests", "sign-in"}

AuthenticationNext ==
  \/ about = "requests" /\ Next /\ UNCHANGED <<gate, about>>
  \/ about = "sign-in" /\ Gate!Next /\ UNCHANGED <<vars, about>>

\* The fairness of each, in the behaviours that are about it.
AuthenticationSpec ==
  /\ AuthenticationInit /\ [][AuthenticationNext]_<<vars, gate, about>>
  /\ \A r \in Renewals :
       WF_vars(about = "requests" /\ Expire(r)) /\ WF_vars(about = "requests" /\ Over(r))
  /\ \A q \in Requests : WF_vars(about = "requests" /\ Wake(q))
  /\ \A t \in Tabs :
       /\ WF_gate(about = "sign-in" /\ Gate!Boot(t))
       /\ \A c \in Callers : WF_gate(about = "sign-in" /\ Gate!Read(t, c))
  /\ WF_gate(about = "sign-in" /\ \E p \in posts : Gate!Settle(p))
  /\ WF_gate(about = "sign-in" /\ \E p \in posts : Gate!Answer(p) \/ Gate!Break(p))

-----------------------------------------------------------------------------
\* Nobody waits for ever: a page that loads gets in, leaves to sign in or says why not, and a caller
\* of getAccessToken() is answered (SignIn).
EveryoneGetsOn == about = "sign-in" => Gate!EveryoneGetsOn
=============================================================================
