-------------------------------- MODULE Session --------------------------------
(***************************************************************************)
(* The session token of a page and the requests that carry it: the token    *)
(* service of auth/session.ts, one renewal at a time, and authenticatedFetch*)
(* around it, which renews and sends once more after a 401.                 *)
(*                                                                          *)
(* Around them are the shell's auth library, behind getToken and            *)
(* refreshToken, with a store other tabs may write, and a backend that      *)
(* stops accepting tokens.  An answer of the library after the renewal's    *)
(* deadline finds nobody waiting.                                           *)
(*                                                                          *)
(* Tokens are numbered in the order they are issued, renewals and requests  *)
(* in the order they start.  0 is no token.  `refreshed` and `answeredBy`   *)
(* are history: the renewals that came by their token through refreshToken, *)
(* and the renewal that last answered each request.                         *)
(***************************************************************************)
EXTENDS Naturals

CONSTANTS
  MaxRequests,     \* bound: requests over a run
  MaxRenewals,     \* bound: renewals over a run
  MaxTokens        \* bound: tokens issued over a run

ASSUME SessionAssumption ==
  MaxRequests \in Nat /\ MaxRenewals \in Nat /\ MaxTokens \in Nat \ {0}

Requests == 1 .. MaxRequests
Renewals == 1 .. MaxRenewals
Tokens   == 1 .. MaxTokens

VARIABLES
  token, inFlight,            \* the service: its token, the renewal callers share (0: none)
  renewals, seen,             \* how many have started; the token each is to get away from
  stage, shell, result,       \* each renewal: its promise, the library's work, what it gave
  phase, waits,               \* each request: where it is, the renewal it waits for
  replayable, first, carried, \* can it be sent again; the token refused; the token it carries
  verdict,                    \* the backend's answer on the way back
  stored, issued, accepted,   \* the library's store, the tokens issued, those accepted
  refreshed, answeredBy

service  == <<token, inFlight>>
work     == <<renewals, seen, stage, shell, result>>
requests == <<phase, waits, replayable, first, carried, verdict>>
world    == <<stored, issued, accepted>>
history  == <<refreshed, answeredBy>>
vars     == <<service, work, requests, world, history>>

\* The page's microtasks have run: no settled promise has a continuation left.  A response and a
\* timer are tasks of their own and come after them.
Quiet ==
  /\ \A r \in Renewals : stage[r] # "settled"
  /\ \A q \in Requests : waits[q] # 0 => stage[waits[q]] # "over"

-----------------------------------------------------------------------------
(* getAccessToken() *)

NeedsRenewal(rejected) == token = 0 \/ rejected = token

StartRenewal(q, rejected) ==
  LET r == renewals + 1 IN
  /\ renewals < MaxRenewals
  /\ renewals' = r
  /\ seen' = [seen EXCEPT ![r] = IF token # 0 THEN token ELSE rejected]
  /\ stage' = [stage EXCEPT ![r] = "running"]
  /\ shell' = [shell EXCEPT ![r] = "reading"]
  /\ inFlight' = r
  /\ waits' = [waits EXCEPT ![q] = r]
  /\ UNCHANGED result

JoinRenewal(q) ==
  /\ waits' = [waits EXCEPT ![q] = inFlight]
  /\ UNCHANGED <<inFlight, work>>

\* Fault: a second caller renews as well.
AwaitOwnRenewal(q, rejected) == StartRenewal(q, rejected)

AwaitRenewal(q, rejected) ==
  \/ inFlight # 0 /\ JoinRenewal(q)
  \/ inFlight = 0 /\ StartRenewal(q, rejected)

-----------------------------------------------------------------------------
(* authenticatedFetch() to a declared API *)

Send(q, t, sent) ==
  /\ phase' = [phase EXCEPT ![q] = sent]
  /\ carried' = [carried EXCEPT ![q] = t]
  /\ verdict' = [verdict EXCEPT ![q] = "none"]

End(q) ==
  /\ phase' = [phase EXCEPT ![q] = "done"]
  /\ UNCHANGED <<carried, verdict>>

\* A request that cannot be sent twice has a body that is gone once read.
Request(q) ==
  /\ phase[q] = "none" /\ \A p \in Requests : p < q => phase[p] # "none"
  /\ \E once \in BOOLEAN : replayable' = [replayable EXCEPT ![q] = ~once]
  /\ \/ /\ ~NeedsRenewal(0)
        /\ Send(q, token, "sent")
        /\ UNCHANGED <<inFlight, work, waits>>
     \/ /\ NeedsRenewal(0)
        /\ AwaitRenewal(q, 0)
        /\ phase' = [phase EXCEPT ![q] = "asking"]
        /\ UNCHANGED <<carried, verdict>>
  /\ UNCHANGED <<token, first, world, history>>

\* The backend looks at the token when the request reaches it.
Serve(q) ==
  /\ phase[q] \in {"sent", "resent"} /\ verdict[q] = "none"
  /\ verdict' = [verdict EXCEPT ![q] = IF carried[q] \in accepted THEN "ok" ELSE "refused"]
  /\ UNCHANGED <<service, work, phase, waits, replayable, first, carried, world, history>>

\* What the renewed token is good for: exactly one retry, with another token.
Retry(q, t) ==
  IF t = 0 \/ t = first[q] \/ ~replayable[q] THEN End(q) ELSE Send(q, t, "resent")

\* The answer reaches the page.  A first 401 of a request that carried a token renews, also
\* when the request itself cannot be sent again.
Receive(q) ==
  /\ Quiet
  /\ verdict[q] # "none" /\ phase[q] \in {"sent", "resent"}
  /\ IF verdict[q] = "ok" \/ phase[q] = "resent" \/ carried[q] = 0
     THEN End(q) /\ UNCHANGED <<inFlight, work, waits, first>>
     ELSE /\ first' = [first EXCEPT ![q] = carried[q]]
          /\ \/ /\ ~NeedsRenewal(carried[q])
                /\ IF replayable[q] THEN Send(q, token, "resent") ELSE End(q)
                /\ UNCHANGED <<inFlight, work, waits>>
             \/ /\ NeedsRenewal(carried[q])
                /\ AwaitRenewal(q, carried[q])
                /\ phase' = [phase EXCEPT ![q] = "renewing"]
                /\ UNCHANGED <<carried, verdict>>
  /\ UNCHANGED <<token, replayable, world, history>>

\* The renewal a request waited for is over.
Wake(q) ==
  /\ waits[q] # 0 /\ stage[waits[q]] = "over"
  /\ waits' = [waits EXCEPT ![q] = 0]
  /\ LET t == result[waits[q]] IN
     \/ phase[q] = "asking" /\ Send(q, t, "sent")
     \/ phase[q] = "renewing" /\ Retry(q, t)
  /\ answeredBy' = [answeredBy EXCEPT ![q] = waits[q]]
  /\ UNCHANGED <<service, work, replayable, first, world, refreshed>>

\* The caller's signal aborts, or the request fails in the network.
Leave(q) ==
  /\ phase[q] \notin {"none", "done"}
  /\ End(q)
  /\ waits' = [waits EXCEPT ![q] = 0]
  /\ UNCHANGED <<service, work, replayable, first, world, history>>

-----------------------------------------------------------------------------
(* renew() *)

\* Fault: an answer after the deadline is taken as the session's token.
SettleAlways(r, t) ==
  /\ stage' = [stage EXCEPT ![r] = IF @ = "running" THEN "settled" ELSE @]
  /\ result' = [result EXCEPT ![r] = IF stage[r] = "running" THEN t ELSE @]
  /\ token' = t

\* The library is through with a renewal: it counts if the deadline has not passed.
Settle(r, t) ==
  IF stage[r] = "running"
  THEN /\ stage' = [stage EXCEPT ![r] = "settled"]
       /\ result' = [result EXCEPT ![r] = t]
       /\ token' = t
  ELSE UNCHANGED <<stage, result, token>>

\* getToken() answers, maybe with a token this page has not seen.
TokenRead(r) ==
  /\ shell[r] = "reading"
  /\ \E t \in {0, stored} :
       IF t \notin {0, seen[r]}
       THEN shell' = [shell EXCEPT ![r] = "over"] /\ Settle(r, t)
       ELSE /\ shell' = [shell EXCEPT ![r] = "refreshing"]
            /\ UNCHANGED <<stage, result, token>>
  /\ UNCHANGED <<inFlight, renewals, seen, requests, world, history>>

Refreshed(r) ==
  /\ shell[r] = "refreshing" /\ issued < MaxTokens
  /\ issued' = issued + 1
  /\ stored' = issued + 1
  /\ accepted' = accepted \cup {issued + 1}
  /\ shell' = [shell EXCEPT ![r] = "over"]
  /\ refreshed' = IF stage[r] = "running" THEN refreshed \cup {r} ELSE refreshed
  /\ Settle(r, issued + 1)
  /\ UNCHANGED <<inFlight, renewals, seen, requests, answeredBy>>

\* Either call of the library throws, or there is no session to renew.
ShellFails(r) ==
  /\ shell[r] \in {"reading", "refreshing"}
  /\ shell' = [shell EXCEPT ![r] = "over"]
  /\ Settle(r, 0)
  /\ UNCHANGED <<inFlight, renewals, seen, requests, world, history>>

\* The deadline: the renewal comes to no token, the library's work goes on.
Expire(r) ==
  /\ Quiet
  /\ stage[r] = "running"
  /\ Settle(r, 0)
  /\ UNCHANGED <<inFlight, renewals, seen, shell, requests, world, history>>

\* Fault: a renewal that failed is never cleared away.
OverUnlessFailed(r) ==
  /\ stage[r] = "settled" /\ result[r] # 0
  /\ stage' = [stage EXCEPT ![r] = "over"]
  /\ inFlight' = 0
  /\ UNCHANGED <<token, renewals, seen, shell, result, requests, world, history>>

Over(r) ==
  /\ stage[r] = "settled"
  /\ stage' = [stage EXCEPT ![r] = "over"]
  /\ inFlight' = IF inFlight = r THEN 0 ELSE inFlight
  /\ UNCHANGED <<token, renewals, seen, shell, result, requests, world, history>>

-----------------------------------------------------------------------------
(* The world *)

TokenDies(t) ==
  /\ t \in accepted
  /\ accepted' = accepted \ {t}
  /\ UNCHANGED <<service, work, requests, stored, issued, history>>

\* Another tab, or the library on its own, renews.
StoreMovesOn ==
  /\ issued < MaxTokens
  /\ issued' = issued + 1
  /\ stored' = issued + 1
  /\ accepted' = accepted \cup {issued + 1}
  /\ UNCHANGED <<service, work, requests, history>>

-----------------------------------------------------------------------------

Init ==
  /\ token = 0 /\ inFlight = 0
  /\ renewals = 0 /\ seen = [r \in Renewals |-> 0]
  /\ stage = [r \in Renewals |-> "none"]
  /\ shell = [r \in Renewals |-> "none"]
  /\ result = [r \in Renewals |-> 0]
  /\ phase = [q \in Requests |-> "none"]
  /\ waits = [q \in Requests |-> 0]
  /\ replayable = [q \in Requests |-> TRUE]
  /\ first = [q \in Requests |-> 0] /\ carried = [q \in Requests |-> 0]
  /\ verdict = [q \in Requests |-> "none"]
  /\ stored = 1 /\ issued = 1 /\ accepted = {1}
  /\ refreshed = {} /\ answeredBy = [q \in Requests |-> 0]

Next ==
  \/ \E q \in Requests : Request(q) \/ Serve(q) \/ Receive(q) \/ Wake(q) \/ Leave(q)
  \/ \E r \in Renewals : TokenRead(r) \/ Refreshed(r) \/ ShellFails(r) \/ Expire(r) \/ Over(r)
  \/ \E t \in Tokens : TokenDies(t)
  \/ StoreMovesOn

Spec == Init /\ [][Next]_vars

\* Timers fire and settled promises run their continuations.  The library may never answer, nor
\* the backend.
FairSpec ==
  /\ Spec
  /\ \A r \in Renewals : WF_vars(Expire(r)) /\ WF_vars(Over(r))
  /\ \A q \in Requests : WF_vars(Wake(q))

-----------------------------------------------------------------------------
(* Properties *)

\* Every variable has its type.
TypeOK ==
  /\ token \in 0 .. issued /\ inFlight \in 0 .. renewals /\ renewals \in 0 .. MaxRenewals
  /\ seen \in [Renewals -> 0 .. issued] /\ result \in [Renewals -> 0 .. issued]
  /\ stage \in [Renewals -> {"none", "running", "settled", "over"}]
  /\ shell \in [Renewals -> {"none", "reading", "refreshing", "over"}]
  /\ phase \in [Requests -> {"none", "asking", "sent", "renewing", "resent", "done"}]
  /\ waits \in [Requests -> 0 .. renewals] /\ replayable \in [Requests -> BOOLEAN]
  /\ first \in [Requests -> 0 .. issued] /\ carried \in [Requests -> 0 .. issued]
  /\ verdict \in [Requests -> {"none", "ok", "refused"}]
  /\ issued \in Tokens /\ stored \in 1 .. issued /\ accepted \subseteq 1 .. issued
  /\ refreshed \subseteq 1 .. renewals /\ answeredBy \in [Requests -> 0 .. renewals]

\* The renewals as the flights of SingleFlight.
Renewing == INSTANCE SingleFlight WITH
  Keys     <- {"session"},
  Waiters  <- Requests,
  Flights  <- Renewals,
  flight   <- [k \in {"session"} |-> inFlight],
  landed   <- {r \in Renewals : stage[r] = "over"},
  waits    <- waits,
  answered <- answeredBy

\* A burst of refused requests collapses into one renewal at a time, every one of them waits for
\* it and is answered by it, and a caller that cancels leaves it to the others (getAccessToken,
\* awaitShared).
RenewalsAreShared == Renewing!Spec

\* A token is renewed by refreshToken once: after that a refusal of it finds the session on another
\* one.  Only a failed renewal in between forgets that (rejectedToken in getAccessToken).
RefreshedOncePerToken ==
  \A r, s \in refreshed :
    r < s /\ seen[r] = seen[s] /\ seen[r] # 0 =>
      \E f \in Renewals : r < f /\ f < s /\ stage[f] # "running" /\ result[f] = 0

\* The token changes only by the renewal callers are sharing: an answer of the auth library after
\* the renewal's deadline changes nothing (renew, withDeadline).
LateAnswersChangeNothing ==
  [][token' # token => \E r \in Renewals :
       r = inFlight /\ stage[r] = "running" /\ result'[r] = token']_vars

\* The session's token is the one its last renewal gave, and no token is renewed twice for nothing.
TokenIsKept == []TypeOK /\ []RefreshedOncePerToken /\ LateAnswersChangeNothing

\* No request waits for a token for ever, whatever the auth library does (renew's deadline).
EveryWaitEnds == \A q \in Requests : (waits[q] # 0) ~> (waits[q] = 0)
=============================================================================
