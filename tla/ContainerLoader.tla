---------------------------- MODULE ContainerLoader ----------------------------
(***************************************************************************)
(* Loading the containers of registry entries: SharedContainerLoader around *)
(* the adapter's aroundLoad hook around the federation loader.              *)
(*                                                                          *)
(* The callers of one entry share one attempt and its deadline; each may    *)
(* stop waiting.  An attempt asks the federation runtime for the remote     *)
(* module.  That request cannot be cancelled: when the deadline passes      *)
(* first, nobody knows what the runtime keeps of it, and the whole          *)
(* container needs a new page.                                              *)
(*                                                                          *)
(* Attempts are numbered in the order they start.  `expired` and `cleared`  *)
(* are history: attempts cut off while the runtime was still loading, and   *)
(* attempts whose definition clearCache() dropped.                          *)
(***************************************************************************)
EXTENDS Naturals

CONSTANTS
  Entries,
  Containers,
  ContainerOf,     \* [Entries -> Containers]: several entries may be built into one container
  NoEntry,
  MaxCalls,        \* bound: calls of load() over a run
  MaxAttempts,     \* bound: attempts over a run
  MaxClears        \* bound: calls of clearCache()

LoaderAssumption ==
  /\ ContainerOf \in [Entries -> Containers]
  /\ NoEntry \notin Entries
  /\ MaxCalls \in Nat /\ MaxAttempts \in Nat /\ MaxClears \in Nat

Callers  == 1 .. MaxCalls        \* one for each call, in call order
Attempts == 1 .. MaxAttempts

VARIABLES
  resolved, inFlight,         \* #resolved and #inFlight by entry: an attempt, 0 for none
  attempts, entry,            \* how many have started, and each one's entry
  stage, outcome,             \* where the attempt's promise chain is; what its load came to
  remote,                     \* the runtime's loadRemote() promise of each attempt
  registered, reloadRequired, \* the federation loader's sets of containers
  wants, call, on,            \* the callers: entry, status, attempt waited for or served from
  clears, expired, cleared

cache      == <<resolved, inFlight>>
work       == <<attempts, entry, stage, outcome, remote>>
federation == <<registered, reloadRequired>>
callers    == <<wants, call, on>>
history    == <<clears, expired, cleared>>
vars       == <<cache, work, federation, callers, history>>

-----------------------------------------------------------------------------
(* load() *)

\* A caller whose signal has aborted starts nothing and joins nothing.
CallAborted(c, e) ==
  /\ wants' = [wants EXCEPT ![c] = e]
  /\ call' = [call EXCEPT ![c] = "abandoned"]
  /\ UNCHANGED <<cache, work, federation, on>>

CallCached(c, e) ==
  /\ resolved[e] # 0
  /\ wants' = [wants EXCEPT ![c] = e]
  /\ call' = [call EXCEPT ![c] = "cached"]
  /\ on' = [on EXCEPT ![c] = resolved[e]]
  /\ UNCHANGED <<cache, work, federation>>

Waits(c, e, a) ==
  /\ wants' = [wants EXCEPT ![c] = e]
  /\ call' = [call EXCEPT ![c] = "waiting"]
  /\ on' = [on EXCEPT ![c] = a]

CallJoins(c, e) ==
  /\ resolved[e] = 0 /\ inFlight[e] # 0
  /\ Waits(c, e, inFlight[e])
  /\ UNCHANGED <<cache, work, federation>>

Ask(a) ==
  /\ stage' = [stage EXCEPT ![a] = "loading"]
  /\ remote' = [remote EXCEPT ![a] = "pending"]
  /\ UNCHANGED outcome

Refuse(a) ==
  /\ stage' = [stage EXCEPT ![a] = "settled"]
  /\ outcome' = [outcome EXCEPT ![a] = "failed"]
  /\ UNCHANGED remote

\* Fault: the runtime is asked although an earlier answer of this container is unknown.
FederationLoadAnyway(a, container) ==
  \/ registered' = registered \cup {container} /\ Ask(a)
  \/ container \notin registered /\ UNCHANGED registered /\ Refuse(a)

\* The federation loader's load() up to loadRemote(), which runs inside the call that starts
\* the attempt.  registerRemotes() may throw, once: a registered container is not registered again.
FederationLoad(a, container) ==
  \/ /\ container \in reloadRequired
     /\ UNCHANGED registered /\ Refuse(a)
  \/ /\ container \notin reloadRequired
     /\ registered' = registered \cup {container} /\ Ask(a)
  \/ /\ container \notin reloadRequired \cup registered
     /\ UNCHANGED registered /\ Refuse(a)

Start(c, e) ==
  LET a == attempts + 1 IN
  /\ attempts < MaxAttempts
  /\ attempts' = a
  /\ entry' = [entry EXCEPT ![a] = e]
  /\ inFlight' = [inFlight EXCEPT ![e] = a]
  /\ FederationLoad(a, ContainerOf[e])
  /\ Waits(c, e, a)
  /\ UNCHANGED <<resolved, reloadRequired>>

\* Fault: every caller starts an attempt of its own.
CallStartsAlways(c, e) == resolved[e] = 0 /\ Start(c, e)

CallStarts(c, e) == resolved[e] = 0 /\ inFlight[e] = 0 /\ Start(c, e)

Load(c, e) ==
  /\ call[c] = "none" /\ \A d \in Callers : d < c => call[d] # "none"
  /\ CallAborted(c, e) \/ CallCached(c, e) \/ CallJoins(c, e) \/ CallStarts(c, e)
  /\ UNCHANGED history

-----------------------------------------------------------------------------
(* An attempt comes to its end *)

Settle(a, result) ==
  /\ stage' = [stage EXCEPT ![a] = "settled"]
  /\ outcome' = [outcome EXCEPT ![a] = result]

RequireReload(a) == reloadRequired' = reloadRequired \cup {ContainerOf[entry[a]]}

\* loadRemote() fails, or gives something that is not the entry's definition.  A failed remote
\* entry or chunk stays in the runtime's caches.
RemoteFails(a) ==
  /\ remote[a] = "pending"
  /\ remote' = [remote EXCEPT ![a] = "over"]
  /\ RequireReload(a) \/ UNCHANGED reloadRequired
  /\ IF stage[a] = "loading" THEN Settle(a, "failed") ELSE UNCHANGED <<stage, outcome>>
  /\ UNCHANGED <<cache, attempts, entry, registered, callers, history>>

\* loadRemote() answers.  The Angular hook may still be loading its page assets.
RemoteLoads(a) ==
  /\ remote[a] = "pending"
  /\ remote' = [remote EXCEPT ![a] = "over"]
  /\ \/ stage[a] = "loading" /\ Settle(a, "loaded")
     \/ UNCHANGED <<stage, outcome>>
  /\ UNCHANGED <<cache, attempts, entry, federation, callers, history>>

AssetsArrive(a) ==
  /\ stage[a] = "loading" /\ remote[a] = "over"
  /\ Settle(a, "loaded")
  /\ UNCHANGED <<cache, attempts, entry, remote, federation, callers, history>>

\* The page assets fail first: the attempt fails, its signal is not aborted.
AssetsFail(a) ==
  /\ stage[a] = "loading"
  /\ Settle(a, "failed")
  /\ UNCHANGED <<cache, attempts, entry, remote, federation, callers, history>>

\* Fault: the deadline waits for the runtime.
ExpireOnceAnswered(a) ==
  /\ stage[a] = "loading" /\ remote[a] = "over"
  /\ Settle(a, "failed")
  /\ UNCHANGED <<cache, attempts, entry, remote, federation, callers, history>>

\* The shared deadline: the signal aborts, and the federation loader listens to it as long as
\* loadRemote() has not answered.
Expire(a) ==
  /\ stage[a] = "loading"
  /\ Settle(a, "failed")
  /\ IF remote[a] = "pending"
     THEN RequireReload(a) /\ expired' = expired \cup {a}
     ELSE UNCHANGED <<reloadRequired, expired>>
  /\ UNCHANGED <<cache, attempts, entry, remote, registered, callers, clears, cleared>>

Publish(a) ==
  /\ stage[a] = "settled" /\ outcome[a] = "loaded"
  /\ stage' = [stage EXCEPT ![a] = "published"]
  /\ resolved' = IF inFlight[entry[a]] = a THEN [resolved EXCEPT ![entry[a]] = a] ELSE resolved
  /\ UNCHANGED <<inFlight, attempts, entry, outcome, remote, federation, callers, history>>

Forget(a) ==
  /\ stage[a] = "published" \/ (stage[a] = "settled" /\ outcome[a] = "failed")
  /\ stage' = [stage EXCEPT ![a] = "over"]
  /\ inFlight' = IF inFlight[entry[a]] = a THEN [inFlight EXCEPT ![entry[a]] = 0] ELSE inFlight
  /\ UNCHANGED <<resolved, attempts, entry, outcome, remote, federation, callers, history>>

-----------------------------------------------------------------------------
(* The callers *)

Deliver(c) ==
  /\ call[c] = "waiting" /\ stage[on[c]] = "over"
  /\ call' = [call EXCEPT ![c] = IF outcome[on[c]] = "loaded" THEN "served" ELSE "failed"]
  /\ UNCHANGED <<cache, work, federation, wants, on, history>>

\* The caller's own signal: it stops waiting, the attempt goes on.
Abandon(c) ==
  /\ call[c] = "waiting"
  /\ call' = [call EXCEPT ![c] = "abandoned"]
  /\ UNCHANGED <<cache, work, federation, wants, on, history>>

ClearCache ==
  /\ clears < MaxClears
  /\ clears' = clears + 1
  /\ cleared' = cleared \cup {resolved[e] : e \in Entries}
  /\ resolved' = [e \in Entries |-> 0]
  /\ UNCHANGED <<inFlight, work, federation, callers, expired>>

-----------------------------------------------------------------------------

Init ==
  /\ resolved = [e \in Entries |-> 0] /\ inFlight = [e \in Entries |-> 0]
  /\ attempts = 0
  /\ entry = [a \in Attempts |-> NoEntry]
  /\ stage = [a \in Attempts |-> "none"]
  /\ outcome = [a \in Attempts |-> "none"]
  /\ remote = [a \in Attempts |-> "none"]
  /\ registered = {} /\ reloadRequired = {}
  /\ wants = [c \in Callers |-> NoEntry]
  /\ call = [c \in Callers |-> "none"]
  /\ on = [c \in Callers |-> 0]
  /\ clears = 0 /\ expired = {} /\ cleared = {}

Proceeds(a) == Expire(a) \/ Publish(a) \/ Forget(a)

Next ==
  \/ \E c \in Callers, e \in Entries : Load(c, e)
  \/ \E a \in Attempts : RemoteFails(a) \/ RemoteLoads(a) \/ AssetsArrive(a) \/ AssetsFail(a)
  \/ \E a \in Attempts : Proceeds(a)
  \/ \E c \in Callers : Deliver(c) \/ Abandon(c)
  \/ ClearCache

Spec == Init /\ [][Next]_vars

\* The deadline's timer fires and settled promises run their continuations.  Neither the runtime
\* nor the page assets need ever answer.
FairSpec ==
  /\ Spec
  /\ \A a \in Attempts : WF_vars(Proceeds(a))
  /\ \A c \in Callers : WF_vars(Deliver(c))

-----------------------------------------------------------------------------
(* Properties *)

\* Every variable has its type; the attempts that have started are those with an entry.
TypeOK ==
  /\ resolved \in [Entries -> 0 .. attempts] /\ inFlight \in [Entries -> 0 .. attempts]
  /\ attempts \in 0 .. MaxAttempts
  /\ entry \in [Attempts -> Entries \cup {NoEntry}]
  /\ \A a \in Attempts : (entry[a] # NoEntry) = (a <= attempts)
  /\ stage \in [Attempts -> {"none", "loading", "settled", "published", "over"}]
  /\ outcome \in [Attempts -> {"none", "loaded", "failed"}]
  /\ remote \in [Attempts -> {"none", "pending", "over"}]
  /\ registered \subseteq Containers /\ reloadRequired \subseteq Containers
  /\ wants \in [Callers -> Entries \cup {NoEntry}]
  /\ call \in [Callers -> {"none", "waiting", "cached", "served", "failed", "abandoned"}]
  /\ on \in [Callers -> 0 .. attempts]
  /\ clears \in 0 .. MaxClears /\ expired \subseteq Attempts /\ cleared \subseteq 0 .. MaxAttempts

\* The attempts as the flights of SingleFlight: an attempt is in the air until its promise chain
\* has ended, and the callers served from the cache are not part of it.
Loading == INSTANCE SingleFlight WITH
  Keys     <- Entries,
  Waiters  <- Callers,
  Flights  <- Attempts,
  flight   <- inFlight,
  landed   <- {a \in Attempts : stage[a] = "over"},
  waits    <- [c \in Callers |-> IF call[c] = "waiting" THEN on[c] ELSE 0],
  answered <- [c \in Callers |-> IF call[c] \in {"served", "failed"} THEN on[c] ELSE 0]

\* Loads of one entry are shared as SingleFlight promises: callers that come while an attempt runs
\* wait for that attempt and are answered by it, and one that leaves disturbs nobody.  A failed or
\* expired attempt is in nobody's way: the next caller starts another (load, raceWithAbort).
LoadsAreShared == Loading!Spec

\* Once a deadline has cut off a load the federation runtime was still working on, the runtime is
\* not asked for anything of that container again in this page (reloadRequired).
NothingLoadsOverTheUnknown ==
  [][\A a \in Attempts, b \in expired :
       remote[a] = "none" /\ remote'[a] # "none" =>
         ContainerOf[entry'[a]] # ContainerOf[entry[b]]]_vars

\* Two callers given a definition of one entry were given the same one, unless clearCache() dropped
\* the first: a page does not run two copies of a module (the publish in load()).
CallersAgree ==
  \A c, d \in Callers :
    call[c] \in {"served", "cached"} /\ call[d] \in {"served", "cached"} /\ wants[c] = wants[d]
    /\ on[c] < on[d] => on[c] \in cleared

\* A page runs one copy of a module, and none is fetched over an unfinished fetch.
ModulesAreSafe == []TypeOK /\ []CallersAgree /\ NothingLoadsOverTheUnknown

\* Every caller stops waiting, even if the runtime never answers (withDeadline).
EveryLoadSettles == \A c \in Callers : (call[c] = "waiting") ~> (call[c] # "waiting")
=============================================================================
