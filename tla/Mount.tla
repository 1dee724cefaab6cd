-------------------------------- MODULE Mount --------------------------------
(***************************************************************************)
(* One mount of one definition: MountController, the MountLifecycle it      *)
(* settles and the DefinitionAttempts it drives.                            *)
(*                                                                          *)
(* An attempt loads the definition under the load deadline and attaches it  *)
(* under the mount deadline.  attach() opens a surface (a context and a     *)
(* scope root), calls the definition's mount() and waits for it.  detach()  *)
(* takes the surface off the page at once and leaves a teardown behind that *)
(* waits for mount() to settle, disposes what it gave and closes the        *)
(* context.  Attempts are numbered; everything an attempt leaves running    *)
(* goes on while later ones run.                                            *)
(*                                                                          *)
(* mount() is called synchronously before #attempt is assigned.  With       *)
(* HostReenters, the host may call the handle from inside that call (an     *)
(* output the definition emits while it mounts, say).                       *)
(***************************************************************************)
EXTENDS Naturals

CONSTANTS
  Inputs,          \* sets of Widget inputs that are not shallow-equal
  MaxAttempts,     \* bound: attempts of one mount
  HostReenters     \* may the host call back while mount() is on the stack?

ASSUME MountAssumption ==
  /\ Inputs # {}
  /\ MaxAttempts \in Nat \ {0}
  /\ HostReenters \in BOOLEAN

Attempts == 1 .. MaxAttempts

VARIABLES
  status, attempt,           \* MountLifecycle: the published state, #attempt
  loaded, pendingFailure,    \* MountController: #loaded, #pendingFailure
  run,                       \* where each #runAttempt() call is
  attach,                    \* where each attach() call is
  current, inputs,           \* DefinitionAttempts: #attempt (0 is null), #inputs
  mounting, mounted, given,  \* Attempt: mounting, mounted, delivered
  aborted,                   \* the attempt's context.signal
  tear,                      \* where the attempt's #tearDown() is
  disposal, awaited,         \* dispose(): its promise, and the teardowns it waits for
  reported                   \* history: attempts that reported a failure while pending

controller  == <<loaded, pendingFailure, run>>
surface     == <<mounting, mounted, given>>
teardown    == <<current, tear, aborted>>
disposing   == <<disposal, awaited>>
vars == <<status, attempt, controller, attach, inputs, surface, teardown, disposing, reported>>

\* token.isCurrent()
IsCurrent(a) == status # "disposed" /\ attempt = a

\* The surface of an attempt is on the page from #open() to detach().
OnPage(a) == mounting[a] # "none" /\ tear[a] = "none"

TornDown(a) == tear[a] \notin {"waiting", "disposing"}

Opening == \E a \in Attempts : attach[a] = "opening"

\* No promise continuation, timer or event runs while mount() is on the stack.
Idle == ~Opening

-----------------------------------------------------------------------------
(* detach() and what settles an attempt *)

\* Fault: the signal never aborts early.
DetachWaiting ==
  IF current = 0 THEN UNCHANGED teardown
  ELSE /\ current' = 0
       /\ tear' = [tear EXCEPT ![current] = "waiting"]
       /\ UNCHANGED aborted

\* detach(): the surface goes now, #tearDown() starts; a mount() still pending is aborted.
Detach ==
  IF current = 0 THEN UNCHANGED teardown
  ELSE /\ current' = 0
       /\ tear' = [tear EXCEPT ![current] = "waiting"]
       /\ aborted' = [aborted EXCEPT ![current] = @ \/ ~mounted[current]]

\* #settleFailure() of a current attempt.
SettleFailure == Detach /\ status' = "error"

\* Fault: a failure reported while the attempt is pending settles it at once.
FailAtOnce ==
  /\ IsCurrent(attempt) /\ status \in {"pending", "mounted"}
  /\ SettleFailure
  /\ UNCHANGED <<pendingFailure, reported>>

\* fail(): a mounted attempt fails now, one still attaching once its attach has settled.
Fail ==
  \/ /\ status = "mounted"
     /\ SettleFailure
     /\ UNCHANGED <<pendingFailure, reported>>
  \/ /\ status = "pending"
     /\ pendingFailure' = TRUE
     /\ reported' = reported \cup {attempt}
     /\ UNCHANGED <<status, teardown>>
  \/ /\ status \notin {"mounted", "pending"}
     /\ UNCHANGED <<status, teardown, pendingFailure, reported>>

-----------------------------------------------------------------------------
(* #runAttempt() *)

\* beginAttempt() and the first step: a retry reuses the definition it has.
RunAttempt ==
  /\ attempt < MaxAttempts
  /\ attempt' = attempt + 1
  /\ status' = "pending"
  /\ pendingFailure' = FALSE
  /\ run' = [run EXCEPT ![attempt + 1] = IF loaded THEN "attaching" ELSE "loading"]
  /\ attach' = [attach EXCEPT ![attempt + 1] = IF loaded THEN "queued" ELSE "none"]
  /\ UNCHANGED <<loaded, inputs, surface, teardown, disposing, reported>>

Start == attempt = 0 /\ status = "pending" /\ RunAttempt

\* Fault: any mount that is not disposed can be retried.
RetryAnytime == Idle /\ status # "disposed" /\ RunAttempt

Retry == Idle /\ status = "error" /\ RunAttempt

LoadResolves(a) ==
  /\ Idle /\ run[a] = "loading"
  /\ IF IsCurrent(a)
     THEN /\ loaded' = TRUE
          /\ run' = [run EXCEPT ![a] = "attaching"]
          /\ attach' = [attach EXCEPT ![a] = "queued"]
     ELSE run' = [run EXCEPT ![a] = "done"] /\ UNCHANGED <<loaded, attach>>
  /\ UNCHANGED <<status, attempt, pendingFailure, inputs, surface, teardown, disposing, reported>>

\* The catch of #runAttempt(): load or attach rejected, or ran into its deadline.
RunFails(a) ==
  /\ run' = [run EXCEPT ![a] = "done"]
  /\ IF IsCurrent(a) THEN SettleFailure ELSE UNCHANGED <<status, teardown>>
  /\ UNCHANGED <<attempt, loaded, pendingFailure, attach, inputs, surface, disposing, reported>>

LoadFails(a) == Idle /\ run[a] = "loading" /\ RunFails(a)

\* attach() resolved in time: mounted, unless disposed or failed in the meantime.
Attached(a) ==
  /\ Idle /\ run[a] = "attaching" /\ attach[a] = "resolved"
  /\ run' = [run EXCEPT ![a] = "done"]
  /\ \/ ~IsCurrent(a) /\ Detach /\ UNCHANGED status
     \/ IsCurrent(a) /\ pendingFailure /\ SettleFailure
     \/ IsCurrent(a) /\ ~pendingFailure /\ status' = "mounted" /\ UNCHANGED teardown
  /\ UNCHANGED <<attempt, loaded, pendingFailure, attach, inputs, surface, disposing, reported>>

AttachFailed(a) ==
  /\ Idle
  /\ run[a] = "timedOut" \/ (run[a] = "attaching" /\ attach[a] = "rejected")
  /\ RunFails(a)

\* The mount deadline: attach() goes on, and nobody waits for it any more.
MountTimesOut(a) ==
  /\ Idle /\ run[a] = "attaching" /\ attach[a] = "mounting" /\ mounting[a] = "pending"
  /\ run' = [run EXCEPT ![a] = "timedOut"]
  /\ UNCHANGED <<status, attempt, loaded, pendingFailure, attach, inputs, surface, teardown,
                 disposing, reported>>

-----------------------------------------------------------------------------
(* attach() *)

AttachStep(a, to) ==
  /\ attach' = [attach EXCEPT ![a] = to]
  /\ UNCHANGED <<status, attempt, controller, inputs, disposing, reported>>

\* One microtask after the call: refused when aborted by now, or when the consumer expects
\* an output the definition does not declare.
AttachRefused(a) ==
  /\ Idle /\ attach[a] = "queued"
  /\ AttachStep(a, "rejected")
  /\ UNCHANGED <<surface, teardown>>

\* #open(): the scope root is placed and mount() called.
Open(a) ==
  /\ Idle /\ attach[a] = "queued" /\ IsCurrent(a)
  /\ mounting' = [mounting EXCEPT ![a] = "pending"]
  /\ given' = [given EXCEPT ![a] = inputs]
  /\ AttachStep(a, "opening")
  /\ UNCHANGED <<mounted, teardown>>

\* mount() has returned its promise: only now is the attempt the one detach() sees.
Opened(a) ==
  /\ attach[a] = "opening"
  /\ current' = a
  /\ AttachStep(a, "mounting")
  /\ UNCHANGED <<surface, tear, aborted>>

\* The definition's mount() settles, in time or not, wanted or not.
MountSettles(a, outcome) ==
  /\ Idle /\ mounting[a] = "pending"
  /\ mounting' = [mounting EXCEPT ![a] = outcome]
  /\ UNCHANGED <<status, attempt, controller, attach, inputs, mounted, given, teardown,
                 disposing, reported>>

\* Fault: inputs that changed while mount() was pending never reach the definition.
AttachForgetsInputs(a) ==
  /\ Idle /\ attach[a] = "mounting" /\ mounting[a] = "resolved"
  /\ mounted' = [mounted EXCEPT ![a] = OnPage(a)]
  /\ AttachStep(a, "resolved")
  /\ UNCHANGED <<mounting, given, teardown>>

\* attach() after mount() resolved: inputs that changed since are the first update, which
\* may throw.  An attempt torn down in the meantime is left to its teardown.
AttachContinues(a) ==
  /\ Idle /\ attach[a] = "mounting" /\ mounting[a] = "resolved"
  /\ mounted' = [mounted EXCEPT ![a] = OnPage(a)]
  /\ IF OnPage(a) /\ given[a] # inputs
     THEN /\ given' = [given EXCEPT ![a] = inputs]
          /\ \E outcome \in {"resolved", "rejected"} : AttachStep(a, outcome)
     ELSE AttachStep(a, "resolved") /\ UNCHANGED given
  /\ UNCHANGED <<mounting, teardown>>

AttachRejects(a) ==
  /\ Idle /\ attach[a] = "mounting" /\ mounting[a] = "rejected"
  /\ AttachStep(a, "rejected")
  /\ UNCHANGED <<surface, teardown>>

-----------------------------------------------------------------------------
(* What the host and the definition call *)

\* onFailure(): heard until the attempt is detached, ignored by fail() once disposed.
ReportFailure(a) ==
  /\ Idle \/ attach[a] = "opening"
  /\ OnPage(a) /\ IsCurrent(a)
  /\ Fail
  /\ UNCHANGED <<attempt, loaded, run, attach, inputs, surface, disposing>>

\* update(): reaches the definition once it is mounted; one that throws is a failure.
Update(i) ==
  /\ Idle \/ HostReenters
  /\ status # "disposed" /\ i # inputs
  /\ inputs' = i
  /\ IF current # 0 /\ mounted[current]
     THEN /\ given' = [given EXCEPT ![current] = i]
          /\ Fail \/ UNCHANGED <<status, teardown, pendingFailure, reported>>
     ELSE UNCHANGED <<given, status, teardown, pendingFailure, reported>>
  /\ UNCHANGED <<attempt, loaded, run, attach, mounting, mounted, disposing>>

\* The synchronous part of #dispose() and the call of cleanup(), which waits for W.
StartDisposal(W) ==
  /\ Idle \/ HostReenters
  /\ disposal = "none"
  /\ Detach
  /\ status' = "disposed"
  /\ disposal' = "cleaning"
  /\ awaited' = W
  /\ UNCHANGED <<attempt, controller, attach, inputs, surface, reported>>

\* dispose(), by the host or because the parent's signal aborted: cleanup() waits for
\* every teardown running by then.
Dispose == StartDisposal({a \in Attempts : ~TornDown(a)'})

\* #finish()
Finish(outcome) ==
  /\ disposal' = outcome
  /\ loaded' = FALSE /\ pendingFailure' = FALSE
  /\ UNCHANGED <<status, attempt, run, attach, inputs, surface, teardown, awaited, reported>>

DisposalResolves ==
  /\ Idle /\ disposal = "cleaning"
  /\ \A a \in awaited : TornDown(a)
  /\ Finish("resolved")

DisposalTimesOut ==
  /\ Idle /\ disposal = "cleaning"
  /\ \E a \in awaited : ~TornDown(a)
  /\ Finish("rejected")

-----------------------------------------------------------------------------
(* #tearDown() *)

TearStep(a, to) ==
  /\ tear' = [tear EXCEPT ![a] = to]
  /\ aborted' = [aborted EXCEPT ![a] = @ \/ to = "done"]
  /\ UNCHANGED <<status, attempt, controller, attach, inputs, surface, current, disposing, reported>>

\* mount() settled: what it gave is disposed, or there is nothing to dispose.
TearContinues(a) ==
  /\ Idle /\ tear[a] = "waiting" /\ mounting[a] # "pending"
  /\ TearStep(a, IF mounting[a] = "resolved" THEN "disposing" ELSE "done")

\* The definition's dispose() settled; the context is disposed whatever it came to.
TearEnds(a) == Idle /\ tear[a] = "disposing" /\ TearStep(a, "done")

-----------------------------------------------------------------------------
Init ==
  /\ status = "pending" /\ attempt = 0
  /\ loaded = FALSE /\ pendingFailure = FALSE
  /\ run = [a \in Attempts |-> "none"] /\ attach = [a \in Attempts |-> "none"]
  /\ current = 0 /\ inputs \in Inputs
  /\ mounting = [a \in Attempts |-> "none"] /\ mounted = [a \in Attempts |-> FALSE]
  /\ given = [a \in Attempts |-> inputs]
  /\ aborted = [a \in Attempts |-> FALSE] /\ tear = [a \in Attempts |-> "none"]
  /\ disposal = "none" /\ awaited = {} /\ reported = {}

Step(a) ==
  \/ LoadResolves(a) \/ LoadFails(a)
  \/ AttachRefused(a) \/ Open(a) \/ Opened(a) \/ AttachContinues(a) \/ AttachRejects(a)
  \/ Attached(a) \/ AttachFailed(a) \/ MountTimesOut(a)
  \/ TearContinues(a) \/ TearEnds(a)
  \/ \E outcome \in {"resolved", "rejected"} : MountSettles(a, outcome)
  \/ ReportFailure(a)

Next ==
  \/ Start \/ Retry \/ Dispose \/ DisposalResolves \/ DisposalTimesOut
  \/ \E i \in Inputs : Update(i)
  \/ \E a \in Attempts : Step(a)

Spec == Init /\ [][Next]_vars

(***************************************************************************)
(* Timers fire and continuations run.  Nothing is assumed of definitions:   *)
(* load() and mount() may hang, which is what the deadlines are for.        *)
(***************************************************************************)
Fairness ==
  /\ WF_vars(Start) /\ WF_vars(DisposalResolves) /\ WF_vars(DisposalTimesOut)
  /\ \A a \in Attempts :
       /\ WF_vars(LoadFails(a)) /\ WF_vars(MountTimesOut(a))
       /\ WF_vars(AttachRefused(a) \/ Open(a)) /\ WF_vars(Opened(a))
       /\ WF_vars(AttachContinues(a)) /\ WF_vars(AttachRejects(a))
       /\ WF_vars(Attached(a)) /\ WF_vars(AttachFailed(a)) /\ WF_vars(TearContinues(a))

FairSpec == Spec /\ Fairness

\* A definition that stops when told: mount() ends once its signal aborted, dispose() ends.
DefinitionsStop ==
  \A a \in Attempts :
    /\ WF_vars(aborted[a] /\ \E outcome \in {"resolved", "rejected"} : MountSettles(a, outcome))
    /\ WF_vars(TearEnds(a))

-----------------------------------------------------------------------------
(* Type invariant of the controller, its attempts and their surfaces. *)
TypeOK ==
  /\ status \in {"pending", "mounted", "error", "disposed"} /\ attempt \in 0 .. MaxAttempts
  /\ loaded \in BOOLEAN /\ pendingFailure \in BOOLEAN
  /\ run \in [Attempts -> {"none", "loading", "attaching", "timedOut", "done"}]
  /\ attach \in [Attempts -> {"none", "queued", "opening", "mounting", "resolved", "rejected"}]
  /\ current \in 0 .. MaxAttempts /\ inputs \in Inputs
  /\ mounting \in [Attempts -> {"none", "pending", "resolved", "rejected"}]
  /\ mounted \in [Attempts -> BOOLEAN] /\ given \in [Attempts -> Inputs]
  /\ aborted \in [Attempts -> BOOLEAN]
  /\ tear \in [Attempts -> {"none", "waiting", "disposing", "done"}]
  /\ disposal \in {"none", "cleaning", "resolved", "rejected"}
  /\ awaited \subseteq Attempts /\ reported \subseteq Attempts

(* A handle's status tells what is on the page: a failed or disposed mount shows nothing,  *)
(* a mounted one shows its latest attempt, live, with no failure reported of it before it  *)
(* was mounted (#pendingFailure), and no two attempts are ever shown.                      *)
SurfaceMatchesStatus ==
  /\ \A a \in Attempts : OnPage(a) => a = attempt /\ status \in {"pending", "mounted"}
  /\ status = "mounted" => /\ OnPage(attempt) /\ current = attempt
                           /\ mounted[attempt] /\ ~aborted[attempt] /\ attempt \notin reported

(* Nothing outlives the attempt that put it there: once an attempt has run, its surface is *)
(* gone unless it is the one mounted ("an attempt disposed while it attached is detached   *)
(* again once the attach settles").                                                        *)
NothingLeftBehind ==
  \A a \in Attempts : OnPage(a) /\ run[a] = "done" => a = attempt /\ status = "mounted"

(* Attempts do not overlap: only the latest can be running, and none is once the mount     *)
(* says mounted or failed, so retry() never races the attempt before it.                   *)
AttemptsDoNotOverlap ==
  \A a \in Attempts :
    run[a] \notin {"none", "done"} => a = attempt /\ status \in {"pending", "disposed"}

(* A widget that is mounted has the host's latest inputs, also those that changed while it *)
(* was loading or mounting, and a retry starts with them.                                  *)
LatestInputsShown ==
  current # 0 /\ mounted[current] => given[current] = inputs

(* dispose() resolves only once every surface any attempt ever opened is torn down, and a  *)
(* mounted definition is disposed before its signal aborts, whatever takes it down.        *)
TeardownsInOrder ==
  /\ disposal = "resolved" => \A a \in Attempts : mounting[a] # "none" => tear[a] = "done"
  /\ \A a \in Attempts : mounted[a] /\ aborted[a] => tear[a] = "done"

(* What a mount is said to be and what is on the page are one thing, until it is torn down. *)
Consistent ==
  TypeOK /\ SurfaceMatchesStatus /\ NothingLeftBehind /\ LatestInputsShown /\ TeardownsInOrder

(* The mount goes through the states a MountHandle promises and no others: retry() acts on *)
(* a failed mount only, a late attempt settles nothing, disposal is final.                 *)
Handle == INSTANCE Lifecycle
KeepsLifecycle == Handle!Spec

(* A mount does not stay pending: the deadlines settle it though load() or mount() hang.   *)
MountSettlesInTime == status = "pending" ~> status # "pending"

(* dispose() settles within its deadline though a teardown never ends.                     *)
DisposalSettles == disposal = "cleaning" ~> disposal \in {"resolved", "rejected"}

(* Every surface taken off the page is torn down to the end by definitions that stop when  *)
(* told: a teardown waits for nothing that its own abort does not end.                     *)
TeardownsEnd ==
  DefinitionsStop => \A a \in Attempts : tear[a] = "waiting" ~> tear[a] = "done"

(* Whatever hangs, the host gets an answer and the page is cleaned up.                     *)
EverythingSettles == MountSettlesInTime /\ DisposalSettles /\ TeardownsEnd
=============================================================================
