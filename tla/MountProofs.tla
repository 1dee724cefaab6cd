----------------------------- MODULE MountProofs -----------------------------
(* Proofs about Mount, for any number of attempts, any inputs, and a host that may call    *)
(* back while a definition mounts; and, at the end, what ContainerLoaderProofs shows of the *)
(* loader stated of the two together, as MCMounting puts them.                              *)
EXTENDS MCMounting, TLAPS

LoaderProofs == INSTANCE ContainerLoaderProofs WITH MaxAttempts <- MaxLoads

ControllerType ==
  /\ status \in {"pending", "mounted", "error", "disposed"} /\ attempt \in 0 .. MaxAttempts
  /\ run \in [Attempts -> {"none", "loading", "attaching", "timedOut", "done"}]

\* What makes AttemptsDoNotOverlap inductive: an outcome belongs to an attempt, and the
\* status is final from the moment dispose() was first called.
OutcomeOfAttempt == status \in {"mounted", "error"} => attempt > 0
DisposedOnce == disposal = "none" <=> status # "disposed"

LifecycleInv == ControllerType /\ AttemptsDoNotOverlap /\ OutcomeOfAttempt /\ DisposedOnce

\* What one step promises: the invariant again, and a step of the handle or none.
Promise == LifecycleInv' /\ [Handle!Next]_<<status, attempt>>

LEMMA InitLifecycle == Init => LifecycleInv /\ Handle!Init
BY MountAssumption DEF Init, LifecycleInv, ControllerType, AttemptsDoNotOverlap,
   OutcomeOfAttempt, DisposedOnce, Handle!Init

LEMMA StatusStays ==
  ASSUME LifecycleInv, UNCHANGED <<status, attempt, run>>, disposal' # "none" <=> disposal # "none"
  PROVE  Promise
BY DEF Promise, LifecycleInv, ControllerType, AttemptsDoNotOverlap, OutcomeOfAttempt,
       DisposedOnce

LEMMA RunAttemptKeeps ==
  ASSUME LifecycleInv, RunAttempt, status = "error" \/ (status = "pending" /\ attempt = 0)
  PROVE  Promise
<1>. USE DEF LifecycleInv
<1>1. /\ attempt' = attempt + 1 /\ attempt' \in Attempts /\ status' = "pending"
      /\ run' = [run EXCEPT ![attempt + 1] = IF loaded THEN "attaching" ELSE "loading"]
      /\ disposal' = disposal
  BY MountAssumption DEF RunAttempt, disposing, Attempts, ControllerType
<1>2. ControllerType'
  BY <1>1 DEF ControllerType, Attempts
<1>3. AttemptsDoNotOverlap'
  <2>1. \A a \in Attempts : run[a] \in {"none", "done"}
    BY DEF AttemptsDoNotOverlap, Attempts
  <2>. QED  BY <1>1, <2>1 DEF AttemptsDoNotOverlap, ControllerType
<1>4. OutcomeOfAttempt' /\ DisposedOnce'
  BY <1>1 DEF OutcomeOfAttempt, DisposedOnce
<1>5. Handle!Next
  BY <1>1 DEF Handle!Next, Handle!BeginAttempt
<1>. QED  BY <1>2, <1>3, <1>4, <1>5 DEF Promise

\* An attempt that runs ends: mounted or failed if it is current, unseen if it is not.
LEMMA RunEnds ==
  ASSUME LifecycleInv, NEW a \in Attempts, run[a] \notin {"none", "done"},
         run' = [run EXCEPT ![a] = "done"], UNCHANGED <<attempt, disposal>>,
         \/ ~IsCurrent(a) /\ UNCHANGED status
         \/ IsCurrent(a) /\ status' \in {"mounted", "error"}
  PROVE  Promise
<1>. USE DEF LifecycleInv
<1>1. a = attempt /\ status \in {"pending", "disposed"}
  BY DEF AttemptsDoNotOverlap
<1>2. \A b \in Attempts : run'[b] \in {"none", "done"}
  BY <1>1 DEF AttemptsDoNotOverlap, ControllerType
<1>3. ControllerType' /\ AttemptsDoNotOverlap'
  BY <1>2 DEF ControllerType, AttemptsDoNotOverlap
<1>4. attempt > 0
  BY <1>1 DEF Attempts
<1>5. OutcomeOfAttempt' /\ DisposedOnce'
  BY <1>4 DEF OutcomeOfAttempt, DisposedOnce, IsCurrent
<1>6. [Handle!Next]_<<status, attempt>>
  BY <1>1, <1>4 DEF IsCurrent, Handle!Next, Handle!SettleMounted, Handle!SettleError
<1>. QED  BY <1>3, <1>5, <1>6 DEF Promise

LEMMA RunGoesOn ==
  ASSUME LifecycleInv, NEW a \in Attempts, run[a] \notin {"none", "done"},
         NEW to \in {"attaching", "timedOut"}, run' = [run EXCEPT ![a] = to],
         UNCHANGED <<status, attempt, disposal>>
  PROVE  Promise
BY DEF Promise, LifecycleInv, ControllerType, AttemptsDoNotOverlap, OutcomeOfAttempt,
       DisposedOnce

\* fail() settles a mounted attempt and no other.
LEMMA FailKeeps ==
  ASSUME LifecycleInv, Fail, UNCHANGED <<attempt, run, disposal>>
  PROVE  Promise
<1>. USE DEF LifecycleInv
<1>1. UNCHANGED status \/ (status = "mounted" /\ status' = "error")
  BY DEF Fail, SettleFailure
<1>2. CASE status = "mounted" /\ status' = "error"
  BY <1>2 DEF Promise, ControllerType, AttemptsDoNotOverlap, OutcomeOfAttempt, DisposedOnce,
              Handle!Next, Handle!SettleError
<1>. QED  BY <1>1, <1>2, StatusStays

LEMMA DisposeKeeps ==
  ASSUME LifecycleInv, Dispose
  PROVE  Promise
BY DEF Dispose, StartDisposal, controller, Promise, LifecycleInv, ControllerType,
       AttemptsDoNotOverlap, OutcomeOfAttempt, DisposedOnce, Handle!Next, Handle!MarkDisposed

LEMMA StepKeeps ==
  ASSUME LifecycleInv, NEW a \in Attempts, Step(a)
  PROVE  Promise
<1>. USE DEF controller, disposing
<1>1. ASSUME LoadResolves(a) PROVE Promise
  BY <1>1, RunGoesOn, RunEnds DEF LoadResolves
<1>2. ASSUME LoadFails(a) \/ AttachFailed(a) PROVE Promise
  BY <1>2, RunEnds DEF LoadFails, AttachFailed, RunFails, SettleFailure
<1>3. ASSUME Attached(a) PROVE Promise
  BY <1>3, RunEnds DEF Attached, SettleFailure
<1>4. ASSUME MountTimesOut(a) PROVE Promise
  BY <1>4, RunGoesOn DEF MountTimesOut
<1>5. ASSUME \/ AttachRefused(a) \/ Open(a) \/ Opened(a) \/ AttachContinues(a)
             \/ AttachRejects(a)
      PROVE  Promise
  BY <1>5, StatusStays
     DEF AttachRefused, Open, Opened, AttachContinues, AttachRejects, AttachStep
<1>6. ASSUME NEW end, MountSettles(a, end) PROVE Promise
  BY <1>6, StatusStays DEF MountSettles
<1>7. ASSUME TearContinues(a) \/ TearEnds(a) PROVE Promise
  BY <1>7, StatusStays DEF TearContinues, TearEnds, TearStep
<1>8. ASSUME ReportFailure(a) PROVE Promise
  BY <1>8, FailKeeps DEF ReportFailure
<1>. QED  BY <1>1, <1>2, <1>3, <1>4, <1>5, <1>6, <1>7, <1>8 DEF Step

LEMMA NextKeeps == LifecycleInv /\ [Next]_vars => Promise
<1>. SUFFICES ASSUME LifecycleInv, [Next]_vars PROVE Promise
  OBVIOUS
<1>1. ASSUME Start \/ Retry PROVE Promise
  BY <1>1, RunAttemptKeeps DEF Start, Retry
<1>2. ASSUME DisposalResolves \/ DisposalTimesOut PROVE Promise
  BY <1>2, StatusStays DEF DisposalResolves, DisposalTimesOut, Finish
<1>3. ASSUME NEW i \in Inputs, Update(i) PROVE Promise
  BY <1>3, FailKeeps, StatusStays DEF Update, disposing
<1>4. ASSUME UNCHANGED vars PROVE Promise
  BY <1>4, StatusStays DEF vars, controller, disposing
<1>. QED  BY <1>1, <1>2, <1>3, <1>4, DisposeKeeps, StepKeeps DEF Next

(* Attempts do not overlap: only the latest can be running, and none is once the mount says *)
(* mounted or failed, whatever settles late and whoever calls when.                         *)
THEOREM AttemptsNeverOverlap == Spec => []AttemptsDoNotOverlap
<1>1. LifecycleInv => AttemptsDoNotOverlap
  BY DEF LifecycleInv
<1>2. LifecycleInv /\ [Next]_vars => LifecycleInv'
  BY NextKeeps DEF Promise
<1>. QED  BY <1>1, <1>2, InitLifecycle, PTL DEF Spec

(* The controller implements the lifecycle of a MountHandle: every step is one the handle   *)
(* promises, or changes neither its status nor its attempt.                                 *)
THEOREM ImplementsLifecycle == Spec => KeepsLifecycle
<1>1. LifecycleInv /\ [Next]_vars => LifecycleInv' /\ [Handle!Next]_Handle!lifecycle
  BY NextKeeps DEF Promise, Handle!lifecycle
<1>2. Init => LifecycleInv /\ Handle!Init
  BY InitLifecycle
<1>. QED  BY <1>1, <1>2, PTL DEF Spec, KeepsLifecycle, Handle!Spec

-----------------------------------------------------------------------------
(* What is on the page, for a host that does not call back while mount() is on the stack *)

\* An attempt that has not begun has left nothing.
NotBegun ==
  \A a \in Attempts : a > attempt =>
    /\ run[a] = "none" /\ attach[a] = "none" /\ mounting[a] = "none" /\ tear[a] = "none"
    /\ a \notin reported

\* How far an attempt has come: run, attach(), mount(), the teardown.
Stages ==
  \A a \in Attempts :
    /\ run[a] = "loading" => attach[a] = "none"
    /\ attach[a] \in {"queued", "opening"} => run[a] = "attaching"
    /\ attach[a] = "opening" => IsCurrent(a)
    /\ attach[a] \in {"none", "queued"} => mounting[a] = "none"
    /\ attach[a] \in {"opening", "mounting", "resolved"} => mounting[a] # "none"
    /\ mounted[a] => attach[a] \in {"resolved", "rejected"}
    /\ attach[a] = "resolved" /\ OnPage(a) => mounted[a]
    /\ tear[a] # "none" => mounting[a] # "none"
    /\ aborted[a] => tear[a] # "none"

\* What is on the page is what detach() would take off, from the end of #open() on.
Shown ==
  /\ current # 0 => OnPage(current) /\ attach[current] # "opening"
  /\ \A a \in Attempts : OnPage(a) => a = current \/ attach[a] = "opening"
  /\ attempt # 0 /\ status \in {"pending", "mounted"} => tear[attempt] = "none"

\* A failure reported of a pending attempt is not forgotten,
FailureNoted == status = "pending" /\ attempt \in reported => pendingFailure

\* and a disposal waits for every teardown that is not over.
DisposalWaits ==
  disposal = "cleaning" =>
    \A a \in Attempts : mounting[a] # "none" => tear[a] = "done" \/ a \in awaited

MountInv ==
  LifecycleInv /\ Consistent /\ NotBegun /\ Stages /\ Shown /\ FailureNoted /\ DisposalWaits

\* TypeOK in parts that steps change together, ControllerType being the first.
SurfaceType ==
  /\ attach \in [Attempts -> {"none", "queued", "opening", "mounting", "resolved", "rejected"}]
  /\ mounting \in [Attempts -> {"none", "pending", "resolved", "rejected"}]
  /\ mounted \in [Attempts -> BOOLEAN]
  /\ inputs \in Inputs /\ given \in [Attempts -> Inputs]

TeardownType ==
  /\ current \in 0 .. MaxAttempts
  /\ aborted \in [Attempts -> BOOLEAN]
  /\ tear \in [Attempts -> {"none", "waiting", "disposing", "done"}]

RestType ==
  /\ loaded \in BOOLEAN /\ pendingFailure \in BOOLEAN
  /\ disposal \in {"none", "cleaning", "resolved", "rejected"}
  /\ awaited \subseteq Attempts /\ reported \subseteq Attempts

LEMMA TypeParts == TypeOK <=> ControllerType /\ SurfaceType /\ TeardownType /\ RestType
BY DEF TypeOK, ControllerType, SurfaceType, TeardownType, RestType

LEMMA TypePartsPrime ==
  TypeOK' <=> ControllerType' /\ SurfaceType' /\ TeardownType' /\ RestType'
BY DEF TypeOK, ControllerType, SurfaceType, TeardownType, RestType

LEMMA InitMountInv == Init => MountInv
<1>. SUFFICES ASSUME Init PROVE MountInv
  OBVIOUS
<1>1. LifecycleInv
  BY InitLifecycle
<1>2. SurfaceType
  BY DEF Init, SurfaceType
<1>3. TeardownType /\ RestType
  <2>1. 0 \in 0 .. MaxAttempts
    BY MountAssumption
  <2>2. aborted \in [Attempts -> BOOLEAN]
    BY DEF Init
  <2>3. tear \in [Attempts -> {"none", "waiting", "disposing", "done"}]
    BY DEF Init
  <2>. QED  BY <2>1, <2>2, <2>3 DEF Init, TeardownType, RestType
<1>4. TypeOK
  BY <1>1, <1>2, <1>3, TypeParts DEF LifecycleInv
<1>5. \A a \in Attempts :
        /\ run[a] = "none" /\ attach[a] = "none" /\ mounting[a] = "none" /\ ~mounted[a]
        /\ tear[a] = "none" /\ ~aborted[a] /\ ~OnPage(a)
  BY DEF Init, OnPage
<1>6. /\ status = "pending" /\ attempt = 0 /\ current = 0 /\ disposal = "none"
      /\ reported = {}
  BY DEF Init
<1>7. SurfaceMatchesStatus /\ NothingLeftBehind /\ LatestInputsShown /\ TeardownsInOrder
  BY <1>5, <1>6 DEF SurfaceMatchesStatus, NothingLeftBehind, LatestInputsShown, TeardownsInOrder
<1>8. NotBegun /\ Stages /\ Shown /\ FailureNoted /\ DisposalWaits
  BY <1>5, <1>6 DEF NotBegun, Stages, Shown, FailureNoted, DisposalWaits
<1>. QED  BY <1>1, <1>4, <1>7, <1>8 DEF MountInv, Consistent

\* detach() leaves nothing on the page, and starts at most the teardown of what was.
LEMMA DetachTakes ==
  ASSUME MountInv, Idle, Detach, UNCHANGED mounting
  PROVE  /\ current' = 0
         /\ tear' \in [Attempts -> {"none", "waiting", "disposing", "done"}]
         /\ aborted' \in [Attempts -> BOOLEAN]
         /\ \A a \in Attempts :
              /\ ~OnPage(a)'
              /\ \/ tear'[a] = tear[a] /\ aborted'[a] = aborted[a]
                 \/ /\ tear[a] = "none" /\ tear'[a] = "waiting" /\ mounting[a] # "none"
                    /\ mounted[a] => ~aborted'[a]
<1>. USE DEF MountInv, Consistent
<1>1. \A a \in Attempts : OnPage(a) => a = current
  BY DEF Shown, Idle, Opening
<1>2. CASE current = 0
  BY <1>1, <1>2, MountAssumption DEF Detach, teardown, OnPage, TypeOK, Attempts
<1>3. CASE current # 0
  <2>1. current \in Attempts /\ tear[current] = "none" /\ mounting[current] # "none"
        /\ ~aborted[current]
    BY <1>3 DEF Shown, OnPage, Stages, TypeOK, Attempts
  <2>2. /\ current' = 0
        /\ tear' = [tear EXCEPT ![current] = "waiting"]
        /\ aborted' = [aborted EXCEPT ![current] = @ \/ ~mounted[current]]
    BY <1>3 DEF Detach
  <2>3. /\ tear' \in [Attempts -> {"none", "waiting", "disposing", "done"}]
        /\ aborted' \in [Attempts -> BOOLEAN]
        /\ tear'[current] = "waiting" /\ (mounted[current] => ~aborted'[current])
        /\ \A a \in Attempts \ {current} : tear'[a] = tear[a] /\ aborted'[a] = aborted[a]
    BY <2>1, <2>2 DEF TypeOK
  <2>4. \A a \in Attempts : ~OnPage(a)'
    BY <1>1, <2>3 DEF OnPage
  <2>. QED  BY <2>1, <2>2, <2>3, <2>4
<1>. QED  BY <1>2, <1>3

\* Steps that leave nothing on the page: a failure, a disposal, an attach nobody wants.
LEMMA TakenOff ==
  ASSUME MountInv, LifecycleInv', Idle, Detach, status' \in {"error", "disposed"},
         UNCHANGED <<attempt, loaded, pendingFailure, attach, mounting, mounted, reported>>,
         inputs' \in Inputs, given' \in [Attempts -> Inputs],
         \A a \in Attempts :
           \/ run'[a] = run[a]
           \/ run'[a] = "done" /\ run[a] # "none" /\ attach[a] \notin {"queued", "opening"},
         \/ UNCHANGED <<disposal, awaited>>
         \/ disposal' = "cleaning" /\ awaited' = {a \in Attempts : ~TornDown(a)'}
  PROVE  MountInv'
<1>. USE DEF MountInv, Consistent
<1>1. /\ current' = 0
      /\ tear' \in [Attempts -> {"none", "waiting", "disposing", "done"}]
      /\ aborted' \in [Attempts -> BOOLEAN]
      /\ \A a \in Attempts :
           /\ ~OnPage(a)'
           /\ \/ tear'[a] = tear[a] /\ aborted'[a] = aborted[a]
              \/ /\ tear[a] = "none" /\ tear'[a] = "waiting" /\ mounting[a] # "none"
                 /\ mounted[a] => ~aborted'[a]
  BY DetachTakes
<1>2. TypeOK'
  <2>1. SurfaceType'
    BY TypeParts DEF SurfaceType
  <2>2. TeardownType'
    BY <1>1, MountAssumption DEF TeardownType
  <2>3. RestType'
    BY TypeParts DEF RestType
  <2>. QED  BY <2>1, <2>2, <2>3, TypePartsPrime DEF LifecycleInv
<1>3. SurfaceMatchesStatus' /\ NothingLeftBehind' /\ LatestInputsShown' /\ Shown'
      /\ FailureNoted'
  BY <1>1 DEF SurfaceMatchesStatus, NothingLeftBehind, LatestInputsShown, Shown, FailureNoted
<1>4. NotBegun'
  BY <1>1 DEF NotBegun
<1>5. Stages'
  BY <1>1 DEF Stages, Idle, Opening
<1>6. DisposalWaits'
  <2>1. \A a \in Attempts : mounting[a] # "none" => tear'[a] \in {"waiting", "disposing", "done"}
    BY <1>1 DEF OnPage
  <2>2. CASE UNCHANGED <<disposal, awaited>>
    BY <1>1, <2>2 DEF DisposalWaits
  <2>3. CASE awaited' = {a \in Attempts : ~TornDown(a)'}
    BY <2>1, <2>3 DEF DisposalWaits, TornDown
  <2>. QED  BY <2>2, <2>3
<1>7. TeardownsInOrder'
  BY <1>1 DEF TeardownsInOrder
<1>. QED  BY <1>2, <1>3, <1>4, <1>5, <1>6, <1>7

LEMMA RunAttemptShows ==
  ASSUME MountInv, LifecycleInv', RunAttempt, status = "error" \/ (status = "pending" /\ attempt = 0)
  PROVE  MountInv'
<1>. USE DEF MountInv, Consistent
<1>1. /\ attempt' = attempt + 1 /\ attempt' \in Attempts /\ attempt \in Nat
      /\ status' = "pending"
      /\ run' = [run EXCEPT ![attempt + 1] = IF loaded THEN "attaching" ELSE "loading"]
      /\ attach' = [attach EXCEPT ![attempt + 1] = IF loaded THEN "queued" ELSE "none"]
      /\ UNCHANGED <<loaded, inputs, mounting, mounted, given, current, tear, aborted, disposal,
                     awaited, reported>>
  BY MountAssumption DEF RunAttempt, disposing, surface, teardown, Attempts, TypeOK
<1>2. /\ run[attempt + 1] = "none" /\ attach[attempt + 1] = "none"
      /\ mounting[attempt + 1] = "none" /\ tear[attempt + 1] = "none"
      /\ attempt + 1 \notin reported
  BY <1>1 DEF NotBegun
<1>3. \A a \in Attempts : ~OnPage(a)
  BY MountAssumption DEF SurfaceMatchesStatus, Attempts
<1>4. \A a \in Attempts : ~OnPage(a)'
  BY <1>1, <1>3 DEF OnPage
<1>5. current = 0
  BY <1>3 DEF Shown, TypeOK, Attempts
<1>6. TypeOK'
  <2>1. SurfaceType'
    BY <1>1, TypeParts DEF SurfaceType
  <2>2. TeardownType'
    BY <1>1, TypeParts DEF TeardownType
  <2>3. RestType'
    BY <1>1, TypeParts DEF RestType, RunAttempt
  <2>. QED  BY <2>1, <2>2, <2>3, TypePartsPrime DEF LifecycleInv
<1>7. \A a \in Attempts : a # attempt + 1 => run'[a] = run[a] /\ attach'[a] = attach[a]
  BY <1>1 DEF TypeOK
<1>8. /\ run'[attempt + 1] \in {"attaching", "loading"}
      /\ attach'[attempt + 1] = IF run'[attempt + 1] = "attaching" THEN "queued" ELSE "none"
  BY <1>1 DEF TypeOK
<1>9. SurfaceMatchesStatus' /\ NothingLeftBehind' /\ LatestInputsShown' /\ Shown'
  BY <1>1, <1>2, <1>4, <1>5
     DEF SurfaceMatchesStatus, NothingLeftBehind, LatestInputsShown, Shown
<1>10. NotBegun'
  BY <1>1, <1>7 DEF NotBegun, Attempts
<1>11. Stages'
  <2>1. \A a \in Attempts : attach[a] # "opening"
    BY DEF Stages, IsCurrent, LifecycleInv, AttemptsDoNotOverlap, Attempts
  <2>. QED  BY <1>1, <1>2, <1>4, <1>7, <1>8, <2>1 DEF Stages, TypeOK
<1>12. FailureNoted' /\ DisposalWaits' /\ TeardownsInOrder'
  BY <1>1, <1>2 DEF FailureNoted, DisposalWaits, TeardownsInOrder
<1>. QED  BY <1>6, <1>9, <1>10, <1>11, <1>12

\* Steps of #runAttempt() that take nothing off the page.
LEMMA RunShows ==
  ASSUME MountInv, LifecycleInv', Idle, NEW a \in Attempts, run[a] \notin {"none", "done"},
         NEW to \in {"attaching", "timedOut", "done"}, run' = [run EXCEPT ![a] = to],
         \/ status' = status
         \/ /\ status' = "mounted" /\ IsCurrent(a) /\ ~pendingFailure /\ to = "done"
            /\ attach[a] = "resolved",
         \/ attach' = attach /\ attach[a] \notin {"queued", "opening"}
         \/ to = "attaching" /\ attach' = [attach EXCEPT ![a] = "queued"] /\ attach[a] = "none",
         to = "done" /\ OnPage(a) => status' = "mounted",
         loaded' \in BOOLEAN,
         UNCHANGED <<attempt, pendingFailure, inputs, surface, teardown, disposing, reported>>
  PROVE  MountInv'
<1>. USE DEF MountInv, Consistent, surface, teardown, disposing
<1>1. a = attempt /\ status \in {"pending", "disposed"}
  BY DEF LifecycleInv, AttemptsDoNotOverlap
<1>2. /\ run'[a] = to /\ \A b \in Attempts \ {a} : run'[b] = run[b] /\ attach'[b] = attach[b]
      /\ attach'[a] = attach[a] \/ (to = "attaching" /\ attach'[a] = "queued" /\ attach[a] = "none")
      /\ attach' \in [Attempts -> {"none", "queued", "opening", "mounting", "resolved",
                                   "rejected"}]
  BY TypeParts DEF ControllerType, SurfaceType
<1>3. \A b \in Attempts : OnPage(b)' <=> OnPage(b)
  BY DEF OnPage
<1>4. TypeOK'
  <2>1. SurfaceType'
    BY <1>2, TypeParts DEF SurfaceType
  <2>2. TeardownType' /\ RestType'
    BY TypeParts DEF TeardownType, RestType
  <2>. QED  BY <2>1, <2>2, TypePartsPrime DEF LifecycleInv
<1>5. status' = "mounted" => /\ OnPage(attempt) /\ current = attempt /\ mounted[attempt]
                             /\ ~aborted[attempt] /\ attempt \notin reported
  BY <1>1 DEF Stages, Shown, FailureNoted, OnPage, Attempts, IsCurrent
<1>6. SurfaceMatchesStatus' /\ NothingLeftBehind'
  BY <1>1, <1>2, <1>3, <1>5 DEF SurfaceMatchesStatus, NothingLeftBehind
<1>7. LatestInputsShown' /\ TeardownsInOrder' /\ FailureNoted' /\ DisposalWaits'
  BY <1>1, <1>5 DEF LatestInputsShown, TeardownsInOrder, FailureNoted, DisposalWaits
<1>8. NotBegun'
  BY <1>1, <1>2 DEF NotBegun, Attempts
<1>9. \A b \in Attempts : attach[b] # "opening" /\ attach'[b] # "opening"
  BY <1>2 DEF Idle, Opening
<1>10. Stages'
  BY <1>2, <1>3, <1>9 DEF Stages
<1>11. Shown'
  <2>1. attempt # 0 => tear[attempt] = "none" \/ status = "disposed"
    BY <1>1 DEF Shown
  <2>2. \A b \in Attempts : OnPage(b) => b = current
    BY <1>9 DEF Shown
  <2>3. current # 0 => current \in Attempts /\ OnPage(current)
    BY DEF Shown, TypeOK, Attempts
  <2>4. status' = "disposed" \/ status # "disposed"
    BY DEF IsCurrent
  <2>. QED  BY <1>1, <1>3, <1>9, <2>1, <2>2, <2>3, <2>4 DEF Shown
<1>. QED  BY <1>4, <1>6, <1>7, <1>8, <1>10, <1>11

\* Steps of attach() and of mount() before what is on the page is known to be mounted.
LEMMA AttachShows ==
  ASSUME MountInv, LifecycleInv', NEW a \in Attempts,
         NEW to \in {"opening", "mounting", "resolved", "rejected"},
         attach' = [attach EXCEPT ![a] = to],
         \/ attach[a] = "queued" /\ to = "rejected"
         \/ attach[a] = "opening" /\ to = "mounting"
         \/ attach[a] = "mounting" /\ to = "rejected",
         IF to = "mounting" THEN current' = a ELSE current' = current,
         UNCHANGED <<status, attempt, controller, inputs, surface, tear, aborted, disposing,
                     reported>>
  PROVE  MountInv'
<1>. USE DEF MountInv, Consistent, surface, disposing, controller
<1>1. /\ attach'[a] = to /\ \A b \in Attempts \ {a} : attach'[b] = attach[b]
      /\ attach' \in [Attempts -> {"none", "queued", "opening", "mounting", "resolved",
                                   "rejected"}]
  BY TypeParts DEF SurfaceType
<1>2. \A b \in Attempts : OnPage(b)' <=> OnPage(b)
  BY DEF OnPage
<1>3. attach[a] = "opening" => OnPage(a) /\ a = attempt /\ ~mounted[a] /\ status = "pending"
  <2>. SUFFICES ASSUME attach[a] = "opening"
                PROVE  OnPage(a) /\ a = attempt /\ ~mounted[a] /\ status = "pending"
    OBVIOUS
  <2>1. run[a] = "attaching" /\ mounting[a] # "none" /\ ~mounted[a]
    BY DEF Stages
  <2>2. a = attempt /\ status = "pending"
    BY <2>1 DEF Stages, IsCurrent, LifecycleInv, AttemptsDoNotOverlap
  <2>. QED  BY <2>1, <2>2 DEF Shown, OnPage, Attempts
<1>4. TypeOK'
  <2>1. SurfaceType' /\ RestType'
    BY <1>1, TypeParts DEF SurfaceType, RestType
  <2>2. TeardownType'
    BY TypeParts DEF TeardownType, Attempts
  <2>. QED  BY <2>1, <2>2, TypePartsPrime DEF LifecycleInv
<1>10. current' = current \/ (current' = a /\ attach[a] = "opening" /\ status = "pending")
  BY <1>3
<1>5. SurfaceMatchesStatus' /\ NothingLeftBehind'
  BY <1>2, <1>10 DEF SurfaceMatchesStatus, NothingLeftBehind, OnPage
<1>6. LatestInputsShown' /\ TeardownsInOrder' /\ FailureNoted' /\ DisposalWaits'
  BY <1>1, <1>3 DEF LatestInputsShown, TeardownsInOrder, FailureNoted, DisposalWaits
<1>7. NotBegun'
  BY <1>1 DEF NotBegun
<1>8. Stages'
  BY <1>1, <1>2 DEF Stages, IsCurrent
<1>9. Shown'
  <2>1. \A b \in Attempts : OnPage(b) => b = current' \/ attach'[b] = "opening"
    BY <1>1, <1>3, <1>10 DEF Shown, SurfaceMatchesStatus
  <2>2. current' # 0 => OnPage(current') /\ attach'[current'] # "opening"
    BY <1>1, <1>3, <1>10 DEF Shown, TypeOK, Attempts
  <2>. QED  BY <1>2, <2>1, <2>2 DEF Shown, OnPage
<1>. QED  BY <1>4, <1>5, <1>6, <1>7, <1>8, <1>9

\* #open() puts the current attempt on the page, and nothing else is there.
LEMMA OpenShows ==
  ASSUME MountInv, LifecycleInv', NEW a \in Attempts, Open(a)
  PROVE  MountInv'
<1>. USE DEF MountInv, Consistent
<1>1. /\ Idle /\ attach[a] = "queued" /\ IsCurrent(a)
      /\ mounting' = [mounting EXCEPT ![a] = "pending"]
      /\ given' = [given EXCEPT ![a] = inputs]
      /\ attach' = [attach EXCEPT ![a] = "opening"]
      /\ UNCHANGED <<status, attempt, loaded, pendingFailure, run, inputs, disposal, awaited,
                     reported, mounted, current, tear, aborted>>
  BY DEF Open, AttachStep, controller, disposing, teardown
<1>2. a = attempt /\ status = "pending" /\ run[a] = "attaching"
  BY <1>1 DEF IsCurrent, Stages, LifecycleInv, AttemptsDoNotOverlap
<1>3. mounting[a] = "none" /\ ~mounted[a] /\ tear[a] = "none" /\ disposal = "none"
  BY <1>1, <1>2 DEF Stages, LifecycleInv, DisposedOnce
<1>4. \A b \in Attempts : ~OnPage(b)
  <2>1. \A b \in Attempts : OnPage(b) => b = a
    BY <1>2 DEF SurfaceMatchesStatus
  <2>. QED  BY <1>3, <2>1 DEF OnPage
<1>5. current = 0
  BY <1>4 DEF Shown, TypeOK, Attempts
<1>6. /\ mounting'[a] = "pending" /\ attach'[a] = "opening"
      /\ \A b \in Attempts \ {a} : mounting'[b] = mounting[b] /\ attach'[b] = attach[b]
  BY <1>1, TypeParts DEF SurfaceType
<1>7. OnPage(a)' /\ \A b \in Attempts \ {a} : ~OnPage(b)'
  BY <1>1, <1>3, <1>4, <1>6 DEF OnPage
<1>8. TypeOK'
  <2>1. SurfaceType'
    BY <1>1, TypeParts DEF SurfaceType
  <2>2. TeardownType' /\ RestType'
    BY <1>1, TypeParts DEF TeardownType, RestType
  <2>. QED  BY <2>1, <2>2, TypePartsPrime DEF LifecycleInv
<1>9. SurfaceMatchesStatus' /\ NothingLeftBehind'
  BY <1>1, <1>2, <1>7 DEF SurfaceMatchesStatus, NothingLeftBehind
<1>10. LatestInputsShown' /\ TeardownsInOrder' /\ FailureNoted' /\ DisposalWaits'
  BY <1>1, <1>2, <1>3, <1>5
     DEF LatestInputsShown, TeardownsInOrder, FailureNoted, DisposalWaits
<1>11. NotBegun'
  BY <1>1, <1>2, <1>6 DEF NotBegun, Attempts
<1>12. Stages'
  BY <1>1, <1>2, <1>3, <1>6, <1>7 DEF Stages, IsCurrent, OnPage
<1>13. Shown'
  BY <1>1, <1>3, <1>2, <1>5, <1>6, <1>7 DEF Shown
<1>. QED  BY <1>8, <1>9, <1>10, <1>11, <1>12, <1>13

LEMMA MountSettlesShows ==
  ASSUME MountInv, LifecycleInv', NEW a \in Attempts, NEW to \in {"resolved", "rejected"},
         MountSettles(a, to)
  PROVE  MountInv'
<1>. USE DEF MountInv, Consistent
<1>1. /\ mounting[a] = "pending" /\ mounting' = [mounting EXCEPT ![a] = to]
      /\ UNCHANGED <<status, attempt, loaded, pendingFailure, run, attach, inputs, mounted,
                     given, disposal, awaited, reported, current, tear, aborted>>
  BY DEF MountSettles, controller, disposing, teardown
<1>2. \A b \in Attempts : mounting'[b] = "none" <=> mounting[b] = "none"
  BY <1>1, TypeParts DEF SurfaceType
<1>3. \A b \in Attempts : OnPage(b)' <=> OnPage(b)
  BY <1>1, <1>2 DEF OnPage
<1>4. TypeOK'
  <2>1. SurfaceType'
    BY <1>1, TypeParts DEF SurfaceType
  <2>2. TeardownType' /\ RestType'
    BY <1>1, TypeParts DEF TeardownType, RestType
  <2>. QED  BY <2>1, <2>2, TypePartsPrime DEF LifecycleInv
<1>5. status = "mounted" => attempt \in Attempts
  BY MountAssumption DEF LifecycleInv, OutcomeOfAttempt, TypeOK, Attempts
<1>6. SurfaceMatchesStatus' /\ NothingLeftBehind'
  BY <1>1, <1>3, <1>5 DEF SurfaceMatchesStatus, NothingLeftBehind
<1>7. LatestInputsShown' /\ TeardownsInOrder' /\ FailureNoted' /\ DisposalWaits'
  BY <1>1, <1>2 DEF LatestInputsShown, TeardownsInOrder, FailureNoted, DisposalWaits
<1>8. NotBegun'
  BY <1>1, <1>2 DEF NotBegun
<1>9. Stages'
  BY <1>1, <1>2, <1>3 DEF Stages, IsCurrent
<1>10. Shown'
  BY <1>1, <1>3 DEF Shown, TypeOK, Attempts
<1>. QED  BY <1>4, <1>6, <1>7, <1>8, <1>9, <1>10

\* attach() goes on with the latest inputs, and only for what is still on the page.
LEMMA AttachContinuesShows ==
  ASSUME MountInv, LifecycleInv', NEW a \in Attempts, AttachContinues(a)
  PROVE  MountInv'
<1>. USE DEF MountInv, Consistent
<1>1. PICK to \in {"resolved", "rejected"} :
        /\ attach[a] = "mounting"
        /\ attach' = [attach EXCEPT ![a] = to]
        /\ mounted' = [mounted EXCEPT ![a] = OnPage(a)]
        /\ given' \in {given, [given EXCEPT ![a] = inputs]}
        /\ OnPage(a) => given'[a] = inputs
        /\ UNCHANGED <<status, attempt, loaded, pendingFailure, run, inputs, mounting, disposal,
                       awaited, reported, current, tear, aborted>>
  <2>1. a \in DOMAIN given
    BY TypeParts DEF SurfaceType
  <2>2. CASE OnPage(a) /\ given[a] # inputs
    BY <2>1, <2>2 DEF AttachContinues, AttachStep, controller, disposing, teardown
  <2>3. CASE ~(OnPage(a) /\ given[a] # inputs)
    BY <2>3 DEF AttachContinues, AttachStep, controller, disposing, teardown
  <2>. QED  BY <2>2, <2>3
<1>2. /\ attach'[a] = to /\ mounted'[a] = OnPage(a) /\ ~mounted[a]
      /\ \A b \in Attempts \ {a} :
           attach'[b] = attach[b] /\ mounted'[b] = mounted[b] /\ given'[b] = given[b]
  BY <1>1, TypeParts DEF SurfaceType, Stages
<1>3. \A b \in Attempts : OnPage(b)' <=> OnPage(b)
  BY <1>1 DEF OnPage
<1>4. TypeOK'
  <2>1. attach' \in [Attempts -> {"none", "queued", "opening", "mounting", "resolved",
                                  "rejected"}]
    BY <1>1, TypeParts DEF SurfaceType
  <2>2. mounted' \in [Attempts -> BOOLEAN]
    BY <1>1, TypeParts DEF SurfaceType, OnPage
  <2>3. given' \in [Attempts -> Inputs]
    BY <1>1, TypeParts DEF SurfaceType
  <2>4. SurfaceType'
    BY <1>1, <2>1, <2>2, <2>3, TypeParts DEF SurfaceType
  <2>5. TeardownType' /\ RestType'
    BY <1>1, TypeParts DEF TeardownType, RestType
  <2>. QED  BY <2>4, <2>5, TypePartsPrime DEF LifecycleInv
<1>5. SurfaceMatchesStatus' /\ NothingLeftBehind'
  <2>1. status = "mounted" => mounted'[attempt]
    BY <1>2 DEF SurfaceMatchesStatus, LifecycleInv, ControllerType, OutcomeOfAttempt, Attempts
  <2>2. \A b \in Attempts : OnPage(b) => b = attempt /\ status \in {"pending", "mounted"}
    BY DEF SurfaceMatchesStatus
  <2>3. status = "mounted" => /\ mounting[attempt] # "none" /\ tear[attempt] = "none"
                              /\ current = attempt /\ ~aborted[attempt] /\ attempt \notin reported
    BY DEF SurfaceMatchesStatus, OnPage
  <2>4. SurfaceMatchesStatus'
    BY <1>1, <1>3, <2>1, <2>2, <2>3 DEF SurfaceMatchesStatus, OnPage
  <2>5. NothingLeftBehind'
    BY <1>1, <1>3 DEF NothingLeftBehind
  <2>. QED  BY <2>4, <2>5
<1>6. LatestInputsShown'
  <2>1. current # 0 => current \in Attempts /\ OnPage(current)
    BY DEF Shown, TypeOK, Attempts
  <2>. QED  BY <1>1, <1>2, <2>1 DEF LatestInputsShown
<1>7. TeardownsInOrder' /\ FailureNoted' /\ DisposalWaits'
  BY <1>1, <1>2 DEF TeardownsInOrder, FailureNoted, DisposalWaits, Stages, OnPage
<1>8. NotBegun'
  BY <1>1, <1>2 DEF NotBegun
<1>9. Stages'
  BY <1>1, <1>2, <1>3 DEF Stages, IsCurrent
<1>10. Shown'
  BY <1>1, <1>2, <1>3 DEF Shown, TypeOK, Attempts
<1>. QED  BY <1>4, <1>5, <1>6, <1>7, <1>8, <1>9, <1>10

\* Steps of the host and of the definition that take nothing off the page.
LEMMA HostShows ==
  ASSUME MountInv, LifecycleInv',
         UNCHANGED <<status, attempt, loaded, run, attach, mounting, mounted, teardown,
                     disposing>>,
         \/ UNCHANGED <<pendingFailure, reported>>
         \/ /\ pendingFailure' = TRUE /\ reported' = reported \cup {attempt}
            /\ status = "pending" /\ attempt \in Attempts,
         inputs' \in Inputs,
         \/ UNCHANGED <<inputs, given>>
         \/ given' = given /\ ~(current # 0 /\ mounted[current])
         \/ current # 0 /\ given' = [given EXCEPT ![current] = inputs']
  PROVE  MountInv'
<1>. USE DEF MountInv, Consistent, teardown, disposing
<1>1. \A a \in Attempts : OnPage(a)' <=> OnPage(a)
  BY DEF OnPage
<1>2. TypeOK'
  <2>1. SurfaceType'
    BY TypeParts DEF SurfaceType
  <2>2. TeardownType' /\ RestType'
    BY TypeParts DEF TeardownType, RestType
  <2>. QED  BY <2>1, <2>2, TypePartsPrime DEF LifecycleInv
<1>3. SurfaceMatchesStatus' /\ NothingLeftBehind'
  BY <1>1 DEF SurfaceMatchesStatus, NothingLeftBehind, OnPage
<1>4. LatestInputsShown'
  <2>1. current # 0 => current \in Attempts
    BY DEF TypeOK, Attempts
  <2>. QED  BY <2>1, TypeParts DEF LatestInputsShown, SurfaceType
<1>5. TeardownsInOrder' /\ FailureNoted' /\ DisposalWaits'
  BY DEF TeardownsInOrder, FailureNoted, DisposalWaits
<1>6. NotBegun'
  BY DEF NotBegun, Attempts
<1>7. Stages' /\ Shown'
  BY <1>1 DEF Stages, Shown, IsCurrent, OnPage
<1>. QED  BY <1>2, <1>3, <1>4, <1>5, <1>6, <1>7

LEMMA FinishShows ==
  ASSUME MountInv, LifecycleInv', DisposalResolves \/ DisposalTimesOut
  PROVE  MountInv'
<1>. USE DEF MountInv, Consistent
<1>1. /\ disposal = "cleaning" /\ disposal' \in {"resolved", "rejected"}
      /\ disposal' = "resolved" => \A a \in awaited : TornDown(a)
      /\ loaded' = FALSE /\ pendingFailure' = FALSE
      /\ UNCHANGED <<status, attempt, run, attach, inputs, mounting, mounted, given, current,
                     tear, aborted, awaited, reported>>
  BY DEF DisposalResolves, DisposalTimesOut, Finish, surface, teardown
<1>2. status = "disposed"
  BY <1>1 DEF LifecycleInv, DisposedOnce
<1>3. \A a \in Attempts : ~OnPage(a) /\ ~OnPage(a)'
  BY <1>1, <1>2 DEF SurfaceMatchesStatus, OnPage
<1>4. TypeOK'
  <2>1. SurfaceType' /\ TeardownType' /\ RestType'
    BY <1>1, TypeParts DEF SurfaceType, TeardownType, RestType
  <2>. QED  BY <2>1, TypePartsPrime DEF LifecycleInv
<1>5. SurfaceMatchesStatus' /\ NothingLeftBehind' /\ LatestInputsShown' /\ FailureNoted'
  BY <1>1, <1>2, <1>3
     DEF SurfaceMatchesStatus, NothingLeftBehind, LatestInputsShown, FailureNoted
<1>6. TeardownsInOrder'
  BY <1>1, <1>3 DEF TeardownsInOrder, DisposalWaits, TornDown, OnPage, TypeOK
<1>7. NotBegun' /\ DisposalWaits'
  BY <1>1 DEF NotBegun, DisposalWaits
<1>8. Stages'
  BY <1>1, <1>3 DEF Stages, IsCurrent
<1>9. Shown'
  BY <1>1, <1>2, <1>3 DEF Shown, TypeOK, Attempts
<1>. QED  BY <1>4, <1>5, <1>6, <1>7, <1>8, <1>9

LEMMA TearShows ==
  ASSUME MountInv, LifecycleInv', NEW a \in Attempts, TearContinues(a) \/ TearEnds(a)
  PROVE  MountInv'
<1>. USE DEF MountInv, Consistent
<1>1. PICK to \in {"disposing", "done"} :
        /\ tear[a] \in {"waiting", "disposing"}
        /\ tear' = [tear EXCEPT ![a] = to]
        /\ aborted' = [aborted EXCEPT ![a] = @ \/ to = "done"]
        /\ UNCHANGED <<status, attempt, loaded, pendingFailure, run, attach, inputs, mounting,
                       mounted, given, current, disposal, awaited, reported>>
  BY DEF TearContinues, TearEnds, TearStep, controller, surface, disposing
<1>2. /\ tear'[a] = to /\ (aborted'[a] <=> aborted[a] \/ to = "done")
      /\ \A b \in Attempts \ {a} : tear'[b] = tear[b] /\ aborted'[b] = aborted[b]
  BY <1>1, TypeParts DEF TeardownType
<1>3. \A b \in Attempts : OnPage(b)' <=> OnPage(b)
  BY <1>1, <1>2 DEF OnPage
<1>4. TypeOK'
  <2>1. tear' \in [Attempts -> {"none", "waiting", "disposing", "done"}]
    BY <1>1, TypeParts DEF TeardownType
  <2>2. aborted' \in [Attempts -> BOOLEAN]
    BY <1>1, TypeParts DEF TeardownType
  <2>3. SurfaceType' /\ TeardownType' /\ RestType'
    BY <1>1, <2>1, <2>2, TypeParts DEF SurfaceType, TeardownType, RestType
  <2>. QED  BY <2>3, TypePartsPrime DEF LifecycleInv
<1>5. ~OnPage(a)
  BY <1>1 DEF OnPage
<1>6. status \in {"pending", "mounted"} /\ attempt # 0 => attempt # a
  BY <1>1 DEF Shown
<1>7. status = "mounted" => attempt \in Attempts
  BY MountAssumption DEF LifecycleInv, OutcomeOfAttempt, TypeOK, Attempts
<1>8. SurfaceMatchesStatus' /\ NothingLeftBehind'
  BY <1>1, <1>2, <1>3, <1>6, <1>7 DEF SurfaceMatchesStatus, NothingLeftBehind, Attempts
<1>9. LatestInputsShown' /\ FailureNoted' /\ DisposalWaits'
  BY <1>1, <1>2 DEF LatestInputsShown, FailureNoted, DisposalWaits
<1>10. TeardownsInOrder'
  BY <1>1, <1>2 DEF TeardownsInOrder, Stages
<1>11. NotBegun'
  BY <1>1, <1>2 DEF NotBegun
<1>12. Stages'
  BY <1>1, <1>2, <1>3 DEF Stages, IsCurrent
<1>13. Shown'
  <2>1. attempt \in 0 .. MaxAttempts /\ current \in 0 .. MaxAttempts
    BY DEF TypeOK
  <2>. QED  BY <1>1, <1>2, <1>3, <1>6, <2>1 DEF Shown, Attempts
<1>. QED  BY <1>4, <1>8, <1>9, <1>10, <1>11, <1>12, <1>13

\* fail() takes a mounted attempt off the page, and is remembered of a pending one.
LEMMA FailShows ==
  ASSUME MountInv, LifecycleInv', Fail, status = "pending" => attempt \in Attempts,
         status = "mounted" => Idle,
         UNCHANGED <<attempt, loaded, run, attach, mounting, mounted, disposing>>,
         inputs' \in Inputs,
         \/ UNCHANGED <<inputs, given>>
         \/ current # 0 /\ given' = [given EXCEPT ![current] = inputs']
  PROVE  MountInv'
<1>. USE DEF disposing
<1>1. CASE status = "mounted"
  <2>1. Detach /\ status' = "error" /\ UNCHANGED <<pendingFailure, reported>>
    BY <1>1 DEF Fail, SettleFailure
  <2>2. given' \in [Attempts -> Inputs]
    BY TypeParts DEF MountInv, Consistent, SurfaceType
  <2>. QED  BY <1>1, <2>1, <2>2, TakenOff
<1>2. CASE status # "mounted"
  BY <1>2, HostShows DEF Fail
<1>. QED  BY <1>1, <1>2

LEMMA UpdateShows ==
  ASSUME ~HostReenters, MountInv, LifecycleInv', NEW i \in Inputs, Update(i)
  PROVE  MountInv'
<1>1. /\ Idle /\ inputs' = i
      /\ UNCHANGED <<attempt, loaded, run, attach, mounting, mounted, disposing>>
  BY DEF Update
<1>2. CASE ~(current # 0 /\ mounted[current])
  BY <1>1, <1>2, HostShows DEF Update
<1>3. CASE current # 0 /\ mounted[current]
  <2>1. given' = [given EXCEPT ![current] = inputs']
    BY <1>1, <1>3 DEF Update
  <2>2. CASE UNCHANGED <<status, teardown, pendingFailure, reported>>
    BY <1>1, <1>3, <2>1, <2>2, HostShows
  <2>3. CASE Fail
    <3>1. attempt \in Attempts
      BY <1>3 DEF MountInv, Consistent, Shown, SurfaceMatchesStatus, TypeOK, Attempts
    <3>. QED  BY <1>1, <1>3, <2>1, <2>3, <3>1, FailShows
  <2>. QED  BY <1>3, <2>2, <2>3 DEF Update
<1>. QED  BY <1>2, <1>3

LEMMA DisposeShows ==
  ASSUME ~HostReenters, MountInv, LifecycleInv', Dispose
  PROVE  MountInv'
<1>1. /\ Idle /\ Detach /\ status' = "disposed" /\ disposal' = "cleaning"
      /\ awaited' = {a \in Attempts : ~TornDown(a)'}
      /\ UNCHANGED <<attempt, loaded, pendingFailure, run, attach, inputs, mounting, mounted,
                     given, reported>>
  BY DEF Dispose, StartDisposal, controller, surface
<1>2. inputs' \in Inputs /\ given' \in [Attempts -> Inputs]
  BY <1>1, TypeParts DEF MountInv, Consistent, SurfaceType
<1>. QED  BY <1>1, <1>2, TakenOff

\* The ways a run ends that leave nothing on the page.
LEMMA RunEndsShows ==
  ASSUME MountInv, LifecycleInv', NEW a \in Attempts, Idle,
         run[a] \notin {"none", "done"}, attach[a] \notin {"queued", "opening"},
         run' = [run EXCEPT ![a] = "done"],
         UNCHANGED <<attempt, loaded, pendingFailure, attach, inputs, surface, disposing,
                     reported>>,
         \/ SettleFailure
         \/ ~IsCurrent(a) /\ UNCHANGED status /\ (Detach \/ UNCHANGED teardown)
  PROVE  MountInv'
<1>. USE DEF surface, disposing
<1>1. a = attempt /\ status \in {"pending", "disposed"}
  BY DEF MountInv, LifecycleInv, AttemptsDoNotOverlap
<1>2. Detach /\ status' \in {"error", "disposed"}
  <2>1. CASE SettleFailure
    BY <2>1 DEF SettleFailure
  <2>2. CASE ~IsCurrent(a) /\ UNCHANGED status /\ (Detach \/ UNCHANGED teardown)
    <3>1. status = "disposed"
      BY <1>1, <2>2 DEF IsCurrent
    <3>2. current = 0
      BY <3>1 DEF MountInv, Consistent, SurfaceMatchesStatus, Shown, TypeOK, Attempts
    <3>. QED  BY <2>2, <3>1, <3>2 DEF Detach
  <2>. QED  BY <2>1, <2>2
<1>3. \A b \in Attempts :
        \/ run'[b] = run[b]
        \/ run'[b] = "done" /\ run[b] # "none" /\ attach[b] \notin {"queued", "opening"}
  BY TypeParts DEF MountInv, Consistent, ControllerType
<1>4. inputs' \in Inputs /\ given' \in [Attempts -> Inputs]
  BY TypeParts DEF MountInv, Consistent, SurfaceType
<1>. QED  BY <1>2, <1>3, <1>4, TakenOff

LEMMA StepShows ==
  ASSUME MountInv, LifecycleInv', NEW a \in Attempts, Step(a)
  PROVE  MountInv'
<1>. USE DEF controller, surface, disposing
<1>1. ASSUME LoadResolves(a) PROVE MountInv'
  <2>1. run[a] = "loading" /\ Idle /\ attach[a] = "none" /\ ~OnPage(a)
    BY <1>1 DEF LoadResolves, MountInv, Stages, OnPage
  <2>2. loaded' \in BOOLEAN
    BY <1>1, TypeParts DEF LoadResolves, MountInv, Consistent, RestType
  <2>. QED  BY <1>1, <2>1, <2>2, RunShows DEF LoadResolves
<1>2. ASSUME LoadFails(a) \/ AttachFailed(a) PROVE MountInv'
  <2>1. /\ Idle /\ run[a] \notin {"none", "done"} /\ attach[a] \notin {"queued", "opening"}
    BY <1>2 DEF LoadFails, AttachFailed, MountInv, Stages
  <2>. QED  BY <1>2, <2>1, RunEndsShows DEF LoadFails, AttachFailed, RunFails
<1>3. ASSUME Attached(a) PROVE MountInv'
  <2>1. CASE IsCurrent(a) /\ ~pendingFailure /\ status' = "mounted" /\ UNCHANGED teardown
    <3>1. loaded' \in BOOLEAN
      BY <1>3, TypeParts DEF Attached, MountInv, Consistent, RestType
    <3>. QED  BY <1>3, <2>1, <3>1, RunShows DEF Attached
  <2>2. CASE \/ SettleFailure
             \/ ~IsCurrent(a) /\ Detach /\ UNCHANGED status
    BY <1>3, <2>2, RunEndsShows DEF Attached
  <2>. QED  BY <1>3, <2>1, <2>2 DEF Attached
<1>4. ASSUME MountTimesOut(a) PROVE MountInv'
  <2>1. loaded' \in BOOLEAN
    BY <1>4, TypeParts DEF MountTimesOut, MountInv, Consistent, RestType
  <2>. QED  BY <1>4, <2>1, RunShows DEF MountTimesOut
<1>5. ASSUME AttachRefused(a) \/ Opened(a) \/ AttachRejects(a) PROVE MountInv'
  BY <1>5, AttachShows DEF AttachRefused, Opened, AttachRejects, AttachStep, teardown
<1>6. ASSUME NEW end \in {"resolved", "rejected"}, MountSettles(a, end) PROVE MountInv'
  BY <1>6, MountSettlesShows
<1>7. ASSUME ReportFailure(a) PROVE MountInv'
  <2>1. attempt \in Attempts /\ inputs' \in Inputs
    BY <1>7, TypeParts DEF ReportFailure, IsCurrent, MountInv, Consistent, SurfaceType
  <2>2. status = "mounted" => Idle
    BY <1>7 DEF ReportFailure, IsCurrent, MountInv, Stages, LifecycleInv, AttemptsDoNotOverlap
  <2>. QED  BY <1>7, <2>1, <2>2, FailShows DEF ReportFailure
<1>. QED  BY <1>1, <1>2, <1>3, <1>4, <1>5, <1>6, <1>7, OpenShows, AttachContinuesShows,
             TearShows DEF Step

LEMMA NextMountInv == ASSUME ~HostReenters PROVE MountInv /\ [Next]_vars => MountInv'
<1>. SUFFICES ASSUME MountInv, [Next]_vars PROVE MountInv'
  OBVIOUS
<1>0. LifecycleInv'
  BY NextKeeps DEF MountInv, Promise
<1>1. ASSUME Start \/ Retry PROVE MountInv'
  BY <1>0, <1>1, RunAttemptShows DEF Start, Retry
<1>2. ASSUME NEW i \in Inputs, Update(i) PROVE MountInv'
  BY <1>0, <1>2, UpdateShows
<1>3. ASSUME Dispose PROVE MountInv'
  BY <1>0, <1>3, DisposeShows
<1>4. ASSUME DisposalResolves \/ DisposalTimesOut PROVE MountInv'
  BY <1>0, <1>4, FinishShows
<1>5. ASSUME NEW a \in Attempts, Step(a) PROVE MountInv'
  BY <1>0, <1>5, StepShows
<1>6. ASSUME UNCHANGED vars PROVE MountInv'
  <2>1. inputs' \in Inputs
    BY <1>6, TypeParts DEF vars, MountInv, Consistent, SurfaceType
  <2>. QED  BY <1>0, <1>6, <2>1, HostShows DEF vars, controller, surface, disposing
<1>. QED  BY <1>1, <1>2, <1>3, <1>4, <1>5, <1>6 DEF Next

(* What a mount is said to be and what is on the page are one thing: a mounted attempt is   *)
(* on the page with the latest inputs and no failure waiting, nothing outlives the attempt  *)
(* that put it there, and dispose() resolves after the last teardown.  For any number of    *)
(* attempts, in whatever order load(), mount(), the deadlines and the teardowns settle, and *)
(* for a host that does not call back into the handle from inside mount().                  *)
THEOREM ThePageIsWhatIsSaid == ASSUME ~HostReenters PROVE Spec => []Consistent
<1>1. MountInv /\ [Next]_vars => MountInv'
  BY NextMountInv
<1>2. MountInv => Consistent
  BY DEF MountInv
<1>. QED  BY <1>1, <1>2, InitMountInv, PTL DEF Spec

-----------------------------------------------------------------------------
(* Mounts over the loader *)

LEMMA LoaderSteps == Loader!Next => LoaderProofs!Next
<1>. USE DEF Loader!Attempts, LoaderProofs!Attempts, Loader!Callers, LoaderProofs!Callers,
         Loader!cache, LoaderProofs!cache, Loader!work, LoaderProofs!work,
         Loader!federation, LoaderProofs!federation, Loader!callers, LoaderProofs!callers,
         Loader!history, LoaderProofs!history
<1>1. ASSUME NEW c \in Loader!Callers, NEW e \in Entries, Loader!Load(c, e)
      PROVE  LoaderProofs!Load(c, e)
  BY <1>1 DEF Loader!Load, LoaderProofs!Load, Loader!CallAborted, LoaderProofs!CallAborted,
       Loader!CallCached, LoaderProofs!CallCached, Loader!CallJoins, LoaderProofs!CallJoins,
       Loader!CallStarts, LoaderProofs!CallStarts, Loader!Start, LoaderProofs!Start,
       Loader!Waits, LoaderProofs!Waits, Loader!Ask, LoaderProofs!Ask,
       Loader!Refuse, LoaderProofs!Refuse, Loader!FederationLoad, LoaderProofs!FederationLoad
<1>. QED
  BY <1>1 DEF Loader!Next, LoaderProofs!Next, Loader!RemoteFails, LoaderProofs!RemoteFails,
       Loader!RemoteLoads, LoaderProofs!RemoteLoads, Loader!AssetsArrive, LoaderProofs!AssetsArrive,
       Loader!AssetsFail, LoaderProofs!AssetsFail, Loader!Proceeds, LoaderProofs!Proceeds,
       Loader!Expire, LoaderProofs!Expire, Loader!Publish, LoaderProofs!Publish,
       Loader!Forget, LoaderProofs!Forget, Loader!Deliver, LoaderProofs!Deliver,
       Loader!Abandon, LoaderProofs!Abandon, Loader!ClearCache, LoaderProofs!ClearCache,
       Loader!Settle, LoaderProofs!Settle, Loader!RequireReload, LoaderProofs!RequireReload

LEMMA LoaderAssumed == LoaderProofs!LoaderAssumption
BY LoaderAssumption DEF Loader!LoaderAssumption, LoaderProofs!LoaderAssumption

LEMMA PagesRunTheLoader == MountingSpec => LoaderProofs!Spec
<1>1. MountingInit => LoaderProofs!Init
  BY DEF MountingInit, Loader!Init, LoaderProofs!Init, Loader!Attempts, LoaderProofs!Attempts,
       Loader!Callers, LoaderProofs!Callers
<1>2. [MountingNext]_<<vars, loader, about>> => [LoaderProofs!Next]_LoaderProofs!vars
  BY LoaderSteps DEF MountingNext, loader, LoaderProofs!vars, LoaderProofs!cache,
       LoaderProofs!work, LoaderProofs!federation, LoaderProofs!callers, LoaderProofs!history
<1>. QED  BY <1>1, <1>2, PTL DEF MountingSpec, LoaderProofs!Spec

(* The loads of a page are shared as SingleFlight promises, for any entries, callers and    *)
(* attempts (SharedContainerLoader.load()).                                                 *)
THEOREM PagesShareLoads == MountingSpec => LoadsAreShared
<1>. USE DEF Loader!Callers, LoaderProofs!Callers, Loader!Attempts, LoaderProofs!Attempts
<1>1. LoaderProofs!Loading!Init => Loader!Loading!Init
  BY Zenon DEF LoaderProofs!Loading!Init, Loader!Loading!Init
<1>2. [LoaderProofs!Loading!Next]_LoaderProofs!Loading!shared =>
        [Loader!Loading!Next]_Loader!Loading!shared
  BY DEF LoaderProofs!Loading!Next, Loader!Loading!Next,
       LoaderProofs!Loading!shared, Loader!Loading!shared,
       LoaderProofs!Loading!Land, Loader!Loading!Land,
       LoaderProofs!Loading!Launch, Loader!Loading!Launch,
       LoaderProofs!Loading!Join, Loader!Loading!Join,
       LoaderProofs!Loading!Answer, Loader!Loading!Answer,
       LoaderProofs!Loading!Leave, Loader!Loading!Leave
<1>3. MountingSpec => LoaderProofs!LoadsAreShared
  BY PagesRunTheLoader, LoaderAssumed, LoaderProofs!LoadsImplementSharing
<1>. QED  BY <1>1, <1>2, <1>3, PTL
          DEF LoadsAreShared, Loader!LoadsAreShared, LoaderProofs!LoadsAreShared,
              LoaderProofs!Loading!Spec, Loader!Loading!Spec

(* A page runs one copy of a module, and fetches none over an unfinished fetch (load(),     *)
(* reloadRequired of the federation loader).                                                *)
THEOREM PagesAreSafe == MountingSpec => ModulesAreSafe
<1>. USE DEF Loader!Callers, LoaderProofs!Callers, Loader!Attempts, LoaderProofs!Attempts
<1>1. LoaderProofs!TypeOK => Loader!TypeOK
  BY DEF LoaderProofs!TypeOK, Loader!TypeOK
<1>2. LoaderProofs!CallersAgree => Loader!CallersAgree
  BY DEF LoaderProofs!CallersAgree, Loader!CallersAgree
<1>3. MountingSpec => LoaderProofs!ModulesAreSafe
  BY PagesRunTheLoader, LoaderAssumed, LoaderProofs!PagesRunOneCopy
<1>4. LoaderProofs!NothingLoadsOverTheUnknown => Loader!NothingLoadsOverTheUnknown
  <2>1. [\A a \in LoaderProofs!Attempts, b \in expired :
           remote[a] = "none" /\ remote'[a] # "none" =>
             ContainerOf[entry'[a]] # ContainerOf[entry[b]]]_LoaderProofs!vars =>
        [\A a \in Loader!Attempts, b \in expired :
           remote[a] = "none" /\ remote'[a] # "none" =>
             ContainerOf[entry'[a]] # ContainerOf[entry[b]]]_Loader!vars
    BY DEF LoaderProofs!vars, LoaderProofs!cache, LoaderProofs!work, LoaderProofs!federation,
           LoaderProofs!callers, LoaderProofs!history, Loader!vars, Loader!cache, Loader!work,
           Loader!federation, Loader!callers, Loader!history
  <2>. QED  BY <2>1, PTL DEF LoaderProofs!NothingLoadsOverTheUnknown,
                              Loader!NothingLoadsOverTheUnknown
<1>. QED  BY <1>1, <1>2, <1>3, <1>4, PTL
          DEF ModulesAreSafe, Loader!ModulesAreSafe, LoaderProofs!ModulesAreSafe
=============================================================================
