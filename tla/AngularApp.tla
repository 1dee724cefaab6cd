------------------------------ MODULE AngularApp ------------------------------
(***************************************************************************)
(* One mount of an Angular App: an application for every session, started   *)
(* again when the identity or the groups change, and torn down with the     *)
(* mount (mfe-angular mount/mount-app.ts and runMountApplication in         *)
(* mount/mount-providers.ts).                                               *)
(*                                                                          *)
(* Around it are the shell, which changes the session at any time, and the  *)
(* host, which disposes the mount or its context, both also while a         *)
(* component renders or its application is destroyed; and the definition,   *)
(* whose initializers may fail or never end.                                *)
(*                                                                          *)
(* Applications are numbered by generation.  `reported` is history: the     *)
(* generations whose failure the host heard of.                             *)
(***************************************************************************)
EXTENDS Naturals, FiniteSets

CONSTANT
  MaxGenerations   \* bound: applications started over a run

ASSUME AngularAppAssumption == MaxGenerations \in Nat \ {0}

Generations == 1 .. MaxGenerations

VARIABLES
  generation, disposed, mounted, \* mountApp(): the generation counter and its flags
  started,         \* the last generation that was started
  application,     \* the application in use (0: none)
  waitsFor,        \* the generation latestApplication() waits for (0: it does not)
  promise,         \* mountApp()'s
  aborted,         \* the generations whose signal was aborted
  creation,        \* each generation: createApplication()
  stage,           \* each generation: runMountApplication(), and mountApp()'s continuation of it
  onPage,          \* the generations with an element on the page
  reported

mount == <<generation, disposed, mounted, started, application, waitsFor, promise>>
vars  == <<mount, aborted, creation, stage, onPage, reported>>

\* The wait for a generation is over once its continuation has run.
Over(g) == stage[g] \in {"adopted", "refused"}

\* No continuation is due: the page's microtasks have run.
Quiet ==
  /\ \A g \in Generations :
       /\ stage[g] \notin {"ready", "live", "failed", "stopped"}
       /\ ~(stage[g] = "creating" /\ g \in aborted)
  /\ waitsFor # 0 => ~Over(waitsFor)

-----------------------------------------------------------------------------
(* The teardown of one application *)

\* Fault: the abort of a generation's signal reaches no application that is up already.
TearDownLater(g) == UNCHANGED <<creation, onPage>>

\* A second teardown does nothing.
TearDown(g) ==
  /\ creation' = [creation EXCEPT ![g] = "destroyed"]
  /\ onPage' = onPage \ {g}

\* The generation's signal aborts.  The application that listens to it goes within the call.
AbortSignal(g) ==
  /\ aborted' = aborted \cup {g}
  /\ IF stage[g] \in {"live", "adopted"}
     THEN TearDown(g)
     ELSE UNCHANGED <<creation, onPage>>

-----------------------------------------------------------------------------
(* start() and dispose() *)

\* The last of n calls of which each began within the abort of the one before: only it starts anything.
Start(n) ==
  /\ generation + n <= MaxGenerations
  /\ generation' = generation + n
  /\ started' = generation + n
  /\ application' = 0
  /\ stage' = [stage EXCEPT ![generation + n] = "creating"]

\* The abort of the started generation destroys an application, and so runs its ngOnDestroy.
Destroys == stage[started] \in {"live", "adopted"} /\ creation[started] = "created"

\* The identity or the groups change: a new application, with the old one's signal aborted first.
\* What that destroys may change the session once more.
SessionChanges ==
  /\ ~disposed
  /\ \E n \in {1, 2} : Start(n) /\ (n = 2 => Destroys)
  /\ AbortSignal(started)
  /\ UNCHANGED <<disposed, mounted, waitsFor, promise, reported>>

\* What a change of the session destroys has the mount disposed: nothing is started.
SessionChangeDisposes ==
  /\ ~disposed /\ Destroys
  /\ generation < MaxGenerations
  /\ disposed' = TRUE
  /\ generation' = generation + 2
  /\ AbortSignal(started)
  /\ UNCHANGED <<mounted, started, application, waitsFor, promise, stage, reported>>

\* The host disposes the handle, or the context: the generation moves on and nothing is started.
Dispose ==
  /\ ~disposed
  /\ disposed' = TRUE
  /\ generation' = generation + 1
  /\ AbortSignal(started)
  /\ UNCHANGED <<mounted, started, application, waitsFor, promise, stage, reported>>

HostDisposes == generation < MaxGenerations + 1 /\ Dispose

-----------------------------------------------------------------------------
(* createMountApplication() *)

CreationSettles(g) ==
  /\ Quiet
  /\ creation[g] = "pending" /\ stage[g] # "none"
  /\ \/ /\ stage[g] = "creating"
        /\ \/ creation' = [creation EXCEPT ![g] = "created"] /\ stage' = [stage EXCEPT ![g] = "ready"]
           \/ creation' = [creation EXCEPT ![g] = "rejected"] /\ stage' = [stage EXCEPT ![g] = "failed"]
     \/ \* The wait was over: what was created late is destroyed, a late failure is nobody's.
        /\ stage[g] # "creating"
        /\ \E end \in {"destroyed", "rejected"} : creation' = [creation EXCEPT ![g] = end]
        /\ UNCHANGED stage
  /\ UNCHANGED <<mount, aborted, onPage, reported>>

\* Fault: the wait for an application ends with its creation.
WaitGoesOn(g) ==
  /\ stage[g] = "creating" /\ g \in aborted /\ creation[g] # "pending"
  /\ stage' = [stage EXCEPT ![g] = "stopped"]
  /\ UNCHANGED <<mount, aborted, creation, onPage, reported>>

\* The signal ends the wait for an application.
WaitStops(g) ==
  /\ stage[g] = "creating" /\ g \in aborted
  /\ stage' = [stage EXCEPT ![g] = "stopped"]
  /\ UNCHANGED <<mount, aborted, creation, onPage, reported>>

-----------------------------------------------------------------------------
(* runMountApplication(), from its application to its handle *)

\* Disposed in the meantime.
FoundAborted(g) ==
  /\ stage[g] = "ready" /\ g \in aborted
  /\ creation' = [creation EXCEPT ![g] = "destroyed"]
  /\ stage' = [stage EXCEPT ![g] = "stopped"]
  /\ UNCHANGED <<mount, aborted, onPage, reported>>

RenderFails(g) ==
  /\ stage[g] = "ready" /\ g \notin aborted
  /\ creation' = [creation EXCEPT ![g] = "destroyed"]
  /\ stage' = [stage EXCEPT ![g] = "failed"]
  /\ UNCHANGED <<mount, aborted, onPage, reported>>

Renders(g) ==
  /\ stage[g] = "ready" /\ g \notin aborted
  /\ onPage' = onPage \cup {g}
  /\ stage' = [stage EXCEPT ![g] = "live"]
  /\ UNCHANGED <<mount, aborted, creation, reported>>

\* Code of the definition changes the session while it renders: the application it was rendered
\* for is gone when render() returns.
RenderChangesSession(g) ==
  /\ stage[g] = "ready" /\ g \notin aborted /\ g = started
  /\ ~disposed /\ generation < MaxGenerations
  /\ generation' = generation + 1
  /\ started' = generation + 1
  /\ application' = 0
  /\ aborted' = aborted \cup {g}
  /\ creation' = [creation EXCEPT ![g] = "destroyed"]
  /\ stage' = [stage EXCEPT ![g] = "stopped", ![generation + 1] = "creating"]
  /\ UNCHANGED <<disposed, mounted, waitsFor, promise, onPage, reported>>

\* Code of the definition has the mount disposed while it renders.
RenderDisposes(g) ==
  /\ stage[g] = "ready" /\ g \notin aborted /\ g = started
  /\ ~disposed /\ generation < MaxGenerations + 1
  /\ disposed' = TRUE
  /\ generation' = generation + 1
  /\ aborted' = aborted \cup {g}
  /\ creation' = [creation EXCEPT ![g] = "destroyed"]
  /\ stage' = [stage EXCEPT ![g] = "stopped"]
  /\ UNCHANGED <<mounted, started, application, waitsFor, promise, onPage, reported>>

\* Code inside destroys the application, element and all: the mount's failure, if it is still the
\* mount's.
ForeignDestroy(g) ==
  /\ Quiet
  /\ stage[g] = "adopted" /\ creation[g] = "created"
  /\ TearDown(g)
  /\ reported' = IF ~disposed /\ g = generation THEN reported \cup {g} ELSE reported
  /\ UNCHANGED <<mount, aborted, stage>>

-----------------------------------------------------------------------------
(* mountApp()'s continuations *)

\* A generation that is no longer wanted is torn down when it arrives.
Adopt(g) ==
  /\ stage[g] = "live"
  /\ IF disposed \/ g # generation
     THEN /\ TearDown(g)
          /\ stage' = [stage EXCEPT ![g] = "refused"]
          /\ UNCHANGED application
     ELSE /\ application' = g
          /\ stage' = [stage EXCEPT ![g] = "adopted"]
          /\ UNCHANGED <<creation, onPage>>
  /\ UNCHANGED <<generation, disposed, mounted, started, waitsFor, promise, aborted, reported>>

\* Fault: the end of a session's application is the mount's failure.
RefuseAny(g) ==
  /\ stage[g] \in {"failed", "stopped"}
  /\ stage' = [stage EXCEPT ![g] = "refused"]
  /\ reported' = IF mounted THEN reported \cup {g} ELSE reported
  /\ UNCHANGED <<mount, aborted, creation, onPage>>

\* The first application rejects mountApp(); a replacement fails the mount.
Refuse(g) ==
  /\ stage[g] \in {"failed", "stopped"}
  /\ stage' = [stage EXCEPT ![g] = "refused"]
  /\ reported' = IF mounted /\ ~disposed /\ g = generation THEN reported \cup {g} ELSE reported
  /\ UNCHANGED <<mount, aborted, creation, onPage>>

\* latestApplication(): wait again when another generation was started meanwhile.  A failure of
\* the first disposes what there is before mountApp() rejects.
Wake ==
  /\ waitsFor # 0 /\ Over(waitsFor)
  /\ \/ /\ waitsFor = generation /\ stage[waitsFor] = "adopted"
        /\ mounted' = TRUE /\ promise' = "resolved" /\ waitsFor' = 0
        /\ UNCHANGED <<generation, disposed, started, application, aborted, creation, onPage>>
     \/ /\ waitsFor = generation /\ stage[waitsFor] = "refused"
        /\ promise' = "rejected" /\ waitsFor' = 0
        /\ disposed' = TRUE /\ generation' = generation + 1
        /\ AbortSignal(started)
        /\ UNCHANGED <<mounted, started, application>>
     \/ /\ waitsFor # generation /\ ~disposed
        /\ waitsFor' = generation
        /\ UNCHANGED <<generation, disposed, mounted, started, application, promise, aborted, creation,
                       onPage>>
     \/ /\ waitsFor # generation /\ disposed
        /\ promise' = "rejected" /\ waitsFor' = 0
        /\ UNCHANGED <<generation, disposed, mounted, started, application, aborted, creation, onPage>>
  /\ UNCHANGED <<stage, reported>>

-----------------------------------------------------------------------------

Init ==
  /\ generation = 1 /\ disposed = FALSE /\ mounted = FALSE /\ started = 1 /\ application = 0
  /\ waitsFor = 1 /\ promise = "pending"
  /\ aborted = {}
  /\ creation = [g \in Generations |-> "pending"]
  /\ stage = [g \in Generations |-> IF g = 1 THEN "creating" ELSE "none"]
  /\ onPage = {} /\ reported = {}

Continuation(g) ==
  WaitStops(g) \/ FoundAborted(g) \/ RenderFails(g) \/ Renders(g) \/ RenderChangesSession(g)
  \/ RenderDisposes(g) \/ Adopt(g) \/ Refuse(g)

Next ==
  \/ SessionChanges \/ SessionChangeDisposes \/ HostDisposes \/ Wake
  \/ \E g \in Generations : Continuation(g) \/ CreationSettles(g) \/ ForeignDestroy(g)

Spec == Init /\ [][Next]_vars

\* Continuations run.  Nothing says that a creation settles.
FairSpec == Spec /\ WF_vars(Wake) /\ \A g \in Generations : WF_vars(Continuation(g))

-----------------------------------------------------------------------------
(* Properties *)

\* Every variable has its type.
TypeOK ==
  /\ generation \in 1 .. MaxGenerations + 1 /\ started \in Generations
  /\ disposed \in BOOLEAN /\ mounted \in BOOLEAN /\ application \in 0 .. started
  /\ waitsFor \in 0 .. generation /\ promise \in {"pending", "resolved", "rejected"}
  /\ aborted \subseteq Generations /\ onPage \subseteq Generations /\ reported \subseteq Generations
  /\ creation \in [Generations -> {"pending", "created", "rejected", "destroyed"}]
  /\ stage \in [Generations ->
       {"none", "creating", "ready", "failed", "stopped", "live", "adopted", "refused"}]

\* Only the present session's application is on the page, and none once the mount is disposed
\* (start, dispose).
OnlyTheLatestIsShown == onPage \subseteq IF disposed THEN {} ELSE {generation}

\* A mount with nothing on the page is one that is starting, or the host knows: mountApp()
\* rejected, or the failure was reported (the catch of a replacement, reportForeignDestroy).
NothingFailsSilently ==
  Quiet /\ promise = "resolved" /\ ~disposed =>
    \/ stage[generation] = "creating"
    \/ application = generation /\ creation[generation] = "created"
    \/ generation \in reported

\* An application in use is the latest one, and the host hears of no failure of another.
Consistent ==
  /\ TypeOK
  /\ OnlyTheLatestIsShown
  /\ NothingFailsSilently
  /\ application # 0 /\ ~disposed => application = generation

\* The host never hears of a failure of a session that is over (onFailure in start).
OnlyTheLatestFails ==
  [][\A g \in reported' \ reported : g = generation /\ ~disposed]_vars

\* mountApp() settles once the session stays as it is and the present creation settles, or the
\* mount is disposed: an earlier generation that hangs does not hold it up (createMountApplication,
\* latestApplication).
MountSettles ==
  promise = "pending" ~>
    promise # "pending" \/ (~disposed /\ stage[generation] = "creating")

\* Nothing that is created survives: once its generation is retired, an application that was made
\* is destroyed, also one made after it (createMountApplication).
RetiredAreDestroyed ==
  \A g \in Generations :
    creation[g] = "created" /\ (disposed \/ g # generation) ~> creation[g] = "destroyed"

\* However slow an application is to come, the mount is answered and cleaned up.
EverythingSettles == MountSettles /\ RetiredAreDestroyed
=============================================================================
