------------------------------- MODULE MCChrome -------------------------------
(***************************************************************************)
(* ActionRegistry and ShellState for TLC: what the host page offers, and    *)
(* what every part of it follows.  They share nothing, so no property is    *)
(* about both: the first state says which of them a behaviour is about, and *)
(* the other one rests.                                                     *)
(***************************************************************************)
EXTENDS ActionRegistry, TLC

CONSTANTS
  ada, bob, viewers, app, widget,
  Users, Nobody, Groups, Mounts, Inside, MaxSessions

VARIABLES
  about,
  state, calls, observers, session, client, rendered, router, madeFor, area, backend, current,
  cache, system, painted, confirmed

\* A shell that keeps the theme in the user area, where effects follow their render at once; and one
\* that sets it itself, where effects may be late.
Shell == INSTANCE ShellState WITH StoredTheme <- TRUE, LateEffects <- FALSE
Bare  == INSTANCE ShellState WITH StoredTheme <- FALSE, LateEffects <- TRUE

ASSUME ShellAssumption == Shell!ShellStateAssumption /\ Bare!ShellStateAssumption

shell == <<state, calls, observers, session, client, rendered, router, madeFor, area, backend,
           current, cache, system, painted, confirmed>>

\* The host page, and two Apps of one definition, the second below the first one's boundary.
NestedPlaces  == {{"orders"}, {"orders", "lines"}}
TwoApps       == [shell |-> "host", outer |-> "orders", inner |-> "lines"]
OneDefinition == [host |-> "host", orders |-> "table", lines |-> "table"]
SameNames     == [shell |-> {<<"theme", <<>>>>}, outer |-> {<<"save", <<>>>>, <<"save", <<2>>>>},
                  inner |-> {<<"save", <<>>>>}]
OuterDecides  == [s \in Slots |-> IF s = "outer" THEN BOOLEAN ELSE {TRUE}]
\* The first fires while text is typed, the second does not.
OneAndLonger  == {<<"mod+g">>, <<"mod+g", "r">>}

\* A widget inside an app.
WidgetInApp == [m \in Mounts |-> IF m = app THEN {widget} ELSE {}]

Symmetry == Permutations(Users)

ChromeInit ==
  /\ Init
  /\ \/ about \in {"registry", "shell"} /\ Shell!Init
     \/ about = "bare shell" /\ Bare!Init
  /\ state.user = Nobody
  \* What a user had stored may be unreadable.
  /\ about # "shell" => \A u \in Users : backend[u] = Shell!Unset
  /\ about # "registry" => inside = {"orders"} /\ \A s \in Slots : enabled[s]

ChromeNext ==
  \/ about = "registry" /\ Next /\ UNCHANGED <<shell, about>>
  \/ about = "shell" /\ Shell!Next /\ UNCHANGED <<vars, about>>
  \/ about = "bare shell" /\ Bare!Next /\ UNCHANGED <<vars, about>>

ChromeSpec == ChromeInit /\ [][ChromeNext]_<<vars, shell, about>>

-----------------------------------------------------------------------------
\* Every part of the page goes by the present session, and the theme is the user's; what route
\* callbacks read is current too where effects follow their render at once (ShellState).
PageIsCurrent ==
  /\ about = "shell" => Shell!PageIsCurrent
  /\ about = "bare shell" => Bare!PageIsCurrent
=============================================================================
