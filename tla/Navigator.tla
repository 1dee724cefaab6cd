------------------------------- MODULE Navigator -------------------------------
(***************************************************************************)
(* The navigator of a page: every move of the page told to the routers of   *)
(* the mounted Apps, and every navigation of the host asked of the mounts   *)
(* that could lose something by it (BoundaryNavigator).                     *)
(*                                                                          *)
(* Around it are the host, whose router asks the navigator first and then   *)
(* moves the page (or, after a browser back, moves it home again), the Apps,*)
(* which push through bridges of their own, and the user.  A router reads   *)
(* the page when it is told; the places of the page are compared the way    *)
(* sameLocation does.                                                       *)
(***************************************************************************)
EXTENDS Naturals, Sequences, FiniteSets

CONSTANTS
  Mounts,          \* numbers: how deep each is nested, the deeper asked first
  Apps,            \* the mounts with a router; the others only block (useNavigationBlock)
  Places,
  NoPlace,
  MaxQueue,        \* bound: reports waiting for their microtask
  Overlapping      \* what may begin in the middle of the host's navigation: pushes, backs, mounts

NavigatorAssumption ==
  /\ Mounts \subseteq Nat /\ IsFiniteSet(Mounts) /\ Apps \subseteq Mounts
  /\ NoPlace \notin Places /\ MaxQueue \in Nat
  /\ Overlapping \subseteq {"push", "back", "mount"}

VARIABLES
  page,                         \* where the browser is
  known, negotiating, deferred, \* #known, #negotiating, #deferred
  later,                        \* the microtasks of #tellLater: whom each is to tell
  asking, deaf,                 \* who is still to be asked, the first is; it was gone when asked
  left,                         \* of the mounts to be asked, those that unmounted since
  origin, target,               \* of what is negotiated: where a back left from, where a click goes
  going, announcing, home,      \* the host: about to move, has moved, is taking the browser back
  live, dirty,                  \* the mounts there are, those with something to lose
  at,                           \* where each router believes the page to be
  cleared                       \* clearBlockers() has been called

navigator == <<known, negotiating, deferred, later, asking, deaf, left, origin, target, cleared>>
host      == <<going, announcing, home>>
mounts    == <<live, dirty>>
vars      == <<page, navigator, host, mounts, at>>

Listening == live \cap Apps
Objecting == live \cap dirty

\* Nothing of the page's scripts is left to run before the next event.
Quiet == later = <<>>

Calm == ~announcing /\ home = NoPlace /\ asking = <<>>

MayBegin(kind) == Calm \/ kind \in Overlapping

-----------------------------------------------------------------------------
(* Telling the routers *)

Emit(listeners, place) ==
  /\ known' = place
  /\ at' = [m \in Mounts |-> IF m \in listeners THEN place ELSE at[m]]

TellLater(listeners) ==
  /\ Len(later) < MaxQueue
  /\ later' = IF listeners = {} THEN later ELSE Append(later, listeners)

\* Fault: what the browser reports is told at once, before the host has asked anybody.
HearAtOnce(place) ==
  /\ UNCHANGED later
  /\ IF negotiating THEN UNCHANGED <<known, at>> ELSE Emit(Listening, place)

\* The bridge's report of a popstate.
Hear(place) == TellLater(Listening) /\ UNCHANGED <<known, at>>

\* A microtask of #tellLater: a router that has left meanwhile is skipped.
RunMicrotask ==
  /\ later # <<>> /\ later' = Tail(later)
  /\ LET listeners == Head(later) \cap Listening IN
     IF negotiating
     THEN deferred' = deferred \cup listeners /\ UNCHANGED <<known, at>>
     ELSE /\ IF listeners = {} THEN UNCHANGED <<known, at>> ELSE Emit(listeners, page)
          /\ UNCHANGED deferred
  /\ UNCHANGED <<page, negotiating, asking, deaf, left, origin, target, cleared, host, mounts>>

\* announce(), from the host's effects.
Announce ==
  IF page = known THEN UNCHANGED <<known, deferred, at>>
  ELSE IF negotiating
  THEN deferred' = deferred \cup Listening /\ UNCHANGED <<known, at>>
  ELSE Emit(Listening, page) /\ UNCHANGED deferred

ReleaseDeferred(outcome) ==
  /\ deferred' = {}
  /\ IF outcome = "blocked" \/ deferred = {}
     THEN UNCHANGED <<known, at>>
     ELSE Emit(deferred, page)

-----------------------------------------------------------------------------
(* requestNavigation() *)

InnermostFirst(ms) ==
  CHOOSE s \in [1..Cardinality(ms) -> ms] : \A i, j \in DOMAIN s : i < j => s[i] > s[j]

Negotiate(from, to) ==
  /\ negotiating' = TRUE
  /\ asking' = InnermostFirst(Objecting)
  /\ origin' = from /\ target' = to
  /\ deaf' = FALSE /\ left' = {}

\* A link of the host: while another navigation is negotiated it is refused and nothing happens.
HostClicks(place) ==
  /\ Quiet /\ Calm /\ ~negotiating /\ ~cleared
  /\ going = NoPlace /\ place # page
  /\ \/ Objecting = {} /\ going' = place
        /\ UNCHANGED <<negotiating, asking, deaf, left, origin, target>>
     \/ Objecting # {} /\ Negotiate(NoPlace, place) /\ UNCHANGED going
  /\ UNCHANGED <<page, known, deferred, later, cleared, announcing, home, mounts, at>>

\* Back or forward in the browser: the page has moved when the host asks.
BrowserGoes(place) ==
  /\ Quiet /\ MayBegin("back") /\ ~cleared
  /\ home = NoPlace /\ going = NoPlace /\ place # page
  /\ page' = place
  /\ Hear(place)
  /\ \/ /\ negotiating
        /\ home' = page
        /\ UNCHANGED <<negotiating, asking, deaf, left, origin, target, announcing>>
     \/ /\ ~negotiating /\ Objecting = {}
        /\ announcing' = TRUE
        /\ UNCHANGED <<negotiating, asking, deaf, left, origin, target, home>>
     \/ /\ ~negotiating /\ Objecting # {}
        /\ Negotiate(page, NoPlace)
        /\ UNCHANGED <<announcing, home>>
  /\ UNCHANGED <<deferred, cleared, going, mounts>>

Proceed ==
  /\ asking' = <<>> /\ left' = {} /\ negotiating' = FALSE
  /\ ReleaseDeferred("proceeded")
  /\ going' = target
  /\ announcing' = (announcing \/ target = NoPlace)
  /\ UNCHANGED home

Block ==
  /\ asking' = <<>> /\ left' = {} /\ negotiating' = FALSE
  /\ ReleaseDeferred("blocked")
  /\ home' = IF origin # NoPlace THEN origin ELSE home
  /\ UNCHANGED <<going, announcing>>

\* Fault: the confirmation is left to the mount alone.
AgreesIfThere(m) == ~deaf /\ m \in live \ left

\* The user agrees, or the mount went away while it was asked (confirmUnlessDisposed, the cleanup
\* of useNavigationBlock).  A delegate of an App that is gone agrees when it is asked.
Agrees(m) == ~deaf

\* An answer is an event of its own; what it continues runs to the end of the negotiation or to
\* the next mount's question.
Answer(m) ==
  /\ asking # <<>> /\ m = Head(asking) /\ Quiet
  /\ \/ /\ Agrees(m) /\ Len(asking) > 1
        /\ asking' = Tail(asking)
        /\ deaf' = (asking[2] \in left \ Apps)
        /\ UNCHANGED <<left, known, negotiating, deferred, host, at>>
     \/ Agrees(m) /\ Len(asking) = 1 /\ Proceed /\ UNCHANGED deaf
     \/ m \in live \ left /\ ~deaf /\ Block /\ UNCHANGED deaf
  /\ UNCHANGED <<page, later, origin, target, cleared, mounts>>

\* Runtime disposal: no blocker is left, and what was held is told.
ClearBlockers ==
  /\ ~cleared /\ cleared' = TRUE
  /\ dirty' = {}
  /\ negotiating' = FALSE
  /\ ReleaseDeferred("proceeded")
  /\ UNCHANGED <<page, later, asking, deaf, left, origin, target, host, live>>

-----------------------------------------------------------------------------
(* The host *)

\* The router moves the page once it has loaded what it needs, with nothing of the Apps' left to run.
HostMoves ==
  /\ going # NoPlace /\ home = NoPlace /\ Quiet
  /\ page' = going /\ going' = NoPlace
  /\ announcing' = TRUE
  /\ UNCHANGED <<navigator, home, mounts, at>>

HostAnnounces ==
  /\ announcing /\ announcing' = FALSE
  /\ Announce
  /\ UNCHANGED <<page, negotiating, later, asking, deaf, left, origin, target, cleared, going, home,
                 mounts>>

\* The browser is back where a refused back or forward left from; the host ignores this popstate.
BrowserReturns ==
  /\ home # NoPlace /\ Quiet
  /\ page' = home /\ home' = NoPlace
  /\ Hear(home)
  /\ UNCHANGED <<negotiating, deferred, asking, deaf, left, origin, target, cleared, going, announcing,
                 mounts>>

-----------------------------------------------------------------------------
(* The mounts *)

\* Fault: the other routers are left to the host's announcement.
CommittedAlone(m, place) == known' = place /\ UNCHANGED later

\* A router's push or replace through its bridge.
Committed(m, place) ==
  IF place = known THEN UNCHANGED <<known, later>>
  ELSE known' = place /\ TellLater(Listening \ {m})

AppPushes(m, place) ==
  /\ m \in Listening /\ place # page /\ MayBegin("push")
  /\ page' = place
  /\ at' = [at EXCEPT ![m] = place]
  /\ Committed(m, place)
  /\ UNCHANGED <<negotiating, deferred, asking, deaf, left, origin, target, cleared, host, mounts>>

Appear(m) ==
  /\ m \notin live /\ ~cleared /\ MayBegin("mount")
  /\ live' = live \cup {m}
  /\ at' = [at EXCEPT ![m] = page]
  /\ UNCHANGED <<page, navigator, host, dirty>>

\* The mount is torn down: its router unsubscribes and its blocker is removed.  A negotiation goes on
\* with the blocker it has, also when the mount comes back with another.
Vanish(m) ==
  /\ m \in live
  /\ live' = live \ {m}
  /\ dirty' = dirty \ {m} /\ deferred' = deferred \ {m}
  /\ later' = [i \in DOMAIN later |-> later[i] \ {m}]
  /\ left' = IF \E i \in DOMAIN asking : asking[i] = m THEN left \cup {m} ELSE left
  /\ UNCHANGED <<page, known, negotiating, asking, deaf, origin, target, cleared, host, at>>

Edit(m) ==
  /\ m \in live /\ ~cleared
  /\ dirty' = IF m \in dirty THEN dirty \ {m} ELSE dirty \cup {m}
  /\ UNCHANGED <<page, navigator, host, live, at>>

-----------------------------------------------------------------------------

Init ==
  /\ page \in Places /\ known = page /\ at = [m \in Mounts |-> page]
  /\ negotiating = FALSE /\ deferred = {} /\ later = <<>>
  /\ asking = <<>> /\ deaf = FALSE /\ left = {} /\ origin = NoPlace /\ target = NoPlace
  /\ going = NoPlace /\ announcing = FALSE /\ home = NoPlace
  /\ live = Mounts /\ dirty = {} /\ cleared = FALSE

Next ==
  \/ RunMicrotask \/ HostMoves \/ HostAnnounces \/ BrowserReturns \/ ClearBlockers
  \/ \E p \in Places : HostClicks(p) \/ BrowserGoes(p)
  \/ \E m \in Mounts : Answer(m) \/ Appear(m) \/ Vanish(m) \/ Edit(m)
  \/ \E m \in Mounts, p \in Places : AppPushes(m, p)

Spec == Init /\ [][Next]_vars

\* Microtasks run, the host and the browser finish what they began, and the user answers.
FairSpec ==
  /\ Spec
  /\ WF_vars(RunMicrotask) /\ WF_vars(BrowserReturns) /\ WF_vars(HostMoves) /\ WF_vars(HostAnnounces)
  /\ \A m \in Mounts : WF_vars(Answer(m))

-----------------------------------------------------------------------------
(* Properties *)

\* Every variable has its type; the navigator is deaf only about a mount it is asking.
TypeOK ==
  /\ page \in Places /\ known \in Places /\ at \in [Mounts -> Places]
  /\ negotiating \in BOOLEAN /\ announcing \in BOOLEAN /\ cleared \in BOOLEAN /\ deaf \in BOOLEAN
  /\ deferred \subseteq Listening
  /\ \A i \in DOMAIN later : later[i] \subseteq Listening
  /\ \A i, j \in DOMAIN asking : asking[i] \in Mounts /\ (i < j => asking[i] > asking[j])
  /\ deaf => asking # <<>>
  /\ {origin, target, going, home} \subseteq Places \cup {NoPlace}
  /\ live \subseteq Mounts /\ dirty \subseteq live /\ left \subseteq Mounts

\* While an App is being asked about a move, no App is told of one: a browser back that has moved
\* the page is not followed before it is agreed to (subscribe, #tellLater, announce).  An App that
\* pushes moves itself.
AskedBeforeTold ==
  [][negotiating' => \A m \in live \cap live' :
       at'[m] = at[m] \/ \E p \in Places : AppPushes(m, p)]_vars

\* The mounts that block are asked from the innermost out, and nobody hears of a move before it is
\* agreed to (requestNavigation, #tellLater, announce).
NegotiationsAreSafe == []TypeOK /\ AskedBeforeTold

\* Every router that stays mounted comes to where the page is, whoever moved the page and however
\* its negotiation ended (createBridge, announce, #releaseDeferred).
EveryoneArrives ==
  \A m \in Apps : (m \in live /\ at[m] # page) ~> (m \notin live \/ at[m] = page)

\* Every negotiation ends, so later navigations are not refused for ever: a mount that goes away
\* in the middle of it still answers (confirmUnlessDisposed, useNavigationBlock).
NegotiationsEnd == negotiating ~> ~negotiating
=============================================================================
