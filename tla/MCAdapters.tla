------------------------------ MODULE MCAdapters ------------------------------
(***************************************************************************)
(* AngularApp and Navigator for TLC: an App's own side of its mount, and    *)
(* of the page's navigation.  They share nothing, so no property is about   *)
(* both: the first state says which of them a behaviour is about, and the   *)
(* other one rests.                                                         *)
(***************************************************************************)
EXTENDS AngularApp

CONSTANTS Mounts, Apps, Places, NoPlace, MaxQueue, Overlapping

VARIABLES
  about,
  page, known, negotiating, deferred, later, asking, deaf, left, origin, target, going, announcing, home,
  live, dirty, at, cleared

Nav == INSTANCE Navigator

ASSUME NavAssumption == Nav!NavigatorAssumption

nav == <<page, known, negotiating, deferred, later, asking, deaf, left, origin, target, going,
         announcing, home, live, dirty, at, cleared>>

AdaptersInit ==
  /\ Init /\ Nav!Init
  /\ about \in {"application", "navigation"}
  /\ about = "application" => page = CHOOSE p \in Places : TRUE

AdaptersNext ==
  \/ about = "application" /\ Next /\ UNCHANGED <<nav, about>>
  \/ about = "navigation" /\ Nav!Next /\ UNCHANGED <<vars, about>>

\* The fairness of each, in the behaviours that are about it.
AdaptersSpec ==
  /\ AdaptersInit /\ [][AdaptersNext]_<<vars, nav, about>>
  /\ WF_vars(about = "application" /\ Wake)
  /\ \A g \in Generations : WF_vars(about = "application" /\ Continuation(g))
  /\ WF_nav(about = "navigation" /\ Nav!RunMicrotask)
  /\ WF_nav(about = "navigation" /\ Nav!BrowserReturns)
  /\ WF_nav(about = "navigation" /\ Nav!HostMoves)
  /\ WF_nav(about = "navigation" /\ Nav!HostAnnounces)
  /\ \A m \in Mounts : WF_nav(about = "navigation" /\ Nav!Answer(m))

-----------------------------------------------------------------------------
\* However slow an application is to come, its mount is answered and cleaned up (AngularApp).
ApplicationsSettle == about = "application" => EverythingSettles

\* The mounts that block are asked from the innermost out, and nobody hears of a move before it is
\* agreed to (Navigator).
NegotiationsAreSafe == Nav!NegotiationsAreSafe

\* Every router that stays mounted comes to where the page is (Navigator).
EveryoneArrives == Nav!EveryoneArrives

\* Every negotiation ends, so later navigations are not refused for ever (Navigator).
NegotiationsEnd == Nav!NegotiationsEnd
=============================================================================
