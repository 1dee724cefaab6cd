------------------------------ MODULE MCMounting ------------------------------
(***************************************************************************)
(* Mount and ContainerLoader for TLC.  Two sets of inputs tell an old one   *)
(* from a new one, and two attempts leave the teardown of the first running *)
(* while the second one mounts.  Two entries of one container let a load    *)
(* of one meet what became of a load of the other; of two callers one may   *)
(* leave while the other stays.                                             *)
(*                                                                          *)
(* A mount sees of the loader only that a load succeeds or fails, which     *)
(* Mount leaves open, so the two share no variable: the first state says    *)
(* which of them a behaviour is about, and the other one rests.             *)
(***************************************************************************)
EXTENDS Mount

CONSTANTS
  first, second, app, widget, container,
  Entries, Containers, ContainerOf, NoEntry, MaxCalls, MaxLoads, MaxClears

VARIABLES
  about,
  resolved, inFlight, attempts, entry, stage, outcome, remote, registered, reloadRequired,
  wants, call, on, clears, expired, cleared

Loader == INSTANCE ContainerLoader WITH MaxAttempts <- MaxLoads

ASSUME LoaderAssumption == Loader!LoaderAssumption

loader == <<resolved, inFlight, attempts, entry, stage, outcome, remote, registered,
            reloadRequired, wants, call, on, clears, expired, cleared>>

TwoInputs    == {first, second}
OneContainer == [e \in {app, widget} |-> container]

MountingInit ==
  /\ Init /\ Loader!Init
  /\ about \in {"mount", "loader"}
  /\ about = "loader" => inputs = first

MountingNext ==
  \/ about = "mount" /\ Next /\ UNCHANGED <<loader, about>>
  \/ about = "loader" /\ Loader!Next /\ UNCHANGED <<vars, about>>

\* The fairness of each, in the behaviours that are about it.
MountingSpec ==
  /\ MountingInit /\ [][MountingNext]_<<vars, loader, about>>
  /\ WF_vars(about = "mount" /\ Start)
  /\ WF_vars(about = "mount" /\ DisposalResolves) /\ WF_vars(about = "mount" /\ DisposalTimesOut)
  /\ \A a \in Attempts :
       /\ WF_vars(about = "mount" /\ LoadFails(a)) /\ WF_vars(about = "mount" /\ MountTimesOut(a))
       /\ WF_vars(about = "mount" /\ (AttachRefused(a) \/ Open(a)))
       /\ WF_vars(about = "mount" /\ Opened(a)) /\ WF_vars(about = "mount" /\ AttachContinues(a))
       /\ WF_vars(about = "mount" /\ AttachRejects(a)) /\ WF_vars(about = "mount" /\ Attached(a))
       /\ WF_vars(about = "mount" /\ AttachFailed(a)) /\ WF_vars(about = "mount" /\ TearContinues(a))
  /\ \A a \in Loader!Attempts : WF_loader(about = "loader" /\ Loader!Proceeds(a))
  /\ \A c \in Loader!Callers : WF_loader(about = "loader" /\ Loader!Deliver(c))

-----------------------------------------------------------------------------
\* Whatever hangs, the host gets an answer and the page is cleaned up (Mount).
MountsSettle == about = "mount" => EverythingSettles

\* Loads of one entry are shared as SingleFlight promises (ContainerLoader).
LoadsAreShared == Loader!LoadsAreShared

\* A page runs one copy of a module, and none is fetched over an unfinished fetch (ContainerLoader).
ModulesAreSafe == Loader!ModulesAreSafe

\* Every caller stops waiting, even if the runtime never answers (ContainerLoader).
EveryLoadSettles == Loader!EveryLoadSettles
=============================================================================
