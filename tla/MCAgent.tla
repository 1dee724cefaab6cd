-------------------------------- MODULE MCAgent --------------------------------
(***************************************************************************)
(* Actions and ChatClient for TLC.  Three calls of one action let a write   *)
(* end in the queue between two others; runs of different actions meet only *)
(* in that queue.                                                           *)
(*                                                                          *)
(* The chat sees of an action only that its tool settles, which ChatClient  *)
(* leaves open, so the two share no variable: the first state says which of *)
(* them a behaviour is about, and the other one rests.                      *)
(***************************************************************************)
EXTENDS Actions

CONSTANTS a1, MaxMessages, MaxToolCalls, MaxRuns, MaxStops, Kinds, CancelsMidway

VARIABLES
  about,
  history, turns, sent, generation, disposed, status, turn, kind, pending, asked, owed, cards, approving

Chat == INSTANCE ChatClient WITH MaxCalls <- MaxToolCalls, queue <- turns

ASSUME ChatAssumption == Chat!ChatClientAssumption

chat == <<history, turns, sent, generation, disposed, status, turn, kind, pending, asked, owed,
          cards, approving>>

AgentInit == Init /\ Chat!Init /\ about \in {"actions", "chat"}

AgentNext ==
  \/ about = "actions" /\ Next /\ UNCHANGED <<chat, about>>
  \/ about = "chat" /\ Chat!Next /\ UNCHANGED <<vars, about>>

\* The fairness of each, in the behaviours that are about it.
AgentSpec ==
  /\ AgentInit /\ [][AgentNext]_<<vars, chat, about>>
  /\ \A c \in Calls :
       WF_vars(about = "actions" /\ LeaveQueue(c)) /\ WF_vars(about = "actions" /\ TimesOut(c))
  /\ WF_chat(about = "chat" /\ Chat!RunReturns) /\ WF_chat(about = "chat" /\ Chat!ToolSettles)
  /\ WF_chat(about = "chat" /\ Chat!TurnContinues) /\ WF_chat(about = "chat" /\ Chat!BeginTurn)

-----------------------------------------------------------------------------
\* The history is one a backend reads, and the chat tells truly what it is doing (ChatClient).
ChatIsConsistent == Chat!Consistent

\* What a run is given is whole, and nothing is done for a turn that was stopped (ChatClient).
TurnsAreWhole == Chat!TurnsAreWhole

\* A stopped turn ends, whatever it was waiting for (ChatClient).
StoppedTurnsEnd == Chat!StoppedTurnsEnd
=============================================================================
