-------------------------------- MODULE Actions --------------------------------
(***************************************************************************)
(* The runs of registered actions: ActionExecutor with its flights and its  *)
(* queue of agent writes, the part of ActionRegistry that starts and gives  *)
(* them up, and what can happen while a run waits.                          *)
(*                                                                          *)
(* A user's run starts at once.  An agent's may first ask the user; then a  *)
(* read starts, and a write waits until every write that entered the queue  *)
(* before it has ended.  A run ends once: by what execute() comes to, by    *)
(* its deadline (an agent's only), by its caller's signal, or because its   *)
(* action went away.  The last three give it up: its signal aborts, and     *)
(* execute() may go on for as long as it likes.                             *)
(*                                                                          *)
(* Whether a call asks, queues or is refused depends on its input, the      *)
(* registration at the time of the call and the host's policy: any choice   *)
(* is possible for any call.  `line` is history, the order in which writes  *)
(* entered the queue.                                                       *)
(***************************************************************************)
EXTENDS Naturals, Sequences

CONSTANTS
  Registered,      \* the actions, as objects: one registered again is another one
  NoAction,        \* the action of a call that has not been made
  Lanes,           \* the kinds of run: a user's, an agent's that starts, an agent's that queues
  MaxCalls         \* bound: calls over a run

ASSUME ActionsAssumption ==
  /\ NoAction \notin Registered
  /\ Lanes \subseteq {"user", "read", "write"}
  /\ MaxCalls \in Nat

Calls == 1 .. MaxCalls

\* How a run ends; "refused" is denied, declined, invalid, or cancelled before it began.
Ends == {"executed", "failed", "refused", "cancelled", "unavailable"}

VARIABLES
  live, allowed,             \* actions still registered; those canExecute and placement allow
  issued, of, lane,          \* the calls: how many, of which action, in which lane
  at, result, signal,        \* where a run is, how its Flight ended, its flight.signal
  stopped,                   \* call.signal
  writes, ahead,             \* #writes, and each queued run's `previous`: what they wait for
  line

registry == <<live, allowed>>
calls    == <<issued, of, lane>>
runs     == <<at, result, signal>>
queue    == <<writes, ahead, line>>
vars     == <<registry, calls, runs, stopped, queue>>

\* A Flight that has not ended.
InFlight(c) == at[c] \in {"queued", "running"} /\ result[c] = "none"

-----------------------------------------------------------------------------
(* What a run comes to *)

Execute(c) ==
  /\ at' = [at EXCEPT ![c] = "running"]
  /\ UNCHANGED <<result, signal>>

Finish(c, outcome) ==
  /\ at' = [at EXCEPT ![c] = "over"]
  /\ result' = [result EXCEPT ![c] = outcome]
  /\ UNCHANGED signal

\* Flight.abandon() of every run of C: one in the queue never starts.
Abandon(C, outcome) ==
  /\ at' = [c \in Calls |-> IF c \in C /\ at[c] = "queued" THEN "over" ELSE at[c]]
  /\ result' = [c \in Calls |-> IF c \in C THEN outcome ELSE result[c]]
  /\ signal' = [c \in Calls |-> signal[c] \/ c \in C]

\* Anything awaited gave the page time to change.
ExecuteAfterWait(c) ==
  \/ of[c] \notin live /\ Finish(c, "unavailable")
  \/ of[c] \in live \ allowed /\ Finish(c, "refused")
  \/ of[c] \in live \cap allowed /\ Execute(c)

\* Fault: a write waits for the one before it only, which may end in the queue.
SerializeBehindLast(c) ==
  /\ at' = [at EXCEPT ![c] = "queued"]
  /\ ahead' = [ahead EXCEPT ![c] = writes]
  /\ writes' = {c}
  /\ line' = Append(line, c)
  /\ UNCHANGED <<result, signal>>

\* #serialize(): the queue's promise settles when this run, and all before it, have ended.
Serialize(c) ==
  /\ at' = [at EXCEPT ![c] = "queued"]
  /\ ahead' = [ahead EXCEPT ![c] = writes]
  /\ writes' = writes \cup {c}
  /\ line' = Append(line, c)
  /\ UNCHANGED <<result, signal>>

-----------------------------------------------------------------------------
(* run() *)

Call(a, l) ==
  /\ issued < MaxCalls
  /\ issued' = issued + 1
  /\ of' = [of EXCEPT ![issued + 1] = a]
  /\ lane' = [lane EXCEPT ![issued + 1] = l]
  /\ UNCHANGED <<registry, stopped>>

\* Not registered, aborted before it began, not allowed, not valid, refused by the policy,
\* or nowhere to ask.
CallRefused(a, l) ==
  /\ Call(a, l)
  /\ Finish(issued + 1, IF a \in live THEN "refused" ELSE "unavailable")
  /\ UNCHANGED queue

CallStarts(a, l) ==
  /\ a \in live \cap allowed
  /\ l # "write"
  /\ Call(a, l)
  /\ Execute(issued + 1)
  /\ UNCHANGED queue

CallQueues(a) ==
  /\ "write" \in Lanes /\ a \in live \cap allowed
  /\ Call(a, "write")
  /\ Serialize(issued + 1)

CallAsks(a, l) ==
  /\ a \in live \cap allowed
  /\ l # "user"
  /\ Call(a, l)
  /\ at' = [at EXCEPT ![issued + 1] = "asking"]
  /\ UNCHANGED <<result, signal, queue>>

Approved(c) ==
  IF lane[c] = "write" THEN Serialize(c) ELSE ExecuteAfterWait(c) /\ UNCHANGED queue

\* Fault: an approved call runs though its caller has stopped it.
AnswerFirst(c, approved) ==
  /\ at[c] = "asking"
  /\ \/ ~approved /\ Finish(c, "refused") /\ UNCHANGED queue
     \/ approved /\ Approved(c)
  /\ UNCHANGED <<registry, calls, stopped>>

\* The user answers; the chat's Stop answers too, and the stop is what happened.
Answer(c, approved) ==
  /\ at[c] = "asking"
  /\ \/ stopped[c] /\ Finish(c, "refused") /\ UNCHANGED queue
     \/ ~stopped[c] /\ ~approved /\ Finish(c, "refused") /\ UNCHANGED queue
     \/ ~stopped[c] /\ approved /\ Approved(c)
  /\ UNCHANGED <<registry, calls, stopped>>

\* #fly(): what the run queued behind has ended, and it has not been given up.
LeaveQueue(c) ==
  /\ at[c] = "queued"
  /\ \A d \in ahead[c] : result[d] # "none"
  /\ ExecuteAfterWait(c)
  /\ UNCHANGED <<registry, calls, stopped, queue>>

\* execute() settles: "failed" also when its value does not match the outputSchema.
ExecuteSettles(c, outcome) ==
  /\ at[c] = "running"
  /\ at' = [at EXCEPT ![c] = "over"]
  /\ result' = [result EXCEPT ![c] = IF @ = "none" THEN outcome ELSE @]
  /\ UNCHANGED <<registry, calls, signal, stopped, queue>>

\* Fault: the deadline leaves the queue to whoever is in it.
ReadTimesOut(c) ==
  /\ lane[c] = "read" /\ at[c] = "running" /\ InFlight(c)
  /\ Abandon({c}, "failed")
  /\ UNCHANGED <<registry, calls, stopped, queue>>

\* The deadline of an agent's run, from the moment execute() was called.
TimesOut(c) ==
  /\ lane[c] # "user" /\ at[c] = "running" /\ InFlight(c)
  /\ Abandon({c}, "failed")
  /\ UNCHANGED <<registry, calls, stopped, queue>>

\* call.signal aborts: heard by a run in flight, read after an answer, and no use later.
Stop(c) ==
  /\ at[c] # "none" /\ result[c] = "none" /\ ~stopped[c]
  /\ stopped' = [stopped EXCEPT ![c] = TRUE]
  /\ Abandon({c} \cap {d \in Calls : InFlight(d)}, "cancelled")
  /\ UNCHANGED <<registry, calls, queue>>

-----------------------------------------------------------------------------
(* The registry *)

\* remove() of one action, removeMount() of a mount's, dispose() of all: each is released.
Remove(S) ==
  /\ S # {} /\ S \subseteq live
  /\ live' = live \ S
  /\ Abandon({c \in Calls : InFlight(c) /\ of[c] \in S}, "unavailable")
  /\ UNCHANGED <<allowed, calls, stopped, queue>>

\* canExecute reads reactive state, and update() replaces canExecute and the placements.
Changes(a) ==
  /\ allowed' = IF a \in allowed THEN allowed \ {a} ELSE allowed \cup {a}
  /\ UNCHANGED <<live, calls, runs, stopped, queue>>

-----------------------------------------------------------------------------
Init ==
  /\ live = Registered /\ allowed = Registered
  /\ issued = 0 /\ of = [c \in Calls |-> NoAction] /\ lane = [c \in Calls |-> "none"]
  /\ at = [c \in Calls |-> "none"] /\ result = [c \in Calls |-> "none"]
  /\ signal = [c \in Calls |-> FALSE] /\ stopped = [c \in Calls |-> FALSE]
  /\ writes = {} /\ ahead = [c \in Calls |-> {}] /\ line = <<>>

Run(c) ==
  \/ \E approved \in BOOLEAN : Answer(c, approved)
  \/ LeaveQueue(c)
  \/ \E outcome \in {"executed", "failed"} : ExecuteSettles(c, outcome)
  \/ TimesOut(c) \/ Stop(c)

Next ==
  \/ \E a \in Registered, l \in Lanes :
       CallStarts(a, l) \/ CallAsks(a, l) \/ CallRefused(a, l)
  \/ \E a \in Registered : CallQueues(a) \/ Changes(a)
  \/ \E c \in Calls : Run(c)
  \/ \E S \in SUBSET Registered : Remove(S)

Spec == Init /\ [][Next]_vars

\* Continuations run and timers fire.  Nothing is assumed of users and of execute().
Fairness == \A c \in Calls : WF_vars(LeaveQueue(c)) /\ WF_vars(TimesOut(c))

FairSpec == Spec /\ Fairness

-----------------------------------------------------------------------------
(* Type invariant of the registry's runs and their queue; a call that has been made either *)
(* waits, runs or has a result, and nothing waits once it has one.                         *)
TypeOK ==
  /\ live \subseteq Registered /\ allowed \subseteq Registered
  /\ issued \in 0 .. MaxCalls
  /\ of \in [Calls -> Registered \cup {NoAction}] /\ lane \in [Calls -> Lanes \cup {"none"}]
  /\ at \in [Calls -> {"none", "asking", "queued", "running", "over"}]
  /\ result \in [Calls -> Ends \cup {"none"}]
  /\ signal \in [Calls -> BOOLEAN] /\ stopped \in [Calls -> BOOLEAN]
  /\ writes \subseteq Calls /\ ahead \in [Calls -> SUBSET Calls] /\ line \in Seq(Calls)
  /\ \A c \in Calls :
       /\ at[c] = "none" <=> c > issued
       /\ at[c] \in {"none", "asking", "queued"} => result[c] = "none"
       /\ at[c] = "over" => result[c] # "none"

(* "One agent write at a time, in the order they were asked for": a write that has started *)
(* has found every write that entered the queue before it ended, so no two ever run,       *)
(* though runs end in the queue as well as out of it.                                      *)
WritesTakeTurns ==
  \A i, j \in 1 .. Len(line) :
    i < j /\ at[line[j]] = "running" => result[line[i]] # "none"

(* Nothing runs on behalf of an action that has gone: a run that has started and not ended *)
(* belongs to an action still registered, whatever was awaited before it started.          *)
RunsBelongToLiveActions ==
  \A c \in Calls : at[c] = "running" /\ result[c] = "none" => of[c] \in live

(* execute() is only ever called for a call its action allows at that moment and that its  *)
(* caller has not stopped, also when the call waited for the user or behind other writes.  *)
StartsOnlyIfWanted ==
  [][\A c \in Calls : at[c] # "running" /\ at'[c] = "running" =>
       /\ of'[c] \in allowed /\ ~stopped[c] /\ result'[c] = "none"]_vars

(* The first thing to end a run is its result: what comes later never replaces it.         *)
FirstEndStands ==
  [][\A c \in Calls : result[c] # "none" => result'[c] = result[c]]_vars

(* A run's signal aborts exactly if it was given up: execute() is told whenever nobody     *)
(* waits for it any more, and a run that ended by itself is never told to stop.            *)
ToldWhenGivenUp ==
  \A c \in Calls :
    /\ at[c] = "running" => (signal[c] <=> result[c] # "none")
    /\ signal[c] => result[c] \in {"failed", "cancelled", "unavailable"}

(* Whoever asks for a run and however it ends, writes are serial and runs are accounted for. *)
Consistent == TypeOK /\ WritesTakeTurns /\ RunsBelongToLiveActions /\ ToldWhenGivenUp

(* An agent's call that is in the queue or running ends, though the execute() before it,   *)
(* or its own, never returns: a hung write holds the queue until its deadline.             *)
AgentRunsEnd ==
  \A c \in Calls : InFlight(c) /\ lane[c] # "user" ~> result[c] # "none"
=============================================================================
