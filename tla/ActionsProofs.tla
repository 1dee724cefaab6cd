---------------------------- MODULE ActionsProofs ----------------------------
(* Proofs about Actions, for any actions, any number of calls and any mix of callers, and    *)
(* about ChatClient, for any number of messages, calls, runs and stops.                     *)
EXTENDS MCAgent, FiniteSetTheorems, SequenceTheorems, WellFoundedInduction, TLAPS

\* What makes WritesTakeTurns inductive: the queue's promise waits for every write in line,
\* and a write waits for every one that entered before it.
LineInv ==
  /\ \A i \in 1 .. Len(line) : line[i] \in writes /\ at[line[i]] \notin {"none", "asking"}
  /\ \A i, j \in 1 .. Len(line) : i < j => line[i] \in ahead[line[j]]

TurnInv == LineInv /\ WritesTakeTurns

LifeInv == RunsBelongToLiveActions /\ ToldWhenGivenUp

ActionsInv == TypeOK /\ TurnInv /\ LifeInv

\* What every step keeps of a run that got past the question and of one that has ended.
Onward ==
  \A c \in Calls :
    /\ at[c] \notin {"none", "asking"} => at'[c] \notin {"none", "asking"}
    /\ result[c] # "none" => result'[c] = result[c]

\* A run starts from the outside or when all that it waited for has ended.
StartsInTurn ==
  \A c \in Calls :
    at'[c] = "running" => \/ at[c] \in {"none", "asking", "running"}
                          \/ \A d \in ahead[c] : result[d] # "none"

LEMMA InitKeeps == Init => ActionsInv
<1>. SUFFICES ASSUME Init PROVE ActionsInv
  OBVIOUS
<1>1. TypeOK
  BY ActionsAssumption DEF Init, TypeOK, Calls, Ends
<1>2. TurnInv
  BY DEF Init, TurnInv, LineInv, WritesTakeTurns
<1>3. LifeInv
  BY DEF Init, LifeInv, RunsBelongToLiveActions, ToldWhenGivenUp
<1>. QED  BY <1>1, <1>2, <1>3 DEF ActionsInv

-----------------------------------------------------------------------------
(* The queue *)

\* A step that leaves the queue alone keeps the turns if it starts writes in turn.
LEMMA TurnsStay ==
  ASSUME TypeOK, TurnInv, UNCHANGED queue, Onward, StartsInTurn
  PROVE  TurnInv'
<1>. \A i \in 1 .. Len(line) : line[i] \in Calls
  BY DEF TypeOK
<1>1. LineInv'
  BY DEF TurnInv, LineInv, queue, Onward
<1>2. WritesTakeTurns'
  <2>. SUFFICES ASSUME NEW i \in 1 .. Len(line), NEW j \in 1 .. Len(line), i < j,
                       at'[line[j]] = "running"
                PROVE  result'[line[i]] # "none"
    BY DEF WritesTakeTurns, queue
  <2>1. result[line[i]] # "none"
    BY DEF TurnInv, LineInv, WritesTakeTurns, StartsInTurn
  <2>. QED  BY <2>1 DEF Onward
<1>. QED  BY <1>1, <1>2 DEF TurnInv

\* A write enters the line behind all the others.
LEMMA SerializeKeepsTurns ==
  ASSUME TypeOK, TurnInv, NEW c \in Calls, at[c] \in {"none", "asking"}, Serialize(c)
  PROVE  TurnInv'
<1>. DEFINE n == Len(line) + 1
<1>1. /\ line' = Append(line, c) /\ writes' = writes \cup {c}
      /\ ahead' = [ahead EXCEPT ![c] = writes]
      /\ at' = [at EXCEPT ![c] = "queued"] /\ result' = result
  BY DEF Serialize
<1>2. /\ Len(line) \in Nat /\ Len(line') = n /\ line'[n] = c
      /\ \A i \in 1 .. Len(line) : line'[i] = line[i] /\ line[i] \in Calls /\ line[i] # c
  BY <1>1 DEF TypeOK, TurnInv, LineInv
<1>3. \A i \in 1 .. n : i = n \/ i \in 1 .. Len(line)
  BY <1>2
<1>4. LineInv'
  <2>1. \A i \in 1 .. n : line'[i] \in writes' /\ at'[line'[i]] \notin {"none", "asking"}
    BY <1>1, <1>2, <1>3 DEF TypeOK, TurnInv, LineInv
  <2>2. ASSUME NEW i \in 1 .. n, NEW j \in 1 .. n, i < j
        PROVE  line'[i] \in ahead'[line'[j]]
    <3>1. i \in 1 .. Len(line)
      BY <2>2, <1>2
    <3>2. CASE j = n
      BY <3>1, <3>2, <1>1, <1>2 DEF TypeOK, TurnInv, LineInv
    <3>3. CASE j \in 1 .. Len(line)
      BY <2>2, <3>1, <3>3, <1>1, <1>2 DEF TypeOK, TurnInv, LineInv
    <3>. QED  BY <3>2, <3>3, <1>3
  <2>. QED  BY <2>1, <2>2, <1>2 DEF LineInv
<1>5. WritesTakeTurns'
  <2>. SUFFICES ASSUME NEW i \in 1 .. n, NEW j \in 1 .. n, i < j, at'[line'[j]] = "running"
                PROVE  result'[line'[i]] # "none"
    BY <1>2 DEF WritesTakeTurns
  <2>1. j \in 1 .. Len(line) /\ i \in 1 .. Len(line)
    BY <1>1, <1>2, <1>3 DEF TypeOK
  <2>. QED  BY <2>1, <1>1, <1>2 DEF TypeOK, TurnInv, WritesTakeTurns
<1>. QED  BY <1>4, <1>5 DEF TurnInv

-----------------------------------------------------------------------------
(* The steps.  Each keeps the invariant, and takes runs onward. *)

Promise == ActionsInv' /\ Onward

LEMMA CallPlaces ==
  ASSUME TypeOK, NEW a \in Registered, NEW l \in Lanes, Call(a, l)
  PROVE  /\ issued + 1 \in Calls /\ issued' \in 0 .. MaxCalls
         /\ at[issued + 1] = "none" /\ result[issued + 1] = "none"
         /\ \A c \in Calls : c > issued' <=> (c > issued /\ c # issued + 1)
         /\ of' \in [Calls -> Registered \cup {NoAction}]
         /\ of'[issued + 1] = a /\ \A c \in Calls : c # issued + 1 => of'[c] = of[c]
         /\ lane' \in [Calls -> Lanes \cup {"none"}]
BY ActionsAssumption DEF TypeOK, Call, Calls

LEMMA CallRefusedKeeps ==
  ASSUME ActionsInv, NEW a \in Registered, NEW l \in Lanes, CallRefused(a, l)
  PROVE  Promise
<1>. USE DEF ActionsInv
<1>1. Call(a, l) /\ UNCHANGED <<registry, stopped, queue>>
  BY DEF CallRefused, Call
<1>2. \E r \in {"refused", "unavailable"} : Finish(issued + 1, r)
  BY DEF CallRefused
<1>3. TypeOK'
  BY <1>1, <1>2, CallPlaces DEF TypeOK, Finish, Ends, registry, queue
<1>4. Onward /\ StartsInTurn
  BY <1>1, <1>2, CallPlaces DEF TypeOK, Finish, Onward, StartsInTurn
<1>5. LifeInv'
  BY <1>1, <1>2, CallPlaces DEF TypeOK, LifeInv, RunsBelongToLiveActions, ToldWhenGivenUp,
     Finish, registry
<1>. QED  BY <1>1, <1>3, <1>4, <1>5, TurnsStay DEF Promise

LEMMA CallStartsKeeps ==
  ASSUME ActionsInv, NEW a \in Registered, NEW l \in Lanes, CallStarts(a, l)
  PROVE  Promise
<1>. USE DEF ActionsInv
<1>1. /\ Call(a, l) /\ Execute(issued + 1) /\ a \in live /\ UNCHANGED <<registry, stopped, queue>>
  BY DEF CallStarts, Call
<1>2. ~signal[issued + 1]
  BY <1>1, CallPlaces DEF LifeInv, ToldWhenGivenUp
<1>3. TypeOK'
  BY <1>1, CallPlaces DEF TypeOK, Execute, registry, queue
<1>4. Onward /\ StartsInTurn
  BY <1>1, CallPlaces DEF TypeOK, Execute, Onward, StartsInTurn
<1>5. RunsBelongToLiveActions'
  BY <1>1, CallPlaces DEF TypeOK, LifeInv, RunsBelongToLiveActions, Execute, registry
<1>6. ToldWhenGivenUp'
  BY <1>1, <1>2, CallPlaces DEF TypeOK, LifeInv, ToldWhenGivenUp, Execute
<1>. QED  BY <1>1, <1>3, <1>4, <1>5, <1>6, TurnsStay DEF Promise, LifeInv

LEMMA CallAsksKeeps ==
  ASSUME ActionsInv, NEW a \in Registered, NEW l \in Lanes, CallAsks(a, l)
  PROVE  Promise
<1>. USE DEF ActionsInv
<1>1. /\ Call(a, l) /\ at' = [at EXCEPT ![issued + 1] = "asking"]
      /\ UNCHANGED <<result, signal, registry, stopped, queue>>
  BY DEF CallAsks, Call
<1>2. TypeOK'
  BY <1>1, CallPlaces DEF TypeOK, registry, queue
<1>3. Onward /\ StartsInTurn
  BY <1>1, CallPlaces DEF TypeOK, Onward, StartsInTurn
<1>4. LifeInv'
  BY <1>1, CallPlaces DEF TypeOK, LifeInv, RunsBelongToLiveActions, ToldWhenGivenUp, registry
<1>. QED  BY <1>1, <1>2, <1>3, <1>4, TurnsStay DEF Promise

LEMMA CallQueuesKeeps ==
  ASSUME ActionsInv, NEW a \in Registered, CallQueues(a)
  PROVE  Promise
<1>. USE DEF ActionsInv
<1>1. Call(a, "write") /\ "write" \in Lanes /\ Serialize(issued + 1) /\ UNCHANGED <<registry, stopped>>
  BY DEF CallQueues, Call
<1>2. TypeOK'
  BY <1>1, CallPlaces DEF TypeOK, Serialize, registry
<1>3. Onward
  BY <1>1, CallPlaces DEF TypeOK, Onward, Serialize
<1>4. TurnInv'
  BY <1>1, CallPlaces, SerializeKeepsTurns
<1>5. LifeInv'
  BY <1>1, CallPlaces DEF TypeOK, LifeInv, RunsBelongToLiveActions, ToldWhenGivenUp, registry,
     Serialize
<1>. QED  BY <1>2, <1>3, <1>4, <1>5 DEF Promise

\* A run that has waited starts or ends.
LEMMA ExecuteAfterWaitKeeps ==
  ASSUME ActionsInv, NEW c \in Calls, at[c] \in {"asking", "queued"}, ExecuteAfterWait(c),
         at[c] = "queued" => \A d \in ahead[c] : result[d] # "none",
         UNCHANGED <<registry, calls, stopped, queue>>
  PROVE  Promise
<1>. USE DEF ActionsInv
<1>1. result[c] = "none" /\ ~signal[c]
  BY DEF TypeOK, LifeInv, ToldWhenGivenUp
<1>2. CASE Execute(c) /\ of[c] \in live
  <2>1. TypeOK'
    BY <1>1, <1>2 DEF TypeOK, Execute, registry, calls, queue
  <2>2. Onward /\ StartsInTurn
    BY <1>2 DEF TypeOK, Execute, Onward, StartsInTurn
  <2>3. LifeInv'
    BY <1>1, <1>2 DEF TypeOK, LifeInv, RunsBelongToLiveActions, ToldWhenGivenUp, Execute,
       registry, calls
  <2>. QED  BY <2>1, <2>2, <2>3, TurnsStay DEF Promise
<1>3. CASE \E r \in {"refused", "unavailable"} : Finish(c, r)
  <2>1. TypeOK'
    BY <1>1, <1>3 DEF TypeOK, Finish, Ends, registry, calls, queue
  <2>2. Onward /\ StartsInTurn
    BY <1>1, <1>3 DEF TypeOK, Finish, Onward, StartsInTurn
  <2>3. LifeInv'
    BY <1>1, <1>3 DEF TypeOK, LifeInv, RunsBelongToLiveActions, ToldWhenGivenUp, Finish,
       registry, calls
  <2>. QED  BY <2>1, <2>2, <2>3, TurnsStay DEF Promise
<1>. QED  BY <1>2, <1>3 DEF ExecuteAfterWait

LEMMA AnswerKeeps ==
  ASSUME ActionsInv, NEW c \in Calls, NEW approved \in BOOLEAN, Answer(c, approved)
  PROVE  Promise
<1>. USE DEF ActionsInv
<1>1. at[c] = "asking" /\ result[c] = "none" /\ ~signal[c] /\ UNCHANGED <<registry, calls, stopped>>
  BY DEF Answer, TypeOK, LifeInv, ToldWhenGivenUp
<1>2. CASE Finish(c, "refused") /\ UNCHANGED queue
  <2>1. TypeOK'
    BY <1>1, <1>2 DEF TypeOK, Finish, Ends, registry, calls, queue
  <2>2. Onward /\ StartsInTurn
    BY <1>1, <1>2 DEF TypeOK, Finish, Onward, StartsInTurn
  <2>3. LifeInv'
    BY <1>1, <1>2 DEF TypeOK, LifeInv, RunsBelongToLiveActions, ToldWhenGivenUp, Finish,
       registry, calls
  <2>. QED  BY <1>2, <2>1, <2>2, <2>3, TurnsStay DEF Promise
<1>3. CASE Serialize(c)
  <2>1. TypeOK'
    BY <1>1, <1>3 DEF TypeOK, Serialize, registry, calls
  <2>2. Onward /\ TurnInv'
    BY <1>1, <1>3, SerializeKeepsTurns DEF TypeOK, Serialize, Onward
  <2>3. LifeInv'
    BY <1>1, <1>3 DEF TypeOK, LifeInv, RunsBelongToLiveActions, ToldWhenGivenUp, Serialize,
       registry, calls
  <2>. QED  BY <2>1, <2>2, <2>3 DEF Promise
<1>4. CASE ExecuteAfterWait(c) /\ UNCHANGED queue
  BY <1>1, <1>4, ExecuteAfterWaitKeeps
<1>. QED  BY <1>2, <1>3, <1>4 DEF Answer, Approved

LEMMA ExecuteSettlesKeeps ==
  ASSUME ActionsInv, NEW c \in Calls, NEW r \in {"executed", "failed"}, ExecuteSettles(c, r)
  PROVE  Promise
<1>. USE DEF ActionsInv, ExecuteSettles
<1>1. TypeOK'
  BY DEF TypeOK, Ends, registry, calls, queue
<1>2. Onward /\ StartsInTurn
  BY DEF TypeOK, Onward, StartsInTurn
<1>3. LifeInv'
  BY DEF TypeOK, LifeInv, RunsBelongToLiveActions, ToldWhenGivenUp, registry, calls
<1>. QED  BY <1>1, <1>2, <1>3, TurnsStay DEF Promise

\* Giving up runs in flight, whatever else the step does to the registry.
LEMMA AbandonKeeps ==
  ASSUME ActionsInv, NEW C, C \subseteq {c \in Calls : InFlight(c)},
         NEW r \in {"failed", "cancelled", "unavailable"}, Abandon(C, r),
         UNCHANGED <<allowed, calls, queue>>, stopped' \in [Calls -> BOOLEAN],
         live' \subseteq live, \A c \in Calls : InFlight(c) /\ c \notin C => of[c] \in live' \/ of[c] \notin live
  PROVE  Promise
<1>. USE DEF ActionsInv
<1>1. \A c \in Calls :
        /\ at'[c] = IF c \in C /\ at[c] = "queued" THEN "over" ELSE at[c]
        /\ result'[c] = IF c \in C THEN r ELSE result[c]
        /\ signal'[c] = (signal[c] \/ c \in C)
  BY DEF Abandon
<1>2. \A c \in C : c \in Calls /\ at[c] \in {"queued", "running"} /\ result[c] = "none"
  BY DEF InFlight
<1>3. TypeOK'
  <2>1. /\ at' \in [Calls -> {"none", "asking", "queued", "running", "over"}]
        /\ result' \in [Calls -> Ends \cup {"none"}] /\ signal' \in [Calls -> BOOLEAN]
    BY DEF TypeOK, Abandon, Ends
  <2>2. \A c \in Calls :
          /\ at'[c] = "none" <=> c > issued
          /\ at'[c] \in {"none", "asking", "queued"} => result'[c] = "none"
          /\ at'[c] = "over" => result'[c] # "none"
    BY <1>1, <1>2 DEF TypeOK
  <2>. QED  BY <2>1, <2>2 DEF TypeOK, calls, queue
<1>4. Onward /\ StartsInTurn
  BY <1>1, <1>2 DEF Onward, StartsInTurn
<1>5. RunsBelongToLiveActions'
  BY <1>1, <1>2 DEF LifeInv, RunsBelongToLiveActions, InFlight, calls
<1>6. ToldWhenGivenUp'
  BY <1>1, <1>2 DEF LifeInv, ToldWhenGivenUp, TypeOK
<1>. QED  BY <1>3, <1>4, <1>5, <1>6, TurnsStay DEF Promise, LifeInv

LEMMA StopKeeps ==
  ASSUME ActionsInv, NEW c \in Calls, Stop(c)
  PROVE  Promise
<1>1. stopped' \in [Calls -> BOOLEAN]
  BY DEF Stop, ActionsInv, TypeOK
<1>2. /\ {c} \cap {d \in Calls : InFlight(d)} \subseteq {d \in Calls : InFlight(d)}
      /\ Abandon({c} \cap {d \in Calls : InFlight(d)}, "cancelled")
      /\ UNCHANGED <<live, allowed, calls, queue>>
  BY DEF Stop, registry
<1>. QED  BY <1>1, <1>2, AbandonKeeps

LEMMA TimesOutKeeps ==
  ASSUME ActionsInv, NEW c \in Calls, TimesOut(c)
  PROVE  Promise
<1>1. {c} \subseteq {d \in Calls : InFlight(d)} /\ Abandon({c}, "failed")
      /\ UNCHANGED <<live, allowed, calls, queue>> /\ stopped' \in [Calls -> BOOLEAN]
  BY DEF TimesOut, registry, ActionsInv, TypeOK
<1>. QED  BY <1>1, AbandonKeeps

LEMMA RemoveKeeps ==
  ASSUME ActionsInv, NEW S \in SUBSET Registered, Remove(S)
  PROVE  Promise
<1>. DEFINE C == {c \in Calls : InFlight(c) /\ of[c] \in S}
<1>1. /\ C \subseteq {c \in Calls : InFlight(c)} /\ Abandon(C, "unavailable")
      /\ UNCHANGED <<allowed, calls, queue>> /\ stopped' \in [Calls -> BOOLEAN]
      /\ live' \subseteq live
  BY DEF Remove, ActionsInv, TypeOK
<1>2. \A c \in Calls : InFlight(c) /\ c \notin C => of[c] \in live' \/ of[c] \notin live
  BY DEF Remove
<1>. QED  BY <1>1, <1>2, AbandonKeeps

LEMMA NextKeeps ==
  ASSUME ActionsInv, Next
  PROVE  Promise
<1>1. CASE \E c \in Calls : LeaveQueue(c)
  BY <1>1, ExecuteAfterWaitKeeps DEF LeaveQueue
<1>2. CASE \E a \in Registered : Changes(a)
  <2>1. TypeOK' /\ Onward /\ StartsInTurn
    BY <1>2 DEF Changes, ActionsInv, TypeOK, calls, runs, queue, Onward, StartsInTurn
  <2>2. LifeInv'
    BY <1>2 DEF Changes, ActionsInv, LifeInv, RunsBelongToLiveActions, ToldWhenGivenUp,
       calls, runs
  <2>. QED  BY <1>2, <2>1, <2>2, TurnsStay DEF Changes, Promise, ActionsInv
<1>3. CASE \E a \in Registered, l \in Lanes : CallStarts(a, l) \/ CallAsks(a, l) \/ CallRefused(a, l)
  BY <1>3, CallStartsKeeps, CallAsksKeeps, CallRefusedKeeps
<1>4. CASE \E a \in Registered : CallQueues(a)
  BY <1>4, CallQueuesKeeps
<1>5. CASE \E S \in SUBSET Registered : Remove(S)
  BY <1>5, RemoveKeeps
<1>6. CASE \E c \in Calls : \/ \E approved \in BOOLEAN : Answer(c, approved)
                            \/ \E r \in {"executed", "failed"} : ExecuteSettles(c, r)
                            \/ TimesOut(c) \/ Stop(c)
  BY <1>6, AnswerKeeps, ExecuteSettlesKeeps, TimesOutKeeps, StopKeeps
<1>. QED  BY <1>1, <1>2, <1>3, <1>4, <1>5, <1>6 DEF Next, Run

LEMMA StutterKeeps ==
  ASSUME ActionsInv, UNCHANGED vars
  PROVE  Promise
BY DEF vars, registry, calls, runs, queue, Promise, Onward, ActionsInv, TypeOK, TurnInv,
       LineInv, WritesTakeTurns, LifeInv, RunsBelongToLiveActions, ToldWhenGivenUp, InFlight

(* The queue's promise and each run's place behind it are what the queue says they are,    *)
(* and nothing runs for an action that has gone: the inductive invariant of the runs.      *)
THEOREM ActionsAreSafe == Spec => []ActionsInv
<1>1. Init => ActionsInv
  BY InitKeeps
<1>2. ActionsInv /\ [Next]_vars => ActionsInv'
  BY NextKeeps, StutterKeeps DEF Promise
<1>. QED  BY <1>1, <1>2, PTL DEF Spec

(* The runs and the queue keep their types: a run that still waits has no result, one that *)
(* is over has one (Flight, ActionExecutor.#serialize()).                                  *)
THEOREM TypeCorrect == Spec => []TypeOK
<1>1. ActionsInv => TypeOK
  BY DEF ActionsInv
<1>. QED  BY <1>1, ActionsAreSafe, PTL

(* No agent write ever runs beside another, in whatever order runs end, in the queue and   *)
(* out of it (ActionExecutor.#serialize()).                                                *)
THEOREM WritesRunInTurn == Spec => []WritesTakeTurns
<1>1. ActionsInv => WritesTakeTurns
  BY DEF ActionsInv, TurnInv
<1>. QED  BY <1>1, ActionsAreSafe, PTL

(* No run is still going for an action that has been removed (release(), isLive()).        *)
THEOREM NothingRunsForTheGone == Spec => []RunsBelongToLiveActions
<1>1. ActionsInv => RunsBelongToLiveActions
  BY DEF ActionsInv, LifeInv
<1>. QED  BY <1>1, ActionsAreSafe, PTL

(* Every run that is given up is told, and no other (Flight.abandon(), Flight.finish()).   *)
THEOREM GivenUpRunsAreTold == Spec => []ToldWhenGivenUp
<1>1. ActionsInv => ToldWhenGivenUp
  BY DEF ActionsInv, LifeInv
<1>. QED  BY <1>1, ActionsAreSafe, PTL

(* A run has one result, for ever (Flight.#end()).                                         *)
THEOREM OneResultPerRun == Spec => FirstEndStands
<1>1. ActionsInv /\ [Next]_vars =>
        [\A c \in Calls : result[c] # "none" => result'[c] = result[c]]_vars
  BY NextKeeps DEF Promise, Onward
<1>. QED  BY <1>1, ActionsAreSafe, PTL DEF Spec, FirstEndStands

(* Writes run one at a time, nothing runs for an action that has gone, and exactly the runs *)
(* that are given up are told (ActionExecutor, Flight).                                     *)
THEOREM RunsAreConsistent == Spec => []Consistent
BY TypeCorrect, WritesRunInTurn, NothingRunsForTheGone, GivenUpRunsAreTold, PTL DEF Consistent

-----------------------------------------------------------------------------
(* What starts is wanted *)

\* A call that is stopped while it waits in the queue leaves it, so none there is unwanted.
NoneStoppedWaits == \A c \in Calls : at[c] \in {"none", "queued"} => ~stopped[c]

\* A call enters the queue unstopped, and starts if it is allowed, unstopped and not over.
StartsWanted ==
  \A c \in Calls :
    /\ at[c] # "queued" /\ at'[c] = "queued" => ~stopped[c]
    /\ at[c] # "running" /\ at'[c] = "running" => of'[c] \in allowed /\ ~stopped[c] /\ result'[c] = "none"

LEMMA CallsStartWanted ==
  ASSUME ActionsInv, NoneStoppedWaits, NEW a \in Registered, NEW l \in Lanes,
         CallStarts(a, l) \/ CallAsks(a, l) \/ CallRefused(a, l) \/ CallQueues(a)
  PROVE  StartsWanted /\ NoneStoppedWaits'
<1>. USE DEF ActionsInv
<1>1. \E k \in Lanes : Call(a, k)
  BY DEF CallStarts, CallAsks, CallRefused, CallQueues
<1>2. UNCHANGED stopped /\ UNCHANGED registry
  BY <1>1 DEF Call
<1>3. issued + 1 \in Calls /\ ~stopped[issued + 1] /\ result[issued + 1] = "none" /\ of'[issued + 1] = a
  BY <1>1, CallPlaces DEF NoneStoppedWaits
<1>4. CASE CallStarts(a, l)
  <2>1. at' = [at EXCEPT ![issued + 1] = "running"] /\ result' = result /\ a \in allowed
    BY <1>4 DEF CallStarts, Execute
  <2>. QED  BY <1>2, <1>3, <2>1 DEF TypeOK, StartsWanted, NoneStoppedWaits
<1>5. CASE CallAsks(a, l) \/ CallRefused(a, l)
  <2>1. \E p \in {"asking", "over"} : at' = [at EXCEPT ![issued + 1] = p]
    BY <1>5 DEF CallAsks, CallRefused, Finish
  <2>. QED  BY <1>2, <1>3, <2>1 DEF TypeOK, StartsWanted, NoneStoppedWaits
<1>6. CASE CallQueues(a)
  <2>1. at' = [at EXCEPT ![issued + 1] = "queued"]
    BY <1>6 DEF CallQueues, Serialize
  <2>. QED  BY <1>2, <1>3, <2>1 DEF TypeOK, StartsWanted, NoneStoppedWaits
<1>. QED  BY <1>4, <1>5, <1>6

LEMMA WaitersStartWanted ==
  ASSUME ActionsInv, NoneStoppedWaits, NEW c \in Calls,
         LeaveQueue(c) \/ \E approved \in BOOLEAN : Answer(c, approved)
  PROVE  StartsWanted /\ NoneStoppedWaits'
<1>. USE DEF ActionsInv
<1>1. ~stopped[c] \/ at' = [at EXCEPT ![c] = "over"]
  BY DEF LeaveQueue, Answer, Finish, NoneStoppedWaits
<1>2. /\ \/ at' = [at EXCEPT ![c] = "over"]
         \/ at' = [at EXCEPT ![c] = "queued"] /\ at[c] = "asking"
         \/ /\ at' = [at EXCEPT ![c] = "running"] /\ of[c] \in allowed
            /\ result' = result /\ result[c] = "none"
  <2>1. result[c] = "none"
    BY DEF LeaveQueue, Answer, TypeOK
  <2>2. ExecuteAfterWait(c) => \/ at' = [at EXCEPT ![c] = "over"]
                               \/ /\ at' = [at EXCEPT ![c] = "running"] /\ of[c] \in allowed
                                  /\ result' = result
    BY DEF ExecuteAfterWait, Execute, Finish
  <2>. QED  BY <2>1, <2>2 DEF LeaveQueue, Answer, Approved, Finish, Serialize
<1>3. UNCHANGED <<of, stopped>>
  BY DEF LeaveQueue, Answer, calls
<1>. QED  BY <1>1, <1>2, <1>3 DEF TypeOK, StartsWanted, NoneStoppedWaits

LEMMA OthersStartNone ==
  ASSUME ActionsInv, NoneStoppedWaits,
         \/ \E c \in Calls : \/ \E r \in {"executed", "failed"} : ExecuteSettles(c, r)
                             \/ TimesOut(c) \/ Stop(c)
         \/ \E a \in Registered : Changes(a)
         \/ \E S \in SUBSET Registered : Remove(S)
         \/ UNCHANGED vars
  PROVE  StartsWanted /\ NoneStoppedWaits'
<1>. USE DEF ActionsInv
<1>1. ASSUME \E C, r : Abandon(C, r) PROVE \A c \in Calls : at'[c] \in {at[c], "over"}
  BY <1>1 DEF Abandon
<1>2. \A c \in Calls : at'[c] \in {at[c], "over"}
  BY <1>1 DEF ExecuteSettles, TimesOut, Stop, Changes, Remove, TypeOK, runs, vars
<1>3. ASSUME NEW c \in Calls, at'[c] \in {"none", "queued"} PROVE ~stopped'[c]
  <2>1. at[c] = at'[c] /\ ~stopped[c]
    BY <1>2, <1>3 DEF NoneStoppedWaits
  <2>2. CASE UNCHANGED stopped
    BY <2>1, <2>2
  <2>3. CASE \E d \in Calls : Stop(d)
    <3>1. PICK d \in Calls : Stop(d)
      BY <2>3
    <3>2. CASE d = c
      <4>1. at[c] = "queued" /\ InFlight(c)
        BY <1>3, <2>1, <3>1, <3>2 DEF Stop, InFlight
      <4>2. at'[c] = "over"
        BY <3>1, <3>2, <4>1 DEF Stop, Abandon
      <4>. QED  BY <1>3, <4>2
    <3>3. CASE d # c
      BY <2>1, <3>1, <3>3 DEF Stop, TypeOK
    <3>. QED  BY <3>2, <3>3
  <2>. QED  BY <2>2, <2>3 DEF ExecuteSettles, TimesOut, Changes, Remove, vars
<1>. QED  BY <1>2, <1>3 DEF StartsWanted, NoneStoppedWaits

LEMMA NextStartsWanted ==
  ASSUME ActionsInv, NoneStoppedWaits, [Next]_vars
  PROVE  StartsWanted /\ NoneStoppedWaits'
<1>1. ASSUME NEW a \in Registered, CallQueues(a) PROVE StartsWanted /\ NoneStoppedWaits'
  <2>1. "write" \in Lanes
    BY <1>1 DEF CallQueues
  <2>. QED  BY <1>1, <2>1, CallsStartWanted
<1>2. ASSUME NEW a \in Registered, NEW l \in Lanes,
             CallStarts(a, l) \/ CallAsks(a, l) \/ CallRefused(a, l)
      PROVE  StartsWanted /\ NoneStoppedWaits'
  BY <1>2, CallsStartWanted
<1>3. ASSUME NEW c \in Calls, LeaveQueue(c) \/ \E approved \in BOOLEAN : Answer(c, approved)
      PROVE  StartsWanted /\ NoneStoppedWaits'
  BY <1>3, WaitersStartWanted
<1>. QED  BY <1>1, <1>2, <1>3, OthersStartNone DEF Next, Run

(* execute() is called only for what its action allows at that moment and its caller still *)
(* wants, however long the call waited for the user or behind other writes (#execute()).   *)
THEOREM OnlyWantedRunsStart == Spec => StartsOnlyIfWanted
<1>. DEFINE Wanted ==
       \A c \in Calls : at[c] # "running" /\ at'[c] = "running" =>
         /\ of'[c] \in allowed /\ ~stopped[c] /\ result'[c] = "none"
<1>1. Init => NoneStoppedWaits
  BY DEF Init, NoneStoppedWaits
<1>2. ActionsInv /\ NoneStoppedWaits /\ [Next]_vars => NoneStoppedWaits'
  BY NextStartsWanted
<1>3. ActionsInv /\ NoneStoppedWaits /\ [Next]_vars => [Wanted]_vars
  BY NextStartsWanted DEF StartsWanted
<1>. QED  BY <1>1, <1>2, <1>3, ActionsAreSafe, PTL DEF Spec, StartsOnlyIfWanted

-----------------------------------------------------------------------------
(* The chat: sequences and sets *)

\* The sets an instance counts are those of the module it is in.
LEMMA SameSize == \A S : Chat!Cardinality(S) = Cardinality(S)
BY DEF Chat!Cardinality, Cardinality

LEMMA LeastOf ==
  ASSUME NEW T, T \subseteq Nat, T # {}
  PROVE  \E x \in T : \A y \in T : x <= y
<1> DEFINE R == OpToRel(<, Nat)
<1>1. IsWellFoundedOn(R, Nat)
  BY NatLessThanWellFounded
<1>2. \A x, y \in Nat : x < y => <<x, y>> \in R
  BY DEF OpToRel
<1> HIDE DEF R
<1>3. PICK x \in T : \A y \in T : <<y, x>> \notin R
  BY <1>1, WFMin
<1>4. ASSUME NEW y \in T PROVE x <= y
  <2>1. x \in Nat /\ y \in Nat /\ ~(y < x)
    BY <1>2, <1>3
  <2> QED BY <2>1
<1> QED BY <1>4

\* A set of positions has a last one.
LEMMA LastOf ==
  ASSUME NEW n \in Nat, NEW T, T \subseteq 1 .. n, T # {}
  PROVE  \E x \in T : \A y \in T : y <= x
<1> DEFINE U == {u \in Nat : \A y \in T : y <= u}
<1>1. n \in U
  OBVIOUS
<1>2. PICK u \in U : \A v \in U : u <= v
  <2>1. U \subseteq Nat /\ U # {}
    BY <1>1
  <2> HIDE DEF U
  <2> QED BY <2>1, LeastOf
<1>3. CASE u \in T
  BY <1>3
<1>4. CASE u \notin T
  <2>1. \A y \in T : y <= u /\ y # u /\ y \in Nat /\ y >= 1
    BY <1>4
  <2>2. u \in Nat /\ u # 0
    <3>1. PICK y \in T : TRUE
      OBVIOUS
    <3>2. y <= u /\ y \in Nat /\ y >= 1 /\ u \in Nat
      BY <2>1, <3>1
    <3> QED BY <3>2
  <2>3. u - 1 \in U
    BY <2>1, <2>2
  <2> QED BY <1>2, <2>2, <2>3
<1> QED BY <1>3, <1>4

\* The calls of a set, in order.
Ordered(s, cs) ==
  s \in [1 .. Cardinality(cs) -> cs] /\ \A i, j \in DOMAIN s : i < j => s[i] < s[j]

LEMMA OrdersExist ==
  ASSUME NEW cs, cs \subseteq Nat, IsFiniteSet(cs)
  PROVE  \E s : Ordered(s, cs)
<1> DEFINE Unordered(n) == \E S \in SUBSET cs : Cardinality(S) = n /\ \A s : ~Ordered(s, S)
           Bad == {n \in Nat : Unordered(n)}
<1>1. \A S \in SUBSET cs : IsFiniteSet(S) /\ Cardinality(S) \in Nat
  BY FS_Subset, FS_CardinalityType
<1>2. SUFFICES ASSUME Bad # {} PROVE FALSE
  BY <1>1
<1>3. PICK n \in Bad : \A k \in Bad : n <= k
  <2> HIDE DEF Unordered
  <2> QED BY <1>2, LeastOf
<1>4. PICK S \in SUBSET cs : Cardinality(S) = n /\ \A s : ~Ordered(s, S)
  BY <1>3
<1>5. CASE S = {}
  <2> DEFINE s == [i \in 1 .. 0 |-> 0]
  <2>1. Cardinality(S) = 0
    BY <1>5, FS_EmptySet
  <2>2. s \in [1 .. 0 -> S] /\ DOMAIN s = {}
    OBVIOUS
  <2>3. Ordered(s, S)
    BY <2>1, <2>2 DEF Ordered
  <2> QED BY <1>4, <2>3
<1>6. CASE S # {}
  <2>1. S \subseteq Nat /\ IsFiniteSet(S) /\ n \in Nat
    BY <1>1, <1>4
  <2>2. PICK least \in S : \A x \in S : least <= x
    BY <1>6, <2>1, LeastOf
  <2> DEFINE rest == S \ {least}
  <2>3. n # 0
    BY <1>4, <1>6, <2>1, FS_EmptySet
  <2>4. Cardinality(rest) = n - 1
    BY <1>4, <2>1, FS_RemoveElement
  <2>5. n - 1 \in Nat /\ rest \in SUBSET cs
    BY <2>1, <2>3
  <2>6. ~Unordered(n - 1)
    <3> HIDE DEF Unordered
    <3> QED BY <1>3, <2>1, <2>5
  <2>7. PICK r : Ordered(r, rest)
    BY <2>4, <2>5, <2>6
  <2> DEFINE s == [i \in 1 .. n |-> IF i = 1 THEN least ELSE r[i - 1]]
  <2>8. r \in [1 .. n - 1 -> rest] /\ \A i, j \in 1 .. n - 1 : i < j => r[i] < r[j]
    BY <2>4, <2>7 DEF Ordered
  <2>9. \A i \in 1 .. n : i # 1 => i - 1 \in 1 .. n - 1
    BY <2>1
  <2>10. s \in [1 .. n -> S]
    BY <2>8, <2>9
  <2>11. \A x \in rest : least < x
    BY <2>1, <2>2
  <2>12. ASSUME NEW i \in 1 .. n, NEW j \in 1 .. n, i < j PROVE s[i] < s[j]
    <3>1. j # 1 /\ j - 1 \in 1 .. n - 1
      BY <2>1, <2>12
    <3>2. CASE i = 1
      BY <2>8, <2>11, <3>1, <3>2
    <3>3. CASE i # 1
      <4>1. i - 1 \in 1 .. n - 1 /\ i - 1 < j - 1
        BY <2>9, <2>12, <3>1, <3>3
      <4> QED BY <2>8, <3>1, <3>3, <4>1
    <3> QED BY <3>2, <3>3
  <2>13. Ordered(s, S)
    <3> HIDE DEF s
    <3> QED BY <1>4, <2>10, <2>12 DEF Ordered
  <2> QED BY <1>4, <2>13
<1> QED BY <1>5, <1>6

LEMMA CallsAreFinite ==
  ASSUME NEW cs \in SUBSET Chat!Calls
  PROVE  IsFiniteSet(cs) /\ cs \subseteq Nat
<1>1. IsFiniteSet(Chat!Calls) /\ Chat!Calls \subseteq Nat
  BY ChatAssumption, FS_Interval DEF Chat!Calls, Chat!ChatClientAssumption
<1>2. IsFiniteSet(cs)
  BY <1>1, FS_Subset
<1> QED BY <1>1, <1>2

\* An order of a set of calls has each of them.
LEMMA InOrderIs ==
  ASSUME NEW cs \in SUBSET Chat!Calls
  PROVE  /\ Chat!InOrder(cs) \in Seq(cs)
         /\ \A c \in cs : \E i \in 1 .. Len(Chat!InOrder(cs)) : Chat!InOrder(cs)[i] = c
<1> DEFINE n == Cardinality(cs)
           s == Chat!InOrder(cs)
<1>1. IsFiniteSet(cs) /\ cs \subseteq Nat /\ n \in Nat
  BY CallsAreFinite, FS_CardinalityType
<1>2. Ordered(s, cs)
  BY <1>1, OrdersExist, SameSize DEF Ordered, Chat!InOrder
<1>3. s \in [1 .. n -> cs] /\ \A i, j \in 1 .. n : i < j => s[i] < s[j]
  BY <1>2 DEF Ordered
<1> HIDE DEF s
<1>4. \A i, j \in 1 .. n : s[i] = s[j] => i = j
  <2> SUFFICES ASSUME NEW i \in 1 .. n, NEW j \in 1 .. n, s[i] = s[j], i # j PROVE FALSE
    OBVIOUS
  <2>1. s[i] \in Nat /\ s[j] \in Nat
    BY <1>1, <1>3
  <2>2. i < j \/ j < i
    BY <1>1
  <2> QED BY <1>3, <2>1, <2>2
<1>5. s \in Injection(1 .. n, cs)
  BY <1>3, <1>4 DEF Injection, IsInjective
<1>6. IsFiniteSet(1 .. n) /\ Cardinality(1 .. n) = n
  BY <1>1, FS_Interval
<1>7. s \in Surjection(1 .. n, cs)
  BY <1>1, <1>5, <1>6, FS_Injection
<1>8. s \in Seq(cs) /\ Len(s) = n
  BY <1>1, <1>3
<1> QED BY <1>7, <1>8 DEF s, Surjection

\* A sequence of a set has each of its members once.
LEMMA SetToSeqIs ==
  ASSUME NEW S, IsFiniteSet(S)
  PROVE  /\ Chat!SetToSeq(S) \in Seq(S)
         /\ \A i, j \in 1 .. Len(Chat!SetToSeq(S)) : Chat!SetToSeq(S)[i] = Chat!SetToSeq(S)[j]
              => i = j
         /\ \A x \in S : \E i \in 1 .. Len(Chat!SetToSeq(S)) : Chat!SetToSeq(S)[i] = x
<1> DEFINE n == Cardinality(S)
           s == Chat!SetToSeq(S)
<1>1. n \in Nat /\ ExistsBijection(1 .. n, S)
  BY FS_CardinalityType
<1>2. PICK f : f \in Bijection(1 .. n, S)
  BY <1>1 DEF ExistsBijection
<1>3. f \in [1 .. n -> S] /\ IsInjective(f)
  BY <1>2 DEF Bijection, Injection, IsInjective
<1>4. s \in [1 .. n -> S] /\ IsInjective(s)
  BY <1>3, SameSize DEF Chat!SetToSeq, Chat!IsInjective, IsInjective
<1> HIDE DEF s
<1>5. s \in Injection(1 .. n, S)
  BY <1>4 DEF Injection
<1>6. IsFiniteSet(1 .. n) /\ Cardinality(1 .. n) = n
  BY <1>1, FS_Interval
<1>7. s \in Surjection(1 .. n, S)
  BY <1>1, <1>5, <1>6, FS_Injection
<1>8. s \in Seq(S) /\ Len(s) = n
  BY <1>1, <1>4
<1> QED BY <1>4, <1>7, <1>8 DEF s, Surjection, IsInjective

-----------------------------------------------------------------------------
(* The history *)

\* ResultsAnswerCalls, of any history.
Reads(h) ==
  \A j \in DOMAIN h : h[j].what = "result" =>
    /\ \E i \in 1 .. j - 1 : h[i] = Chat!Entry("call", h[j].id)
    /\ \A i \in 1 .. j - 1 : h[i] # h[j]

Theirs(k) == {c \in Chat!Calls : k[c] = "backend"}

\* What precedes a message of the user is answered before it, unless the backend is to answer it.
PairedBefore(h, k) ==
  \A i \in DOMAIN h : h[i].what = "user" =>
    \A c \in Chat!Calls \ Theirs(k) :
      (\E j \in 1 .. i - 1 : h[j] = Chat!Entry("call", c)) =>
        \E j \in 1 .. i - 1 : h[j] = Chat!Entry("result", c)

\* `g` is `h` and then the entries E, each of them once.
Adds(h, g, E) ==
  /\ g \in Seq(Chat!Entries) /\ Len(h) <= Len(g)
  /\ \A i \in 1 .. Len(h) : g[i] = h[i]
  /\ \A i \in Len(h) + 1 .. Len(g) : g[i] \in E
  /\ \A i, j \in Len(h) + 1 .. Len(g) : g[i] = g[j] => i = j
  /\ \A e \in E : \E i \in Len(h) + 1 .. Len(g) : g[i] = e

LEMMA AppendAdds ==
  ASSUME NEW h \in Seq(Chat!Entries), NEW e \in Chat!Entries
  PROVE  Adds(h, Append(h, e), {e})
<1> DEFINE g == Append(h, e)
<1>1. /\ g \in Seq(Chat!Entries) /\ Len(g) = Len(h) + 1 /\ Len(h) \in Nat
      /\ \A i \in 1 .. Len(h) : g[i] = h[i]
      /\ g[Len(h) + 1] = e
  BY AppendProperties, LenProperties
<1> HIDE DEF g
<1>2. Len(h) + 1 .. Len(g) = {Len(h) + 1}
  BY <1>1
<1>3. Adds(h, g, {e})
  BY <1>1, <1>2 DEF Adds
<1> QED BY <1>3 DEF g

Results(cs) == {Chat!Entry("result", c) : c \in cs}

LEMMA AnswerAllAdds ==
  ASSUME NEW h \in Seq(Chat!Entries), NEW cs \in SUBSET Chat!Calls
  PROVE  Adds(h, Chat!AnswerAll(h, cs), Results(cs))
<1> DEFINE S == Results(cs)
           s == Chat!SetToSeq(S)
           g == h \o s
<1>1. IsFiniteSet(S)
  <2>1. IsFiniteSet(cs)
    BY CallsAreFinite
  <2>2. [c \in cs |-> Chat!Entry("result", c)] \in Surjection(cs, S)
    BY DEF Surjection, Results
  <2> QED BY <2>1, <2>2, FS_Surjection
<1>2. S \subseteq Chat!Entries
  BY DEF Results, Chat!Entries, Chat!Entry
<1>3. /\ s \in Seq(S)
      /\ \A i, j \in 1 .. Len(s) : s[i] = s[j] => i = j
      /\ \A x \in S : \E i \in 1 .. Len(s) : s[i] = x
  BY <1>1, SetToSeqIs
<1>4. Chat!AnswerAll(h, cs) = g
  BY DEF Chat!AnswerAll, Results
<1> HIDE DEF S, s
<1>5. s \in Seq(Chat!Entries) /\ Len(s) \in Nat /\ Len(h) \in Nat
  <2>1. s \in Seq(Chat!Entries)
    BY <1>2, <1>3, SeqMonotonic
  <2> QED BY <2>1, LenProperties
<1>6. /\ g \in Seq(Chat!Entries) /\ Len(g) = Len(h) + Len(s)
      /\ \A i \in 1 .. Len(h) + Len(s) : g[i] = IF i <= Len(h) THEN h[i] ELSE s[i - Len(h)]
  BY <1>5, ConcatProperties
<1> HIDE DEF g
<1>7. \A i \in 1 .. Len(h) : g[i] = h[i]
  BY <1>5, <1>6
<1>8. \A i \in Len(h) + 1 .. Len(g) : i - Len(h) \in 1 .. Len(s) /\ g[i] = s[i - Len(h)]
  BY <1>5, <1>6
<1>9. \A i \in Len(h) + 1 .. Len(g) : g[i] \in S
  <2> TAKE i \in Len(h) + 1 .. Len(g)
  <2>1. s \in Seq(S) /\ i - Len(h) \in 1 .. Len(s) /\ g[i] = s[i - Len(h)]
    BY <1>3, <1>8
  <2>2. s[i - Len(h)] \in S
    BY <2>1, ElementOfSeq
  <2> QED BY <2>1, <2>2
<1>10. \A i, j \in Len(h) + 1 .. Len(g) : g[i] = g[j] => i = j
  <2> TAKE i, j \in Len(h) + 1 .. Len(g)
  <2> DEFINE a == i - Len(h)
             b == j - Len(h)
  <2>2. a \in 1 .. Len(s) /\ b \in 1 .. Len(s) /\ g[i] = s[a] /\ g[j] = s[b]
    BY <1>8
  <2> HIDE DEF a, b
  <2>3. g[i] = g[j] => a = b
    BY <1>3, <2>2
  <2>1. g[i] = g[j] => i - Len(h) = j - Len(h)
    BY <2>3 DEF a, b
  <2> QED BY <1>5, <1>6, <2>1
<1>11. \A e \in S : \E i \in Len(h) + 1 .. Len(g) : g[i] = e
  <2> TAKE e \in S
  <2>1. PICK i \in 1 .. Len(s) : s[i] = e
    BY <1>3
  <2>2. Len(h) + i \in Len(h) + 1 .. Len(g) /\ (Len(h) + i) - Len(h) = i
    BY <1>5, <1>6
  <2> QED BY <1>8, <2>1, <2>2
<1>12. Len(h) <= Len(g)
  BY <1>5, <1>6
<1>13. Adds(h, g, S)
  BY <1>6, <1>7, <1>9, <1>10, <1>11, <1>12 DEF Adds
<1> QED BY <1>4, <1>13 DEF S

\* What is in the history afterwards.
LEMMA AddsHas ==
  ASSUME NEW h \in Seq(Chat!Entries), NEW g, NEW E, Adds(h, g, E), NEW e
  PROVE  (\E i \in DOMAIN g : g[i] = e) <=> (e \in E \/ \E i \in DOMAIN h : h[i] = e)
<1>1. /\ Len(h) \in Nat /\ Len(g) \in Nat /\ DOMAIN h = 1 .. Len(h) /\ DOMAIN g = 1 .. Len(g)
      /\ Len(h) <= Len(g)
  BY LenProperties DEF Adds
<1>2. 1 .. Len(g) = (1 .. Len(h)) \cup (Len(h) + 1 .. Len(g))
  BY <1>1
<1> QED BY <1>1, <1>2 DEF Adds

LEMMA AddsCalls ==
  ASSUME NEW h \in Seq(Chat!Entries), NEW g, NEW E, Adds(h, g, E)
  PROVE  /\ Chat!CallsIn(g) = Chat!CallsIn(h) \cup {c \in Chat!Calls : Chat!Entry("call", c) \in E}
         /\ Chat!Answered(g) =
              Chat!Answered(h) \cup {c \in Chat!Calls : Chat!Entry("result", c) \in E}
<1>1. \A e : (\E i \in DOMAIN g : g[i] = e) <=> (e \in E \/ \E i \in DOMAIN h : h[i] = e)
  BY AddsHas
<1>2. \A c : Chat!Has(g, "call", c) <=> (Chat!Entry("call", c) \in E \/ Chat!Has(h, "call", c))
  BY <1>1 DEF Chat!Has
<1>3. \A c : Chat!Has(g, "result", c)
        <=> (Chat!Entry("result", c) \in E \/ Chat!Has(h, "result", c))
  BY <1>1 DEF Chat!Has
<1> QED BY <1>2, <1>3 DEF Chat!CallsIn, Chat!Answered

LEMMA ResultsAre ==
  ASSUME NEW cs \in SUBSET Chat!Calls
  PROVE  /\ {c \in Chat!Calls : Chat!Entry("call", c) \in Results(cs)} = {}
         /\ {c \in Chat!Calls : Chat!Entry("result", c) \in Results(cs)} = cs
         /\ \A e \in Results(cs) : e.what = "result" /\ e.id \in cs
<1>1. \A e \in Results(cs) : e.what = "result" /\ e.id \in cs
  BY DEF Results, Chat!Entry
<1>2. \A c : Chat!Entry("call", c).what = "call" /\ Chat!Entry("result", c).id = c
  BY DEF Chat!Entry
<1>3. \A c \in cs : Chat!Entry("result", c) \in Results(cs)
  BY DEF Results
<1>4. {c \in Chat!Calls : Chat!Entry("call", c) \in Results(cs)} = {}
  BY <1>1, <1>2
<1>5. {c \in Chat!Calls : Chat!Entry("result", c) \in Results(cs)} = cs
  BY <1>1, <1>2, <1>3
<1> QED BY <1>1, <1>4, <1>5

LEMMA ResultsAdd ==
  ASSUME NEW h \in Seq(Chat!Entries), NEW g, NEW cs \in SUBSET Chat!Calls, Adds(h, g, Results(cs))
  PROVE  Chat!CallsIn(g) = Chat!CallsIn(h) /\ Chat!Answered(g) = Chat!Answered(h) \cup cs
<1> DEFINE E == Results(cs)
<1>1. /\ Chat!CallsIn(g) = Chat!CallsIn(h) \cup {c \in Chat!Calls : Chat!Entry("call", c) \in E}
      /\ Chat!Answered(g) = Chat!Answered(h) \cup {c \in Chat!Calls : Chat!Entry("result", c) \in E}
  BY AddsCalls
<1>2. {c \in Chat!Calls : Chat!Entry("call", c) \in E} = {}
        /\ {c \in Chat!Calls : Chat!Entry("result", c) \in E} = cs
  BY ResultsAre
<1> QED BY <1>1, <1>2

LEMMA AddsReads ==
  ASSUME NEW h \in Seq(Chat!Entries), NEW g, NEW E, Adds(h, g, E), Reads(h),
         \A e \in E : e.what = "result" => e = Chat!Entry("result", e.id)
           /\ e.id \in Chat!Unanswered(h)
  PROVE  Reads(g)
<1>1. /\ Len(h) \in Nat /\ Len(g) \in Nat /\ DOMAIN h = 1 .. Len(h) /\ DOMAIN g = 1 .. Len(g)
      /\ Len(h) <= Len(g)
  BY LenProperties DEF Adds
<1> SUFFICES ASSUME NEW j \in 1 .. Len(g), g[j].what = "result"
             PROVE  /\ \E i \in 1 .. j - 1 : g[i] = Chat!Entry("call", g[j].id)
                    /\ \A i \in 1 .. j - 1 : g[i] # g[j]
  BY <1>1 DEF Reads
<1>2. CASE j <= Len(h)
  <2>1. g[j] = h[j] /\ j \in 1 .. Len(h) /\ \A i \in 1 .. j - 1 : g[i] = h[i]
    BY <1>1, <1>2 DEF Adds
  <2> QED BY <1>1, <2>1 DEF Reads
<1>3. CASE j > Len(h)
  <2>1. j \in Len(h) + 1 .. Len(g) /\ g[j] \in E
    BY <1>1, <1>3 DEF Adds
  <2>2. g[j] = Chat!Entry("result", g[j].id) /\ g[j].id \in Chat!Unanswered(h)
    BY <2>1
  <2>3. PICK i \in 1 .. Len(h) : h[i] = Chat!Entry("call", g[j].id)
    BY <1>1, <2>2 DEF Chat!Unanswered, Chat!CallsIn, Chat!Has
  <2>4. i \in 1 .. j - 1 /\ g[i] = h[i]
    BY <1>1, <1>3, <2>3 DEF Adds
  <2>5. \A k \in 1 .. Len(h) : h[k] # Chat!Entry("result", g[j].id)
    BY <1>1, <2>2 DEF Chat!Unanswered, Chat!CallsIn, Chat!Answered, Chat!Has
  <2>6. \A k \in 1 .. j - 1 : g[k] # g[j]
    <3> TAKE k \in 1 .. j - 1
    <3>1. CASE k <= Len(h)
      <4>1. k \in 1 .. Len(h) /\ g[k] = h[k]
        BY <1>1, <3>1 DEF Adds
      <4> QED BY <2>2, <2>5, <4>1
    <3>2. CASE k > Len(h)
      <4>1. k \in Len(h) + 1 .. Len(g) /\ k # j
        BY <1>1, <3>2
      <4> QED BY <2>1, <4>1 DEF Adds
    <3> QED BY <1>1, <3>1, <3>2
  <2> QED BY <2>3, <2>4, <2>6
<1> QED BY <1>1, <1>2, <1>3

LEMMA AddsPaired ==
  ASSUME NEW h \in Seq(Chat!Entries), NEW g, NEW E, Adds(h, g, E), NEW k, PairedBefore(h, k),
         \/ \A e \in E : e.what # "user"
         \/ Chat!Unanswered(h) \subseteq Theirs(k) /\ \E e : E = {e}
  PROVE  PairedBefore(g, k)
<1>1. /\ Len(h) \in Nat /\ Len(g) \in Nat /\ DOMAIN h = 1 .. Len(h) /\ DOMAIN g = 1 .. Len(g)
      /\ Len(h) <= Len(g)
  BY LenProperties DEF Adds
<1> SUFFICES ASSUME NEW i \in 1 .. Len(g), g[i].what = "user", NEW c \in Chat!Calls \ Theirs(k),
                    NEW j \in 1 .. i - 1, g[j] = Chat!Entry("call", c)
             PROVE  \E l \in 1 .. i - 1 : g[l] = Chat!Entry("result", c)
  BY <1>1 DEF PairedBefore
<1>2. CASE i <= Len(h)
  <2>1. g[i] = h[i] /\ i \in 1 .. Len(h) /\ \A l \in 1 .. i - 1 : g[l] = h[l]
    BY <1>1, <1>2 DEF Adds
  <2> QED BY <1>1, <2>1 DEF PairedBefore
<1>3. CASE i > Len(h)
  <2>1. i \in Len(h) + 1 .. Len(g) /\ g[i] \in E
    BY <1>1, <1>3 DEF Adds
  <2>2. PICK e : E = {e} /\ Chat!Unanswered(h) \subseteq Theirs(k)
    BY <2>1
  <2>3. \A l \in 1 .. i - 1 : l \in 1 .. Len(h) /\ g[l] = h[l]
    <3> TAKE l \in 1 .. i - 1
    <3>1. l > Len(h) => l \in Len(h) + 1 .. Len(g) /\ g[l] = g[i] /\ l # i
      BY <1>1, <2>1, <2>2 DEF Adds
    <3>2. l <= Len(h)
      BY <1>1, <2>1, <3>1 DEF Adds
    <3> QED BY <1>1, <3>2 DEF Adds
  <2>4. c \in Chat!CallsIn(h)
    BY <1>1, <2>3 DEF Chat!CallsIn, Chat!Has
  <2>5. c \in Chat!Answered(h)
    BY <2>2, <2>4 DEF Chat!Unanswered
  <2>6. PICK l \in 1 .. Len(h) : h[l] = Chat!Entry("result", c)
    BY <1>1, <2>5 DEF Chat!Answered, Chat!Has
  <2>7. l \in 1 .. i - 1 /\ g[l] = h[l]
    BY <1>1, <1>3 DEF Adds
  <2> QED BY <2>6, <2>7
<1> QED BY <1>1, <1>2, <1>3

\* AnswerAll: the calls are answered, and nothing else changes.
LEMMA AnswerAllIs ==
  ASSUME NEW h \in Seq(Chat!Entries), NEW cs, cs \subseteq Chat!Unanswered(h)
  PROVE  LET g == Chat!AnswerAll(h, cs)
         IN  /\ g \in Seq(Chat!Entries) /\ Chat!CallsIn(g) = Chat!CallsIn(h)
             /\ Chat!Unanswered(g) = Chat!Unanswered(h) \ cs
             /\ Reads(h) => Reads(g)
             /\ \A k : PairedBefore(h, k) => PairedBefore(g, k)
<1> DEFINE g == Chat!AnswerAll(h, cs)
<1>1. cs \in SUBSET Chat!Calls
  BY DEF Chat!Unanswered, Chat!CallsIn
<1>2. Adds(h, g, Results(cs))
  BY <1>1, AnswerAllAdds
<1> HIDE DEF g
<1>3. g \in Seq(Chat!Entries)
  BY <1>2 DEF Adds
<1>4. Chat!CallsIn(g) = Chat!CallsIn(h) /\ Chat!Answered(g) = Chat!Answered(h) \cup cs
  BY <1>1, <1>2, ResultsAdd
<1>5. \A e \in Results(cs) : e = Chat!Entry("result", e.id) /\ e.id \in Chat!Unanswered(h)
        /\ e.what # "user"
  BY DEF Results, Chat!Entry
<1>6. Reads(h) => Reads(g)
  BY <1>2, <1>5, AddsReads
<1>7. \A k : PairedBefore(h, k) => PairedBefore(g, k)
  <2> SUFFICES ASSUME NEW k, PairedBefore(h, k) PROVE PairedBefore(g, k)
    OBVIOUS
  <2> QED BY <1>2, <1>5, AddsPaired
<1> QED BY <1>3, <1>4, <1>6, <1>7 DEF g, Chat!Unanswered

LEMMA AddResultIs ==
  ASSUME NEW h \in Seq(Chat!Entries), NEW c
  PROVE  LET g == Chat!AddResult(h, c)
         IN  /\ g \in Seq(Chat!Entries) /\ Chat!CallsIn(g) = Chat!CallsIn(h)
             /\ Chat!Unanswered(g) = Chat!Unanswered(h) \ {c}
             /\ Reads(h) => Reads(g)
             /\ \A k : PairedBefore(h, k) => PairedBefore(g, k)
<1> DEFINE g == Chat!AddResult(h, c)
<1>1. CASE c \notin Chat!Unanswered(h)
  <2>1. g = h /\ Chat!Unanswered(h) = Chat!Unanswered(h) \ {c}
    BY <1>1 DEF Chat!AddResult
  <2> QED BY <2>1
<1>2. CASE c \in Chat!Unanswered(h)
  <2>1. c \in Chat!Calls
    BY <1>2 DEF Chat!Unanswered, Chat!CallsIn
  <2>2. Chat!Entry("result", c) \in Chat!Entries /\ g = Append(h, Chat!Entry("result", c))
    BY <1>2, <2>1 DEF Chat!AddResult, Chat!Entry, Chat!Entries
  <2>3. Adds(h, g, {Chat!Entry("result", c)})
    BY <2>2, AppendAdds
  <2>4. {Chat!Entry("result", c)} = Results({c})
    BY DEF Results
  <2> HIDE DEF g
  <2>5. g \in Seq(Chat!Entries)
    BY <2>3 DEF Adds
  <2>6. Chat!CallsIn(g) = Chat!CallsIn(h) /\ Chat!Answered(g) = Chat!Answered(h) \cup {c}
    <3>1. Adds(h, g, Results({c})) /\ {c} \in SUBSET Chat!Calls
      BY <2>1, <2>3, <2>4
    <3> QED BY <3>1, ResultsAdd
  <2>7. \A e \in {Chat!Entry("result", c)} :
          e = Chat!Entry("result", e.id) /\ e.id \in Chat!Unanswered(h) /\ e.what # "user"
    BY <1>2 DEF Chat!Entry
  <2>8. Reads(h) => Reads(g)
    BY <2>3, <2>7, AddsReads
  <2>9. \A k : PairedBefore(h, k) => PairedBefore(g, k)
    <3> SUFFICES ASSUME NEW k, PairedBefore(h, k) PROVE PairedBefore(g, k)
      OBVIOUS
    <3> QED BY <2>3, <2>7, AddsPaired
  <2> QED BY <2>5, <2>6, <2>8, <2>9 DEF g, Chat!Unanswered
<1> QED BY <1>1, <1>2

\* A message of the user, where everything before is answered or the backend's to answer.
LEMMA UserAdds ==
  ASSUME NEW h \in Seq(Chat!Entries), NEW m \in Chat!Messages
  PROVE  LET g == Append(h, Chat!Entry("user", m))
         IN  /\ g \in Seq(Chat!Entries) /\ Chat!CallsIn(g) = Chat!CallsIn(h)
             /\ Chat!Unanswered(g) = Chat!Unanswered(h)
             /\ Reads(h) => Reads(g)
             /\ \A k : PairedBefore(h, k) /\ Chat!Unanswered(h) \subseteq Theirs(k)
                  => PairedBefore(g, k)
<1> DEFINE e == Chat!Entry("user", m)
           g == Append(h, e)
<1>1. e \in Chat!Entries /\ e.what = "user"
  BY DEF Chat!Entry, Chat!Entries
<1>2. Adds(h, g, {e})
  BY <1>1, AppendAdds
<1>3. \A c \in Chat!Calls : Chat!Entry("call", c) # e /\ Chat!Entry("result", c) # e
  BY DEF Chat!Entry
<1> HIDE DEF g, e
<1>4. g \in Seq(Chat!Entries)
  BY <1>2 DEF Adds
<1>5. Chat!CallsIn(g) = Chat!CallsIn(h) /\ Chat!Answered(g) = Chat!Answered(h)
  BY <1>2, <1>3, AddsCalls DEF Chat!CallsIn, Chat!Answered
<1>6. Reads(h) => Reads(g)
  BY <1>1, <1>2, AddsReads
<1>7. \A k : PairedBefore(h, k) /\ Chat!Unanswered(h) \subseteq Theirs(k) => PairedBefore(g, k)
  <2> SUFFICES ASSUME NEW k, PairedBefore(h, k), Chat!Unanswered(h) \subseteq Theirs(k)
               PROVE  PairedBefore(g, k)
    OBVIOUS
  <2> QED BY <1>2, AddsPaired
<1> QED BY <1>4, <1>5, <1>6, <1>7 DEF g, e, Chat!Unanswered

\* A new call.
LEMMA CallAdds ==
  ASSUME NEW h \in Seq(Chat!Entries), NEW c \in Chat!Calls
  PROVE  LET g == Append(h, Chat!Entry("call", c))
         IN  /\ g \in Seq(Chat!Entries) /\ Chat!CallsIn(g) = Chat!CallsIn(h) \cup {c}
             /\ Chat!Unanswered(g) \subseteq Chat!Unanswered(h) \cup {c}
             /\ Reads(h) => Reads(g)
             /\ \A k : PairedBefore(h, k) => PairedBefore(g, k)
<1> DEFINE e == Chat!Entry("call", c)
           g == Append(h, e)
<1>1. e \in Chat!Entries /\ e.what = "call" /\ e.id = c
  BY DEF Chat!Entry, Chat!Entries
<1>2. Adds(h, g, {e})
  BY <1>1, AppendAdds
<1>3. {d \in Chat!Calls : Chat!Entry("call", d) \in {e}} = {c}
        /\ {d \in Chat!Calls : Chat!Entry("result", d) \in {e}} = {}
  BY DEF Chat!Entry
<1> HIDE DEF g, e
<1>4. g \in Seq(Chat!Entries)
  BY <1>2 DEF Adds
<1>5. Chat!CallsIn(g) = Chat!CallsIn(h) \cup {c} /\ Chat!Answered(g) = Chat!Answered(h)
  <2>1. /\ Chat!CallsIn(g) = Chat!CallsIn(h) \cup {d \in Chat!Calls : Chat!Entry("call", d) \in {e}}
        /\ Chat!Answered(g) =
             Chat!Answered(h) \cup {d \in Chat!Calls : Chat!Entry("result", d) \in {e}}
    BY <1>2, AddsCalls
  <2> QED BY <1>3, <2>1
<1>6. Reads(h) => Reads(g)
  BY <1>1, <1>2, AddsReads
<1>7. \A k : PairedBefore(h, k) => PairedBefore(g, k)
  <2> SUFFICES ASSUME NEW k, PairedBefore(h, k) PROVE PairedBefore(g, k)
    OBVIOUS
  <2> QED BY <1>1, <1>2, AddsPaired
<1> QED BY <1>4, <1>5, <1>6, <1>7 DEF g, e, Chat!Unanswered

\* The history cut back to before, or up to, a message of the user.
LEMMA CutIs ==
  ASSUME NEW h \in Seq(Chat!Entries), NEW n \in 0 .. Len(h)
  PROVE  LET g == SubSeq(h, 1, n)
         IN  /\ g \in Seq(Chat!Entries) /\ Chat!CallsIn(g) \subseteq Chat!CallsIn(h)
             /\ Reads(h) => Reads(g)
             /\ \A k : PairedBefore(h, k) =>
                  /\ PairedBefore(g, k)
                  /\ \A i \in DOMAIN h : h[i].what = "user" /\ n \in {i - 1, i} =>
                       Chat!Unanswered(g) \subseteq Theirs(k)
<1> DEFINE g == SubSeq(h, 1, n)
<1>1. Len(h) \in Nat /\ n \in Nat /\ DOMAIN h = 1 .. Len(h)
  BY LenProperties
<1>2. \A i \in 1 .. n : i \in 1 .. Len(h) /\ h[i] \in Chat!Entries
  <2> TAKE i \in 1 .. n
  <2>1. i \in 1 .. Len(h)
    BY <1>1
  <2> QED BY <2>1, ElementOfSeq
<1>3. /\ g \in Seq(Chat!Entries) /\ Len(g) = (IF 1 <= n THEN n - 1 + 1 ELSE 0)
      /\ \A i \in 1 .. n - 1 + 1 : g[i] = h[1 + i - 1]
  BY <1>1, <1>2, SubSeqProperties
<1>4. Len(g) = n /\ DOMAIN g = 1 .. n
  BY <1>1, <1>3, LenProperties
<1>5. \A i \in 1 .. n : g[i] = h[i]
  BY <1>1, <1>3
<1> HIDE DEF g
<1>6. Chat!CallsIn(g) \subseteq Chat!CallsIn(h)
  BY <1>1, <1>2, <1>4, <1>5 DEF Chat!CallsIn, Chat!Has
<1>7. Reads(h) => Reads(g)
  <2> SUFFICES ASSUME Reads(h), NEW j \in 1 .. n, g[j].what = "result"
               PROVE  /\ \E i \in 1 .. j - 1 : g[i] = Chat!Entry("call", g[j].id)
                      /\ \A i \in 1 .. j - 1 : g[i] # g[j]
    BY <1>4 DEF Reads
  <2>1. \A i \in 1 .. j - 1 : i \in 1 .. n
    BY <1>1
  <2> QED BY <1>1, <1>2, <1>5, <2>1 DEF Reads
<1>8. ASSUME NEW k, PairedBefore(h, k) PROVE PairedBefore(g, k)
  <2> SUFFICES ASSUME NEW j \in 1 .. n, g[j].what = "user", NEW c \in Chat!Calls \ Theirs(k),
                      \E i \in 1 .. j - 1 : g[i] = Chat!Entry("call", c)
               PROVE  \E i \in 1 .. j - 1 : g[i] = Chat!Entry("result", c)
    BY <1>4 DEF PairedBefore
  <2>1. \A i \in 1 .. j - 1 : i \in 1 .. n
    BY <1>1
  <2> QED BY <1>1, <1>2, <1>5, <1>8, <2>1 DEF PairedBefore
<1>9. ASSUME NEW k, PairedBefore(h, k), NEW i \in 1 .. Len(h), h[i].what = "user",
             n = i - 1 \/ n = i
      PROVE  Chat!Unanswered(g) \subseteq Theirs(k)
  <2> SUFFICES ASSUME NEW c \in Chat!CallsIn(g), c \notin Theirs(k) PROVE c \in Chat!Answered(g)
    BY DEF Chat!Unanswered
  <2>1. PICK j \in 1 .. n : g[j] = Chat!Entry("call", c)
    BY <1>4 DEF Chat!CallsIn, Chat!Has
  <2>2. c \in Chat!Calls /\ h[j] = Chat!Entry("call", c) /\ h[j].what = "call"
    BY <1>5, <2>1 DEF Chat!CallsIn, Chat!Entry
  <2>3. j # i /\ j \in 1 .. i - 1
    BY <1>1, <1>9, <2>2
  <2>4. PICK l \in 1 .. i - 1 : h[l] = Chat!Entry("result", c)
    BY <1>1, <1>9, <2>2, <2>3 DEF PairedBefore
  <2>5. l \in 1 .. n
    BY <1>1, <1>9
  <2> QED BY <1>4, <1>5, <2>2, <2>4, <2>5 DEF Chat!Answered, Chat!Has
<1> QED BY <1>1, <1>3, <1>6, <1>7, <1>8, <1>9 DEF g

-----------------------------------------------------------------------------
(* What holds of the chat *)

Turns ==
  [phase : {"none", "running", "tools", "asking"}, gen : 0 .. MaxStops, run : 0 .. MaxRuns,
   resumes : SUBSET Chat!Calls, ended : {"no", "success", "interrupt", "cancelled"},
   raised : SUBSET Chat!Calls, toRun : Seq(Chat!Calls), executing : Chat!Calls \cup {Chat!NoCall},
   waiting : SUBSET Chat!Calls, answers : SUBSET Chat!Calls, quiet : BOOLEAN]

Waiting ==
  [what : {"send", "edit"}, of : 0 .. MaxMessages, id : Chat!Messages]
    \cup [what : {"reload"}, of : {0}, id : {0}]

\* TypeOK, with the turns and the history as sequences.
ChatTypes ==
  /\ history \in Seq(Chat!Entries) /\ turns \in Seq(Waiting)
  /\ sent \in 0 .. MaxMessages /\ generation \in 0 .. MaxStops /\ disposed \in BOOLEAN
  /\ status \in {"ready", "loading", "error"} /\ kind \in [Chat!Calls -> Kinds \cup {"none"}]
  /\ turn \in Turns /\ turn.gen <= generation
  /\ pending \subseteq Chat!Calls /\ asked \subseteq pending /\ owed \subseteq Chat!Calls
  /\ cards \subseteq Chat!Calls

\* Only the phases of a round have a tool that runs, and questions.
Shaped(t) ==
  /\ t.phase \in {"none", "running"} => t.waiting = {} /\ t.answers = {}
  /\ t.phase # "tools" => t.executing = Chat!NoCall

ChatInv ==
  /\ ChatTypes /\ Reads(history) /\ Shaped(turn)
  /\ Chat!InFlight => owed = {}
  /\ Chat!LoadingIsTrue /\ Chat!QuestionsHaveATurn
  /\ turn.phase = "running" /\ ~Chat!Stopped /\ turn.ended = "interrupt"
       => turn.raised \subseteq pending

\* What a round leaves in the history when its turn fails.
FailedOf(h) == Chat!AnswerAll(h, Chat!Unanswered(h) \ Chat!Held)

\* What Proceed and Continue come to.
Came(t, h) ==
  /\ turn' \in Turns /\ Shaped(turn') /\ turn'.gen <= t.gen
  /\ turn'.phase # "none" => turn'.gen = t.gen /\ owed' = owed
  /\ turn'.waiting = t.waiting
  /\ turn'.phase = "running" => turn'.ended = "no"
  /\ status' \in {"ready", "loading", "error"}
  /\ status' = "loading" <=> turn'.phase \in {"running", "tools"}
  /\ turn'.phase = "none" => owed' \in {owed, t.answers}
  /\ turn'.phase = "none" /\ status' # "error" => owed' = t.answers
  /\ turn'.phase \in {"tools", "asking"} => turn'.answers = t.answers
  /\ \/ history' = h
     \/ history' = FailedOf(h) /\ status' = "error" /\ turn'.phase = "none"
  /\ turn'.phase = "tools" =>
       t.toRun # <<>> /\ turn'.executing = Head(t.toRun) /\ turn'.toRun = Tail(t.toRun)

LEMMA NoTurnIs ==
  /\ Chat!NoTurn \in Turns /\ Shaped(Chat!NoTurn) /\ Chat!NoTurn.phase = "none"
  /\ Chat!NoTurn.gen = 0
  /\ Chat!NoTurn.waiting = {} /\ Chat!NoTurn.answers = {} /\ Chat!NoTurn.executing = Chat!NoCall
<1>1. <<>> \in Seq(Chat!Calls) /\ 0 \in 0 .. MaxStops /\ 0 \in 0 .. MaxRuns
  BY EmptySeq, ChatAssumption DEF Chat!ChatClientAssumption
<1> QED BY <1>1 DEF Chat!NoTurn, Turns, Shaped, Chat!NoCall

LEMMA StartRunIs ==
  ASSUME pending \subseteq Chat!Calls, NEW gen \in 0 .. MaxStops, NEW run \in 0 .. MaxRuns,
         Chat!StartRun(gen, run)
  PROVE  /\ turn' \in Turns /\ Shaped(turn') /\ turn'.phase = "running" /\ turn'.gen = gen
         /\ turn'.run = run /\ turn'.ended = "no" /\ turn'.waiting = {} /\ turn'.answers = {}
         /\ turn'.executing = Chat!NoCall /\ turn'.resumes = pending /\ status' = "loading"
<1>1. <<>> \in Seq(Chat!Calls)
  BY EmptySeq
<1> QED BY <1>1 DEF Chat!StartRun, Chat!NoTurn, Turns, Shaped, Chat!NoCall

LEMMA ContinueIs ==
  ASSUME ChatInv, NEW t \in Turns, NEW h, t.waiting = {}, Chat!Continue(t, h)
  PROVE  Came(t, h) /\ turn'.phase \in {"none", "running"}
<1>1. pending \subseteq Chat!Calls /\ t.gen \in 0 .. MaxStops /\ t.run \in 0 .. MaxRuns
  BY DEF ChatInv, ChatTypes, Turns
<1>2. CASE t.quiet /\ Chat!Owe(t.answers) /\ Chat!End("ready") /\ history' = h
  BY <1>1, <1>2, NoTurnIs DEF Came, Chat!Owe, Chat!End
<1>3. CASE t.run = MaxRuns /\ Chat!Fail(h) /\ UNCHANGED owed
  BY <1>1, <1>3, NoTurnIs DEF Came, Chat!Fail, Chat!End, FailedOf
<1>4. CASE t.run < MaxRuns /\ Chat!StartRun(t.gen, t.run + 1) /\ history' = h /\ UNCHANGED owed
  <2>1. t.run + 1 \in 0 .. MaxRuns
    BY <1>1, <1>4, ChatAssumption DEF Chat!ChatClientAssumption
  <2> QED BY <1>1, <1>4, <2>1, StartRunIs DEF Came
<1> QED BY <1>2, <1>3, <1>4 DEF Chat!Continue

LEMMA ProceedIs ==
  ASSUME ChatInv, NEW t \in Turns, NEW h, Chat!Proceed(t, h)
  PROVE  Came(t, h) /\ (turn'.phase # "tools" => t.toRun = <<>>)
<1>1. CASE /\ t.toRun # <<>>
           /\ turn' = [t EXCEPT !.phase = "tools", !.executing = Head(t.toRun),
                                !.toRun = Tail(t.toRun)]
           /\ status' = "loading" /\ history' = h /\ UNCHANGED owed
  <2>1. t.toRun \in Seq(Chat!Calls) /\ Head(t.toRun) \in Chat!Calls
          /\ Tail(t.toRun) \in Seq(Chat!Calls)
    BY <1>1, HeadTailProperties DEF Turns
  <2>2. /\ turn' \in Turns /\ turn'.phase = "tools" /\ turn'.executing = Head(t.toRun)
        /\ turn'.toRun = Tail(t.toRun) /\ turn'.gen = t.gen /\ turn'.waiting = t.waiting
        /\ turn'.answers = t.answers
    BY <1>1, <2>1 DEF Turns
  <2>3. t.gen \in Nat
    BY ChatAssumption DEF Turns, Chat!ChatClientAssumption
  <2> QED BY <1>1, <2>2, <2>3 DEF Came, Shaped
<1>2. CASE /\ t.toRun = <<>> /\ t.waiting # {}
           /\ turn' = [t EXCEPT !.phase = "asking", !.executing = Chat!NoCall]
           /\ status' = "ready" /\ history' = h /\ UNCHANGED owed
  <2>2. /\ turn' \in Turns /\ turn'.phase = "asking" /\ turn'.executing = Chat!NoCall
        /\ turn'.gen = t.gen /\ turn'.waiting = t.waiting /\ turn'.answers = t.answers
    BY <1>2 DEF Turns
  <2>3. t.gen \in Nat
    BY ChatAssumption DEF Turns, Chat!ChatClientAssumption
  <2> QED BY <1>2, <2>2, <2>3 DEF Came, Shaped
<1>3. CASE t.toRun = <<>> /\ t.waiting = {}
        /\ Chat!Continue([t EXCEPT !.executing = Chat!NoCall], h)
  <2> DEFINE u == [t EXCEPT !.executing = Chat!NoCall]
  <2>1. /\ u \in Turns /\ u.waiting = {} /\ u.toRun = t.toRun /\ u.gen = t.gen
        /\ u.answers = t.answers /\ u.waiting = t.waiting
    BY <1>3 DEF Turns
  <2> HIDE DEF u
  <2>2. Came(u, h)
    BY <1>3, <2>1, ContinueIs DEF u
  <2> QED BY <1>3, <2>1, <2>2 DEF Came
<1> QED BY <1>1, <1>2, <1>3 DEF Chat!Proceed

\* A step of the turn in flight, which nobody stopped, keeps everything.
LEMMA CameKeeps ==
  ASSUME ChatInv, NEW t \in Turns, NEW h \in Seq(Chat!Entries), Came(t, h), Reads(h),
         t.gen = generation, generation' = generation, sent' = sent, disposed' = disposed,
         kind' = kind, pending' = pending, turns' \in Seq(Waiting), asked' \subseteq pending,
         cards' \in SUBSET Chat!Calls, cards' # {} => cards' = t.waiting,
           approving' = Chat!NoCall, owed = {}
  PROVE  ChatInv'
<1>1. FailedOf(h) \in Seq(Chat!Entries) /\ Reads(FailedOf(h))
  BY AnswerAllIs DEF FailedOf
<1>2. history' \in Seq(Chat!Entries) /\ Reads(history')
  BY <1>1 DEF Came
<1>3. t.answers \subseteq Chat!Calls /\ t.gen \in Nat /\ turn'.gen \in Nat
  BY ChatAssumption DEF Turns, Chat!ChatClientAssumption, Came
<1>4. ChatTypes'
  BY <1>2, <1>3 DEF ChatInv, ChatTypes, Came
<1>5. Chat!InFlight' => owed' = {} /\ ~Chat!Stopped'
  BY DEF Came, Chat!InFlight, Chat!Stopped
<1>6. Chat!LoadingIsTrue' /\ Chat!QuestionsHaveATurn'
  BY <1>5 DEF Came, Chat!LoadingIsTrue, Chat!QuestionsHaveATurn, Chat!InFlight, Chat!Stopped
<1> QED BY <1>2, <1>4, <1>5, <1>6 DEF ChatInv, Came

-----------------------------------------------------------------------------
(* The steps of the chat *)

\* What an edit or a reload keeps: what precedes the last of the places.
LEMMA CutAt ==
  ASSUME NEW h \in Seq(Chat!Entries), NEW places, places \subseteq DOMAIN h, places # {}
  PROVE  \E k \in places : /\ k \in 1 .. Len(h)
                           /\ Cardinality(UNION {1 .. i - 1 : i \in places}) = k - 1
<1>1. Len(h) \in Nat /\ places \subseteq 1 .. Len(h)
  BY LenProperties
<1>2. PICK k \in places : \A i \in places : i <= k
  BY <1>1, LastOf
<1>3. k \in 1 .. Len(h)
  BY <1>1
<1>4. UNION {1 .. i - 1 : i \in places} = 1 .. k - 1
  <2>1. \A i \in places : 1 .. i - 1 \subseteq 1 .. k - 1
    BY <1>1, <1>2, <1>3
  <2> QED BY <2>1
<1>5. Cardinality(1 .. k - 1) = k - 1
  BY <1>3, FS_Interval
<1> QED BY <1>3, <1>4, <1>5

\* What BeginTurn makes of the history.
Begun ==
  /\ history' \in Seq(Chat!Entries) /\ Reads(history')
  /\ Chat!CallsIn(history') \subseteq Chat!CallsIn(history)
  /\ \A k : PairedBefore(history, k) /\ Chat!Unanswered(history) \subseteq Theirs(k) =>
       PairedBefore(history', k) /\ Chat!Unanswered(history') \subseteq Theirs(k)

LEMMA BeginTurnIs ==
  ASSUME ChatInv, Chat!BeginTurn
  PROVE  /\ turns' = Tail(turns) /\ turns # <<>> /\ ~Chat!InFlight
         /\ \/ UNCHANGED <<history, owed, turn, status>>
            \/ Begun /\ owed' = {} /\ Chat!StartRun(generation, 1)
<1> DEFINE next == Head(turns)
           places == IF next.what = "reload"
                     THEN Chat!LastUser(history) ELSE Chat!UserAt(history, next.of)
           cut == UNION {1 .. i - 1 : i \in places}
           before == SubSeq(history, 1, Cardinality(cut))
<1>1. history \in Seq(Chat!Entries) /\ Reads(history) /\ turns \in Seq(Waiting) /\ turns # <<>>
  BY DEF ChatInv, ChatTypes, Chat!BeginTurn
<1>2. next \in Waiting
  BY <1>1, HeadTailProperties
<1>3. next.what = "reload" \/ (next.what \in {"send", "edit"} /\ next.id \in Chat!Messages)
  BY <1>2 DEF Waiting
<1>4. places \subseteq DOMAIN history /\ \A i \in places : history[i].what = "user"
  BY DEF Chat!UserAt, Chat!LastUser, Chat!Entry
<1>5. ASSUME next.what # "send", places # {} PROVE
        \E k \in places : k \in 1 .. Len(history) /\ Cardinality(cut) = k - 1
  BY <1>1, <1>4, <1>5, CutAt
<1>6. CASE disposed \/ (next.what # "send" /\ places = {})
  BY <1>1, <1>6 DEF Chat!BeginTurn
<1>7. CASE ~disposed /\ next.what = "send"
  <2>1. /\ history' = Append(history, Chat!Entry("user", next.id)) /\ owed' = {}
        /\ Chat!StartRun(generation, 1) /\ turns' = Tail(turns) /\ ~Chat!InFlight
    BY <1>7, SameSize DEF Chat!BeginTurn
  <2>2. Begun
    BY <1>1, <1>3, <1>7, <2>1, UserAdds DEF Begun
  <2> QED BY <1>1, <2>1, <2>2
<1>8. CASE ~disposed /\ next.what = "reload" /\ places # {}
  <2>1. /\ history' = SubSeq(history, 1, Cardinality(cut) + 1) /\ owed' = {}
        /\ Chat!StartRun(generation, 1) /\ turns' = Tail(turns) /\ ~Chat!InFlight
    BY <1>8, SameSize DEF Chat!BeginTurn
  <2>2. PICK k \in places : k \in 1 .. Len(history) /\ Cardinality(cut) = k - 1
    BY <1>5, <1>8
  <2> HIDE DEF cut, places
  <2>3. history' = SubSeq(history, 1, k) /\ k \in 0 .. Len(history) /\ k \in DOMAIN history
    BY <1>1, <2>1, <2>2, LenProperties
  <2>4. Begun
    BY <1>1, <1>4, <2>3, CutIs DEF Begun
  <2> QED BY <1>1, <2>1, <2>4
<1>9. CASE ~disposed /\ next.what = "edit" /\ places # {}
  <2>1. /\ history' = Append(before, Chat!Entry("user", next.id)) /\ owed' = {}
        /\ Chat!StartRun(generation, 1) /\ turns' = Tail(turns) /\ ~Chat!InFlight
    BY <1>9, SameSize DEF Chat!BeginTurn
  <2>2. PICK k \in places : k \in 1 .. Len(history) /\ Cardinality(cut) = k - 1
    BY <1>5, <1>9
  <2>3. next.id \in Chat!Messages
    BY <1>3, <1>9
  <2> HIDE DEF cut, places, next
  <2>4. /\ before = SubSeq(history, 1, k - 1) /\ k - 1 \in 0 .. Len(history)
        /\ k \in DOMAIN history /\ k - 1 \in {k - 1, k}
    BY <1>1, <2>2, LenProperties
  <2> HIDE DEF before
  <2>5. /\ before \in Seq(Chat!Entries) /\ Chat!CallsIn(before) \subseteq Chat!CallsIn(history)
        /\ Reads(before)
        /\ \A kn : PairedBefore(history, kn) =>
             PairedBefore(before, kn) /\ Chat!Unanswered(before) \subseteq Theirs(kn)
    BY <1>1, <1>4, <2>2, <2>4, CutIs
  <2>6. Begun
    BY <2>1, <2>3, <2>5, UserAdds DEF Begun
  <2> QED BY <1>1, <2>1, <2>6
<1> QED BY <1>3, <1>6, <1>7, <1>8, <1>9

LEMMA BeginTurnKeeps == ASSUME ChatInv, Chat!BeginTurn PROVE ChatInv'
<1>1. turns' \in Seq(Waiting)
  <2>1. turns \in Seq(Waiting) /\ turns # <<>> /\ turns' = Tail(turns)
    BY BeginTurnIs DEF ChatInv, ChatTypes
  <2> QED BY <2>1, HeadTailProperties
<1>2. UNCHANGED <<sent, generation, disposed, kind, pending, asked, cards, approving>>
  BY DEF Chat!BeginTurn
<1>3. CASE UNCHANGED <<history, owed, turn, status>>
  BY <1>1, <1>2, <1>3 DEF ChatInv, ChatTypes, Chat!InFlight, Chat!LoadingIsTrue,
    Chat!QuestionsHaveATurn, Chat!Stopped
<1>4. CASE Begun /\ owed' = {} /\ Chat!StartRun(generation, 1)
  <2>1. generation \in 0 .. MaxStops /\ 1 \in 0 .. MaxRuns /\ pending \subseteq Chat!Calls
    BY ChatAssumption DEF ChatInv, ChatTypes, Chat!ChatClientAssumption
  <2>2. /\ turn' \in Turns /\ Shaped(turn') /\ turn'.phase = "running" /\ turn'.gen = generation
        /\ turn'.ended = "no" /\ turn'.waiting = {} /\ turn'.executing = Chat!NoCall
        /\ status' = "loading"
    BY <1>4, <2>1, StartRunIs
  <2>3. turn.waiting = {} /\ turn.executing = Chat!NoCall /\ cards = {} /\ approving = Chat!NoCall
    BY BeginTurnIs DEF ChatInv, Shaped, Chat!InFlight, Chat!QuestionsHaveATurn
  <2>4. ChatTypes'
    BY <1>1, <1>2, <1>4, <2>1, <2>2 DEF ChatInv, ChatTypes, Begun
  <2>5. Chat!LoadingIsTrue' /\ Chat!QuestionsHaveATurn'
    BY <1>2, <2>2, <2>3 DEF Chat!LoadingIsTrue, Chat!QuestionsHaveATurn, Chat!Stopped, Chat!InFlight
  <2> QED BY <1>4, <2>2, <2>4, <2>5 DEF ChatInv, Begun
<1> QED BY <1>3, <1>4, BeginTurnIs

\* A turn that was stopped ends.
LEMMA EndsStopped ==
  ASSUME ChatInv, Chat!Stopped, turn' = Chat!NoTurn, history' \in Seq(Chat!Entries),
           Reads(history'),
         UNCHANGED <<turns, sent, generation, disposed, kind, Chat!requests, Chat!shown>>
  PROVE  ChatInv'
<1>1. cards = {} /\ approving = Chat!NoCall /\ status # "loading" /\ Chat!InFlight /\ owed = {}
  BY DEF ChatInv, Chat!QuestionsHaveATurn, Chat!LoadingIsTrue, Chat!Stopped
<1>2. ~Chat!InFlight' /\ ~Chat!Stopped'
  BY NoTurnIs DEF Chat!InFlight, Chat!Stopped
<1>3. ChatTypes'
  BY NoTurnIs DEF ChatInv, ChatTypes, Chat!requests, Chat!shown
<1>4. Chat!LoadingIsTrue' /\ Chat!QuestionsHaveATurn'
  BY <1>1, <1>2, NoTurnIs DEF Chat!LoadingIsTrue, Chat!QuestionsHaveATurn, Chat!shown
<1> QED BY <1>1, <1>2, <1>3, <1>4, NoTurnIs DEF ChatInv

LEMMA ToolSettlesKeeps == ASSUME ChatInv, Chat!ToolSettles PROVE ChatInv'
<1> DEFINE c == turn.executing
           h == Chat!AddResult(history, c)
           t == [turn EXCEPT !.answers = @ \cup ({c} \cap turn.raised \cap pending),
                             !.quiet = @ /\ kind[c] = "quiet"]
<1>1. /\ turn.phase = "tools" /\ approving = Chat!NoCall /\ Chat!InFlight
      /\ UNCHANGED <<turns, sent, generation, disposed, kind, pending, asked, cards, approving>>
  BY DEF Chat!ToolSettles, Chat!InFlight
<1>2. h \in Seq(Chat!Entries) /\ Reads(h)
  BY AddResultIs DEF ChatInv, ChatTypes
<1>3. CASE Chat!Stopped
  <2>1. history' = h /\ turn' = Chat!NoTurn /\ UNCHANGED <<owed, status>>
    BY <1>3 DEF Chat!ToolSettles
  <2> QED BY <1>1, <1>2, <1>3, <2>1, EndsStopped DEF Chat!requests, Chat!shown
<1>4. CASE ~Chat!Stopped
  <2>1. Chat!Proceed(t, h)
    BY <1>4 DEF Chat!ToolSettles
  <2>2. /\ t \in Turns /\ t.gen = turn.gen /\ t.waiting = turn.waiting
    BY DEF ChatInv, ChatTypes, Turns
  <2>3. turn.gen = generation /\ owed = {} /\ (cards # {} => cards = turn.waiting)
    BY <1>1, <1>4 DEF ChatInv, Chat!InFlight, Chat!Stopped, Chat!QuestionsHaveATurn
  <2> HIDE DEF t, h
  <2>4. Came(t, h)
    BY <2>1, <2>2, ProceedIs
  <2>5. turns' \in Seq(Waiting) /\ asked' \subseteq pending /\ cards' \in SUBSET Chat!Calls
    BY <1>1 DEF ChatInv, ChatTypes
  <2> QED BY <1>1, <1>2, <2>2, <2>3, <2>4, <2>5, CameKeeps
<1> QED BY <1>3, <1>4

LEMMA TurnContinuesKeeps == ASSUME ChatInv, Chat!TurnContinues PROVE ChatInv'
<1>1. /\ turn.phase = "asking" /\ turn.waiting = {} /\ Chat!InFlight
      /\ UNCHANGED <<turns, sent, generation, disposed, kind, pending, asked, cards, approving>>
  BY DEF Chat!TurnContinues, Chat!InFlight
<1>2. history \in Seq(Chat!Entries) /\ Reads(history) /\ turn \in Turns
  BY DEF ChatInv, ChatTypes
<1>3. CASE Chat!Stopped
  <2>1. turn' = Chat!NoTurn /\ UNCHANGED <<history, owed, status>>
    BY <1>3 DEF Chat!TurnContinues
  <2> QED BY <1>1, <1>2, <1>3, <2>1, EndsStopped DEF Chat!requests, Chat!shown
<1>4. CASE ~Chat!Stopped
  <2>1. Chat!Continue(turn, history)
    BY <1>4 DEF Chat!TurnContinues
  <2>2. /\ turn.gen = generation /\ owed = {} /\ (cards # {} => cards = turn.waiting)
        /\ approving = Chat!NoCall
    BY <1>1, <1>4 DEF ChatInv, Chat!InFlight, Chat!Stopped, Chat!QuestionsHaveATurn, Shaped
  <2>3. Came(turn, history)
    BY <1>1, <1>2, <2>1, ContinueIs
  <2>4. turns' \in Seq(Waiting) /\ asked' \subseteq pending /\ cards' \in SUBSET Chat!Calls
    BY <1>1 DEF ChatInv, ChatTypes
  <2> QED BY <1>1, <1>2, <2>2, <2>3, <2>4, CameKeeps
<1> QED BY <1>3, <1>4

\* The calls of the run that RunReturns gives to the page and to the user.
LEMMA RunReturnsIs ==
  ASSUME ChatInv, Chat!RunReturns, ~Chat!Stopped
  PROVE  LET page    == Chat!ForPage(history)
             unknown == {c \in page : kind[c] = "unknown"}
             ask     == IF turn.ended = "interrupt" THEN turn.raised \ page ELSE {}
             t       == [turn EXCEPT !.toRun = Chat!InOrder(page \ unknown), !.waiting = ask,
                                     !.quiet = (unknown = {} /\ ask = {})]
             h       == Chat!AnswerAll(history, unknown)
         IN  /\ page \subseteq Chat!CallsIn(history) /\ page \subseteq turn.raised
             /\ unknown \subseteq Chat!Unanswered(history)
             /\ ask \subseteq Chat!Calls /\ (turn.ended = "interrupt" => ask \subseteq pending)
             /\ t \in Turns /\ t.gen = turn.gen /\ t.waiting = ask /\ t.answers = turn.answers
             /\ t.toRun = Chat!InOrder(page \ unknown)
             /\ h \in Seq(Chat!Entries) /\ Reads(h) /\ Chat!CallsIn(h) = Chat!CallsIn(history)
             /\ Chat!Unanswered(h) = Chat!Unanswered(history) \ unknown
             /\ \A k : PairedBefore(history, k) => PairedBefore(h, k)
             /\ \/ page = {} /\ ask = {} /\ Chat!End("ready")
                     /\ UNCHANGED <<history, owed, asked, cards>>
                \/ /\ asked' = asked \cup ask /\ cards' = cards \cup ask
                   /\ Chat!Proceed(t, h)
<1> DEFINE page    == Chat!ForPage(history)
           unknown == {c \in page : kind[c] = "unknown"}
           ask     == IF turn.ended = "interrupt" THEN turn.raised \ page ELSE {}
           t       == [turn EXCEPT !.toRun = Chat!InOrder(page \ unknown), !.waiting = ask,
                                   !.quiet = (unknown = {} /\ ask = {})]
           h       == Chat!AnswerAll(history, unknown)
<1>1. /\ turn.phase = "running" /\ turn.ended # "no" /\ Chat!InFlight
      /\ \/ page = {} /\ ask = {} /\ Chat!End("ready") /\ UNCHANGED <<history, owed, asked, cards>>
         \/ /\ asked' = asked \cup ask /\ cards' = cards \cup ask
            /\ Chat!Proceed(t, h)
  BY DEF Chat!RunReturns, Chat!InFlight
<1>2. page \subseteq Chat!CallsIn(history) /\ page \subseteq turn.raised
  BY DEF Chat!ForPage
<1>3. turn \in Turns /\ turn.raised \subseteq Chat!Calls /\ history \in Seq(Chat!Entries)
        /\ Reads(history)
  BY DEF ChatInv, ChatTypes, Turns
<1>4. unknown \subseteq Chat!Unanswered(history)
  <2>1. CASE turn.ended = "success"
    BY <2>1 DEF Chat!ForPage, Chat!Unanswered
  <2>2. CASE turn.ended # "success"
    BY <2>2 DEF Chat!ForPage
  <2> QED BY <2>1, <2>2
<1>5. ask \subseteq Chat!Calls /\ (turn.ended = "interrupt" => ask \subseteq pending)
  BY <1>1, <1>3 DEF ChatInv
<1>6. Chat!InOrder(page \ unknown) \in Seq(Chat!Calls)
  <2>1. page \ unknown \in SUBSET Chat!Calls
    BY <1>2, <1>3
  <2>2. Chat!InOrder(page \ unknown) \in Seq(page \ unknown)
    BY <2>1, InOrderIs
  <2> QED BY <2>1, <2>2, SeqMonotonic
<1>7. /\ t \in Turns /\ t.gen = turn.gen /\ t.waiting = ask /\ t.answers = turn.answers
      /\ t.toRun = Chat!InOrder(page \ unknown)
  <2> HIDE DEF ask, unknown, page
  <2>1. (unknown = {} /\ ask = {}) \in BOOLEAN
    OBVIOUS
  <2> QED BY <1>3, <1>5, <1>6, <2>1 DEF Turns
<1>9. /\ h \in Seq(Chat!Entries) /\ Reads(h) /\ Chat!CallsIn(h) = Chat!CallsIn(history)
      /\ Chat!Unanswered(h) = Chat!Unanswered(history) \ unknown
      /\ \A k : PairedBefore(history, k) => PairedBefore(h, k)
  <2> HIDE DEF unknown
  <2> QED BY <1>3, <1>4, AnswerAllIs
<1> HIDE DEF t, h, ask, unknown, page
<1>10. /\ page \subseteq Chat!CallsIn(history) /\ page \subseteq turn.raised
       /\ unknown \subseteq Chat!Unanswered(history)
       /\ ask \subseteq Chat!Calls /\ (turn.ended = "interrupt" => ask \subseteq pending)
       /\ t \in Turns /\ t.gen = turn.gen /\ t.waiting = ask /\ t.answers = turn.answers
       /\ t.toRun = Chat!InOrder(page \ unknown)
       /\ h \in Seq(Chat!Entries) /\ Reads(h) /\ Chat!CallsIn(h) = Chat!CallsIn(history)
       /\ Chat!Unanswered(h) = Chat!Unanswered(history) \ unknown
       /\ \A k : PairedBefore(history, k) => PairedBefore(h, k)
       /\ \/ page = {} /\ ask = {} /\ Chat!End("ready") /\ UNCHANGED <<history, owed, asked, cards>>
          \/ /\ asked' = asked \cup ask /\ cards' = cards \cup ask
             /\ Chat!Proceed(t, h)
  BY <1>1, <1>2, <1>4, <1>5, <1>7, <1>9
<1> QED BY <1>10 DEF t, h, ask, unknown, page

LEMMA RunReturnsKeeps == ASSUME ChatInv, Chat!RunReturns PROVE ChatInv'
<1>1. /\ turn.phase = "running" /\ Chat!InFlight /\ turn.waiting = {}
      /\ turn.executing = Chat!NoCall
      /\ UNCHANGED <<turns, sent, generation, disposed, kind, pending, approving>>
  BY DEF Chat!RunReturns, Chat!InFlight, ChatInv, Shaped
<1>2. CASE Chat!Stopped
  <2>1. turn' = Chat!NoTurn /\ UNCHANGED <<history, owed, status, asked, cards>>
    BY <1>2 DEF Chat!RunReturns
  <2>2. history' \in Seq(Chat!Entries) /\ Reads(history')
    BY <2>1 DEF ChatInv, ChatTypes
  <2> QED BY <1>1, <1>2, <2>1, <2>2, EndsStopped DEF Chat!requests, Chat!shown
<1>3. CASE ~Chat!Stopped
  <2> DEFINE page    == Chat!ForPage(history)
             unknown == {c \in page : kind[c] = "unknown"}
             ask     == IF turn.ended = "interrupt" THEN turn.raised \ page ELSE {}
             t       == [turn EXCEPT !.toRun = Chat!InOrder(page \ unknown), !.waiting = ask,
                                     !.quiet = (unknown = {} /\ ask = {})]
             h       == Chat!AnswerAll(history, unknown)
  <2>1. /\ ask \subseteq Chat!Calls /\ (turn.ended = "interrupt" => ask \subseteq pending)
        /\ t \in Turns /\ t.gen = turn.gen /\ t.waiting = ask
        /\ h \in Seq(Chat!Entries) /\ Reads(h)
        /\ \/ page = {} /\ ask = {} /\ Chat!End("ready")
                /\ UNCHANGED <<history, owed, asked, cards>>
           \/ /\ asked' = asked \cup ask /\ cards' = cards \cup ask
              /\ Chat!Proceed(t, h)
    BY <1>3, RunReturnsIs
  <2>2. turn.ended # "interrupt" => ask = {}
    OBVIOUS
  <2>3. /\ turn.gen = generation /\ owed = {} /\ cards = {} /\ approving = Chat!NoCall
        /\ pending \subseteq Chat!Calls /\ asked \subseteq pending
    BY <1>1, <1>3 DEF ChatInv, ChatTypes, Chat!InFlight, Chat!Stopped, Chat!QuestionsHaveATurn
  <2> HIDE DEF t, h, ask, page
  <2>4. CASE Chat!End("ready") /\ UNCHANGED <<history, owed, asked, cards>>
    <3>1. ~Chat!InFlight' /\ ~Chat!Stopped'
      BY <2>4, NoTurnIs DEF Chat!InFlight, Chat!Stopped, Chat!End
    <3>2. ChatTypes'
      BY <1>1, <2>4, NoTurnIs DEF ChatInv, ChatTypes, Chat!End
    <3>3. Chat!LoadingIsTrue' /\ Chat!QuestionsHaveATurn'
      BY <1>1, <2>3, <2>4, <3>1, NoTurnIs DEF Chat!LoadingIsTrue, Chat!QuestionsHaveATurn, Chat!End
    <3> QED BY <2>4, <3>1, <3>2, <3>3, NoTurnIs DEF ChatInv, Chat!End
  <2>5. CASE asked' = asked \cup ask /\ cards' = cards \cup ask /\ Chat!Proceed(t, h)
    <3>1. Came(t, h)
      BY <2>1, <2>5, ProceedIs
    <3>2. asked' \subseteq pending /\ cards' \in SUBSET Chat!Calls /\ cards' = t.waiting
      BY <2>1, <2>2, <2>3, <2>5
    <3>3. turns' \in Seq(Waiting)
      BY <1>1 DEF ChatInv, ChatTypes
    <3> QED BY <1>1, <2>1, <2>3, <3>1, <3>2, <3>3, CameKeeps
  <2> QED BY <2>1, <2>4, <2>5
<1> QED BY <1>2, <1>3

LEMMA RunFailsKeeps == ASSUME ChatInv, Chat!RunFails PROVE ChatInv'
<1>1. /\ turn.phase = "running" /\ Chat!InFlight /\ ~Chat!Stopped /\ turn.waiting = {}
      /\ turn.executing = Chat!NoCall /\ Chat!End("error") /\ history' = FailedOf(history)
      /\ UNCHANGED <<turns, sent, generation, disposed, kind, Chat!requests, cards, approving>>
  BY DEF Chat!RunFails, Chat!InFlight, ChatInv, Shaped, Chat!Fail, FailedOf
<1>2. history' \in Seq(Chat!Entries) /\ Reads(history')
  BY <1>1, AnswerAllIs DEF FailedOf, ChatInv, ChatTypes
<1>3. ~Chat!InFlight' /\ ~Chat!Stopped'
  BY <1>1, NoTurnIs DEF Chat!InFlight, Chat!Stopped, Chat!End
<1>4. ChatTypes'
  BY <1>1, <1>2, NoTurnIs DEF ChatInv, ChatTypes, Chat!End, Chat!requests
<1>5. Chat!LoadingIsTrue' /\ Chat!QuestionsHaveATurn'
  BY <1>1, <1>3, NoTurnIs DEF ChatInv, Chat!LoadingIsTrue, Chat!QuestionsHaveATurn, Chat!End
<1> QED BY <1>1, <1>2, <1>3, <1>4, <1>5, NoTurnIs DEF ChatInv, Chat!End

\* Whoever changes only the history keeps the rest.
LEMMA HistoryKeeps ==
  ASSUME ChatInv, history' \in Seq(Chat!Entries), Reads(history'),
           kind' \in [Chat!Calls -> Kinds \cup {"none"}],
         UNCHANGED <<turns, sent, generation, disposed, turn, Chat!requests, Chat!shown>>
  PROVE  ChatInv'
<1>1. ChatTypes'
  BY DEF ChatInv, ChatTypes, Chat!requests, Chat!shown
<1>2. Chat!LoadingIsTrue' /\ Chat!QuestionsHaveATurn'
  BY DEF ChatInv, Chat!LoadingIsTrue, Chat!QuestionsHaveATurn, Chat!Stopped, Chat!InFlight,
    Chat!shown
<1> QED BY <1>1, <1>2 DEF ChatInv, Chat!InFlight, Chat!Stopped, Chat!requests

LEMMA RunCallsKeeps == ASSUME ChatInv, NEW k \in Kinds, Chat!RunCalls(k) PROVE ChatInv'
<1> DEFINE c == Cardinality(Chat!Made) + 1
<1>1. /\ c \in Chat!Calls /\ kind' = [kind EXCEPT ![c] = k]
      /\ history' = Append(history, Chat!Entry("call", c))
      /\ UNCHANGED <<turns, sent, generation, disposed, turn, Chat!requests, Chat!shown>>
  BY SameSize DEF Chat!RunCalls
<1> HIDE DEF c
<1>2. history' \in Seq(Chat!Entries) /\ Reads(history')
  BY <1>1, CallAdds DEF ChatInv, ChatTypes
<1>3. kind' \in [Chat!Calls -> Kinds \cup {"none"}]
  BY <1>1 DEF ChatInv, ChatTypes
<1> QED BY <1>1, <1>2, <1>3, HistoryKeeps

LEMMA RunAnswersKeeps == ASSUME ChatInv, NEW c \in Chat!Calls, Chat!RunAnswers(c) PROVE ChatInv'
<1>1. /\ history' = Chat!AddResult(history, c)
      /\ UNCHANGED <<turns, sent, generation, disposed, turn, kind, Chat!requests, Chat!shown>>
  BY DEF Chat!RunAnswers
<1>2. history' \in Seq(Chat!Entries) /\ Reads(history')
  BY <1>1, AddResultIs DEF ChatInv, ChatTypes
<1>3. kind' \in [Chat!Calls -> Kinds \cup {"none"}]
  BY <1>1 DEF ChatInv, ChatTypes
<1> QED BY <1>1, <1>2, <1>3, HistoryKeeps

LEMMA SetMessagesKeeps == ASSUME ChatInv, Chat!SetMessages PROVE ChatInv'
<1>1. /\ history' = <<>>
      /\ UNCHANGED <<turns, sent, generation, disposed, turn, kind, Chat!requests, Chat!shown>>
  BY DEF Chat!SetMessages
<1>2. history' \in Seq(Chat!Entries) /\ Reads(history')
  BY <1>1, EmptySeq DEF Reads
<1>3. kind' \in [Chat!Calls -> Kinds \cup {"none"}]
  BY <1>1 DEF ChatInv, ChatTypes
<1> QED BY <1>1, <1>2, <1>3, HistoryKeeps

LEMMA RunFinishesKeeps ==
  ASSUME ChatInv, NEW outcome \in {"success", "interrupt", "cancelled"}, Chat!RunFinishes(outcome)
  PROVE  ChatInv'
<1> DEFINE open == Chat!Unanswered(history)
<1>1. /\ turn.phase = "running" /\ ~Chat!Stopped
      /\ turn' = [turn EXCEPT !.ended = outcome,
                              !.raised = IF outcome = "cancelled" THEN {} ELSE open]
      /\ pending' = (IF outcome = "interrupt" THEN open ELSE {}) /\ asked' = {}
      /\ UNCHANGED <<history, turns, sent, generation, disposed, kind, owed, Chat!shown>>
  BY DEF Chat!RunFinishes, Chat!Streaming
<1>2. open \subseteq Chat!Calls
  BY DEF Chat!Unanswered, Chat!CallsIn
<1> HIDE DEF open
<1>3. /\ turn' \in Turns /\ turn'.phase = turn.phase /\ turn'.gen = turn.gen
      /\ turn'.waiting = turn.waiting /\ turn'.answers = turn.answers
      /\ turn'.executing = turn.executing /\ turn'.ended = outcome
      /\ turn'.raised = (IF outcome = "cancelled" THEN {} ELSE open)
  BY <1>1, <1>2 DEF ChatInv, ChatTypes, Turns
<1>4. ChatTypes'
  BY <1>1, <1>2, <1>3 DEF ChatInv, ChatTypes, Chat!shown
<1>5. Shaped(turn') /\ Chat!InFlight' = Chat!InFlight /\ Chat!Stopped' = Chat!Stopped
  BY <1>1, <1>3 DEF ChatInv, Shaped, Chat!InFlight, Chat!Stopped
<1>6. Chat!LoadingIsTrue' /\ Chat!QuestionsHaveATurn'
  BY <1>1, <1>3, <1>5 DEF ChatInv, Chat!LoadingIsTrue, Chat!QuestionsHaveATurn, Chat!shown
<1>7. turn'.ended = "interrupt" => turn'.raised \subseteq pending'
  BY <1>1, <1>3
<1> QED BY <1>1, <1>4, <1>5, <1>6, <1>7 DEF ChatInv

LEMMA ToolAsksKeeps == ASSUME ChatInv, Chat!ToolAsks PROVE ChatInv'
<1>1. /\ ~Chat!Stopped /\ approving' = turn.executing
      /\ UNCHANGED <<history, turns, sent, generation, disposed, turn, kind, Chat!requests,
                     status, cards>>
  BY DEF Chat!ToolAsks
<1> QED BY <1>1 DEF ChatInv, ChatTypes, Chat!InFlight, Chat!Stopped, Chat!LoadingIsTrue,
          Chat!QuestionsHaveATurn, Chat!requests

LEMMA UserDecidesKeeps == ASSUME ChatInv, Chat!UserDecides PROVE ChatInv'
<1>1. /\ approving' = Chat!NoCall
      /\ UNCHANGED <<history, turns, sent, generation, disposed, turn, kind, Chat!requests,
                     status, cards>>
  BY DEF Chat!UserDecides
<1> QED BY <1>1 DEF ChatInv, ChatTypes, Chat!InFlight, Chat!Stopped, Chat!LoadingIsTrue,
          Chat!QuestionsHaveATurn, Chat!requests

\* Whoever closes questions of the turn, and changes no more of it than which answers it has.
LEMMA QuestionsClose ==
  ASSUME ChatInv, NEW ws \in SUBSET Chat!Calls, NEW ans \in SUBSET Chat!Calls,
         turn' = [turn EXCEPT !.waiting = ws, !.answers = ans], cards' \in SUBSET Chat!Calls,
         cards' # {} => ~Chat!Stopped /\ cards' = ws, approving' = approving,
         turn.phase \in {"none", "running"} => ws = {} /\ ans = {},
         history' = history, turns' \in Seq(Waiting), sent' \in 0 .. MaxMessages,
         UNCHANGED <<generation, disposed, kind, Chat!requests, status>>
  PROVE  ChatInv'
<1>1. /\ turn' \in Turns /\ turn'.phase = turn.phase /\ turn'.gen = turn.gen
      /\ turn'.waiting = ws /\ turn'.answers = ans /\ turn'.executing = turn.executing
      /\ turn'.ended = turn.ended /\ turn'.raised = turn.raised
  BY DEF ChatInv, ChatTypes, Turns
<1>2. ChatTypes'
  BY <1>1 DEF ChatInv, ChatTypes, Chat!requests
<1>3. Shaped(turn') /\ Chat!InFlight' = Chat!InFlight /\ Chat!Stopped' = Chat!Stopped
  BY <1>1 DEF ChatInv, Shaped, Chat!InFlight, Chat!Stopped
<1>4. Chat!LoadingIsTrue' /\ Chat!QuestionsHaveATurn'
  BY <1>1, <1>3 DEF ChatInv, Chat!LoadingIsTrue, Chat!QuestionsHaveATurn
<1> QED BY <1>1, <1>2, <1>3, <1>4 DEF ChatInv, Chat!requests

LEMMA UserAnswersKeeps == ASSUME ChatInv, NEW c \in Chat!Calls, Chat!UserAnswers(c) PROVE ChatInv'
<1>1. /\ c \in cards /\ cards' = cards \ {c}
      /\ turn' = [turn EXCEPT !.waiting = @ \ {c}, !.answers = @ \cup {c}]
      /\ UNCHANGED <<history, turns, sent, generation, disposed, kind, Chat!requests,
                     status, approving>>
  BY DEF Chat!UserAnswers
<1>2. cards = turn.waiting /\ ~Chat!Stopped /\ turn.phase \notin {"none", "running"}
  BY <1>1 DEF ChatInv, Chat!QuestionsHaveATurn, Shaped
<1>3. turn' = [turn EXCEPT !.waiting = turn.waiting \ {c}, !.answers = turn.answers \cup {c}]
  BY <1>1 DEF ChatInv, ChatTypes, Turns
<1>4. /\ turn.waiting \ {c} \in SUBSET Chat!Calls /\ turn.answers \cup {c} \in SUBSET Chat!Calls
      /\ turns' \in Seq(Waiting) /\ sent' \in 0 .. MaxMessages /\ cards' \in SUBSET Chat!Calls
  BY <1>1 DEF ChatInv, ChatTypes, Turns
<1> QED BY <1>1, <1>2, <1>3, <1>4, QuestionsClose

LEMMA Enqueues ==
  ASSUME ChatInv, NEW what, NEW spoken, NEW id, Chat!Enqueue(what, spoken, id),
         \/ what \in {"send", "edit"} /\ spoken \in 0 .. MaxMessages /\ id \in Chat!Messages
         \/ what = "reload" /\ spoken = 0 /\ id = 0
  PROVE  turns' \in Seq(Waiting)
<1>1. [what |-> what, of |-> spoken, id |-> id] \in Waiting
  BY DEF Waiting
<1> QED BY <1>1, AppendProperties DEF Chat!Enqueue, ChatInv, ChatTypes

LEMMA NewMessage ==
  ASSUME sent \in 0 .. MaxMessages, sent < MaxMessages
  PROVE  sent + 1 \in Chat!Messages /\ sent + 1 \in 0 .. MaxMessages
BY ChatAssumption DEF Chat!Messages, Chat!ChatClientAssumption

LEMMA SendMessageKeeps == ASSUME ChatInv, Chat!SendMessage PROVE ChatInv'
<1>1. /\ sent < MaxMessages /\ sent' = sent + 1 /\ cards' = {}
      /\ turn' = [turn EXCEPT !.waiting = @ \ cards] /\ Chat!Enqueue("send", 0, sent + 1)
      /\ UNCHANGED <<history, generation, disposed, kind, Chat!requests, status, approving>>
  BY DEF Chat!SendMessage
<1>2. sent + 1 \in Chat!Messages /\ sent' \in 0 .. MaxMessages /\ 0 \in 0 .. MaxMessages
  BY <1>1, NewMessage, ChatAssumption DEF ChatInv, ChatTypes, Chat!ChatClientAssumption
<1>3. turns' \in Seq(Waiting)
  BY <1>1, <1>2, Enqueues
<1>4. turn' = [turn EXCEPT !.waiting = turn.waiting \ cards, !.answers = turn.answers]
  BY <1>1 DEF ChatInv, ChatTypes, Turns
<1>5. turn.waiting \ cards \in SUBSET Chat!Calls /\ turn.answers \in SUBSET Chat!Calls
  BY DEF ChatInv, ChatTypes, Turns
<1>6. turn.phase \in {"none", "running"} => turn.waiting \ cards = {} /\ turn.answers = {}
  BY DEF ChatInv, Shaped
<1> QED BY <1>1, <1>2, <1>3, <1>4, <1>5, <1>6, QuestionsClose

\* stop(), and whoever begins with it.
LEMMA StopTurnKeeps ==
  ASSUME ChatInv, Chat!StopTurn, history' \in Seq(Chat!Entries), Reads(history'),
           status' \in {"ready", "error"},
         turns' \in Seq(Waiting), sent' \in 0 .. MaxMessages, disposed' \in BOOLEAN, kind' = kind,
         \/ UNCHANGED Chat!requests
         \/ pending' = {} /\ asked' = {} /\ owed' = {}
  PROVE  ChatInv'
<1>1. /\ generation < MaxStops /\ generation' = generation + 1 /\ cards' = {}
      /\ approving' = Chat!NoCall
      /\ turn' = [turn EXCEPT !.waiting = @ \ cards]
  BY DEF Chat!StopTurn
<1>2. /\ turn' \in Turns /\ turn'.phase = turn.phase /\ turn'.gen = turn.gen
      /\ turn'.waiting \subseteq turn.waiting /\ turn'.answers = turn.answers
      /\ turn'.executing = turn.executing
  BY <1>1 DEF ChatInv, ChatTypes, Turns
<1>3. generation' \in 0 .. MaxStops /\ turn.gen <= generation' /\ turn.gen # generation'
  BY <1>1, ChatAssumption DEF ChatInv, ChatTypes, Turns, Chat!ChatClientAssumption
<1>4. Chat!InFlight' = Chat!InFlight /\ Chat!Stopped' = Chat!InFlight
  BY <1>2, <1>3 DEF Chat!InFlight, Chat!Stopped
<1>5. ChatTypes'
  BY <1>1, <1>2, <1>3 DEF ChatInv, ChatTypes, Chat!requests
<1>6. Shaped(turn')
  BY <1>2 DEF ChatInv, Shaped
<1>7. Chat!LoadingIsTrue' /\ Chat!QuestionsHaveATurn'
  BY <1>1, <1>2, <1>4 DEF Chat!LoadingIsTrue, Chat!QuestionsHaveATurn, Chat!InFlight
<1>8. Chat!InFlight' => owed' = {}
  BY <1>4 DEF ChatInv, Chat!requests
<1>9. turn'.phase = "running" => Chat!Stopped'
  BY <1>2, <1>4 DEF Chat!InFlight
<1> QED BY <1>5, <1>6, <1>7, <1>8, <1>9 DEF ChatInv

LEMMA LeftByStopIs ==
  ASSUME ChatInv
  PROVE  Chat!LeftByStop \in Seq(Chat!Entries) /\ Reads(Chat!LeftByStop)
           /\ Chat!AfterStop \in {"ready", "error"}
BY AnswerAllIs DEF Chat!LeftByStop, Chat!AfterStop, ChatInv, ChatTypes

LEMMA StopLeaves == ASSUME ChatInv, Chat!Stop PROVE ChatInv'
<1>1. /\ Chat!StopTurn /\ history' = Chat!LeftByStop /\ status' = Chat!AfterStop
      /\ UNCHANGED <<turns, sent, disposed, kind, Chat!requests>>
  BY DEF Chat!Stop
<1>2. turns' \in Seq(Waiting) /\ sent' \in 0 .. MaxMessages /\ disposed' \in BOOLEAN
  BY <1>1 DEF ChatInv, ChatTypes
<1> QED BY <1>1, <1>2, LeftByStopIs, StopTurnKeeps

LEMMA ReloadKeeps == ASSUME ChatInv, Chat!Reload PROVE ChatInv'
<1>1. /\ Chat!StopTurn /\ history' = Chat!LeftByStop /\ status' = Chat!AfterStop
      /\ Chat!Enqueue("reload", 0, 0)
      /\ UNCHANGED <<sent, disposed, kind, Chat!requests>>
  BY DEF Chat!Reload
<1>2. turns' \in Seq(Waiting)
  BY <1>1, Enqueues
<1>3. sent' \in 0 .. MaxMessages /\ disposed' \in BOOLEAN
  BY <1>1 DEF ChatInv, ChatTypes
<1> QED BY <1>1, <1>2, <1>3, LeftByStopIs, StopTurnKeeps

LEMMA EditMessageKeeps ==
  ASSUME ChatInv, NEW m \in Chat!Messages, Chat!EditMessage(m)
  PROVE  ChatInv'
<1>1. /\ Chat!StopTurn /\ history' = Chat!LeftByStop /\ status' = Chat!AfterStop
      /\ Chat!Enqueue("edit", m, sent + 1)
      /\ sent < MaxMessages /\ sent' = sent + 1 /\ UNCHANGED <<disposed, kind, Chat!requests>>
  BY DEF Chat!EditMessage
<1>2. sent + 1 \in Chat!Messages /\ sent' \in 0 .. MaxMessages /\ m \in 0 .. MaxMessages
  BY <1>1, NewMessage DEF ChatInv, ChatTypes, Chat!Messages
<1>3. turns' \in Seq(Waiting)
  BY <1>1, <1>2, Enqueues
<1>4. disposed' \in BOOLEAN
  BY <1>1 DEF ChatInv, ChatTypes
<1> QED BY <1>1, <1>2, <1>3, <1>4, LeftByStopIs, StopTurnKeeps

LEMMA ClearKeeps == ASSUME ChatInv, Chat!Clear PROVE ChatInv'
<1>1. /\ Chat!StopTurn /\ history' = <<>> /\ status' = "ready"
      /\ pending' = {} /\ asked' = {} /\ owed' = {} /\ UNCHANGED <<turns, sent, disposed, kind>>
  BY DEF Chat!Clear
<1>2. history' \in Seq(Chat!Entries) /\ Reads(history')
  BY <1>1, EmptySeq DEF Reads
<1>3. turns' \in Seq(Waiting) /\ sent' \in 0 .. MaxMessages /\ disposed' \in BOOLEAN
  BY <1>1 DEF ChatInv, ChatTypes
<1> QED BY <1>1, <1>2, <1>3, StopTurnKeeps

LEMMA DisposeKeeps == ASSUME ChatInv, Chat!Dispose PROVE ChatInv'
<1>1. /\ Chat!StopTurn /\ history' = Chat!LeftByStop /\ status' = Chat!AfterStop /\ disposed' = TRUE
      /\ UNCHANGED <<turns, sent, kind, Chat!requests>>
  BY DEF Chat!Dispose
<1>2. turns' \in Seq(Waiting) /\ sent' \in 0 .. MaxMessages
  BY <1>1 DEF ChatInv, ChatTypes
<1> QED BY <1>1, <1>2, LeftByStopIs, StopTurnKeeps

LEMMA ChatKeeps == ASSUME ChatInv, [Chat!Next]_(Chat!vars) PROVE ChatInv'
<1>1. CASE UNCHANGED Chat!vars
  BY <1>1 DEF Chat!vars, Chat!requests, Chat!shown, ChatInv, ChatTypes, Chat!LoadingIsTrue,
    Chat!QuestionsHaveATurn, Chat!Stopped,
              Chat!InFlight
<1> QED BY <1>1, BeginTurnKeeps, ToolSettlesKeeps, TurnContinuesKeeps, RunFailsKeeps,
          RunReturnsKeeps,
           RunCallsKeeps, RunAnswersKeeps, UserAnswersKeeps, RunFinishesKeeps, ToolAsksKeeps,
           UserDecidesKeeps, SendMessageKeeps, StopLeaves, ReloadKeeps, ClearKeeps,
             SetMessagesKeeps,
           DisposeKeeps, EditMessageKeeps DEF Chat!Next

LEMMA ChatBegins == Chat!Init => ChatInv
<1> SUFFICES ASSUME Chat!Init PROVE ChatInv
  OBVIOUS
<1>1. <<>> \in Seq(Chat!Entries) /\ <<>> \in Seq(Waiting) /\ Reads(<<>>)
  BY EmptySeq DEF Reads
<1>2. ChatTypes
  <2>1. sent \in 0 .. MaxMessages /\ generation \in 0 .. MaxStops /\ turn.gen <= generation
    BY NoTurnIs, ChatAssumption DEF Chat!Init, Chat!ChatClientAssumption
  <2>2. kind \in [Chat!Calls -> Kinds \cup {"none"}]
    BY DEF Chat!Init
  <2> QED BY <1>1, <2>1, <2>2, NoTurnIs DEF Chat!Init, ChatTypes
<1>3. Chat!LoadingIsTrue /\ Chat!QuestionsHaveATurn
  BY NoTurnIs DEF Chat!Init, Chat!LoadingIsTrue, Chat!QuestionsHaveATurn
<1> QED BY <1>1, <1>2, <1>3, NoTurnIs DEF Chat!Init, ChatInv

LEMMA ChatInvIsConsistent == ChatInv => Chat!Consistent
<1> SUFFICES ASSUME ChatInv PROVE Chat!Consistent
  OBVIOUS
<1>1. \A i \in DOMAIN history : history[i] \in Chat!Entries
  <2> TAKE i \in DOMAIN history
  <2>1. history \in Seq(Chat!Entries) /\ i \in 1 .. Len(history)
    BY LenProperties DEF ChatInv, ChatTypes
  <2> QED BY <2>1, ElementOfSeq
<1>2. Chat!TypeOK
  BY <1>1 DEF ChatInv, ChatTypes, Chat!TypeOK, Turns
<1>3. Chat!ResultsAnswerCalls
  BY DEF ChatInv, Reads, Chat!ResultsAnswerCalls
<1> QED BY <1>2, <1>3 DEF ChatInv, Chat!Consistent

-----------------------------------------------------------------------------
(* What a run is given *)

InLine(s) == {s[i] : i \in DOMAIN s}

\* Every call the backend does not answer is answered when it should be: before the user's next
\* message, before the turn asks or ends, and meanwhile its tool runs or is to run.  A question is
\* about a call of the backend's, or about one the history no longer has.
PairInv ==
  /\ \E n \in 0 .. MaxToolCalls : Chat!Made = 1 .. n
  /\ Chat!CallsIn(history) \cup asked \cup cards \subseteq Chat!Made
  /\ (asked \cup cards) \cap Chat!CallsIn(history) \subseteq Theirs(kind)
  /\ PairedBefore(history, kind)
  /\ turn.phase \in {"none", "asking"} => Chat!Unanswered(history) \subseteq Theirs(kind)
  /\ turn.phase = "tools" =>
       Chat!Unanswered(history) \subseteq
         Theirs(kind) \cup {turn.executing} \cup (IF Chat!Stopped THEN {} ELSE InLine(turn.toRun))
  /\ turn.phase = "running" /\ Chat!Stopped => Chat!Unanswered(history) \subseteq Theirs(kind)
  /\ turn.phase = "running" /\ ~Chat!Stopped =>
       /\ turn.ended # "no" => turn.raised \subseteq Chat!Made
       /\ turn.ended \in {"success", "interrupt"} => Chat!Unanswered(history) \subseteq turn.raised
       /\ turn.ended = "cancelled" => Chat!Unanswered(history) = {}
       /\ turn.ended = "interrupt" => \A c \in turn.raised : kind[c] # "unknown"

\* RequestsArePaired, of one step: the run that goes out has nothing open that the page answers.
RunIsWhole == Chat!StartsRun => Chat!Unanswered(history') \subseteq Theirs(kind)

LEMMA HeldIs == ASSUME PairInv PROVE Chat!Held \cap Chat!CallsIn(history) \subseteq Theirs(kind)
BY DEF PairInv, Chat!Held

LEMMA FailedIs ==
  ASSUME ChatInv, PairInv, NEW h \in Seq(Chat!Entries),
           Chat!CallsIn(h) \subseteq Chat!CallsIn(history)
  PROVE  /\ Chat!CallsIn(FailedOf(h)) \subseteq Chat!CallsIn(history)
         /\ Chat!Unanswered(FailedOf(h)) \subseteq Theirs(kind)
         /\ PairedBefore(h, kind) => PairedBefore(FailedOf(h), kind)
<1>1. Chat!Unanswered(h) \ Chat!Held \subseteq Chat!Unanswered(h)
  OBVIOUS
<1>2. /\ Chat!CallsIn(FailedOf(h)) = Chat!CallsIn(h)
      /\ Chat!Unanswered(FailedOf(h)) = Chat!Unanswered(h) \ (Chat!Unanswered(h) \ Chat!Held)
      /\ PairedBefore(h, kind) => PairedBefore(FailedOf(h), kind)
  BY <1>1, AnswerAllIs DEF FailedOf
<1>3. Chat!Unanswered(h) \subseteq Chat!CallsIn(h)
  BY DEF Chat!Unanswered
<1> QED BY <1>2, <1>3, HeldIs

LEMMA LineIs ==
  ASSUME NEW s \in Seq(Chat!Calls), s # <<>>
  PROVE  InLine(s) \subseteq {Head(s)} \cup InLine(Tail(s))
<1>1. /\ Len(s) \in Nat \ {0} /\ DOMAIN s = 1 .. Len(s) /\ Len(Tail(s)) = Len(s) - 1
      /\ Tail(s) \in Seq(Chat!Calls)
      /\ \A i \in 1 .. Len(Tail(s)) : Tail(s)[i] = s[i + 1]
  BY EmptySeq, LenProperties, HeadTailProperties
<1>2. DOMAIN Tail(s) = 1 .. Len(s) - 1
  BY <1>1, LenProperties
<1> SUFFICES ASSUME NEW i \in 1 .. Len(s) PROVE s[i] \in {Head(s)} \cup InLine(Tail(s))
  BY <1>1 DEF InLine
<1>3. CASE i = 1
  BY <1>3
<1>4. CASE i # 1
  <2>1. i - 1 \in 1 .. Len(s) - 1 /\ (i - 1) + 1 = i
    BY <1>1, <1>4
  <2>2. Tail(s)[i - 1] = s[i]
    BY <1>1, <2>1
  <2> QED BY <1>2, <2>1, <2>2 DEF InLine
<1> QED BY <1>3, <1>4

LEMMA CamePairs ==
  ASSUME ChatInv, PairInv, NEW t \in Turns, NEW h \in Seq(Chat!Entries), Came(t, h),
         Chat!CallsIn(h) \subseteq Chat!CallsIn(history), PairedBefore(h, kind),
         \/ Chat!Unanswered(h) \subseteq Theirs(kind)
         \/ /\ Chat!Unanswered(h) \subseteq Theirs(kind) \cup InLine(t.toRun)
            /\ turn'.phase # "tools" => t.toRun = <<>>,
         t.gen = generation, UNCHANGED <<generation, kind>>,
         asked' \cup cards' \subseteq Chat!Made,
         (asked' \cup cards') \cap Chat!CallsIn(history) \subseteq Theirs(kind)
  PROVE  PairInv' /\ RunIsWhole
<1>1. InLine(<<>>) = {}
  BY DEF InLine
<1>2. turn'.phase # "tools" => Chat!Unanswered(h) \subseteq Theirs(kind)
  BY <1>1
<1>3. turn'.phase = "tools" =>
        Chat!Unanswered(h) \subseteq Theirs(kind) \cup {turn'.executing} \cup InLine(turn'.toRun)
  <2> SUFFICES ASSUME turn'.phase = "tools"
               PROVE  Chat!Unanswered(h) \subseteq
                        Theirs(kind) \cup {turn'.executing} \cup InLine(turn'.toRun)
    OBVIOUS
  <2>1. t.toRun # <<>> /\ turn'.executing = Head(t.toRun) /\ turn'.toRun = Tail(t.toRun)
    BY DEF Came
  <2>2. InLine(t.toRun) \subseteq {turn'.executing} \cup InLine(turn'.toRun)
    <3>1. t.toRun \in Seq(Chat!Calls)
      BY DEF Turns
    <3> QED BY <2>1, <3>1, LineIs
  <2> QED BY <2>2
<1>4. ~Chat!Stopped'
  BY DEF Came, Chat!Stopped, Chat!InFlight
<1>5. /\ Chat!CallsIn(history') \subseteq Chat!CallsIn(history) /\ PairedBefore(history', kind)
      /\ turn'.phase # "tools" => Chat!Unanswered(history') \subseteq Theirs(kind)
      /\ turn'.phase # "none" => history' = h
  <2>1. CASE history' = h
    BY <1>2, <2>1
  <2>2. CASE history' = FailedOf(h) /\ turn'.phase = "none"
    BY <2>2, FailedIs
  <2> QED BY <2>1, <2>2 DEF Came
<1>6. Chat!Made' = Chat!Made /\ Theirs(kind') = Theirs(kind)
  BY DEF Chat!Made
<1>7. turn'.phase = "running" => turn'.ended = "no"
  BY DEF Came
<1>8. turn'.phase \in {"none", "asking"} => Chat!Unanswered(history') \subseteq Theirs(kind')
  BY <1>5, <1>6
<1>9. turn'.phase = "tools" =>
        Chat!Unanswered(history') \subseteq
          Theirs(kind') \cup {turn'.executing} \cup InLine(turn'.toRun)
  BY <1>3, <1>5, <1>6
<1>10. PairInv'
  <2>1. (\E n \in 0 .. MaxToolCalls : Chat!Made = 1 .. n)
          /\ Chat!CallsIn(history) \subseteq Chat!Made
    BY DEF PairInv
  <2>2. Chat!CallsIn(history') \cup asked' \cup cards' \subseteq Chat!Made'
    BY <1>5, <1>6, <2>1
  <2>3. (asked' \cup cards') \cap Chat!CallsIn(history') \subseteq Theirs(kind')
    BY <1>5, <1>6
  <2> QED BY <1>4, <1>5, <1>6, <1>7, <1>8, <1>9, <2>1, <2>2, <2>3 DEF PairInv
<1> QED BY <1>5, <1>10 DEF RunIsWhole, Chat!StartsRun

LEMMA BeginTurnPairs == ASSUME ChatInv, PairInv, Chat!BeginTurn PROVE PairInv' /\ RunIsWhole
<1>1. UNCHANGED <<sent, generation, disposed, kind, pending, asked, cards, approving>>
        /\ ~Chat!InFlight
  BY BeginTurnIs DEF Chat!BeginTurn
<1>2. CASE UNCHANGED <<history, owed, turn, status>>
  BY <1>1, <1>2 DEF PairInv, RunIsWhole, Chat!StartsRun, Chat!Made, Chat!Stopped, Chat!InFlight
<1>3. CASE Begun /\ owed' = {} /\ Chat!StartRun(generation, 1)
  <2>1. generation \in 0 .. MaxStops /\ 1 \in 0 .. MaxRuns /\ pending \subseteq Chat!Calls
    BY ChatAssumption DEF ChatInv, ChatTypes, Chat!ChatClientAssumption
  <2>2. turn'.phase = "running" /\ turn'.gen = generation /\ turn'.ended = "no"
    BY <1>3, <2>1, StartRunIs
  <2>3. Chat!Unanswered(history) \subseteq Theirs(kind) /\ PairedBefore(history, kind)
    BY <1>1 DEF PairInv, Chat!InFlight
  <2>4. /\ Chat!CallsIn(history') \subseteq Chat!CallsIn(history) /\ PairedBefore(history', kind)
        /\ Chat!Unanswered(history') \subseteq Theirs(kind)
    BY <1>3, <2>3 DEF Begun
  <2>5. ~Chat!Stopped'
    BY <1>1, <2>2 DEF Chat!Stopped
  <2>6. PairInv'
    BY <1>1, <2>2, <2>4, <2>5 DEF PairInv, Chat!Made
  <2> QED BY <2>4, <2>6 DEF RunIsWhole
<1> QED BY <1>2, <1>3, BeginTurnIs

\* A turn that was stopped ends with nothing open that the page answers.
LEMMA EndsPaired ==
  ASSUME ChatInv, PairInv, turn' = Chat!NoTurn,
           Chat!CallsIn(history') \subseteq Chat!CallsIn(history),
         Chat!Unanswered(history') \subseteq Theirs(kind), PairedBefore(history', kind),
         UNCHANGED <<kind, asked, cards>>
  PROVE  PairInv' /\ RunIsWhole
BY NoTurnIs DEF PairInv, RunIsWhole, Chat!StartsRun, Chat!Made

LEMMA ToolSettlesPairs == ASSUME ChatInv, PairInv, Chat!ToolSettles PROVE PairInv' /\ RunIsWhole
<1> DEFINE c == turn.executing
           h == Chat!AddResult(history, c)
           t == [turn EXCEPT !.answers = @ \cup ({c} \cap turn.raised \cap pending),
                             !.quiet = @ /\ kind[c] = "quiet"]
<1>1. /\ turn.phase = "tools" /\ Chat!InFlight
      /\ UNCHANGED <<turns, sent, generation, disposed, kind, pending, asked, cards, approving>>
  BY DEF Chat!ToolSettles, Chat!InFlight
<1>2. /\ h \in Seq(Chat!Entries) /\ Chat!CallsIn(h) = Chat!CallsIn(history)
      /\ Chat!Unanswered(h) = Chat!Unanswered(history) \ {c}
      /\ \A k : PairedBefore(history, k) => PairedBefore(h, k)
  BY AddResultIs DEF ChatInv, ChatTypes
<1>3. PairedBefore(h, kind)
  BY <1>2 DEF PairInv
<1>4. CASE Chat!Stopped
  <2>1. history' = h /\ turn' = Chat!NoTurn
    BY <1>4 DEF Chat!ToolSettles
  <2>2. Chat!Unanswered(h) \subseteq Theirs(kind)
    BY <1>1, <1>2, <1>4 DEF PairInv
  <2> QED BY <1>1, <1>2, <1>3, <2>1, <2>2, EndsPaired
<1>5. CASE ~Chat!Stopped
  <2>1. Chat!Proceed(t, h)
    BY <1>5 DEF Chat!ToolSettles
  <2>2. t \in Turns /\ t.gen = turn.gen /\ t.toRun = turn.toRun
    BY DEF ChatInv, ChatTypes, Turns
  <2>3. turn.gen = generation
    BY <1>1, <1>5 DEF Chat!Stopped
  <2>4. Chat!Unanswered(h) \subseteq Theirs(kind) \cup InLine(turn.toRun)
    BY <1>1, <1>2, <1>5 DEF PairInv
  <2>5. /\ asked' \cup cards' \subseteq Chat!Made
        /\ (asked' \cup cards') \cap Chat!CallsIn(history) \subseteq Theirs(kind)
    BY <1>1 DEF PairInv
  <2> HIDE DEF t, h
  <2>6. Came(t, h) /\ (turn'.phase # "tools" => t.toRun = <<>>)
    BY <2>1, <2>2, ProceedIs
  <2> QED BY <1>1, <1>2, <1>3, <2>2, <2>3, <2>4, <2>5, <2>6, CamePairs
<1> QED BY <1>4, <1>5

LEMMA TurnContinuesPairs == ASSUME ChatInv, PairInv, Chat!TurnContinues PROVE PairInv' /\ RunIsWhole
<1>1. /\ turn.phase = "asking" /\ turn.waiting = {} /\ Chat!InFlight
      /\ UNCHANGED <<turns, sent, generation, disposed, kind, pending, asked, cards, approving>>
  BY DEF Chat!TurnContinues, Chat!InFlight
<1>2. /\ history \in Seq(Chat!Entries) /\ turn \in Turns /\ PairedBefore(history, kind)
      /\ Chat!Unanswered(history) \subseteq Theirs(kind)
  BY <1>1 DEF ChatInv, ChatTypes, PairInv
<1>3. CASE Chat!Stopped
  <2>1. turn' = Chat!NoTurn /\ UNCHANGED <<history, owed, status>>
    BY <1>3 DEF Chat!TurnContinues
  <2> QED BY <1>1, <1>2, <2>1, EndsPaired
<1>4. CASE ~Chat!Stopped
  <2>1. Chat!Continue(turn, history) /\ turn.gen = generation
    BY <1>1, <1>4 DEF Chat!TurnContinues, Chat!Stopped
  <2>2. Came(turn, history)
    BY <1>1, <1>2, <2>1, ContinueIs
  <2>3. /\ asked' \cup cards' \subseteq Chat!Made
        /\ (asked' \cup cards') \cap Chat!CallsIn(history) \subseteq Theirs(kind)
    BY <1>1 DEF PairInv
  <2> QED BY <1>1, <1>2, <2>1, <2>2, <2>3, CamePairs
<1> QED BY <1>3, <1>4

LEMMA RunFailsPairs == ASSUME ChatInv, PairInv, Chat!RunFails PROVE PairInv' /\ RunIsWhole
<1>1. /\ turn' = Chat!NoTurn /\ history' = FailedOf(history)
      /\ UNCHANGED <<turns, sent, generation, disposed, kind, Chat!requests, cards, approving>>
  BY DEF Chat!RunFails, Chat!Fail, FailedOf, Chat!End
<1>2. history \in Seq(Chat!Entries) /\ PairedBefore(history, kind)
  BY DEF ChatInv, ChatTypes, PairInv
<1> QED BY <1>1, <1>2, FailedIs, EndsPaired DEF Chat!requests

LEMMA RunReturnsPairs == ASSUME ChatInv, PairInv, Chat!RunReturns PROVE PairInv' /\ RunIsWhole
<1>1. /\ turn.phase = "running" /\ Chat!InFlight /\ (turn.ended # "no" \/ Chat!Stopped)
      /\ UNCHANGED <<turns, sent, generation, disposed, kind, pending, approving>>
  BY DEF Chat!RunReturns, Chat!InFlight
<1>2. PairedBefore(history, kind)
  BY DEF PairInv
<1>3. CASE Chat!Stopped
  <2>1. turn' = Chat!NoTurn /\ UNCHANGED <<history, owed, status, asked, cards>>
    BY <1>3 DEF Chat!RunReturns
  <2>2. Chat!Unanswered(history) \subseteq Theirs(kind)
    BY <1>1, <1>3 DEF PairInv
  <2> QED BY <1>1, <1>2, <2>1, <2>2, EndsPaired
<1>4. CASE ~Chat!Stopped
  <2> DEFINE page    == Chat!ForPage(history)
             unknown == {c \in page : kind[c] = "unknown"}
             ask     == IF turn.ended = "interrupt" THEN turn.raised \ page ELSE {}
             t       == [turn EXCEPT !.toRun = Chat!InOrder(page \ unknown), !.waiting = ask,
                                     !.quiet = (unknown = {} /\ ask = {})]
             h       == Chat!AnswerAll(history, unknown)
  <2>1. /\ page \subseteq Chat!CallsIn(history) /\ page \subseteq turn.raised
        /\ t \in Turns /\ t.gen = turn.gen /\ t.toRun = Chat!InOrder(page \ unknown)
        /\ h \in Seq(Chat!Entries) /\ Chat!CallsIn(h) = Chat!CallsIn(history)
        /\ Chat!Unanswered(h) = Chat!Unanswered(history) \ unknown
        /\ \A k : PairedBefore(history, k) => PairedBefore(h, k)
        /\ \/ page = {} /\ ask = {} /\ Chat!End("ready")
                /\ UNCHANGED <<history, owed, asked, cards>>
           \/ /\ asked' = asked \cup ask /\ cards' = cards \cup ask
              /\ Chat!Proceed(t, h)
    BY <1>4, RunReturnsIs
  <2>2. /\ turn.ended \in {"success", "interrupt", "cancelled"} /\ turn.raised \subseteq Chat!Made
        /\ turn.gen = generation
    BY <1>1, <1>4 DEF PairInv, ChatInv, ChatTypes, Turns, Chat!Stopped
  <2>3. \A c \in Chat!Made : c \in Chat!Calls /\ kind[c] \in {"page", "quiet", "unknown", "backend"}
    BY ChatAssumption DEF Chat!Made, ChatInv, ChatTypes, Chat!ChatClientAssumption
  <2>4. \A c \in turn.raised \cap Chat!CallsIn(history) :
          turn.ended = "interrupt" => c \in page \/ c \in Theirs(kind)
    BY <1>1, <1>4, <2>2, <2>3 DEF Chat!ForPage, Theirs, PairInv
  <2>5. Chat!Unanswered(history) \subseteq Theirs(kind) \cup page
    <3> SUFFICES ASSUME NEW c \in Chat!Unanswered(history) PROVE c \in Theirs(kind) \cup page
      OBVIOUS
    <3>1. c \in Chat!CallsIn(history) /\ c \notin Chat!Answered(history)
      BY DEF Chat!Unanswered
    <3>2. CASE turn.ended = "success"
      BY <1>1, <1>4, <3>1, <3>2 DEF PairInv, Chat!ForPage
    <3>3. CASE turn.ended = "interrupt"
      BY <1>1, <1>4, <2>4, <3>1, <3>3 DEF PairInv
    <3>4. CASE turn.ended = "cancelled"
      BY <1>1, <1>4, <3>4 DEF PairInv
    <3> QED BY <2>2, <3>2, <3>3, <3>4
  <2>6. /\ ask \subseteq Chat!Made
        /\ ask \cap Chat!CallsIn(history) \subseteq Theirs(kind)
    BY <2>2, <2>4
  <2>7. page \ unknown \subseteq InLine(t.toRun) /\ (page = {} => unknown = {})
    <3> HIDE DEF t
    <3>1. page \ unknown \in SUBSET Chat!Calls
      BY <2>1, <2>2 DEF Chat!Made
    <3> DEFINE s == Chat!InOrder(page \ unknown)
    <3> HIDE DEF page
    <3>2. s \in Seq(page \ unknown) /\ \A c \in page \ unknown : \E i \in 1 .. Len(s) : s[i] = c
      BY <3>1, InOrderIs
    <3>3. t.toRun = s /\ DOMAIN s = 1 .. Len(s)
      BY <2>1, <3>2, LenProperties
    <3> HIDE DEF s
    <3> QED BY <3>2, <3>3 DEF InLine
  <2> HIDE DEF t, h, ask, unknown, page
  <2>8. Chat!Unanswered(h) \subseteq Theirs(kind) \cup InLine(t.toRun)
    BY <2>1, <2>5, <2>7
  <2>9. CASE page = {} /\ Chat!End("ready") /\ UNCHANGED <<history, owed, asked, cards>>
    <3>1. Chat!Unanswered(history) \subseteq Theirs(kind)
      BY <2>5, <2>9
    <3> QED BY <1>1, <1>2, <2>9, <3>1, EndsPaired DEF Chat!End
  <2>10. CASE asked' = asked \cup ask /\ cards' = cards \cup ask /\ Chat!Proceed(t, h)
    <3>1. Came(t, h) /\ (turn'.phase # "tools" => t.toRun = <<>>)
      BY <2>1, <2>10, ProceedIs
    <3>2. /\ asked' \cup cards' \subseteq Chat!Made
          /\ (asked' \cup cards') \cap Chat!CallsIn(history) \subseteq Theirs(kind)
      BY <2>6, <2>10 DEF PairInv
    <3> QED BY <1>1, <1>2, <2>1, <2>2, <2>8, <3>1, <3>2, CamePairs
  <2> QED BY <2>1, <2>9, <2>10
<1> QED BY <1>3, <1>4

LEMMA RunCallsPairs ==
  ASSUME ChatInv, PairInv, NEW k \in Kinds, Chat!RunCalls(k)
  PROVE  PairInv' /\ RunIsWhole
<1> DEFINE c == Cardinality(Chat!Made) + 1
           h == Append(history, Chat!Entry("call", c))
<1>1. /\ c \in Chat!Calls /\ kind' = [kind EXCEPT ![c] = k] /\ history' = h
      /\ turn.phase = "running" /\ ~Chat!Stopped /\ turn.ended = "no"
      /\ UNCHANGED <<turns, sent, generation, disposed, turn, Chat!requests, Chat!shown>>
  BY SameSize DEF Chat!RunCalls, Chat!Streaming
<1>2. PICK n \in 0 .. MaxToolCalls : Chat!Made = 1 .. n
  BY DEF PairInv
<1>3. c = n + 1 /\ n \in Nat
  <2>1. n \in Nat
    BY ChatAssumption DEF Chat!ChatClientAssumption
  <2>2. Cardinality(1 .. n) = n
    BY <2>1, FS_Interval
  <2> QED BY <1>2, <2>1, <2>2
<1> HIDE DEF c
<1>4. c \notin Chat!Made /\ n + 1 \in 0 .. MaxToolCalls
  BY <1>1, <1>2, <1>3 DEF Chat!Calls
<1>5. Chat!Made' = Chat!Made \cup {c}
  <2>1. kind \in [Chat!Calls -> Kinds \cup {"none"}] /\ k # "none"
    BY ChatAssumption DEF ChatInv, ChatTypes, Chat!ChatClientAssumption
  <2> QED BY <1>1, <2>1 DEF Chat!Made
<1>6. Chat!Made' = 1 .. n + 1
  BY <1>2, <1>3, <1>5
<1>7. \A d \in Chat!Made : kind'[d] = kind[d]
  BY <1>1, <1>4 DEF ChatInv, ChatTypes, Chat!Made
<1>8. history \in Seq(Chat!Entries) /\ PairedBefore(history, kind)
        /\ Chat!CallsIn(history) \subseteq Chat!Made
  BY DEF ChatInv, ChatTypes, PairInv
<1>9. PairedBefore(history, kind')
  <2> SUFFICES ASSUME NEW i \in DOMAIN history, history[i].what = "user",
                      NEW d \in Chat!Calls \ Theirs(kind'),
                      NEW j \in 1 .. i - 1, history[j] = Chat!Entry("call", d)
               PROVE  \E l \in 1 .. i - 1 : history[l] = Chat!Entry("result", d)
    BY DEF PairedBefore
  <2>1. j \in DOMAIN history
    BY <1>8, LenProperties
  <2>2. d \in Chat!Made
    BY <1>8, <2>1 DEF Chat!CallsIn, Chat!Has
  <2>3. d \in Chat!Calls \ Theirs(kind)
    BY <1>7, <2>2 DEF Theirs
  <2> QED BY <1>8, <2>3 DEF PairedBefore
<1>10. Chat!CallsIn(h) = Chat!CallsIn(history) \cup {c} /\ PairedBefore(h, kind')
  BY <1>1, <1>8, <1>9, CallAdds
<1>11. Theirs(kind) \subseteq Theirs(kind') \cup {c}
         /\ Theirs(kind) \cap Chat!Made \subseteq Theirs(kind')
  BY <1>1, <1>7 DEF Theirs, ChatInv, ChatTypes
<1>12. asked' = asked /\ cards' = cards /\ turn' = turn /\ Chat!Stopped' = Chat!Stopped
  BY <1>1 DEF Chat!requests, Chat!shown, Chat!Stopped, Chat!InFlight
<1>13. /\ Chat!CallsIn(history') \cup asked' \cup cards' \subseteq Chat!Made'
       /\ (asked' \cup cards') \cap Chat!CallsIn(history') \subseteq Theirs(kind')
  BY <1>1, <1>4, <1>5, <1>8, <1>10, <1>11, <1>12 DEF PairInv
<1> QED BY <1>1, <1>4, <1>6, <1>10, <1>12, <1>13 DEF PairInv, RunIsWhole, Chat!StartsRun

\* Whoever leaves the phase of the turn and its run alone starts none.
LEMMA NoneStarts ==
  ASSUME turn'.phase = turn.phase, turn'.run = turn.run PROVE RunIsWhole
BY DEF RunIsWhole, Chat!StartsRun

LEMMA RunAnswersPairs ==
  ASSUME ChatInv, PairInv, NEW c \in Chat!Calls, Chat!RunAnswers(c)
  PROVE  PairInv' /\ RunIsWhole
<1>1. /\ history' = Chat!AddResult(history, c) /\ turn.phase = "running" /\ ~Chat!Stopped
      /\ turn.ended = "no"
      /\ UNCHANGED <<turns, sent, generation, disposed, turn, kind, Chat!requests, Chat!shown>>
  BY DEF Chat!RunAnswers, Chat!Streaming
<1>2. Chat!CallsIn(history') = Chat!CallsIn(history) /\ \A k : PairedBefore(history, k)
        => PairedBefore(history', k)
  BY <1>1, AddResultIs DEF ChatInv, ChatTypes
<1>3. asked' = asked /\ cards' = cards /\ Chat!Stopped' = Chat!Stopped /\ Chat!Made' = Chat!Made
  BY <1>1 DEF Chat!requests, Chat!shown, Chat!Stopped, Chat!InFlight, Chat!Made
<1> QED BY <1>1, <1>2, <1>3 DEF PairInv, RunIsWhole, Chat!StartsRun

LEMMA RunFinishesPairs ==
  ASSUME ChatInv, PairInv, ~CancelsMidway,
         NEW outcome \in {"success", "interrupt", "cancelled"}, Chat!RunFinishes(outcome)
  PROVE  PairInv' /\ RunIsWhole
<1> DEFINE open == Chat!Unanswered(history)
<1>1. /\ turn.phase = "running" /\ ~Chat!Stopped
      /\ outcome = "interrupt" => \A c \in open : kind[c] # "unknown"
      /\ outcome = "cancelled" => open = {}
      /\ turn' = [turn EXCEPT !.ended = outcome,
                              !.raised = IF outcome = "cancelled" THEN {} ELSE open]
      /\ asked' = {}
      /\ UNCHANGED <<history, turns, sent, generation, disposed, kind, owed, Chat!shown>>
  BY DEF Chat!RunFinishes, Chat!Streaming
<1>2. open \subseteq Chat!Made /\ open = Chat!Unanswered(history)
  BY DEF Chat!Unanswered, PairInv
<1> HIDE DEF open
<1>3. /\ turn'.phase = turn.phase /\ turn'.gen = turn.gen /\ turn'.run = turn.run
      /\ turn'.ended = outcome /\ turn'.raised = (IF outcome = "cancelled" THEN {} ELSE open)
  BY <1>1 DEF ChatInv, ChatTypes, Turns
<1>4. cards' = cards /\ Chat!Stopped' = Chat!Stopped /\ Chat!Made' = Chat!Made
  BY <1>1, <1>3 DEF Chat!shown, Chat!Stopped, Chat!InFlight, Chat!Made
<1>5. PairInv'
  BY <1>1, <1>2, <1>3, <1>4 DEF PairInv
<1> QED BY <1>3, <1>5, NoneStarts

LEMMA SetMessagesPairs == ASSUME ChatInv, PairInv, Chat!SetMessages PROVE PairInv' /\ RunIsWhole
<1>1. /\ history' = <<>>
      /\ UNCHANGED <<turns, sent, generation, disposed, turn, kind, Chat!requests, Chat!shown>>
  BY DEF Chat!SetMessages
<1>2. Chat!CallsIn(history') = {} /\ Chat!Unanswered(history') = {} /\ PairedBefore(history', kind)
  BY <1>1 DEF Chat!CallsIn, Chat!Unanswered, Chat!Has, PairedBefore
<1>3. asked' = asked /\ cards' = cards /\ Chat!Stopped' = Chat!Stopped /\ Chat!Made' = Chat!Made
  BY <1>1 DEF Chat!requests, Chat!shown, Chat!Stopped, Chat!InFlight, Chat!Made
<1>4. PairInv'
  BY <1>1, <1>2, <1>3 DEF PairInv
<1> QED BY <1>1, <1>4, NoneStarts

\* Whoever closes questions, or asks one of the page's, leaves the calls alone.
LEMMA QuestionsPair ==
  ASSUME ChatInv, PairInv, turn'.phase = turn.phase, turn'.gen = turn.gen, turn'.run = turn.run,
         turn'.executing = turn.executing, turn'.toRun = turn.toRun, turn'.ended = turn.ended,
         turn'.raised = turn.raised, cards' \subseteq cards,
         UNCHANGED <<history, generation, kind, Chat!requests>>
  PROVE  PairInv' /\ RunIsWhole
<1>1. asked' = asked /\ Chat!Stopped' = Chat!Stopped /\ Chat!Made' = Chat!Made
  BY DEF Chat!requests, Chat!Stopped, Chat!InFlight, Chat!Made
<1>2. PairInv'
  BY <1>1 DEF PairInv
<1> QED BY <1>2, NoneStarts

LEMMA UserPairs ==
  ASSUME ChatInv, PairInv,
         \/ Chat!ToolAsks \/ Chat!UserDecides \/ Chat!SendMessage
         \/ \E c \in Chat!Calls : Chat!UserAnswers(c)
  PROVE  PairInv' /\ RunIsWhole
<1>1. CASE Chat!ToolAsks \/ Chat!UserDecides
  <2>1. /\ turn' = turn /\ cards' = cards
        /\ UNCHANGED <<history, generation, kind, Chat!requests>>
    BY <1>1 DEF Chat!ToolAsks, Chat!UserDecides
  <2> QED BY <2>1, QuestionsPair
<1>2. CASE Chat!SendMessage
  <2>1. /\ cards' = {} /\ turn' = [turn EXCEPT !.waiting = @ \ cards]
        /\ UNCHANGED <<history, generation, kind, Chat!requests>>
    BY <1>2 DEF Chat!SendMessage
  <2>2. /\ turn'.phase = turn.phase /\ turn'.gen = turn.gen /\ turn'.run = turn.run
        /\ turn'.executing = turn.executing /\ turn'.toRun = turn.toRun
        /\ turn'.ended = turn.ended /\ turn'.raised = turn.raised
    BY <2>1 DEF ChatInv, ChatTypes, Turns
  <2> QED BY <2>1, <2>2, QuestionsPair
<1>3. ASSUME NEW c \in Chat!Calls, Chat!UserAnswers(c) PROVE PairInv' /\ RunIsWhole
  <2>1. /\ cards' = cards \ {c}
        /\ turn' = [turn EXCEPT !.waiting = @ \ {c}, !.answers = @ \cup {c}]
        /\ UNCHANGED <<history, generation, kind, Chat!requests>>
    BY <1>3 DEF Chat!UserAnswers
  <2>2. /\ turn'.phase = turn.phase /\ turn'.gen = turn.gen /\ turn'.run = turn.run
        /\ turn'.executing = turn.executing /\ turn'.toRun = turn.toRun
        /\ turn'.ended = turn.ended /\ turn'.raised = turn.raised
    BY <2>1 DEF ChatInv, ChatTypes, Turns
  <2> QED BY <2>1, <2>2, QuestionsPair
<1> QED BY <1>1, <1>2, <1>3

\* What a stop leaves open is the tool's that runs, or the backend's.
LEMMA StopTurnPairs ==
  ASSUME ChatInv, PairInv, Chat!StopTurn, history' \in {Chat!LeftByStop, <<>>}, kind' = kind,
         asked' \subseteq asked
  PROVE  PairInv' /\ RunIsWhole
<1>1. /\ generation < MaxStops /\ generation' = generation + 1 /\ cards' = {}
      /\ turn' = [turn EXCEPT !.waiting = @ \ cards]
  BY DEF Chat!StopTurn
<1>2. /\ turn'.phase = turn.phase /\ turn'.gen = turn.gen /\ turn'.run = turn.run
      /\ turn'.executing = turn.executing
  BY <1>1 DEF ChatInv, ChatTypes, Turns
<1>3. turn.gen # generation'
  BY <1>1, ChatAssumption DEF ChatInv, ChatTypes, Turns, Chat!ChatClientAssumption
<1>4. Chat!Stopped' = Chat!InFlight /\ Chat!Made' = Chat!Made
  BY <1>2, <1>3 DEF Chat!InFlight, Chat!Stopped, Chat!Made
<1>5. history \in Seq(Chat!Entries) /\ PairedBefore(history, kind)
  BY DEF ChatInv, ChatTypes, PairInv
<1>6. /\ Chat!CallsIn(history') \subseteq Chat!CallsIn(history) /\ PairedBefore(history', kind)
      /\ Chat!Unanswered(history') \subseteq Theirs(kind) \cup {turn.executing}
  <2>1. CASE history' = <<>>
    BY <2>1 DEF Chat!CallsIn, Chat!Unanswered, Chat!Has, PairedBefore
  <2>2. CASE history' = Chat!LeftByStop
    <3>1. Chat!Unanswered(history) \ (Chat!Held \cup {turn.executing})
            \subseteq Chat!Unanswered(history)
      OBVIOUS
    <3>2. /\ Chat!CallsIn(history') = Chat!CallsIn(history) /\ PairedBefore(history', kind)
          /\ Chat!Unanswered(history') =
               Chat!Unanswered(history) \
                 (Chat!Unanswered(history) \ (Chat!Held \cup {turn.executing}))
      BY <1>5, <2>2, <3>1, AnswerAllIs DEF Chat!LeftByStop
    <3>3. Chat!Unanswered(history) \subseteq Chat!CallsIn(history)
      BY DEF Chat!Unanswered
    <3> QED BY <3>2, <3>3, HeldIs
  <2> QED BY <2>1, <2>2
<1>7. turn.phase # "tools" => Chat!Unanswered(history') \subseteq Theirs(kind)
  <2>1. Chat!NoCall \notin Chat!Calls
    BY DEF Chat!NoCall, Chat!Calls
  <2>2. Chat!Unanswered(history') \subseteq Chat!Calls
    BY DEF Chat!Unanswered, Chat!CallsIn
  <2>3. turn.phase # "tools" => turn.executing = Chat!NoCall
    BY DEF ChatInv, Shaped
  <2> QED BY <1>6, <2>1, <2>2, <2>3
<1>8. PairInv'
  <2>1. turn'.phase = "tools" \/ turn'.phase = "running" => Chat!Stopped'
    BY <1>2, <1>4 DEF Chat!InFlight
  <2> QED BY <1>1, <1>2, <1>4, <1>6, <1>7, <2>1 DEF PairInv
<1> QED BY <1>2, <1>8, NoneStarts

LEMMA StopsPair ==
  ASSUME ChatInv, PairInv,
         \/ Chat!Stop \/ Chat!Reload \/ Chat!Clear \/ Chat!Dispose
         \/ \E m \in Chat!Messages : Chat!EditMessage(m)
  PROVE  PairInv' /\ RunIsWhole
<1>1. Chat!StopTurn /\ history' \in {Chat!LeftByStop, <<>>} /\ kind' = kind
        /\ asked' \subseteq asked
  BY DEF Chat!Stop, Chat!Reload, Chat!Clear, Chat!Dispose, Chat!EditMessage, Chat!requests
<1> QED BY <1>1, StopTurnPairs

LEMMA ChatPairs ==
  ASSUME ChatInv, PairInv, ~CancelsMidway, [Chat!Next]_(Chat!vars)
  PROVE  PairInv' /\ RunIsWhole
<1>1. CASE UNCHANGED Chat!vars
  BY <1>1 DEF Chat!vars, Chat!requests, Chat!shown, PairInv, Chat!Made, Chat!Stopped,
    Chat!InFlight, RunIsWhole, Chat!StartsRun
<1> QED BY <1>1, BeginTurnPairs, ToolSettlesPairs, TurnContinuesPairs, RunFailsPairs,
          RunReturnsPairs,
           RunCallsPairs, RunAnswersPairs, RunFinishesPairs, UserPairs, StopsPair, SetMessagesPairs
        DEF Chat!Next

LEMMA PairsBegin == Chat!Init => PairInv
<1> SUFFICES ASSUME Chat!Init PROVE PairInv
  OBVIOUS
<1>1. Chat!CallsIn(history) = {} /\ Chat!Unanswered(history) = {} /\ PairedBefore(history, kind)
  BY DEF Chat!Init, Chat!CallsIn, Chat!Unanswered, Chat!Has, PairedBefore
<1>2. Chat!Made = 1 .. 0 /\ 0 \in 0 .. MaxToolCalls
  BY ChatAssumption DEF Chat!Init, Chat!Made, Chat!ChatClientAssumption
<1> QED BY <1>1, <1>2, NoTurnIs DEF Chat!Init, PairInv

-----------------------------------------------------------------------------
(* What is done for a turn *)

\* StopsAreHeeded and AnswersAreKept, of one step.
Heeded == turn'.executing \notin {Chat!NoCall, turn.executing} => turn'.gen = generation'

Kept ==
  \A c \in turn.answers \cup owed :
    \/ c \in turn'.answers \cup owed'
    \/ Chat!StartsRun \/ Chat!Stopped \/ generation' # generation \/ status' = "error"

LEMMA CameHeeds ==
  ASSUME ChatInv, NEW t \in Turns, NEW h, Came(t, h), t.gen = generation, generation' = generation,
         turn.answers \subseteq t.answers, Chat!InFlight,
           turn.phase # "running" \/ turn.answers = {}
  PROVE  Heeded /\ Kept
<1>1. Heeded
  BY DEF Came, Shaped, Heeded
<1>2. owed = {}
  BY DEF ChatInv
<1>3. turn'.phase \in {"none", "running", "tools", "asking"}
  BY DEF Came, Turns
<1>4. CASE turn'.phase = "none"
  BY <1>1, <1>2, <1>4 DEF Came, Kept
<1>5. CASE turn'.phase = "running"
  BY <1>1, <1>2, <1>5 DEF Kept, Chat!StartsRun
<1>6. CASE turn'.phase \in {"tools", "asking"}
  BY <1>1, <1>2, <1>6 DEF Came, Kept
<1> QED BY <1>1, <1>3, <1>4, <1>5, <1>6

LEMMA ToolSettlesHeeds == ASSUME ChatInv, Chat!ToolSettles PROVE Heeded /\ Kept
<1> DEFINE c == turn.executing
           h == Chat!AddResult(history, c)
           t == [turn EXCEPT !.answers = @ \cup ({c} \cap turn.raised \cap pending),
                             !.quiet = @ /\ kind[c] = "quiet"]
<1>1. turn.phase = "tools" /\ Chat!InFlight /\ generation' = generation
  BY DEF Chat!ToolSettles, Chat!InFlight
<1>2. CASE Chat!Stopped
  BY <1>2, NoTurnIs DEF Chat!ToolSettles, Heeded, Kept
<1>3. CASE ~Chat!Stopped
  <2>1. Chat!Proceed(t, h)
    BY <1>3 DEF Chat!ToolSettles
  <2>2. t \in Turns /\ t.gen = turn.gen /\ turn.answers \subseteq t.answers
    BY DEF ChatInv, ChatTypes, Turns
  <2>3. turn.gen = generation
    BY <1>1, <1>3 DEF Chat!Stopped
  <2> HIDE DEF t, h
  <2>4. Came(t, h)
    BY <2>1, <2>2, ProceedIs
  <2> QED BY <1>1, <2>2, <2>3, <2>4, CameHeeds
<1> QED BY <1>2, <1>3

LEMMA TurnContinuesHeeds == ASSUME ChatInv, Chat!TurnContinues PROVE Heeded /\ Kept
<1>1. turn.phase = "asking" /\ turn.waiting = {} /\ Chat!InFlight /\ generation' = generation
  BY DEF Chat!TurnContinues, Chat!InFlight
<1>2. CASE Chat!Stopped
  BY <1>2, NoTurnIs DEF Chat!TurnContinues, Heeded, Kept
<1>3. CASE ~Chat!Stopped
  <2>1. Chat!Continue(turn, history) /\ turn.gen = generation /\ turn \in Turns
    BY <1>1, <1>3 DEF Chat!TurnContinues, Chat!Stopped, ChatInv, ChatTypes
  <2>2. Came(turn, history)
    BY <1>1, <2>1, ContinueIs
  <2> QED BY <1>1, <2>1, <2>2, CameHeeds
<1> QED BY <1>2, <1>3

LEMMA RunReturnsHeeds == ASSUME ChatInv, Chat!RunReturns PROVE Heeded /\ Kept
<1>1. /\ turn.phase = "running" /\ Chat!InFlight /\ generation' = generation
      /\ turn.answers = {} /\ owed = {}
  BY DEF Chat!RunReturns, Chat!InFlight, ChatInv, Shaped
<1>2. CASE Chat!Stopped
  BY <1>1, <1>2, NoTurnIs DEF Chat!RunReturns, Heeded, Kept
<1>3. CASE ~Chat!Stopped
  <2> DEFINE page    == Chat!ForPage(history)
             unknown == {c \in page : kind[c] = "unknown"}
             ask     == IF turn.ended = "interrupt" THEN turn.raised \ page ELSE {}
             t       == [turn EXCEPT !.toRun = Chat!InOrder(page \ unknown), !.waiting = ask,
                                     !.quiet = (unknown = {} /\ ask = {})]
             h       == Chat!AnswerAll(history, unknown)
  <2>1. /\ t \in Turns /\ t.gen = turn.gen /\ t.answers = turn.answers
        /\ Chat!End("ready") \/ Chat!Proceed(t, h)
    BY <1>3, RunReturnsIs
  <2>2. turn.gen = generation
    BY <1>1, <1>3 DEF Chat!Stopped
  <2> HIDE DEF t, h
  <2>3. CASE Chat!End("ready")
    BY <1>1, <2>3, NoTurnIs DEF Chat!End, Heeded, Kept
  <2>4. CASE Chat!Proceed(t, h)
    <3>1. Came(t, h)
      BY <2>1, <2>4, ProceedIs
    <3> QED BY <1>1, <2>1, <2>2, <3>1, CameHeeds
  <2> QED BY <2>1, <2>3, <2>4
<1> QED BY <1>2, <1>3

LEMMA BeginTurnHeeds == ASSUME ChatInv, Chat!BeginTurn PROVE Heeded /\ Kept
<1>1. CASE UNCHANGED <<history, owed, turn, status>>
  BY <1>1 DEF Heeded, Kept
<1>2. CASE Chat!StartRun(generation, 1)
  <2>1. turn'.phase = "running" /\ turn'.executing = Chat!NoCall
    BY <1>2, StartRunIs, ChatAssumption DEF ChatInv, ChatTypes, Chat!ChatClientAssumption
  <2>2. turn.phase = "none"
    BY BeginTurnIs DEF Chat!InFlight
  <2> QED BY <2>1, <2>2 DEF Heeded, Kept, Chat!StartsRun
<1> QED BY <1>1, <1>2, BeginTurnIs

LEMMA OthersHeed ==
  ASSUME ChatInv,
         \/ Chat!RunFails \/ Chat!ToolAsks \/ Chat!UserDecides
         \/ Chat!SendMessage \/ Chat!SetMessages
         \/ Chat!Stop \/ Chat!Reload \/ Chat!Clear \/ Chat!Dispose
         \/ \E k \in Kinds : Chat!RunCalls(k)
         \/ \E c \in Chat!Calls : Chat!RunAnswers(c) \/ Chat!UserAnswers(c)
         \/ \E outcome \in {"success", "interrupt", "cancelled"} : Chat!RunFinishes(outcome)
         \/ \E m \in Chat!Messages : Chat!EditMessage(m)
  PROVE  Heeded /\ Kept
<1>1. CASE Chat!RunFails
  BY <1>1, NoTurnIs DEF Chat!RunFails, Chat!Fail, Chat!End, Heeded, Kept
<1>2. CASE \/ Chat!ToolAsks \/ Chat!UserDecides \/ Chat!SetMessages
           \/ \E k \in Kinds : Chat!RunCalls(k)
           \/ \E c \in Chat!Calls : Chat!RunAnswers(c)
  BY <1>2 DEF Chat!ToolAsks, Chat!UserDecides, Chat!SetMessages, Chat!RunCalls, Chat!RunAnswers,
    Chat!requests, Heeded, Kept
<1>3. ASSUME NEW c \in Chat!Calls, Chat!UserAnswers(c) PROVE Heeded /\ Kept
  <2>1. turn'.executing = turn.executing /\ turn.answers \subseteq turn'.answers /\ owed' = owed
    BY <1>3 DEF Chat!UserAnswers, Chat!requests, ChatInv, ChatTypes, Turns
  <2> QED BY <2>1 DEF Heeded, Kept
<1>4. CASE \/ Chat!SendMessage
           \/ \E outcome \in {"success", "interrupt", "cancelled"} : Chat!RunFinishes(outcome)
  <2>1. turn'.executing = turn.executing /\ turn'.answers = turn.answers /\ owed' = owed
    BY <1>4 DEF Chat!SendMessage, Chat!RunFinishes, Chat!requests, ChatInv, ChatTypes, Turns
  <2> QED BY <2>1 DEF Heeded, Kept
<1>5. CASE \/ Chat!Stop \/ Chat!Reload \/ Chat!Clear \/ Chat!Dispose
           \/ \E m \in Chat!Messages : Chat!EditMessage(m)
  <2>1. Chat!StopTurn
    BY <1>5 DEF Chat!Stop, Chat!Reload, Chat!Clear, Chat!Dispose, Chat!EditMessage
  <2>2. turn'.executing = turn.executing /\ generation' # generation
    BY <2>1, ChatAssumption DEF Chat!StopTurn, ChatInv, ChatTypes, Turns, Chat!ChatClientAssumption
  <2> QED BY <2>2 DEF Heeded, Kept
<1> QED BY <1>1, <1>2, <1>3, <1>4, <1>5

LEMMA ChatHeeds == ASSUME ChatInv, [Chat!Next]_(Chat!vars) PROVE Heeded /\ Kept
<1>1. CASE UNCHANGED Chat!vars
  BY <1>1 DEF Chat!vars, Chat!requests, Chat!shown, Heeded, Kept
<1> QED BY <1>1, BeginTurnHeeds, ToolSettlesHeeds, TurnContinuesHeeds, RunReturnsHeeds, OthersHeed
        DEF Chat!Next

\* The history is one a backend reads, and the chat tells truly what it is doing, whichever of a
\* run, a tool and the user does what next (ChatClient's sendMessage, #drain, #runTurn, stop).
THEOREM ChatTellsTheTruth == Chat!Spec => []Chat!Consistent
BY ChatBegins, ChatKeeps, ChatInvIsConsistent, PTL DEF Chat!Spec

\* A step of the run is a step of the chat, or leaves it alone.
LEMMA AgentChats ==
  ASSUME [AgentNext]_<<vars, chat, about>> PROVE [Chat!Next]_(Chat!vars)
BY DEF AgentNext, chat, Chat!vars, Chat!requests, Chat!shown

\* The same of a page of the run, which is about the actions or about the chat.
THEOREM TheChatTellsTheTruth == AgentSpec => []ChatIsConsistent
<1>1. AgentInit => ChatInv
  BY ChatBegins DEF AgentInit
<1>2. ChatInv /\ [AgentNext]_<<vars, chat, about>> => ChatInv'
  BY AgentChats, ChatKeeps
<1>3. ChatInv => ChatIsConsistent
  BY ChatInvIsConsistent DEF ChatIsConsistent
<1> QED BY <1>1, <1>2, <1>3, PTL DEF AgentSpec

\* If no backend ends a run as cancelled with calls unanswered: a run that starts is given a history
\* in which nothing the page answers is open, no tool starts for a turn that was stopped,
\* and what the user or a tool answered goes out with the next run (#runTurn, #resolveCalls,
\* #startRun, stop).
THEOREM TurnsAreGivenWhole == ASSUME ~CancelsMidway PROVE AgentSpec => TurnsAreWhole
<1>1. AgentInit => ChatInv /\ PairInv
  BY ChatBegins, PairsBegin DEF AgentInit
<1>2. ChatInv /\ PairInv /\ [AgentNext]_<<vars, chat, about>> => ChatInv' /\ PairInv'
  BY AgentChats, ChatKeeps, ChatPairs
<1>3. ChatInv /\ PairInv /\ [AgentNext]_<<vars, chat, about>> =>
        [RunIsWhole]_(Chat!vars) /\ [Heeded]_(Chat!vars) /\ [Kept]_(Chat!vars)
  BY AgentChats, ChatPairs, ChatHeeds
<1>4. RunIsWhole => (Chat!StartsRun => \A c \in Chat!Unanswered(history') :
                                        kind[c] = "backend" \/ c \in turn'.resumes)
  BY DEF RunIsWhole, Theirs
<1> QED BY <1>1, <1>2, <1>3, <1>4, PTL
        DEF AgentSpec, TurnsAreWhole, Chat!TurnsAreWhole, Chat!RequestsArePaired,
            Chat!StopsAreHeeded, Chat!AnswersAreKept, Heeded, Kept
=============================================================================
