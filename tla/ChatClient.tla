------------------------------ MODULE ChatClient ------------------------------
(***************************************************************************)
(* One conversation of the chat with its agent backend (ChatClient).        *)
(*                                                                          *)
(* The user's turns wait in a queue.  A turn takes as many runs as it needs: *)
(* a run calls tools, and ends with calls the page is to answer, with       *)
(* interrupts the user or the page is to answer, or with nothing open.      *)
(* Around it are the backend, whose runs stream into the history, the page's *)
(* tools, and the user, who may stop, clear, edit, reload or write again in *)
(* the middle of all of it.                                                 *)
(*                                                                          *)
(* The history is the user messages, the calls and their results; text is   *)
(* left out.  An interrupt is named by the call it is about.  The runs of   *)
(* one turn are cut off after MaxRuns.                                      *)
(***************************************************************************)
EXTENDS Naturals, Sequences, FiniteSets, SequencesExt

CONSTANTS
  MaxMessages,     \* bound: messages the user sends
  MaxCalls,        \* bound: tool calls the agent makes
  MaxRuns,         \* maxRunsPerTurn
  MaxStops,        \* bound: the generations stop() opens
  Kinds,           \* whose tools the agent calls: "page", "quiet" (followUp: false), "unknown", "backend"
  CancelsMidway    \* whether the backend may end a run as cancelled with calls unanswered

ChatClientAssumption ==
  /\ MaxMessages \in Nat /\ MaxCalls \in Nat /\ MaxRuns \in Nat \ {0} /\ MaxStops \in Nat
  /\ Kinds \subseteq {"page", "quiet", "unknown", "backend"}
  /\ CancelsMidway \in BOOLEAN

Calls    == 1..MaxCalls
Messages == 1..MaxMessages

Entry(what, id) == [what |-> what, id |-> id]
Entries == [what : {"user"}, id : Messages] \cup [what : {"call", "result"}, id : Calls]

VARIABLES
  history,                    \* the agent client's messages
  queue, sent,                \* the turns that wait for the one in flight; messages sent so far
  generation, disposed,
  status,                     \* "loading" is the client's submitted and its streaming
  turn,                       \* the turn in flight
  kind,                       \* of each call made: whose tool it is
  pending, asked, owed,       \* pendingInterrupts, #asked, #owed: the calls the interrupts are about
  cards, approving            \* #interrupts: the backend's questions, the call a page's question is about

requests == <<pending, asked, owed>>
shown    == <<status, cards, approving>>
vars     == <<history, queue, sent, generation, disposed, turn, kind, requests, shown>>

NoCall == 0
NoTurn == [phase |-> "none", gen |-> 0, run |-> 0, resumes |-> {}, ended |-> "no", raised |-> {},
           toRun |-> <<>>, executing |-> NoCall, waiting |-> {}, answers |-> {}, quiet |-> FALSE]

InFlight == turn.phase # "none"
Stopped  == InFlight /\ turn.gen # generation
Made     == {c \in Calls : kind[c] # "none"}

-----------------------------------------------------------------------------
(* The history *)

Has(h, what, id) == \E i \in DOMAIN h : h[i] = Entry(what, id)
CallsIn(h)    == {c \in Calls : Has(h, "call", c)}
Answered(h)   == {c \in Calls : Has(h, "result", c)}
Unanswered(h) == CallsIn(h) \ Answered(h)
UserAt(h, m)  == {i \in DOMAIN h : h[i] = Entry("user", m)}
LastUser(h)   == {i \in DOMAIN h : h[i].what = "user" /\ \A j \in i + 1..Len(h) : h[j].what # "user"}

AnswerAll(h, cs) == h \o SetToSeq({Entry("result", c) : c \in cs})

\* Fault: a result is recorded though the history no longer holds its call.
AddResultAnyway(h, c) == IF c \in Answered(h) THEN h ELSE Append(h, Entry("result", c))

\* #addResult: not for a call answered already, or dropped since.
AddResult(h, c) == IF c \in Unanswered(h) THEN Append(h, Entry("result", c)) ELSE h

\* #callsHeldByBackend: its open questions, and those closed since the last run ended.
Held == cards \cup (pending \cap asked)

-----------------------------------------------------------------------------
(* The turn *)

Owe(answers) == owed' = answers

\* #run: every pending interrupt is resumed, as cancelled if it has no answer.
StartRun(gen, run) ==
  /\ turn' = [NoTurn EXCEPT !.phase = "running", !.gen = gen, !.run = run, !.resumes = pending]
  /\ status' = "loading"

End(now) == turn' = NoTurn /\ status' = now

\* Fault: a failed turn leaves the calls it did not run as they are.
FailOnly(h) == End("error") /\ history' = h

\* #fail
Fail(h) == End("error") /\ history' = AnswerAll(h, Unanswered(h) \ Held)

\* All calls and questions of t's run are answered: the turn ends, or runs again (#turnLoop, the
\* end of its loop).
Continue(t, h) ==
  \/ t.quiet /\ Owe(t.answers) /\ End("ready") /\ history' = h
  \/ ~t.quiet /\ t.run = MaxRuns /\ Fail(h) /\ UNCHANGED owed
  \/ ~t.quiet /\ t.run < MaxRuns /\ StartRun(t.gen, t.run + 1) /\ history' = h /\ UNCHANGED owed

\* The next of the page's tools, or the user's answers, or the end of the round.
Proceed(t, h) ==
  \/ /\ t.toRun # <<>>
     /\ turn' = [t EXCEPT !.phase = "tools", !.executing = Head(t.toRun), !.toRun = Tail(t.toRun)]
     /\ status' = "loading" /\ history' = h /\ UNCHANGED owed
  \/ /\ t.toRun = <<>> /\ t.waiting # {}
     /\ turn' = [t EXCEPT !.phase = "asking", !.executing = NoCall]
     /\ status' = "ready" /\ history' = h /\ UNCHANGED owed
  \/ t.toRun = <<>> /\ t.waiting = {} /\ Continue([t EXCEPT !.executing = NoCall], h)

\* prepare() and the first run; a turn queued when the client is disposed of never runs.
BeginTurn ==
  /\ queue # <<>> /\ ~InFlight
  /\ queue' = Tail(queue)
  /\ LET next == Head(queue)
         at == IF next.what = "reload" THEN LastUser(history) ELSE UserAt(history, next.of)
         cut == UNION {1..i - 1 : i \in at}
     IN
     IF disposed \/ (next.what # "send" /\ at = {})
     THEN UNCHANGED <<history, owed, turn, status>>
     ELSE /\ history' = CASE next.what = "send"   -> Append(history, Entry("user", next.id))
                          [] next.what = "reload" -> SubSeq(history, 1, Cardinality(cut) + 1)
                          [] next.what = "edit"   -> Append(SubSeq(history, 1, Cardinality(cut)),
                                                            Entry("user", next.id))
          /\ owed' = {}
          /\ StartRun(generation, 1)
  /\ UNCHANGED <<sent, generation, disposed, kind, pending, asked, cards, approving>>

\* The tool's result, or what it threw, answers its call; a stopped turn runs no more of them.
ToolSettles ==
  /\ turn.phase = "tools" /\ approving = NoCall
  /\ LET c == turn.executing
         h == AddResult(history, c)
     IN IF Stopped THEN history' = h /\ turn' = NoTurn /\ UNCHANGED <<owed, status>>
        ELSE Proceed([turn EXCEPT !.answers = @ \cup ({c} \cap turn.raised \cap pending),
                                  !.quiet = @ /\ kind[c] = "quiet"], h)
  /\ UNCHANGED <<queue, sent, generation, disposed, kind, pending, asked, cards, approving>>

\* The user has answered every question of the turn, or something closed them.
TurnContinues ==
  /\ turn.phase = "asking" /\ turn.waiting = {}
  /\ IF Stopped THEN turn' = NoTurn /\ UNCHANGED <<history, owed, status>>
     ELSE Continue(turn, history)
  /\ UNCHANGED <<queue, sent, generation, disposed, kind, pending, asked, cards, approving>>

-----------------------------------------------------------------------------
(* The run: what the backend streams *)

Streaming == turn.phase = "running" /\ ~Stopped /\ turn.ended = "no"

RunCalls(k) ==
  LET c == Cardinality(Made) + 1 IN
  /\ Streaming /\ c \in Calls
  /\ kind' = [kind EXCEPT ![c] = k]
  /\ history' = Append(history, Entry("call", c))
  /\ UNCHANGED <<queue, sent, generation, disposed, turn, requests, shown>>

\* The backend answers a call of a tool of its own, or one it was told to resume.
RunAnswers(c) ==
  /\ Streaming /\ c \in Unanswered(history) /\ kind[c] = "backend"
  /\ history' = AddResult(history, c)
  /\ UNCHANGED <<queue, sent, generation, disposed, turn, kind, requests, shown>>

\* RUN_FINISHED: with calls for the page, or with an interrupt on each call that is open; what the
\* run was told to resume is answered by then.
RunFinishes(outcome) ==
  LET open == Unanswered(history)
      kinds == {kind[c] : c \in open}
  IN
  /\ Streaming
  /\ open \cap turn.resumes = {}
  /\ CASE outcome = "success"   -> "backend" \notin kinds
       [] outcome = "interrupt" -> open # {} /\ "unknown" \notin kinds
       [] outcome = "cancelled" -> open = {} \/ CancelsMidway
  /\ turn' = [turn EXCEPT !.ended = outcome, !.raised = IF outcome = "cancelled" THEN {} ELSE open]
  /\ pending' = IF outcome = "interrupt" THEN open ELSE {}
  /\ asked' = {}
  /\ UNCHANGED <<history, queue, sent, generation, disposed, kind, owed, shown>>

\* A RUN_ERROR, a network that breaks off, a run that ends without finishing.
RunFails ==
  /\ turn.phase = "running" /\ ~Stopped
  /\ Fail(history)
  /\ UNCHANGED <<queue, sent, generation, disposed, kind, requests, cards, approving>>

\* The calls of the run that the page answers; the unknown ones are answered at once.
ForPage(h) ==
  {c \in turn.raised \cap CallsIn(h) :
     \/ turn.ended = "success" /\ c \notin Answered(h)
     \/ turn.ended = "interrupt" /\ kind[c] \in {"page", "quiet"}}

\* finished.pending and finished.interrupts are in the order the calls were made in.
InOrder(cs) ==
  CHOOSE s \in [1..Cardinality(cs) -> cs] : \A i, j \in DOMAIN s : i < j => s[i] < s[j]

\* runAgent() settles, after the finish or because the turn was stopped.
RunReturns ==
  /\ turn.phase = "running" /\ (turn.ended # "no" \/ Stopped)
  /\ LET page    == ForPage(history)
         unknown == {c \in page : kind[c] = "unknown"}
         ask     == IF turn.ended = "interrupt" THEN turn.raised \ page ELSE {}
         t       == [turn EXCEPT !.toRun = InOrder(page \ unknown),
                                 !.waiting = ask,
                                 !.quiet = (unknown = {} /\ ask = {})]
     IN \/ Stopped /\ turn' = NoTurn /\ UNCHANGED <<history, owed, status, asked, cards>>
        \/ /\ ~Stopped /\ page = {} /\ ask = {}
           /\ End("ready") /\ UNCHANGED <<history, owed, asked, cards>>
        \/ /\ ~Stopped /\ page \cup ask # {}
           /\ asked' = asked \cup ask /\ cards' = cards \cup ask
           /\ Proceed(t, AnswerAll(history, unknown))
  /\ UNCHANGED <<queue, sent, generation, disposed, kind, pending, approving>>

-----------------------------------------------------------------------------
(* The user *)

\* requestApproval() of the pipeline that runs the tool; one that was told to stop does not ask.
ToolAsks ==
  /\ turn.phase = "tools" /\ ~Stopped /\ ~disposed /\ approving = NoCall
  /\ approving' = turn.executing
  /\ UNCHANGED <<history, queue, sent, generation, disposed, turn, kind, requests, status, cards>>

UserDecides ==
  /\ approving # NoCall /\ approving' = NoCall
  /\ UNCHANGED <<history, queue, sent, generation, disposed, turn, kind, requests, status, cards>>

UserAnswers(c) ==
  /\ c \in cards
  /\ cards' = cards \ {c}
  /\ turn' = [turn EXCEPT !.waiting = @ \ {c}, !.answers = @ \cup {c}]
  /\ UNCHANGED <<history, queue, sent, generation, disposed, kind, requests, status, approving>>

Enqueue(what, of, id) == queue' = Append(queue, [what |-> what, of |-> of, id |-> id])

\* The backend's open questions are abandoned, and the message waits its turn.
SendMessage ==
  /\ sent < MaxMessages /\ sent' = sent + 1
  /\ cards' = {} /\ turn' = [turn EXCEPT !.waiting = @ \ cards]
  /\ Enqueue("send", 0, sent + 1)
  /\ UNCHANGED <<history, generation, disposed, kind, requests, status, approving>>

\* Fault: a question stays open when the turn is stopped.
StopLeavingCards ==
  /\ generation < MaxStops /\ generation' = generation + 1
  /\ UNCHANGED <<cards, approving, turn>>

\* stop(), up to the calls left over: open questions are closed as declined or cancelled.
StopTurn ==
  /\ generation < MaxStops /\ generation' = generation + 1
  /\ cards' = {} /\ approving' = NoCall
  /\ turn' = [turn EXCEPT !.waiting = @ \ cards]

\* What stop() makes of the history: a tool that runs still answers its call itself.
LeftByStop == AnswerAll(history, Unanswered(history) \ (Held \cup {turn.executing}))

AfterStop == IF status = "error" THEN "error" ELSE "ready"

Stop ==
  /\ StopTurn /\ history' = LeftByStop /\ status' = AfterStop
  /\ UNCHANGED <<queue, sent, disposed, kind, requests>>

Reload ==
  /\ StopTurn /\ history' = LeftByStop /\ status' = AfterStop
  /\ Enqueue("reload", 0, 0)
  /\ UNCHANGED <<sent, disposed, kind, requests>>

EditMessage(m) ==
  /\ UserAt(history, m) # {} /\ sent < MaxMessages /\ sent' = sent + 1
  /\ StopTurn /\ history' = LeftByStop /\ status' = AfterStop
  /\ Enqueue("edit", m, sent + 1)
  /\ UNCHANGED <<disposed, kind, requests>>

Clear ==
  /\ StopTurn /\ history' = <<>> /\ status' = "ready"
  /\ pending' = {} /\ asked' = {} /\ owed' = {}
  /\ UNCHANGED <<queue, sent, disposed, kind>>

\* A stored conversation is put in place of this one; none of its calls is open.
SetMessages ==
  /\ history # <<>> /\ history' = <<>>
  /\ UNCHANGED <<queue, sent, generation, disposed, turn, kind, requests, shown>>

Dispose ==
  /\ ~disposed /\ disposed' = TRUE
  /\ StopTurn /\ history' = LeftByStop /\ status' = AfterStop
  /\ UNCHANGED <<queue, sent, kind, requests>>

-----------------------------------------------------------------------------

Init ==
  /\ history = <<>> /\ queue = <<>> /\ sent = 0
  /\ generation = 0 /\ disposed = FALSE /\ status = "ready"
  /\ turn = NoTurn /\ kind = [c \in Calls |-> "none"]
  /\ pending = {} /\ asked = {} /\ owed = {} /\ cards = {} /\ approving = NoCall

Next ==
  \/ BeginTurn \/ ToolSettles \/ TurnContinues \/ RunFails \/ RunReturns
  \/ \E k \in Kinds : RunCalls(k)
  \/ \E c \in Calls : RunAnswers(c) \/ UserAnswers(c)
  \/ \E outcome \in {"success", "interrupt", "cancelled"} : RunFinishes(outcome)
  \/ ToolAsks \/ UserDecides \/ SendMessage \/ Stop \/ Reload \/ Clear \/ SetMessages \/ Dispose
  \/ \E m \in Messages : EditMessage(m)

Spec == Init /\ [][Next]_vars

\* A run that is aborted settles, a tool that is told to stop does; nobody has to answer anything.
FairSpec ==
  Spec /\ WF_vars(RunReturns) /\ WF_vars(ToolSettles) /\ WF_vars(TurnContinues) /\ WF_vars(BeginTurn)

-----------------------------------------------------------------------------
(* Properties *)

TypeOK ==
  /\ \A i \in DOMAIN history : history[i] \in Entries
  /\ sent \in 0..MaxMessages /\ generation \in 0..MaxStops /\ disposed \in BOOLEAN
  /\ status \in {"ready", "loading", "error"} /\ kind \in [Calls -> Kinds \cup {"none"}]
  /\ turn.phase \in {"none", "running", "tools", "asking"} /\ turn.run \in 0..MaxRuns
  /\ pending \subseteq Calls /\ asked \subseteq pending /\ owed \subseteq Calls

\* The history stays one a backend reads: a result answers a call made before it, once, though its
\* tool may settle after the chat was stopped, cleared or cut back (#addResult).
ResultsAnswerCalls ==
  \A j \in DOMAIN history : history[j].what = "result" =>
    /\ \E i \in 1..j - 1 : history[i] = Entry("call", history[j].id)
    /\ \A i \in 1..j - 1 : history[i] # history[j]

\* The chat says it is working exactly while a turn that nobody stopped is (stop, #turnLoop, #fail).
LoadingIsTrue ==
  status = "loading" <=> turn.phase \in {"running", "tools"} /\ ~Stopped

\* No question is left open that nothing waits for: each belongs to the turn in flight (stop, #ask).
QuestionsHaveATurn ==
  /\ cards # {} => ~Stopped /\ cards = turn.waiting
  /\ approving # NoCall => ~Stopped /\ approving = turn.executing

Consistent == TypeOK /\ ResultsAnswerCalls /\ LoadingIsTrue /\ QuestionsHaveATurn

StartsRun == turn'.phase = "running" /\ (turn.phase # "running" \/ turn'.run # turn.run)

\* "The next turn's request pairs every call with a result": when a run goes out, every call the page
\* is to answer is answered, or is resumed by that run (#fail, stop, #answerUnansweredCalls).
RequestsArePaired ==
  [][StartsRun => \A c \in Unanswered(history') : kind[c] = "backend" \/ c \in turn'.resumes]_vars

\* "A stop runs no more of them": no tool of a turn starts once the turn has been stopped.
StopsAreHeeded ==
  [][turn'.executing \notin {NoCall, turn.executing} => turn'.gen = generation']_vars

\* An answer somebody gave reaches the backend with the next run, unless the user stops, clears or
\* cuts the history, or the run or turn fails (#owed).
AnswersAreKept ==
  [][\A c \in turn.answers \cup owed :
       \/ c \in turn'.answers \cup owed'
       \/ StartsRun \/ Stopped \/ generation' # generation \/ status' = "error"]_vars

\* What a run is given is whole, and nothing is done for a turn that was stopped.
TurnsAreWhole == RequestsArePaired /\ StopsAreHeeded /\ AnswersAreKept

\* A stopped turn ends, whatever it was waiting for, so what is queued behind it gets its turn.
StoppedTurnsEnd == Stopped ~> ~Stopped
=============================================================================
