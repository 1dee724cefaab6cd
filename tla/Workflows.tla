------------------------------- MODULE Workflows -------------------------------
(***************************************************************************)
(* The workflow runs of a page, which its mounts share, and the spans the   *)
(* runs are traced with, which each belong to the tracer of the mount that  *)
(* started them and to its budget (telemetry/workflow.ts, tracer.ts,        *)
(* service.ts).                                                             *)
(*                                                                          *)
(* Everything is synchronous; the hazard is in the sequences of calls: who  *)
(* joins, ends, leaves, in which order, with which spans in hand.  A        *)
(* provider may fail to start a span at any time.                           *)
(***************************************************************************)
EXTENDS Naturals, FiniteSets

CONSTANTS
  Mounts,          \* the mounts of the page
  Keys,            \* the runs they may open: a name with a key
  Budget,          \* open spans one mount may have
  MaxSpans         \* bound: spans started over a run

ASSUME WorkflowsAssumption == Budget \in Nat \ {0} /\ MaxSpans \in Nat

Spans  == 1 .. MaxSpans
NoSpan == 0

VARIABLES
  run,             \* the page's runs: open, with their spans and who takes part
  span,            \* every span started: its owner, its parent, how it ended
  budgeted,        \* by mount: the open spans its tracer counts
  gone             \* the mounts whose telemetry is disposed

vars == <<run, span, budgeted, gone>>

Closed == [open |-> FALSE, root |-> NoSpan, step |-> NoSpan, participants |-> {}]
Unused == [owner |-> "none", parent |-> NoSpan, end |-> "unused"]
IsOpen(s) == s # NoSpan /\ span[s].end = "open"

-----------------------------------------------------------------------------
(* Spans *)

\* end(), succeed(), fail() or endAbandoned(): the first one counts, and its tracer lets it go.
Ends(ss, s, how) == IF s # NoSpan /\ ss[s].end = "open" THEN [ss EXCEPT ![s].end = how] ELSE ss
Release(bb, set) == [m \in Mounts |-> bb[m] \ set]

\* The next number.
NewSpan(ss) == CHOOSE n \in Spans : ss[n].end = "unused"

\* startSpan() of the mount's tracer returns `s`: a new span under `parent`, or none when its budget
\* is spent or its provider throws.  The spans and budgets were `ss` and `bb` by then.
StartSpan(m, parent, ss, bb, s) ==
  \/ s = NoSpan /\ span' = ss /\ budgeted' = bb
  \/ /\ Cardinality(bb[m]) < Budget
     /\ \E n \in Spans : ss[n].end = "unused"
     /\ s = NewSpan(ss)
     /\ span' = [ss EXCEPT ![s] = [owner |-> m, parent |-> parent, end |-> "open"]]
     /\ budgeted' = [bb EXCEPT ![m] = @ \cup {s}]

-----------------------------------------------------------------------------
(* What a mount calls *)

Join(m, r) == [r EXCEPT !.participants = @ \cup {m}]

\* Opens the run, or joins the open one.
Start(m, k) ==
  /\ m \notin gone
  /\ IF run[k].open
     THEN run' = [run EXCEPT ![k] = Join(m, @)] /\ UNCHANGED <<span, budgeted>>
     ELSE \E s \in Spans \cup {NoSpan} :
            /\ StartSpan(m, NoSpan, span, budgeted, s)
            /\ run' = [run EXCEPT ![k] =
                         [open |-> TRUE, root |-> s, step |-> NoSpan, participants |-> {m}]]
  /\ UNCHANGED gone

\* Fault: the current step ends once the next one is there.
StepOverlapping(m, k) ==
  /\ m \notin gone /\ run[k].open
  /\ \E s \in Spans \cup {NoSpan} :
       /\ run[k].root = NoSpan => s = NoSpan
       /\ StartSpan(m, run[k].root, span, budgeted, s)
       /\ run' = [run EXCEPT ![k] = [Join(m, @) EXCEPT !.step = s]]
  /\ UNCHANGED gone

\* Marks the next step: the current one ends first, whoever started it.  In a run without spans a
\* step has none.
Step(m, k) ==
  /\ m \notin gone /\ run[k].open
  /\ \E s \in Spans \cup {NoSpan} :
       /\ run[k].root = NoSpan => s = NoSpan
       /\ StartSpan(m, run[k].root, Ends(span, run[k].step, "ended"),
                    Release(budgeted, {run[k].step}), s)
       /\ run' = [run EXCEPT ![k] = [Join(m, @) EXCEPT !.step = s]]
  /\ UNCHANGED gone

\* headers(), or a record: a mount that reads the run takes part in it.
Read(m, k) ==
  /\ m \notin gone /\ run[k].open /\ m \notin run[k].participants
  /\ run' = [run EXCEPT ![k] = Join(m, @)]
  /\ UNCHANGED <<span, budgeted, gone>>

\* succeed() or fail(), by any mount and for all of them.
End(m, k) ==
  /\ m \notin gone /\ run[k].open
  /\ run' = [run EXCEPT ![k] = Closed]
  /\ span' = Ends(Ends(span, run[k].step, "ended"), run[k].root, "ended")
  /\ budgeted' = Release(budgeted, {run[k].step, run[k].root})
  /\ UNCHANGED gone

-----------------------------------------------------------------------------
(* Disposal *)

\* The runs nobody but this mount is left in.
LeftEmpty(m) == {k \in Keys : run[k].participants = {m}}

SpansOf(ks) == {run[k].root : k \in ks} \cup {run[k].step : k \in ks}

\* The mount leaves every run it is in, and its budget is over.
LeaveEnding(m, theirs) ==
  /\ m \notin gone
  /\ gone' = gone \cup {m}
  /\ span' = [s \in Spans |-> IF s \in theirs /\ IsOpen(s) THEN [span[s] EXCEPT !.end = "abandoned"]
                              ELSE span[s]]
  /\ budgeted' = [Release(budgeted, theirs) EXCEPT ![m] = {}]
  /\ run' = [k \in Keys |-> IF k \in LeftEmpty(m) THEN Closed
                            ELSE [run[k] EXCEPT !.participants = @ \ {m}]]

\* Fault: the disposal ends all that the mount has open.
DisposeAll(m) == LeaveEnding(m, SpansOf(LeftEmpty(m)) \cup budgeted[m])

\* The spans of the runs it leaves empty are abandoned, whoever started them.  Its spans of other
\* runs are handed over: the run ends them when its time comes.
Dispose(m) == LeaveEnding(m, SpansOf(LeftEmpty(m)))

-----------------------------------------------------------------------------

Init ==
  /\ run = [k \in Keys |-> Closed] /\ span = [s \in Spans |-> Unused]
  /\ budgeted = [m \in Mounts |-> {}] /\ gone = {}

Next ==
  \E m \in Mounts :
    \/ Dispose(m)
    \/ \E k \in Keys : Start(m, k) \/ Step(m, k) \/ Read(m, k) \/ End(m, k)

Spec == Init /\ [][Next]_vars

-----------------------------------------------------------------------------
(* Properties *)

\* Every variable has its type.
TypeOK ==
  /\ run \in [Keys -> [open : BOOLEAN, root : Spans \cup {NoSpan}, step : Spans \cup {NoSpan},
                       participants : SUBSET Mounts]]
  /\ span \in [Spans -> [owner : Mounts \cup {"none"}, parent : Spans \cup {NoSpan},
                         end : {"unused", "open", "ended", "abandoned"}]]
  /\ budgeted \in [Mounts -> SUBSET Spans] /\ gone \subseteq Mounts

\* No span is left open that nobody can end, and none ends under an open run: the open spans are
\* the roots and current steps of the open runs, each in one of them, through any sequence of
\* starts, steps and departures (step, close, leave).
SpansAreTheRuns ==
  /\ {s \in Spans : IsOpen(s)} = SpansOf({k \in Keys : run[k].open}) \ {NoSpan}
  /\ \A k \in Keys : run[k].step # NoSpan =>
       run[k].root # NoSpan /\ span[run[k].step].parent = run[k].root
  /\ \A j, k \in Keys : j # k => SpansOf({j}) \cap SpansOf({k}) \subseteq {NoSpan}

\* A run is open exactly as long as a mount that is there takes part in it (join, leave).
RunsHaveSomebody ==
  \A k \in Keys : /\ run[k].open <=> run[k].participants # {}
                  /\ run[k].participants \cap gone = {}

\* A mount's budget counts the spans it has open, also those another mount ends, and no others
\* (MountTracer).
BudgetIsExact ==
  \A m \in Mounts : budgeted[m] = {s \in Spans : m \notin gone /\ span[s].owner = m /\ IsOpen(s)}

Consistent == TypeOK /\ SpansAreTheRuns /\ RunsHaveSomebody /\ BudgetIsExact

\* A run that another mount takes part in goes on untouched when a mount is disposed, also with
\* the spans that mount started (leave, detach).
RunsOutliveMounts ==
  [][\A k \in Keys :
       gone' # gone /\ run[k].participants \cap (Mounts \ gone') # {} =>
         /\ run'[k] = [run[k] EXCEPT !.participants = @ \ gone']
         /\ \A s \in {run[k].root, run[k].step} \ {NoSpan} : span'[s] = span[s]]_vars
=============================================================================
