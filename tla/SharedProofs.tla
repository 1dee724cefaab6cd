---------------------------- MODULE SharedProofs ----------------------------
(***************************************************************************)
(* Proofs about Workflows, for any number of mounts, runs and spans and any *)
(* budget, about SignIn, for any number of tabs, families, tokens and       *)
(* callers, about BrowserStorage, for any number of tabs, components and    *)
(* updates, and about Breadcrumbs, for any number of mounts and components. *)
(*                                                                          *)
(* What the runs check of Workflows says which spans are open.  To be kept  *)
(* by every step it needs two facts that it does not say: a run that is     *)
(* closed has let go of its spans, and its step is not its root.            *)
(*                                                                          *)
(* What they check of SignIn says who uses a session.  It needs to be known *)
(* of every tab, open, closed or loading, who may yet use one: which ids    *)
(* and locks the tabs have, where a renewal is and with which token, and    *)
(* which tab of those with one family has the token the provider takes.     *)
(*                                                                          *)
(* What they check of BrowserStorage says whether a tab that has heard      *)
(* every event holds the stored record.  It needs to be known of the tabs   *)
(* that have not: the newest event on its way to one is of that record.     *)
(***************************************************************************)
EXTENDS MCShared, FiniteSetTheorems, SequenceTheorems, WellFoundedInduction, TLAPS

ClosedIsEmpty ==
  \A k \in Keys : /\ ~run[k].open => run[k].root = NoSpan /\ run[k].step = NoSpan
                  /\ run[k].root # NoSpan => run[k].step # run[k].root

\* SpansAreTheRuns, span by span and run by run.
OpenSpansHaveRuns ==
  \A s \in Spans : span[s].end = "open" => \E k \in Keys : run[k].root = s \/ run[k].step = s

RunsHaveOpenSpans ==
  \A k \in Keys : /\ run[k].root # NoSpan => span[run[k].root].end = "open"
                  /\ run[k].step # NoSpan => /\ span[run[k].step].end = "open"
                                             /\ run[k].root # NoSpan
                                             /\ span[run[k].step].parent = run[k].root

RunsShareNoSpan ==
  \A j, k \in Keys : j # k =>
    /\ run[j].root # NoSpan => run[j].root # run[k].root /\ run[j].root # run[k].step
    /\ run[j].step # NoSpan => run[j].step # run[k].step

IInv ==
  /\ TypeOK /\ ClosedIsEmpty /\ OpenSpansHaveRuns /\ RunsHaveOpenSpans /\ RunsShareNoSpan
  /\ RunsHaveSomebody /\ BudgetIsExact

USE DEF Spans, NoSpan

-----------------------------------------------------------------------------

LEMMA ZeroIsNoSpan == 0 \notin Spans
  BY WorkflowsAssumption

\* The invariant is what the runs check, and no weaker.
LEMMA InvImpliesConsistent == IInv => Consistent
<1> SUFFICES ASSUME IInv PROVE Consistent
  OBVIOUS
<1>1. {s \in Spans : IsOpen(s)} = SpansOf({k \in Keys : run[k].open}) \ {NoSpan}
  <2>1. ASSUME NEW s \in Spans, IsOpen(s)
        PROVE  s \in SpansOf({k \in Keys : run[k].open}) \ {NoSpan}
    BY <2>1, ZeroIsNoSpan DEF IInv, OpenSpansHaveRuns, ClosedIsEmpty, SpansOf, IsOpen
  <2>2. ASSUME NEW s \in SpansOf({k \in Keys : run[k].open}) \ {NoSpan}
        PROVE  s \in Spans /\ IsOpen(s)
    BY <2>2 DEF IInv, RunsHaveOpenSpans, TypeOK, SpansOf, IsOpen
  <2> QED BY <2>1, <2>2
<1>2. \A k \in Keys : run[k].step # NoSpan =>
        run[k].root # NoSpan /\ span[run[k].step].parent = run[k].root
  BY DEF IInv, RunsHaveOpenSpans
<1>3. \A j, k \in Keys : j # k => SpansOf({j}) \cap SpansOf({k}) \subseteq {NoSpan}
  BY DEF IInv, RunsShareNoSpan, SpansOf
<1> QED BY <1>1, <1>2, <1>3 DEF Consistent, SpansAreTheRuns, IInv

LEMMA InitInv == Init => IInv
  BY WorkflowsAssumption, ZeroIsNoSpan
  DEF Init, IInv, TypeOK, ClosedIsEmpty, OpenSpansHaveRuns, RunsHaveOpenSpans, RunsShareNoSpan,
      RunsHaveSomebody, BudgetIsExact, Closed, Unused, IsOpen

-----------------------------------------------------------------------------
(* The steps *)

\* A mount that is there joins a run that is open: nothing else changes.
LEMMA JoinKeeps ==
  ASSUME IInv, NEW m \in Mounts, NEW k \in Keys, m \notin gone, run[k].open,
         run' = [run EXCEPT ![k] = Join(m, @)], UNCHANGED <<span, budgeted, gone>>
  PROVE  IInv'
<1> DEFINE r == run'
<1>1. /\ run'[k] = [run[k] EXCEPT !.participants = @ \cup {m}]
      /\ \A j \in Keys : j # k => run'[j] = run[j]
      /\ run' \in [Keys -> [open : BOOLEAN, root : Spans \cup {NoSpan}, step : Spans \cup {NoSpan},
                            participants : SUBSET Mounts]]
  BY DEF IInv, TypeOK, Join
<1>2. \A j \in Keys : /\ run'[j].open = run[j].open /\ run'[j].root = run[j].root
                      /\ run'[j].step = run[j].step
  BY <1>1 DEF IInv, TypeOK
<1>3. TypeOK'
  BY <1>1 DEF IInv, TypeOK
<1>4. ClosedIsEmpty' /\ OpenSpansHaveRuns' /\ RunsHaveOpenSpans' /\ RunsShareNoSpan'
  BY <1>2 DEF IInv, ClosedIsEmpty, OpenSpansHaveRuns, RunsHaveOpenSpans, RunsShareNoSpan
<1>5. RunsHaveSomebody'
  BY <1>1, <1>2 DEF IInv, RunsHaveSomebody, TypeOK
<1>6. BudgetIsExact'
  BY DEF IInv, BudgetIsExact, IsOpen
<1> QED BY <1>3, <1>4, <1>5, <1>6 DEF IInv

LEMMA ReadKeeps ==
  ASSUME IInv, NEW m \in Mounts, NEW k \in Keys, Read(m, k)
  PROVE  IInv'
  BY JoinKeeps DEF Read

\* What startSpan() does to spans and budgets of which nothing else is known.
LEMMA SpanStarts ==
  ASSUME NEW m \in Mounts, NEW parent, NEW ss, NEW bb, NEW s \in Spans \cup {NoSpan},
         s # NoSpan, StartSpan(m, parent, ss, bb, s)
  PROVE  /\ s \in Spans /\ ss[s].end = "unused"
         /\ span' = [ss EXCEPT ![s] = [owner |-> m, parent |-> parent, end |-> "open"]]
         /\ budgeted' = [bb EXCEPT ![m] = @ \cup {s}]
  BY DEF StartSpan, NewSpan

LEMMA StartKeeps ==
  ASSUME IInv, NEW m \in Mounts, NEW k \in Keys, Start(m, k)
  PROVE  IInv'
<1>1. CASE run[k].open
  BY <1>1, JoinKeeps DEF Start
<1>2. CASE ~run[k].open
  <2>1. PICK s \in Spans \cup {NoSpan} :
          /\ StartSpan(m, NoSpan, span, budgeted, s)
          /\ run' = [run EXCEPT ![k] =
                      [open |-> TRUE, root |-> s, step |-> NoSpan, participants |-> {m}]]
    BY <1>2 DEF Start
  <2>2. /\ m \notin gone /\ gone' = gone
        /\ run'[k] = [open |-> TRUE, root |-> s, step |-> NoSpan, participants |-> {m}]
        /\ \A j \in Keys : j # k => run'[j] = run[j]
        /\ run[k].root = NoSpan /\ run[k].step = NoSpan
        /\ run' \in [Keys -> [open : BOOLEAN, root : Spans \cup {NoSpan}, step : Spans \cup {NoSpan},
                              participants : SUBSET Mounts]]
    BY <1>2, <2>1 DEF Start, IInv, TypeOK, ClosedIsEmpty
  <2>3. RunsHaveSomebody'
    BY <2>2 DEF IInv, RunsHaveSomebody
  <2>4. CASE s = NoSpan
    <3>1. UNCHANGED <<span, budgeted>>
      BY <2>1, <2>4, ZeroIsNoSpan DEF StartSpan, NewSpan
    <3>2. TypeOK' /\ BudgetIsExact'
      BY <2>2, <3>1 DEF IInv, TypeOK, BudgetIsExact, IsOpen
    <3>3. OpenSpansHaveRuns'
      BY <2>2, <2>4, <3>1, ZeroIsNoSpan DEF IInv, OpenSpansHaveRuns
    <3>4. ClosedIsEmpty' /\ RunsHaveOpenSpans' /\ RunsShareNoSpan'
      BY <2>2, <2>4, <3>1 DEF IInv, ClosedIsEmpty, RunsHaveOpenSpans, RunsShareNoSpan
    <3> QED BY <2>3, <3>2, <3>3, <3>4 DEF IInv
  <2>5. CASE s # NoSpan
    <3>1. /\ s \in Spans /\ span[s].end = "unused"
          /\ span' = [span EXCEPT ![s] = [owner |-> m, parent |-> NoSpan, end |-> "open"]]
          /\ budgeted' = [budgeted EXCEPT ![m] = @ \cup {s}]
      BY <2>1, <2>5, SpanStarts
    <3>2. /\ span'[s] = [owner |-> m, parent |-> NoSpan, end |-> "open"]
          /\ \A t \in Spans : t # s => span'[t] = span[t]
          /\ \A n \in Mounts : budgeted'[n] = IF n = m THEN budgeted[m] \cup {s} ELSE budgeted[n]
      BY <3>1 DEF IInv, TypeOK
    <3>3. TypeOK'
      BY <2>2, <3>1 DEF IInv, TypeOK
    <3>4. \A j \in Keys : run[j].root # s /\ run[j].step # s
      BY <2>5, <3>1 DEF IInv, RunsHaveOpenSpans
    <3>5. ClosedIsEmpty' /\ RunsShareNoSpan'
      BY <2>2, <3>4 DEF IInv, ClosedIsEmpty, RunsShareNoSpan
    <3>6. OpenSpansHaveRuns'
      BY <2>2, <3>2 DEF IInv, OpenSpansHaveRuns
    <3>7. RunsHaveOpenSpans'
      BY <2>2, <3>2, <3>4 DEF IInv, RunsHaveOpenSpans, TypeOK
    <3>8. BudgetIsExact'
      BY <2>2, <3>1, <3>2 DEF IInv, BudgetIsExact, IsOpen
    <3> QED BY <2>3, <3>3, <3>5, <3>6, <3>7, <3>8 DEF IInv
  <2> QED BY <2>4, <2>5
<1> QED BY <1>1, <1>2

LEMMA StepKeeps ==
  ASSUME IInv, NEW m \in Mounts, NEW k \in Keys, Step(m, k)
  PROVE  IInv'
<1> DEFINE old == run[k].step
           ss  == Ends(span, old, "ended")
           bb  == Release(budgeted, {old})
<1>1. PICK s \in Spans \cup {NoSpan} :
        /\ run[k].root = NoSpan => s = NoSpan
        /\ StartSpan(m, run[k].root, ss, bb, s)
        /\ run' = [run EXCEPT ![k] = [Join(m, @) EXCEPT !.step = s]]
  BY DEF Step
<1>0. /\ m \notin gone /\ gone' = gone /\ run[k].open
      /\ gone \subseteq Mounts
      /\ run \in [Keys -> [open : BOOLEAN, root : Spans \cup {NoSpan}, step : Spans \cup {NoSpan},
                           participants : SUBSET Mounts]]
  BY DEF Step, IInv, TypeOK
<1>2. /\ m \notin gone /\ gone' = gone /\ run[k].open
      /\ \A j \in Keys : j # k => run'[j] = run[j]
      /\ run' \in [Keys -> [open : BOOLEAN, root : Spans \cup {NoSpan}, step : Spans \cup {NoSpan},
                            participants : SUBSET Mounts]]
  <2>1. [Join(m, run[k]) EXCEPT !.step = s] \in
          [open : BOOLEAN, root : Spans \cup {NoSpan}, step : Spans \cup {NoSpan},
           participants : SUBSET Mounts]
    BY <1>0 DEF Join
  <2> QED BY <1>0, <1>1, <2>1
<1>3. /\ run'[k].open /\ run'[k].root = run[k].root /\ run'[k].step = s
      /\ run'[k].participants = run[k].participants \cup {m}
  BY <1>0, <1>1 DEF Join
\* The spans and budgets once the current step has ended.
<1>4. /\ ss \in [Spans -> [owner : Mounts \cup {"none"}, parent : Spans \cup {NoSpan},
                           end : {"unused", "open", "ended", "abandoned"}]]
      /\ \A t \in Spans : /\ t # old => ss[t] = span[t]
                          /\ t = old => ss[t].end = "ended"
                          /\ ss[t].owner = span[t].owner /\ ss[t].parent = span[t].parent
  BY DEF IInv, TypeOK, RunsHaveOpenSpans, Ends
<1>5. /\ bb \in [Mounts -> SUBSET Spans]
      /\ \A n \in Mounts : bb[n] = {t \in Spans : n \notin gone /\ ss[t].owner = n /\ ss[t].end = "open"}
  <2>1. bb \in [Mounts -> SUBSET Spans] /\ \A n \in Mounts : bb[n] = budgeted[n] \ {old}
    BY DEF IInv, TypeOK, Release
  <2>2. ASSUME NEW n \in Mounts
        PROVE  bb[n] = {t \in Spans : n \notin gone /\ ss[t].owner = n /\ ss[t].end = "open"}
    <3> HIDE DEF ss, bb, old
    <3>1. budgeted[n] = {t \in Spans : n \notin gone /\ span[t].owner = n /\ span[t].end = "open"}
      BY ZeroIsNoSpan DEF IInv, BudgetIsExact, IsOpen
    <3> QED BY <2>1, <1>4, <3>1
  <2> QED BY <2>1, <2>2
<1> HIDE DEF ss, bb
\* No other run has the step that ended, and the run's root is not it.
<1>6. \A j \in Keys : /\ run[j].root # NoSpan => run[j].root # old
                      /\ j # k /\ run[j].step # NoSpan => run[j].step # old
  BY DEF IInv, ClosedIsEmpty, RunsShareNoSpan
<1>7. RunsHaveSomebody'
  BY <1>2, <1>3 DEF IInv, RunsHaveSomebody
<1>8. CASE s = NoSpan
  <2>1. span' = ss /\ budgeted' = bb
    BY <1>1, <1>8, ZeroIsNoSpan DEF StartSpan, NewSpan
  <2>2. TypeOK'
    BY <1>2, <1>4, <1>5, <2>1 DEF IInv, TypeOK
  <2>3. BudgetIsExact'
    BY <1>2, <1>5, <2>1, ZeroIsNoSpan DEF BudgetIsExact, IsOpen
  <2>4. ClosedIsEmpty' /\ RunsShareNoSpan'
    BY <1>2, <1>3, <1>8 DEF IInv, ClosedIsEmpty, RunsShareNoSpan
  <2>5. OpenSpansHaveRuns'
    BY <1>2, <1>3, <1>4, <2>1 DEF IInv, OpenSpansHaveRuns
  <2>6. RunsHaveOpenSpans'
    BY <1>2, <1>3, <1>4, <1>6, <1>8, <2>1 DEF IInv, RunsHaveOpenSpans, TypeOK
  <2> QED BY <1>7, <2>2, <2>3, <2>4, <2>5, <2>6 DEF IInv
<1>9. CASE s # NoSpan
  <2>1. /\ s \in Spans /\ ss[s].end = "unused"
        /\ span' = [ss EXCEPT ![s] = [owner |-> m, parent |-> run[k].root, end |-> "open"]]
        /\ budgeted' = [bb EXCEPT ![m] = @ \cup {s}]
    BY <1>1, <1>9, SpanStarts
  <2>2. /\ span'[s] = [owner |-> m, parent |-> run[k].root, end |-> "open"]
        /\ \A t \in Spans : t # s => span'[t] = ss[t]
        /\ \A n \in Mounts : budgeted'[n] = IF n = m THEN bb[m] \cup {s} ELSE bb[n]
    BY <2>1, <1>4, <1>5
  <2>3. s # old /\ span[s].end = "unused" /\ run[k].root # NoSpan
    BY <1>1, <1>4, <1>9, <2>1
  <2>4. \A j \in Keys : run[j].root # s /\ run[j].step # s
    BY <1>9, <2>3 DEF IInv, RunsHaveOpenSpans
  <2>5. TypeOK'
    BY <1>2, <1>4, <1>5, <2>1 DEF IInv, TypeOK
  <2>6. BudgetIsExact'
    BY <1>2, <1>5, <2>1, <2>2, ZeroIsNoSpan DEF BudgetIsExact, IsOpen
  <2>7. ClosedIsEmpty' /\ RunsShareNoSpan'
    BY <1>2, <1>3, <2>4 DEF IInv, ClosedIsEmpty, RunsShareNoSpan
  <2>8. OpenSpansHaveRuns'
    BY <1>2, <1>3, <1>4, <2>2 DEF IInv, OpenSpansHaveRuns
  <2>9. RunsHaveOpenSpans'
    BY <1>2, <1>3, <1>4, <1>6, <2>2, <2>3, <2>4 DEF IInv, RunsHaveOpenSpans, TypeOK
  <2> QED BY <1>7, <2>5, <2>6, <2>7, <2>8, <2>9 DEF IInv
<1> QED BY <1>8, <1>9

LEMMA EndKeeps ==
  ASSUME IInv, NEW m \in Mounts, NEW k \in Keys, End(m, k)
  PROVE  IInv'
<1> DEFINE its == {run[k].step, run[k].root}
<1>1. /\ gone' = gone /\ m \notin gone
      /\ run'[k] = Closed
      /\ \A j \in Keys : j # k => run'[j] = run[j]
      /\ run' \in [Keys -> [open : BOOLEAN, root : Spans \cup {NoSpan}, step : Spans \cup {NoSpan},
                            participants : SUBSET Mounts]]
  <2>1. Closed \in [open : BOOLEAN, root : Spans \cup {NoSpan}, step : Spans \cup {NoSpan},
                    participants : SUBSET Mounts]
    BY DEF Closed
  <2> QED BY <2>1 DEF End, IInv, TypeOK
<1>2. /\ run'[k].open = FALSE /\ run'[k].root = NoSpan /\ run'[k].step = NoSpan
      /\ run'[k].participants = {}
  BY <1>1 DEF Closed
<1>3. /\ span' \in [Spans -> [owner : Mounts \cup {"none"}, parent : Spans \cup {NoSpan},
                              end : {"unused", "open", "ended", "abandoned"}]]
      /\ \A t \in Spans : /\ t \notin its => span'[t] = span[t]
                          /\ t \in its => span'[t].end = "ended"
                          /\ span'[t].owner = span[t].owner
  <2> DEFINE ss == Ends(span, run[k].step, "ended")
  <2>1. /\ ss \in [Spans -> [owner : Mounts \cup {"none"}, parent : Spans \cup {NoSpan},
                             end : {"unused", "open", "ended", "abandoned"}]]
        /\ \A t \in Spans : /\ t # run[k].step => ss[t] = span[t]
                            /\ t = run[k].step => ss[t].end = "ended"
                            /\ ss[t].owner = span[t].owner
    BY DEF IInv, TypeOK, RunsHaveOpenSpans, Ends
  <2>2. span' = Ends(ss, run[k].root, "ended")
    BY DEF End
  <2>3. /\ run[k].root # NoSpan => span[run[k].root].end = "open" /\ run[k].root # run[k].step
        /\ run[k].root \in Spans \cup {NoSpan}
    BY DEF IInv, TypeOK, RunsHaveOpenSpans, ClosedIsEmpty
  <2> HIDE DEF ss
  <2>4. CASE run[k].root = NoSpan
    BY <2>1, <2>2, <2>4, ZeroIsNoSpan DEF Ends
  <2>5. CASE run[k].root # NoSpan
    <3>1. ss[run[k].root].end = "open"
      BY <2>1, <2>3, <2>5
    <3>2. span' = [ss EXCEPT ![run[k].root].end = "ended"]
      BY <2>2, <2>5, <3>1 DEF Ends
    <3> QED BY <2>1, <2>3, <2>5, <3>2
  <2> QED BY <2>4, <2>5
<1>4. budgeted' \in [Mounts -> SUBSET Spans] /\ \A n \in Mounts : budgeted'[n] = budgeted[n] \ its
  BY DEF End, IInv, TypeOK, Release
<1>5. \A j \in Keys : j # k =>
        /\ run[j].root # NoSpan => run[j].root \notin its
        /\ run[j].step # NoSpan => run[j].step \notin its
  BY DEF IInv, RunsShareNoSpan
<1>6. \A n \in Mounts : budgeted[n] = {t \in Spans : n \notin gone /\ span[t].owner = n /\ span[t].end = "open"}
  BY ZeroIsNoSpan DEF IInv, BudgetIsExact, IsOpen
<1>7. TypeOK'
  BY <1>1, <1>3, <1>4 DEF IInv, TypeOK
<1>8. ClosedIsEmpty' /\ RunsShareNoSpan'
  BY <1>1, <1>2 DEF IInv, ClosedIsEmpty, RunsShareNoSpan
<1>9. OpenSpansHaveRuns'
  BY <1>1, <1>3 DEF IInv, OpenSpansHaveRuns
<1>10. RunsHaveOpenSpans'
  BY <1>1, <1>2, <1>3, <1>5 DEF IInv, RunsHaveOpenSpans, TypeOK
<1>11. RunsHaveSomebody'
  BY <1>1, <1>2 DEF IInv, RunsHaveSomebody
<1>12. BudgetIsExact'
  BY <1>1, <1>3, <1>4, <1>6, ZeroIsNoSpan DEF BudgetIsExact, IsOpen
<1> QED BY <1>7, <1>8, <1>9, <1>10, <1>11, <1>12 DEF IInv

\* A disposal leaves the spans of the runs it does not leave empty as they are.
LEMMA OthersSpansStay ==
  ASSUME IInv, NEW m \in Mounts, Dispose(m), NEW k \in Keys, k \notin LeftEmpty(m)
  PROVE  /\ run[k].root # NoSpan => run[k].root \notin SpansOf(LeftEmpty(m))
         /\ run[k].step # NoSpan => run[k].step \notin SpansOf(LeftEmpty(m))
         /\ run'[k] = [run[k] EXCEPT !.participants = @ \ {m}]
         /\ \A s \in {run[k].root, run[k].step} \ {NoSpan} : span'[s] = span[s]
<1>1. /\ run[k].root # NoSpan => run[k].root \notin SpansOf(LeftEmpty(m))
      /\ run[k].step # NoSpan => run[k].step \notin SpansOf(LeftEmpty(m))
  BY DEF IInv, RunsShareNoSpan, SpansOf, LeftEmpty
<1>2. \A s \in {run[k].root, run[k].step} \ {NoSpan} : s \in Spans
  BY DEF IInv, TypeOK
<1>3. \A s \in {run[k].root, run[k].step} \ {NoSpan} : span'[s] = span[s]
  BY <1>1, <1>2 DEF Dispose, LeaveEnding
<1> QED BY <1>1, <1>3 DEF Dispose, LeaveEnding

LEMMA DisposeKeeps ==
  ASSUME IInv, NEW m \in Mounts, Dispose(m)
  PROVE  IInv'
<1> DEFINE theirs == SpansOf(LeftEmpty(m))
<1>1. gone' = gone \cup {m} /\ m \notin gone
  BY DEF Dispose, LeaveEnding
<1>2. \A j \in LeftEmpty(m) : /\ run'[j] = Closed /\ run'[j].open = FALSE /\ run'[j].root = NoSpan
                              /\ run'[j].step = NoSpan /\ run'[j].participants = {}
  BY DEF Dispose, LeaveEnding, Closed, LeftEmpty
<1>3. \A j \in Keys \ LeftEmpty(m) :
        /\ run'[j].open = run[j].open /\ run'[j].root = run[j].root /\ run'[j].step = run[j].step
        /\ run'[j].participants = run[j].participants \ {m}
  <2> SUFFICES ASSUME NEW j \in Keys, j \notin LeftEmpty(m)
               PROVE  /\ run'[j].open = run[j].open /\ run'[j].root = run[j].root
                      /\ run'[j].step = run[j].step
                      /\ run'[j].participants = run[j].participants \ {m}
    OBVIOUS
  <2>1. run'[j] = [run[j] EXCEPT !.participants = @ \ {m}]
    BY OthersSpansStay
  <2> QED BY <2>1 DEF IInv, TypeOK
<1>4. run' \in [Keys -> [open : BOOLEAN, root : Spans \cup {NoSpan}, step : Spans \cup {NoSpan},
                         participants : SUBSET Mounts]]
  <2>1. ASSUME NEW j \in Keys
        PROVE  (IF j \in LeftEmpty(m) THEN Closed ELSE [run[j] EXCEPT !.participants = @ \ {m}]) \in
                 [open : BOOLEAN, root : Spans \cup {NoSpan}, step : Spans \cup {NoSpan},
                  participants : SUBSET Mounts]
    BY DEF IInv, TypeOK, Closed
  <2> QED BY <2>1 DEF Dispose, LeaveEnding
<1>5. /\ span' \in [Spans -> [owner : Mounts \cup {"none"}, parent : Spans \cup {NoSpan},
                              end : {"unused", "open", "ended", "abandoned"}]]
      /\ \A t \in Spans : /\ t \notin theirs => span'[t] = span[t]
                          /\ t \in theirs => span'[t].end # "open"
                          /\ span'[t].owner = span[t].owner
  BY ZeroIsNoSpan DEF Dispose, LeaveEnding, IsOpen, IInv, TypeOK
<1>6. /\ budgeted' \in [Mounts -> SUBSET Spans] /\ budgeted'[m] = {}
      /\ \A n \in Mounts \ {m} : budgeted'[n] = budgeted[n] \ theirs
  BY DEF Dispose, LeaveEnding, IInv, TypeOK, Release
<1>7. \A n \in Mounts : budgeted[n] = {t \in Spans : n \notin gone /\ span[t].owner = n /\ span[t].end = "open"}
  BY ZeroIsNoSpan DEF IInv, BudgetIsExact, IsOpen
<1>8. TypeOK'
  BY <1>1, <1>4, <1>5, <1>6 DEF IInv, TypeOK
<1>9. ClosedIsEmpty' /\ RunsShareNoSpan'
  BY <1>2, <1>3 DEF IInv, ClosedIsEmpty, RunsShareNoSpan
<1>10. OpenSpansHaveRuns'
  <2> SUFFICES ASSUME NEW s \in Spans, span'[s].end = "open"
               PROVE  \E k \in Keys : run'[k].root = s \/ run'[k].step = s
    BY DEF OpenSpansHaveRuns
  <2>1. s \notin theirs /\ span[s].end = "open"
    BY <1>5
  <2>2. PICK k \in Keys : run[k].root = s \/ run[k].step = s
    BY <2>1 DEF IInv, OpenSpansHaveRuns
  <2>3. k \notin LeftEmpty(m)
    BY <2>1, <2>2 DEF SpansOf
  <2> QED BY <1>3, <2>2, <2>3
<1>11. RunsHaveOpenSpans'
  <2> SUFFICES ASSUME NEW k \in Keys
               PROVE  /\ run'[k].root # NoSpan => span'[run'[k].root].end = "open"
                      /\ run'[k].step # NoSpan => /\ span'[run'[k].step].end = "open"
                                                  /\ run'[k].root # NoSpan
                                                  /\ span'[run'[k].step].parent = run'[k].root
    BY DEF RunsHaveOpenSpans
  <2>1. CASE k \in LeftEmpty(m)
    BY <1>2, <2>1
  <2>2. CASE k \notin LeftEmpty(m)
    <3>1. \A s \in {run[k].root, run[k].step} \ {NoSpan} : span'[s] = span[s]
      BY <2>2, OthersSpansStay
    <3>2. /\ run'[k].root = run[k].root /\ run'[k].step = run[k].step
          /\ run[k].root # NoSpan => span'[run[k].root] = span[run[k].root]
          /\ run[k].step # NoSpan => span'[run[k].step] = span[run[k].step]
      BY <1>3, <2>2, <3>1
    <3> QED BY <3>2 DEF IInv, RunsHaveOpenSpans
  <2> QED BY <2>1, <2>2
<1>12. RunsHaveSomebody'
  <2> SUFFICES ASSUME NEW k \in Keys
               PROVE  /\ run'[k].open <=> run'[k].participants # {}
                      /\ run'[k].participants \cap gone' = {}
    BY DEF RunsHaveSomebody
  <2>1. CASE k \in LeftEmpty(m)
    BY <1>2, <2>1
  <2>2. CASE k \notin LeftEmpty(m)
    <3>1. run[k].participants # {m}
      BY <2>2 DEF LeftEmpty
    <3> QED BY <1>1, <1>3, <2>2, <3>1 DEF IInv, RunsHaveSomebody
  <2> QED BY <2>1, <2>2
<1>13. BudgetIsExact'
  BY <1>1, <1>5, <1>6, <1>7, ZeroIsNoSpan DEF BudgetIsExact, IsOpen
<1> QED BY <1>8, <1>9, <1>10, <1>11, <1>12, <1>13 DEF IInv

LEMMA StutterKeeps == ASSUME IInv, UNCHANGED vars PROVE IInv'
  BY DEF vars, IInv, TypeOK, ClosedIsEmpty, OpenSpansHaveRuns, RunsHaveOpenSpans, RunsShareNoSpan,
         RunsHaveSomebody, BudgetIsExact, IsOpen

LEMMA NextKeeps == IInv /\ [Next]_vars => IInv'
<1> SUFFICES ASSUME IInv, [Next]_vars PROVE IInv'
  OBVIOUS
<1>1. ASSUME NEW m \in Mounts, Dispose(m) PROVE IInv'
  BY <1>1, DisposeKeeps
<1>2. ASSUME NEW m \in Mounts, NEW k \in Keys, Start(m, k) PROVE IInv'
  BY <1>2, StartKeeps
<1>3. ASSUME NEW m \in Mounts, NEW k \in Keys, Step(m, k) PROVE IInv'
  BY <1>3, StepKeeps
<1>4. ASSUME NEW m \in Mounts, NEW k \in Keys, Read(m, k) PROVE IInv'
  BY <1>4, ReadKeeps
<1>5. ASSUME NEW m \in Mounts, NEW k \in Keys, End(m, k) PROVE IInv'
  BY <1>5, EndKeeps
<1> QED BY <1>1, <1>2, <1>3, <1>4, <1>5, StutterKeeps DEF Next

-----------------------------------------------------------------------------
(* What is shown *)

LEMMA Invariance == Spec => []IInv
<1>1. IInv /\ [Next]_vars => IInv'
  BY NextKeeps
<1> QED BY <1>1, InitInv, PTL DEF Spec

\* However many mounts share however many runs, the open spans are the roots and current steps of
\* the open runs, a run is open as long as somebody takes part in it, and budgets are exact (close,
\* leave, releaseSpan).
THEOREM NoSpanLeaks == Spec => []Consistent
<1>1. IInv => Consistent
  BY InvImpliesConsistent
<1> QED BY <1>1, Invariance, PTL

LEMMA DisposalLeavesOthers ==
  ASSUME IInv, [Next]_vars, NEW k \in Keys,
         gone' # gone, run[k].participants \cap (Mounts \ gone') # {}
  PROVE  /\ run'[k] = [run[k] EXCEPT !.participants = @ \ gone']
         /\ \A s \in {run[k].root, run[k].step} \ {NoSpan} : span'[s] = span[s]
<1>1. PICK m \in Mounts : Dispose(m)
  BY DEF Next, vars, Start, Step, Read, End
<1>2. gone' = gone \cup {m} /\ k \notin LeftEmpty(m)
  BY <1>1 DEF Dispose, LeaveEnding, LeftEmpty
<1>3. run[k].participants \ {m} = run[k].participants \ gone'
  BY <1>2 DEF IInv, RunsHaveSomebody
<1> QED BY <1>1, <1>2, <1>3, OthersSpansStay

\* A run that another mount takes part in goes on untouched when a mount is disposed (leave).
THEOREM DisposalSparesSharedRuns == Spec => RunsOutliveMounts
<1> DEFINE Spared ==
      \A k \in Keys :
        gone' # gone /\ run[k].participants \cap (Mounts \ gone') # {} =>
          /\ run'[k] = [run[k] EXCEPT !.participants = @ \ gone']
          /\ \A s \in {run[k].root, run[k].step} \ {NoSpan} : span'[s] = span[s]
<1>1. IInv /\ [Next]_vars => [Spared]_vars
  BY DisposalLeavesOthers
<1> HIDE DEF Spared
<1>2. Spec => [][Spared]_vars
  BY <1>1, Invariance, PTL DEF Spec
<1> QED BY <1>2 DEF Spared, RunsOutliveMounts

-----------------------------------------------------------------------------
(* SignIn *)

Sessions == {Gate!NoSession} \cup
              [family : 1 .. codes, serial : 1 .. MaxSerial, fresh : BOOLEAN]
Messages == [tab : {Gate!NoTab} \cup Tabs, by : Callers \cup {"gate"}, family : 1 .. codes,
             serial : 1 .. MaxSerial, answer : {"none", "yes", "no"}]

\* The pages without a lock, those where a caller may have a renewal under way, and those nobody
\* asks for a token.
Away     == {"closed", "away", "loading"}
Renewing == {"in", "leaving", "redirecting", "stuck"}
Idle     == Away \cup {"copy", "owner", "callback", "restoring"}

\* A lock is held under the tab's id, from its claim until the page goes.  Tabs with one
\* id are open, and at most one of them has claimed it.
LocksInv ==
  /\ \A t \in Tabs :
       /\ page[t] \in Away <=> held[t] = 0
       /\ held[t] # 0 => held[t] = id[t]
       /\ url[t] # 0 => page[t] \in {"loading", "callback", "closed"}
       /\ page[t] = "callback" => url[t] # 0
       /\ id[t] = 0 => session[t] = Gate!NoSession
  /\ \A t, u \in Tabs :
       t # u /\ id[t] = id[u] /\ id[t] # 0 =>
         /\ page[t] \notin {"closed", "away"} /\ url[t] = 0
         /\ page[t] = "loading" \/ page[u] = "loading"

\* A page has one renewal under way, with the session in its tab.
PostsInv ==
  /\ \A t \in Tabs : page[t] \in Idle => ~inFlight[t] /\ \A c \in Callers : calls[t][c] = "none"
  /\ \A p \in posts :
       IF p.tab = Gate!NoTab THEN p.family \in cut
       ELSE /\ IF p.by = "gate" THEN page[p.tab] = "restoring"
               ELSE page[p.tab] \in Renewing /\ inFlight[p.tab]
            /\ session[p.tab] # Gate!NoSession =>
                 session[p.tab].family = p.family /\ session[p.tab].serial = p.serial
  /\ \A p, q \in posts : p.tab = q.tab /\ p.tab # Gate!NoTab => p = q

\* A family a tab has, or may yet get by a renewal.
Claims(t, f) ==
  f # 0 /\ (session[t].family = f \/ \E p \in posts : p.tab = t /\ p.family = f)

\* Two tabs with a claim to one family have one id, or one of them has found that it is a copy.
FamiliesInv ==
  /\ \A t, u \in Tabs : \A f \in Gate!Families :
       t # u /\ Claims(t, f) /\ Claims(u, f) =>
         id[t] = id[u] \/ page[t] = "copy" \/ page[u] = "copy"
  /\ \A t \in Tabs : session[t].family \in used \cup {0}
  /\ \A p \in posts : p.family \in used
  /\ \A f \in Gate!Families : f \notin used => current[f] = 1

\* The tab that has its id's lock, or will get it.
Owns(t) == page[t] # "copy" /\ (held[t] # 0 \/ Gate!LockFree(id[t]))

\* Unless an answer got lost, the provider's present token of a family is its owner's, or
\* on its way.
TokensInv ==
  /\ \A t \in Tabs :
       Owns(t) /\ session[t] # Gate!NoSession /\ session[t].family \notin cut =>
         \/ session[t].serial = current[session[t].family]
         \/ \E p \in posts : p.tab = t /\ p.answer = "yes"
  /\ \A p \in posts :
       /\ p.answer = "yes" => p.serial < MaxSerial
       /\ p.family \notin cut =>
            /\ p.answer # "no"
            /\ current[p.family] = IF p.answer = "yes" THEN p.serial + 1 ELSE p.serial
  /\ revoked \subseteq cut

\* The invariant, where the browser has Web Locks and no page goes while a copy of it is still to
\* be told from it.
GateInv == HasLocks /\ ~CopyRaces /\ Gate!TypeOK /\ LocksInv /\ PostsInv /\ FamiliesInv /\ TokensInv

USE DEF Sessions, Messages

LEMMA GateInit == ASSUME HasLocks, ~CopyRaces, Gate!Init PROVE GateInv
<1>1. \A t \in Tabs : page[t] = "closed" /\ url[t] = 0 /\ id[t] = 0 /\ session[t] = Gate!NoSession
                      /\ held[t] = 0 /\ ~inFlight[t] /\ \A c \in Callers : calls[t][c] = "none"
  BY DEF Gate!Init
<1>2. Gate!TypeOK
  <2>1. /\ page \in [Tabs -> Gate!Going \cup Gate!Resting \cup {"closed"}]
             /\ url \in [Tabs -> 0 .. codes]
        /\ id \in [Tabs -> {0} \cup Gate!Ids] /\ held \in [Tabs -> {0} \cup Gate!Ids]
        /\ inFlight \in [Tabs -> BOOLEAN] /\ lost \in [Tabs -> BOOLEAN]
        /\ foreign \in [Tabs -> 0 .. codes]
    BY DEF Gate!Init
  <2>2. session \in [Tabs -> Sessions]
    BY DEF Gate!Init
  <2>3. calls \in [Tabs -> [Callers -> {"none", "reading", "leaving", "waiting"}]]
    BY DEF Gate!Init
  <2>4. rejected \in [Tabs -> [Callers -> 0 .. MaxSerial]]
    <3>1. 0 \in 0 .. MaxSerial
      BY GateAssumption DEF Gate!SignInAssumption
    <3> QED BY <3>1 DEF Gate!Init
  <2>5. current \in [Gate!Families -> 1 .. MaxSerial]
    <3>1. 1 \in 1 .. MaxSerial
      BY GateAssumption DEF Gate!SignInAssumption
    <3> QED BY <3>1 DEF Gate!Init
  <2> QED BY <2>1, <2>2, <2>3, <2>4, <2>5, GateAssumption DEF Gate!Init, Gate!TypeOK,
            Gate!SignInAssumption
<1>3. LocksInv
  BY <1>1 DEF LocksInv, Away
<1>4. PostsInv
  BY <1>1 DEF Gate!Init, PostsInv
<1>5. FamiliesInv
  BY <1>1 DEF Gate!Init, FamiliesInv, Claims, Gate!NoSession
<1>6. TokensInv
  BY <1>1 DEF Gate!Init, TokensInv
<1> QED BY <1>2, <1>3, <1>4, <1>5, <1>6 DEF GateInv

-----------------------------------------------------------------------------
(* Ids *)

\* The sets an instance counts are those of the module it is in.
LEMMA SameFinite == \A S : Gate!IsFiniteSet(S) <=> IsFiniteSet(S)
BY DEF Gate!IsFiniteSet, IsFiniteSet

LEMMA SameSize == \A S : Gate!Cardinality(S) = Cardinality(S)
BY DEF Gate!Cardinality, Cardinality

LEMMA LeastOf ==
  ASSUME NEW T, T \subseteq Nat, T # {}
  PROVE  \E x \in T : \A y \in T : x <= y
<1> DEFINE R == OpToRel(<, Nat)
<1>1. IsWellFoundedOn(R, Nat)
  BY NatLessThanWellFounded
<1>2. \A x, y \in Nat : x < y => <<x, y>> \in R
  BY DEF OpToRel
<1> HIDE DEF R
<1>3. PICK x \in T : \A y \in T : <<y, x>> \notin R
  BY <1>1, WFMin
<1>4. ASSUME NEW y \in T PROVE x <= y
  <2>1. x \in Nat /\ y \in Nat /\ ~(y < x)
    BY <1>2, <1>3
  <2> QED BY <2>1
<1> QED BY <1>4

\* There are more ids than tabs, and a page holds no other than its tab's.
LEMMA NewIdIsFree ==
  ASSUME GateInv
  PROVE  /\ Gate!NewId \in Gate!Ids /\ Gate!NewId # 0
         /\ \A t \in Tabs : id[t] # Gate!NewId /\ held[t] # Gate!NewId
<1> DEFINE N == Cardinality(Tabs)
<1>1. IsFiniteSet(Tabs) /\ N \in Nat
  BY GateAssumption, SameFinite, FS_CardinalityType DEF Gate!SignInAssumption
<1>2. Gate!Ids = 1 .. N + 1
  BY SameSize DEF Gate!Ids
<1> HIDE DEF N
<1>3. Gate!FreeIds # {}
  <2> SUFFICES ASSUME \A i \in 1 .. N + 1 : \E t \in Tabs : id[t] = i PROVE FALSE
    BY <1>2 DEF Gate!FreeIds, GateInv, LocksInv
  <2> DEFINE f == [i \in 1 .. N + 1 |-> CHOOSE t \in Tabs : id[t] = i]
  <2>1. \A i \in 1 .. N + 1 : f[i] \in Tabs /\ id[f[i]] = i
    OBVIOUS
  <2>2. f \in [1 .. N + 1 -> Tabs]
    BY <2>1
  <2>3. IsFiniteSet(1 .. N + 1) /\ Cardinality(1 .. N + 1) = N + 1
    BY <1>1, FS_Interval
  <2>4. Cardinality(Tabs) < Cardinality(1 .. N + 1)
    BY <1>1, <2>3 DEF N
  <2> HIDE DEF f
  <2>5. PICK i, j \in 1 .. N + 1 : i # j /\ f[i] = f[j]
    BY <1>1, <2>2, <2>3, <2>4, FS_PigeonHole
  <2> QED BY <2>1, <2>5
<1>4. Gate!FreeIds \subseteq Nat
  BY <1>1, <1>2 DEF Gate!FreeIds
<1>5. \E i \in Gate!FreeIds : \A j \in Gate!FreeIds : i <= j
  BY <1>3, <1>4, LeastOf
<1>6. Gate!NewId \in Gate!FreeIds
  BY <1>5 DEF Gate!NewId
<1> QED BY <1>1, <1>2, <1>6 DEF Gate!FreeIds

-----------------------------------------------------------------------------
(* The steps *)

LEMMA GateBounds ==
  /\ MaxSerial \in Nat \ {0} /\ MaxFamilies \in Nat /\ 0 \notin Tabs
  /\ 0 \notin Callers /\ "gate" \notin Callers
BY GateAssumption DEF Gate!SignInAssumption

LEMMA IdsAreNumbers == ASSUME GateInv PROVE \A t \in Tabs : id[t] \in Nat /\ held[t] \in Nat
<1>1. Gate!Ids \subseteq Nat
  BY GateAssumption, FS_CardinalityType DEF Gate!SignInAssumption, Gate!Ids
<1>2. \A t \in Tabs : id[t] \in {0} \cup Gate!Ids /\ held[t] \in {0} \cup Gate!Ids
  BY DEF GateInv, Gate!TypeOK
<1>3. \A i \in {0} \cup Gate!Ids : i \in Nat
  BY <1>1
<1> QED BY <1>2, <1>3

\* A session has a family that was handed out.
LEMMA SessionsHaveFamilies ==
  ASSUME GateInv, NEW t \in Tabs
  PROVE  /\ session[t] = Gate!NoSession <=> session[t].family = 0
         /\ session[t].family \in 0 .. codes
         /\ session[t] # Gate!NoSession =>
              /\ session[t] \in [family : 1 .. codes, serial : 1 .. MaxSerial, fresh : BOOLEAN]
              /\ session[t].family \in 1 .. codes /\ session[t].family \in Gate!Families
              /\ session[t].serial \in 1 .. MaxSerial
<1>1. codes \in 0 .. MaxFamilies
  BY DEF GateInv, Gate!TypeOK
<1>2. session[t] \in Sessions
  BY DEF GateInv, Gate!TypeOK
<1>3. CASE session[t] = Gate!NoSession
  BY <1>1, <1>3, GateBounds DEF Gate!NoSession
<1>4. CASE session[t] \in [family : 1 .. codes, serial : 1 .. MaxSerial, fresh : BOOLEAN]
  BY <1>1, <1>4, GateBounds DEF Gate!NoSession, Gate!Families
<1> QED BY <1>2, <1>3, <1>4

LEMMA PostsHaveFamilies ==
  ASSUME GateInv, NEW p \in posts
  PROVE  /\ p.family \in 1 .. codes /\ p.family \in Gate!Families /\ p.serial \in 1 .. MaxSerial
         /\ p.tab \in {0} \cup Tabs
<1>1. codes \in 0 .. MaxFamilies
  BY DEF GateInv, Gate!TypeOK
<1> QED BY <1>1, GateBounds DEF Gate!Families, GateInv, Gate!TypeOK, Gate!NoTab

\* A page that loads, has gone or is claiming its session has no renewal under way.
LEMMA IdleHasNoPosts ==
  ASSUME GateInv, NEW t \in Tabs, page[t] \in Away \cup {"copy", "owner", "callback"}
  PROVE  \A p \in posts : p.tab # t
BY GateBounds DEF GateInv, PostsInv, Renewing, Gate!NoTab, Away

LEMMA ClaimKeeps ==
  ASSUME GateInv, NEW t \in Tabs, Gate!Claim(t)
  PROVE  GateInv'
<1> USE DEF GateInv
<1>1. page[t] = "loading" /\ held[t] = 0 /\ \A p \in posts : p.tab # t
  BY IdleHasNoPosts DEF Gate!Claim, LocksInv, Away
<1>2. id[t] # 0 /\ ~Gate!LockFree(id[t]) => url[t] = 0
  BY <1>1 DEF LocksInv, Gate!LockFree
<1>3. PICK i \in Gate!Ids, q \in {"copy", "owner", "callback"} :
        /\ id' = [id EXCEPT ![t] = i] /\ held' = [held EXCEPT ![t] = i]
        /\ page' = [page EXCEPT ![t] = q] /\ (q = "callback" <=> url[t] # 0)
        /\ i # 0 /\ Gate!LockFree(i)
        /\ \/ id[t] = i /\ q # "copy"
           \/ id[t] # i /\ q # "copy" /\ id[t] = 0 /\ \A u \in Tabs : id[u] # i
           \/ id[t] # i /\ q = "copy" /\ \A u \in Tabs : id[u] # i
        /\ foreign' \in [Tabs -> 0 .. codes]
        /\ UNCHANGED <<url, session, Gate!source, posts, Gate!provider, cut>>
  <2>1. Gate!NewId \in Gate!Ids /\ Gate!NewId # 0 /\ Gate!LockFree(Gate!NewId)
          /\ \A u \in Tabs : id[u] # Gate!NewId
    BY NewIdIsFree DEF Gate!LockFree
  <2>2. id[t] # 0 => id[t] \in Gate!Ids
    BY DEF Gate!TypeOK
  <2>3. UNCHANGED <<url, session, Gate!source, posts, Gate!provider, cut>>
    BY DEF Gate!Claim
  <2>4. \A f \in 0 .. codes : [foreign EXCEPT ![t] = f] \in [Tabs -> 0 .. codes]
    BY DEF Gate!TypeOK
  <2>5. foreign \in [Tabs -> 0 .. codes] /\ session[t].family \in 0 .. codes
    BY SessionsHaveFamilies DEF Gate!TypeOK
  <2>6. CASE id[t] = 0
    BY <2>1, <2>3, <2>5, <2>6 DEF Gate!Claim, Gate!Own
  <2>7. CASE id[t] # 0 /\ Gate!LockFree(id[t])
    BY <2>2, <2>3, <2>5, <2>7 DEF Gate!Claim, Gate!Own
  <2>8. CASE id[t] # 0 /\ ~Gate!LockFree(id[t])
    BY <2>1, <2>3, <2>4, <2>5, <2>8, <1>2 DEF Gate!Claim
  <2> QED BY <2>6, <2>7, <2>8
<1> HIDE DEF GateInv
<1>4. Gate!TypeOK'
  BY <1>3 DEF GateInv, Gate!TypeOK, Gate!Going, Gate!Resting, Gate!source, Gate!provider, Gate!NoTab
<1>5. \A u \in Tabs : /\ id'[u] = IF u = t THEN i ELSE id[u]
                      /\ held'[u] = IF u = t THEN i ELSE held[u]
                      /\ page'[u] = IF u = t THEN q ELSE page[u]
  BY <1>3 DEF GateInv, Gate!TypeOK
<1>6. LocksInv'
  BY <1>1, <1>3, <1>5 DEF GateInv, LocksInv, Gate!LockFree, Away
<1>7. PostsInv'
  BY <1>1, <1>3, <1>5 DEF GateInv, PostsInv, Gate!source, Idle, Away, Renewing
<1>8. FamiliesInv'
  <2>1. \A u \in Tabs, f \in Gate!Families : Claims(u, f)' <=> Claims(u, f)
    BY <1>3 DEF Claims
  <2>2. id[t] = 0 => \A f \in Gate!Families : ~Claims(t, f)
    BY <1>1 DEF Claims, GateInv, LocksInv, Gate!NoSession
  <2> QED BY <2>1, <2>2, <1>1, <1>3, <1>5 DEF GateInv, FamiliesInv, Gate!provider
<1>9. TokensInv'
  <2>1. ASSUME NEW u \in Tabs, Owns(u)', session[u] # Gate!NoSession PROVE Owns(u)
    <3>1. id[u] # 0
      BY <2>1 DEF GateInv, LocksInv
    <3> QED BY <2>1, <3>1, <1>1, <1>3, <1>5 DEF Owns, Gate!LockFree
  <2> QED BY <2>1, <1>1, <1>3 DEF GateInv, TokensInv, Gate!provider
<1> QED BY <1>3, <1>4, <1>6, <1>7, <1>8, <1>9 DEF GateInv

\* What a page does to itself alone.
LEMMA PageKeeps ==
  ASSUME GateInv, Gate!TypeOK', NEW t \in Tabs, NEW q,
         page' = [page EXCEPT ![t] = q],
         UNCHANGED <<Gate!storage, held, Gate!source, posts, used, current, revoked, cut>>,
         \/ /\ <<page[t], q>> \in {<<"redirecting", "stuck">>, <<"stuck", "redirecting">>,
                                   <<"owner", "redirecting">>, <<"owner", "in">>,
                                   <<"closed", "loading">>, <<"away", "loading">>}
            /\ url' = url
         \/ page[t] = "away" /\ q = "loading" /\ \E i : i # 0 /\ url' = [url EXCEPT ![t] = i]
  PROVE  GateInv'
<1>1. \A u \in Tabs : page'[u] = IF u = t THEN q ELSE page[u]
  BY DEF GateInv, Gate!TypeOK
<1>2. \A u \in Tabs : u # t => url'[u] = url[u]
  BY DEF GateInv, Gate!TypeOK
<1>3. LocksInv'
  BY <1>1, <1>2 DEF GateInv, LocksInv, Gate!storage, Away
<1>4. PostsInv'
  BY <1>1, GateBounds DEF GateInv, PostsInv, Gate!storage, Gate!source, Idle, Away, Renewing,
    Gate!NoTab
<1>5. FamiliesInv'
  BY <1>1 DEF GateInv, FamiliesInv, Claims, Gate!storage
<1>6. TokensInv'
  <2>1. \A u \in Tabs : Owns(u)' => Owns(u)
    BY <1>1 DEF Owns, Gate!LockFree, Gate!storage
  <2> QED BY <2>1 DEF GateInv, TokensInv, Gate!storage
<1> QED BY <1>3, <1>4, <1>5, <1>6 DEF GateInv

\* A page lets go of a session that is a copy, or was lost.
LEMMA RemoveUserKeeps ==
  ASSUME GateInv, NEW t \in Tabs, Gate!DropCopy(t) \/ Gate!RemoveLost(t)
  PROVE  GateInv'
<1>1. /\ page[t] \in {"copy", "leaving"}
      /\ session' = [session EXCEPT ![t] = Gate!NoSession]
      /\ page' = [page EXCEPT ![t] = "redirecting"]
      /\ foreign' = foreign \/ foreign' = [foreign EXCEPT ![t] = 0]
      /\ UNCHANGED <<url, id, held, Gate!source, posts, Gate!provider, cut>>
  BY DEF Gate!DropCopy, Gate!RemoveLost, Gate!RemoveUser
<1>2. \A u \in Tabs : /\ page'[u] = IF u = t THEN "redirecting" ELSE page[u]
                      /\ session'[u] = IF u = t THEN Gate!NoSession ELSE session[u]
  BY <1>1 DEF GateInv, Gate!TypeOK
<1>3. page[t] = "copy" => \A p \in posts : p.tab # t
  BY IdleHasNoPosts
<1>4. Gate!TypeOK'
  <2>1. foreign' \in [Tabs -> 0 .. codes]
    BY <1>1, GateBounds DEF GateInv, Gate!TypeOK
  <2> QED BY <1>1, <2>1 DEF GateInv, Gate!TypeOK, Gate!Going, Gate!Resting, Gate!source,
            Gate!provider, Gate!NoTab
<1>5. LocksInv'
  BY <1>1, <1>2 DEF GateInv, LocksInv, Away
<1>6. PostsInv'
  BY <1>1, <1>2, GateBounds DEF GateInv, PostsInv, Gate!source, Idle, Away, Renewing, Gate!NoTab
<1>7. FamiliesInv'
  <2>1. \A u \in Tabs, f \in Gate!Families : Claims(u, f)' =>
          Claims(u, f) /\ (u # t \/ page[t] = "leaving")
    BY <1>1, <1>2, <1>3 DEF Claims, Gate!NoSession
  <2> QED BY <1>1, <1>2, <2>1 DEF GateInv, FamiliesInv, Gate!provider, Gate!NoSession
<1>8. TokensInv'
  <2>1. \A u \in Tabs : Owns(u)' /\ session'[u] # Gate!NoSession
          => Owns(u) /\ session'[u] = session[u]
    BY <1>1, <1>2 DEF Owns, Gate!LockFree
  <2> QED BY <1>1, <2>1 DEF GateInv, TokensInv, Gate!provider
<1> QED BY <1>4, <1>5, <1>6, <1>7, <1>8 DEF GateInv

\* A renewal goes out with the session in a tab that has claimed it.
LEMMA RenewalStarts ==
  ASSUME GateInv, Gate!TypeOK', NEW t \in Tabs, NEW by, NEW q,
         session[t] # Gate!NoSession, held[t] # 0, page[t] # "copy", \A p \in posts : p.tab # t,
         posts' = posts \cup {Gate!Post(t, by)}, page' = [page EXCEPT ![t] = q],
         UNCHANGED <<url, Gate!storage, held, Gate!provider, cut>>,
         \/ by = "gate" /\ page[t] = "owner" /\ q = "restoring" /\ UNCHANGED Gate!source
         \/ /\ by # "gate" /\ page[t] \in Renewing /\ q = page[t]
            /\ inFlight' = [inFlight EXCEPT ![t] = TRUE]
            /\ \A u \in Tabs, c \in Callers :
                 calls'[u][c] = "none" \/ u = t \/ calls'[u][c] = calls[u][c]
  PROVE  GateInv'
<1> DEFINE new == Gate!Post(t, by)
<1>1. \A u \in Tabs : page'[u] = IF u = t THEN q ELSE page[u]
  BY DEF GateInv, Gate!TypeOK
<1>2. /\ new.tab = t /\ new.by = by /\ new.family = session[t].family
      /\ new.serial = session[t].serial /\ new.answer = "none"
  BY DEF Gate!Post
<1> HIDE DEF new
<1>3. posts' = posts \cup {new} /\ t # Gate!NoTab
  BY GateBounds DEF new, Gate!NoTab
<1>4. LocksInv'
  BY <1>1 DEF GateInv, LocksInv, Gate!storage, Away, Renewing
<1>5. PostsInv'
  <2>1. \A u \in Tabs : page'[u] \in Idle
          => ~inFlight'[u] /\ \A c \in Callers : calls'[u][c] = "none"
    BY <1>1 DEF GateInv, Gate!TypeOK, PostsInv, Gate!source, Idle, Away, Renewing
  <2>2. \A p \in posts : p.tab # Gate!NoTab =>
          (p.by = "gate" => page'[p.tab] = page[p.tab]) /\ inFlight'[p.tab] = inFlight[p.tab]
          /\ page'[p.tab] = page[p.tab]
    BY <1>1, PostsHaveFamilies DEF GateInv, Gate!TypeOK, Gate!source, Gate!NoTab
  <2>3. /\ IF by = "gate" THEN page'[t] = "restoring" ELSE page'[t] \in Renewing /\ inFlight'[t]
    BY <1>1 DEF GateInv, Gate!TypeOK
  <2> QED BY <1>2, <1>3, <2>1, <2>2, <2>3 DEF GateInv, PostsInv, Gate!storage
<1>6. FamiliesInv'
  <2>1. \A u \in Tabs, f \in Gate!Families : Claims(u, f)' => Claims(u, f)
    BY <1>2, <1>3 DEF Claims, Gate!storage
  <2>2. new.family \in used
    BY <1>2, SessionsHaveFamilies DEF GateInv, FamiliesInv
  <2> QED BY <1>1, <1>3, <2>1, <2>2 DEF GateInv, FamiliesInv, Gate!storage, Gate!provider, Renewing
<1>7. TokensInv'
  <2>1. \A u \in Tabs : Owns(u)' => Owns(u)
    BY <1>1 DEF Owns, Gate!LockFree, Gate!storage
  <2>2. session[t].family \notin cut => session[t].serial = current[session[t].family]
    BY DEF GateInv, TokensInv, Owns
  <2> QED BY <1>2, <1>3, <2>1, <2>2 DEF GateInv, TokensInv, Gate!storage, Gate!provider
<1> QED BY <1>4, <1>5, <1>6, <1>7 DEF GateInv

LEMMA PostIsTyped ==
  ASSUME GateInv, NEW t \in Tabs, session[t] # Gate!NoSession, NEW by \in Callers \cup {"gate"}
  PROVE  Gate!Post(t, by) \in Messages
BY SessionsHaveFamilies DEF Gate!Post

LEMMA RestoreKeeps == ASSUME GateInv, NEW t \in Tabs, Gate!Restore(t) PROVE GateInv'
<1>1. CASE session[t] # Gate!NoSession /\ ~session[t].fresh
  <2>1. /\ page[t] = "owner" /\ page' = [page EXCEPT ![t] = "restoring"]
        /\ posts' = posts \cup {Gate!Post(t, "gate")}
        /\ UNCHANGED <<url, Gate!storage, held, Gate!source, Gate!provider, cut, foreign>>
    BY <1>1 DEF Gate!Restore
  <2>2. Gate!Post(t, "gate") \in Messages
        /\ Gate!Post(t, "gate").tab # Gate!NoTab
    BY <1>1, GateBounds, PostIsTyped DEF Gate!Post, Gate!NoTab
  <2>3. Gate!TypeOK'
    BY <2>1, <2>2 DEF GateInv, Gate!TypeOK, Gate!Going, Gate!storage, Gate!source, Gate!provider
  <2>4. held[t] # 0 /\ \A p \in posts : p.tab # t
    BY <2>1, IdleHasNoPosts DEF GateInv, LocksInv, Away
  <2> QED BY <1>1, <2>1, <2>3, <2>4, RenewalStarts
<1>2. CASE session[t] = Gate!NoSession \/ session[t].fresh
  <2>1. PICK q \in {"redirecting", "in"} :
          /\ page[t] = "owner" /\ page' = [page EXCEPT ![t] = q]
          /\ UNCHANGED <<posts, url, Gate!storage, held, Gate!source, Gate!provider, cut, foreign>>
    BY <1>2 DEF Gate!Restore, Gate!NoSession
  <2>2. Gate!TypeOK'
    BY <2>1 DEF GateInv, Gate!TypeOK, Gate!Going, Gate!Resting, Gate!storage, Gate!source,
      Gate!provider, Gate!NoTab
  <2> QED BY <2>1, <2>2, PageKeeps DEF Gate!provider
<1> QED BY <1>1, <1>2

\* A renewal is answered.
LEMMA RenewalEnds ==
  ASSUME GateInv, NEW p \in posts, p.tab # Gate!NoTab, p.answer # "none", NEW q,
         posts' = posts \ {p}, page' = [page EXCEPT ![p.tab] = q],
         UNCHANGED <<url, id, held, Gate!provider, cut, foreign>>,
         Gate!TypeOK',
         \/ p.answer = "yes" /\ Gate!Renew(p) /\ q = IF p.by = "gate" THEN "in" ELSE page[p.tab]
         \/ p.answer = "no" /\ p.by = "gate" /\ Gate!RemoveUser(p.tab)
         \/ p.answer = "no" /\ p.by # "gate" /\ UNCHANGED session /\ q \in {page[p.tab], "leaving"},
         IF p.by = "gate" THEN UNCHANGED Gate!source
         ELSE \A u \in Tabs : u # p.tab => inFlight'[u] = inFlight[u] /\ calls'[u] = calls[u]
  PROVE  GateInv'
<1> DEFINE t == p.tab
<1>1. t \in Tabs /\ page[t] \in {"restoring"} \cup Renewing /\ held[t] # 0 /\ id[t] # 0
      /\ (p.by = "gate" <=> page[t] = "restoring")
  BY PostsHaveFamilies DEF GateInv, PostsInv, LocksInv, Gate!NoTab, Away, Renewing
<1>2. q \in Renewing
  BY <1>1 DEF Gate!RemoveUser, Renewing, GateInv, Gate!TypeOK
<1> DEFINE told == [family |-> p.family, serial |-> p.serial + 1, fresh |-> TRUE]
<1>3. \A u \in Tabs : page'[u] = IF u = t THEN q ELSE page[u]
  BY DEF GateInv, Gate!TypeOK
<1>4. \A u \in Tabs : u # t => session'[u] = session[u]
  BY DEF GateInv, Gate!TypeOK, Gate!Renew, Gate!RemoveUser
<1>5. \/ p.answer = "yes" /\ session'[t] = told
      \/ p.answer = "no" /\ session'[t] \in {session[t], Gate!NoSession}
  BY <1>1 DEF GateInv, Gate!TypeOK, Gate!Renew, Gate!RemoveUser
<1>6. \A r \in posts' : r \in posts /\ r.tab # t
  BY DEF GateInv, PostsInv
<1>7. told.family = p.family /\ told.serial = p.serial + 1 /\ told # Gate!NoSession
  BY PostsHaveFamilies DEF Gate!NoSession
<1> HIDE DEF told
<1>8. LocksInv'
  BY <1>1, <1>2, <1>3, <1>4 DEF GateInv, LocksInv, Away, Renewing
<1>9. PostsInv'
  <2>1. \A u \in Tabs : page'[u] \in Idle => u # t /\ page[u] \in Idle
    BY <1>2, <1>3 DEF Idle, Away, Renewing
  <2>2. \A u \in Tabs : u # t => inFlight'[u] = inFlight[u] /\ calls'[u] = calls[u]
    BY DEF Gate!source
  <2>3. \A r \in posts' : r.tab # Gate!NoTab => r.tab \in Tabs
    BY <1>6, PostsHaveFamilies DEF Gate!NoTab
  <2> QED BY <1>3, <1>4, <1>6, <2>1, <2>2, <2>3 DEF GateInv, PostsInv
<1>10. FamiliesInv'
  <2>1. \A u \in Tabs, f \in Gate!Families : Claims(u, f)' => Claims(u, f)
    BY <1>4, <1>5, <1>6, <1>7 DEF Claims, Gate!NoSession
  <2>2. \A u \in Tabs : page'[u] = "copy" <=> page[u] = "copy"
    BY <1>1, <1>2, <1>3 DEF Renewing
  <2>3. session'[t].family \in used \cup {0}
    BY <1>5, <1>7, <1>1 DEF Gate!NoSession, GateInv, FamiliesInv
  <2> QED BY <1>4, <1>6, <2>1, <2>2, <2>3 DEF GateInv, FamiliesInv, Gate!provider
<1>11. TokensInv'
  <2>1. \A u \in Tabs : Owns(u)' <=> Owns(u)
    BY <1>1, <1>2, <1>3 DEF Owns, Gate!LockFree, Renewing
  <2>2. ASSUME session'[t] # Gate!NoSession, session'[t].family \notin cut
        PROVE  session'[t].serial = current[session'[t].family]
    <3>1. p.answer # "no"
      BY <1>1, <1>5, <1>7, <2>2 DEF GateInv, PostsInv, TokensInv
    <3> QED BY <1>5, <1>7, <2>2, <3>1 DEF GateInv, TokensInv
  <2>3. \A u \in Tabs : u # t => \A r \in posts : r.tab = u => r \in posts'
    OBVIOUS
  <2> QED BY <1>4, <1>6, <2>1, <2>2, <2>3 DEF GateInv, TokensInv, Gate!provider
<1> QED BY <1>8, <1>9, <1>10, <1>11 DEF GateInv

\* The library's answer has tokens a family can have.
LEMMA RenewedIsTyped ==
  ASSUME GateInv, NEW p \in posts, p.tab # Gate!NoTab, p.answer = "yes", Gate!Renew(p)
  PROVE  session' \in [Tabs -> Sessions]
<1>1. p.serial + 1 \in 1 .. MaxSerial /\ p.family \in 1 .. codes
  BY GateBounds, PostsHaveFamilies DEF GateInv, TokensInv
<1> QED BY <1>1 DEF Gate!Renew, GateInv, Gate!TypeOK

LEMMA RestoredKeeps == ASSUME GateInv, NEW p \in posts, Gate!Restored(p) PROVE GateInv'
<1>1. PICK q \in {"in", "redirecting"} :
        /\ page' = [page EXCEPT ![p.tab] = q]
        /\ \/ p.answer = "yes" /\ Gate!Renew(p) /\ q = "in"
           \/ p.answer = "no" /\ Gate!RemoveUser(p.tab)
  BY DEF Gate!Restored, Gate!RemoveUser
<1>2. session' \in [Tabs -> Sessions]
  BY <1>1, RenewedIsTyped DEF Gate!Restored, Gate!RemoveUser, GateInv, Gate!TypeOK
<1>3. Gate!TypeOK'
  BY <1>1, <1>2 DEF Gate!Restored, GateInv, Gate!TypeOK, Gate!Going, Gate!Resting, Gate!source,
    Gate!provider, Gate!NoTab
<1> QED BY <1>1, <1>3, RenewalEnds DEF Gate!Restored

LEMMA RenewedKeeps == ASSUME GateInv, NEW p \in posts, Gate!Renewed(p) PROVE GateInv'
<1>1. p.by # "gate" /\ p.tab \in Tabs
  BY GateBounds, PostsHaveFamilies DEF Gate!Renewed, Gate!NoTab
<1>2. PICK q :
        /\ page' = [page EXCEPT ![p.tab] = q]
        /\ \/ p.answer = "yes" /\ Gate!Renew(p) /\ q = page[p.tab]
           \/ p.answer = "no" /\ UNCHANGED session /\ q \in {page[p.tab], "leaving"}
  BY <1>1 DEF Gate!Renewed, Gate!RenewalFails, GateInv, Gate!TypeOK
<1>3. session' \in [Tabs -> Sessions]
  BY <1>2, RenewedIsTyped DEF Gate!Renewed, GateInv, Gate!TypeOK
<1>4. Gate!AnswerWaiting(p.tab)
  BY DEF Gate!Renewed, Gate!RenewalFails
<1>5. calls' \in [Tabs -> [Callers -> {"none", "reading", "leaving", "waiting"}]]
  BY <1>1, <1>4 DEF Gate!AnswerWaiting, GateInv, Gate!TypeOK
<1>6. page' \in [Tabs -> Gate!Going \cup Gate!Resting \cup {"closed"}]
  BY <1>1, <1>2 DEF GateInv, Gate!TypeOK, Gate!Going, Gate!Resting
<1>7. Gate!TypeOK'
  BY <1>3, <1>5, <1>6 DEF Gate!Renewed, Gate!RenewalFails, GateInv, Gate!TypeOK, Gate!provider,
    Gate!NoTab
<1>8. \A u \in Tabs : u # p.tab => inFlight'[u] = inFlight[u] /\ calls'[u] = calls[u]
  BY <1>4 DEF Gate!Renewed, Gate!AnswerWaiting, GateInv, Gate!TypeOK
<1> QED BY <1>1, <1>2, <1>7, <1>8, RenewalEnds DEF Gate!Renewed

LEMMA RedeemKeeps == ASSUME GateInv, NEW t \in Tabs, Gate!Redeem(t) PROVE GateInv'
<1> DEFINE begun == [family |-> url[t], serial |-> 1, fresh |-> TRUE]
<1>1. page[t] = "callback" /\ held[t] # 0 /\ id[t] # 0 /\ url[t] \in 1 .. codes
      /\ url[t] \in Gate!Families /\ \A p \in posts : p.tab # t
  <2>1. page[t] = "callback"
    BY DEF Gate!Redeem
  <2>2. held[t] # 0 /\ id[t] # 0 /\ url[t] # 0
    BY <2>1 DEF GateInv, LocksInv, Away
  <2>3. url[t] \in 0 .. codes /\ codes \in 0 .. MaxFamilies
    BY DEF GateInv, Gate!TypeOK
  <2>4. \A p \in posts : p.tab # t
    BY <2>1, IdleHasNoPosts
  <2> QED BY <2>1, <2>2, <2>3, <2>4, GateBounds DEF Gate!Families
<1>2. PICK q \in {"in", "stuck"} :
        /\ page' = [page EXCEPT ![t] = q]
        /\ \/ url[t] \notin used /\ session' = [session EXCEPT ![t] = begun]
           \/ session' = session
  BY DEF Gate!Redeem
<1>3. \A u \in Tabs : /\ page'[u] = IF u = t THEN q ELSE page[u]
                      /\ url'[u] = IF u = t THEN 0 ELSE url[u]
                      /\ u # t => session'[u] = session[u]
  <2>1. url' = [url EXCEPT ![t] = 0]
    BY DEF Gate!Redeem
  <2>2. page \in [Tabs -> Gate!Going \cup Gate!Resting \cup {"closed"}]
          /\ url \in [Tabs -> 0 .. codes]
        /\ session \in [Tabs -> Sessions]
    BY DEF GateInv, Gate!TypeOK
  <2> QED BY <1>2, <2>1, <2>2
<1>4. \/ session'[t] = session[t]
      \/ url[t] \notin used /\ session'[t] = begun
  <2>1. session \in [Tabs -> Sessions]
    BY DEF GateInv, Gate!TypeOK
  <2> QED BY <1>2, <2>1
<1>5. begun.family = url[t] /\ begun.serial = 1 /\ begun # Gate!NoSession
  BY <1>1 DEF Gate!NoSession
<1>6. Gate!TypeOK'
  <2>1. begun \in [family : 1 .. codes, serial : 1 .. MaxSerial, fresh : BOOLEAN]
    BY <1>1, GateBounds
  <2>2. session' \in [Tabs -> Sessions]
    BY <1>2, <2>1 DEF GateInv, Gate!TypeOK
  <2>3. url' \in [Tabs -> 0 .. codes]
          /\ page' \in [Tabs -> Gate!Going \cup Gate!Resting \cup {"closed"}]
    BY <1>2, GateBounds DEF Gate!Redeem, GateInv, Gate!TypeOK, Gate!Resting
  <2>4. used' \subseteq 1 .. codes
    BY <1>1 DEF Gate!Redeem, GateInv, Gate!TypeOK
  <2> QED BY <2>2, <2>3, <2>4 DEF Gate!Redeem, GateInv, Gate!TypeOK, Gate!source, Gate!NoTab
<1> HIDE DEF begun
<1>7. LocksInv'
  BY <1>1, <1>3 DEF Gate!Redeem, GateInv, LocksInv, Away
<1>8. PostsInv'
  <2>1. \A p \in posts : p.tab # Gate!NoTab => p.tab \in Tabs /\ p.tab # t
    BY <1>1, PostsHaveFamilies DEF Gate!NoTab
  <2>2. \A u \in Tabs : page'[u] \in Idle => page[u] \in Idle
    BY <1>3 DEF Idle, Away
  <2>3. \A p \in posts : p.tab # Gate!NoTab
          => page'[p.tab] = page[p.tab] /\ session'[p.tab] = session[p.tab]
    BY <1>3, <2>1
  <2>4. UNCHANGED <<Gate!source, posts, cut>>
    BY DEF Gate!Redeem
  <2> QED BY <2>2, <2>3, <2>4 DEF GateInv, PostsInv, Gate!source
<1>9. FamiliesInv'
  <2>1. \A u \in Tabs, f \in Gate!Families :
          Claims(u, f)' => Claims(u, f) \/ (u = t /\ f = url[t] /\ url[t] \notin used)
    BY <1>3, <1>4, <1>5 DEF Gate!Redeem, Claims
  <2>2. \A u \in Tabs, f \in Gate!Families : Claims(u, f) => f \in used
    BY DEF Claims, GateInv, FamiliesInv
  <2>3. \A u \in Tabs : page'[u] = "copy" <=> page[u] = "copy"
    BY <1>1, <1>3
  <2>4. \A u \in Tabs : session'[u].family \in used' \cup {0}
    BY <1>3, <1>4, <1>5 DEF Gate!Redeem, GateInv, FamiliesInv
  <2> QED BY <2>1, <2>2, <2>3, <2>4 DEF Gate!Redeem, GateInv, FamiliesInv
<1>10. TokensInv'
  <2>1. \A u \in Tabs : Owns(u)' => Owns(u)
    BY <1>1, <1>3 DEF Gate!Redeem, Owns, Gate!LockFree
  <2>2. url[t] \notin used => current[url[t]] = 1
    BY <1>1 DEF GateInv, FamiliesInv
  <2> QED BY <1>3, <1>4, <1>5, <2>1, <2>2 DEF Gate!Redeem, GateInv, TokensInv
<1> QED BY <1>6, <1>7, <1>8, <1>9, <1>10 DEF GateInv

\* What callers do that starts no renewal.
LEMMA CallersKeep ==
  ASSUME GateInv, Gate!TypeOK', NEW t \in Tabs,
         page[t] \notin Idle \/ \A c \in Callers : calls'[t][c] = "none",
         \A u \in Tabs : u # t => calls'[u] = calls[u],
         UNCHANGED <<page, url, Gate!storage, held, inFlight, posts, Gate!provider, cut>>
  PROVE  GateInv'
<1>1. LocksInv'
  BY DEF GateInv, LocksInv, Gate!storage
<1>2. PostsInv'
  BY DEF GateInv, PostsInv, Gate!storage
<1>3. FamiliesInv'
  BY DEF GateInv, FamiliesInv, Claims, Gate!storage, Gate!provider
<1>4. TokensInv'
  BY DEF GateInv, TokensInv, Owns, Gate!LockFree, Gate!storage, Gate!provider
<1> QED BY <1>1, <1>2, <1>3, <1>4 DEF GateInv

LEMMA CallIsSet ==
  ASSUME GateInv, NEW t \in Tabs, NEW c \in Callers, NEW s \in {"none", "reading", "leaving", "waiting"},
         Gate!SetCall(t, c, s)
  PROVE  /\ calls' \in [Tabs -> [Callers -> {"none", "reading", "leaving", "waiting"}]]
         /\ calls'[t] = [calls[t] EXCEPT ![c] = s]
         /\ \A u \in Tabs : u # t => calls'[u] = calls[u]
BY DEF Gate!SetCall, GateInv, Gate!TypeOK

LEMMA AskKeeps == ASSUME GateInv, NEW t \in Tabs, NEW c \in Callers, Gate!Ask(t, c) PROVE GateInv'
<1>1. /\ calls' \in [Tabs -> [Callers -> {"none", "reading", "leaving", "waiting"}]]
      /\ \A u \in Tabs : u # t => calls'[u] = calls[u]
  BY CallIsSet DEF Gate!Ask
<1>2. rejected' \in [Tabs -> [Callers -> 0 .. MaxSerial]]
  <2>1. PICK n \in {0, session[t].serial} : rejected' = [rejected EXCEPT ![t][c] = n]
    BY DEF Gate!Ask
  <2>2. n \in 0 .. MaxSerial
    BY GateBounds, SessionsHaveFamilies DEF Gate!NoSession
  <2> QED BY <2>1, <2>2 DEF GateInv, Gate!TypeOK
<1>3. Gate!TypeOK'
  BY <1>1, <1>2 DEF Gate!Ask, GateInv, Gate!TypeOK, Gate!storage, Gate!provider, Gate!NoTab
<1>4. page[t] \notin Idle
  BY DEF Gate!Ask, Idle, Away
<1> QED BY <1>1, <1>3, <1>4, CallersKeep DEF Gate!Ask

LEMMA LeaveKeeps ==
  ASSUME GateInv, NEW t \in Tabs, NEW c \in Callers, Gate!Leave(t, c) PROVE GateInv'
<1>1. /\ calls' \in [Tabs -> [Callers -> {"none", "reading", "leaving", "waiting"}]]
      /\ \A u \in Tabs : u # t => calls'[u] = calls[u]
  BY CallIsSet DEF Gate!Leave
<1>2. Gate!TypeOK'
  BY <1>1 DEF Gate!Leave, GateInv, Gate!TypeOK, Gate!storage, Gate!provider, Gate!NoTab
<1>3. page[t] \notin Idle
  BY DEF Gate!Leave, GateInv, PostsInv
<1> QED BY <1>1, <1>2, <1>3, CallersKeep DEF Gate!Leave

LEMMA TokenReadKeeps ==
  ASSUME GateInv, NEW t \in Tabs, NEW c \in Callers, Gate!Read(t, c) PROVE GateInv'
<1>1. page[t] \notin Idle
  BY DEF Gate!Read, GateInv, PostsInv
<1>2. PICK s \in {"none", "reading", "leaving", "waiting"} : Gate!SetCall(t, c, s)
  BY DEF Gate!Read, Gate!RenewOnce, Gate!Await
<1>3. /\ calls' \in [Tabs -> [Callers -> {"none", "reading", "leaving", "waiting"}]]
      /\ \A u \in Tabs : u # t => calls'[u] = calls[u]
  <2>1. \/ Gate!SetCall(t, c, "none") \/ Gate!SetCall(t, c, "reading")
        \/ Gate!SetCall(t, c, "leaving") \/ Gate!SetCall(t, c, "waiting")
    BY <1>2
  <2> QED BY <2>1, CallIsSet
<1>4. rejected' \in [Tabs -> [Callers -> 0 .. MaxSerial]]
  <2>1. 0 \in 0 .. MaxSerial
    BY GateBounds
  <2> QED BY <2>1 DEF Gate!Read, GateInv, Gate!TypeOK
<1>5. CASE UNCHANGED <<inFlight, lost, posts>>
  <2>1. Gate!TypeOK'
    BY <1>3, <1>4, <1>5 DEF Gate!Read, GateInv, Gate!TypeOK, Gate!storage, Gate!provider, Gate!NoTab
  <2> QED BY <1>1, <1>3, <1>5, <2>1, CallersKeep DEF Gate!Read
<1>6. CASE ~UNCHANGED <<inFlight, lost, posts>>
  <2>1. /\ ~inFlight[t] /\ session[t] # Gate!NoSession /\ posts' = posts \cup {Gate!Post(t, c)}
        /\ inFlight' = [inFlight EXCEPT ![t] = TRUE] /\ lost' = lost
    BY <1>6 DEF Gate!Read, Gate!RenewOnce
  <2>2. Gate!Post(t, c) \in Messages
        /\ Gate!Post(t, c).tab # Gate!NoTab
    BY <2>1, GateBounds, PostIsTyped DEF Gate!Post, Gate!NoTab
  <2>3. Gate!TypeOK'
    BY <1>3, <1>4, <2>1, <2>2 DEF Gate!Read, GateInv, Gate!TypeOK, Gate!storage, Gate!provider,
      Gate!NoTab
  <2>4. page[t] \in Renewing /\ page[t] # "copy" /\ held[t] # 0
    BY <1>1 DEF GateInv, Gate!TypeOK, LocksInv, Idle, Away, Renewing, Gate!Going, Gate!Resting
  <2>5. \A p \in posts : p.tab # t
    BY <1>1, <2>1, GateBounds DEF GateInv, PostsInv, Gate!NoTab, Idle
  <2>6. page' = [page EXCEPT ![t] = page[t]]
    BY DEF Gate!Read, GateInv, Gate!TypeOK
  <2>7. \A u \in Tabs, d \in Callers : calls'[u][d] = "none" \/ u = t \/ calls'[u][d] = calls[u][d]
    BY <1>3
  <2> QED BY GateBounds, <2>1, <2>3, <2>4, <2>5, <2>6, <2>7, RenewalStarts DEF Gate!Read
<1> QED BY <1>5, <1>6

-----------------------------------------------------------------------------
(* Pages that go *)

LEMMA UnloadKeeps ==
  ASSUME GateInv, NEW t \in Tabs, Gate!MayGo(t), Gate!Unload(t),
         NEW q \in {"away", "loading", "closed"},
         page' = [page EXCEPT ![t] = q],
         url[t] = 0 \/ q # "away",
         session' = session \/ session' = [session EXCEPT ![t] = Gate!NoSession],
         UNCHANGED <<url, id, Gate!provider, foreign>>
  PROVE  GateInv'
<1> DEFINE P == Messages
<1>0. posts \subseteq P
  BY DEF GateInv, Gate!TypeOK
<1>1. /\ page[t] # "copy" /\ \A u \in Tabs : u # t /\ id[t] # 0 => id[u] # id[t]
  BY DEF Gate!MayGo, Gate!Apart, GateInv
<1>2. \A u \in Tabs : /\ page'[u] = IF u = t THEN q ELSE page[u]
                      /\ held'[u] = IF u = t THEN 0 ELSE held[u]
                      /\ inFlight'[u] = IF u = t THEN FALSE ELSE inFlight[u]
                      /\ \A c \in Callers : calls'[u][c] = IF u = t THEN "none" ELSE calls[u][c]
  BY DEF Gate!Unload, GateInv, Gate!TypeOK
<1>3. \A u \in Tabs : session'[u] = session[u] \/ (u = t /\ session'[u] = Gate!NoSession)
  BY DEF GateInv, Gate!TypeOK
<1>4. cut \subseteq cut' /\ \A p \in posts : p.tab = t => p.family \in cut'
  BY DEF Gate!Unload
<1>5. \A p \in posts : p.tab # t => p \in posts'
  BY DEF Gate!Unload
<1>6. \A r \in posts' :
        \/ r \in posts /\ r.tab # t
        \/ r.tab = Gate!NoTab /\ r.answer = "none" /\ r.family \in cut' /\
           \E p \in posts : p.tab = t /\ r.family = p.family /\ r.serial = p.serial
  <2>1. \A p \in posts :
          /\ [p EXCEPT !.tab = Gate!NoTab].tab = Gate!NoTab
          /\ [p EXCEPT !.tab = Gate!NoTab].answer = p.answer
          /\ [p EXCEPT !.tab = Gate!NoTab].family = p.family
          /\ [p EXCEPT !.tab = Gate!NoTab].serial = p.serial
    BY <1>0
  <2>2. ASSUME NEW r \in posts' PROVE
          \/ r \in posts /\ r.tab # t
          \/ \E p \in posts : p.tab = t /\ p.answer = "none" /\ r = [p EXCEPT !.tab = Gate!NoTab]
    BY <2>2 DEF Gate!Unload
  <2>3. ASSUME NEW r \in posts', NEW p \in posts, p.tab = t, p.answer = "none",
          r = [p EXCEPT !.tab = Gate!NoTab]
        PROVE  /\ r.tab = Gate!NoTab /\ r.answer = "none" /\ r.family \in cut'
               /\ r.family = p.family /\ r.serial = p.serial
    BY <2>1, <2>3, <1>4
  <2> QED BY <2>2, <2>3
<1>7. Gate!TypeOK'
  <2>1. posts' \subseteq Messages
    <3>1. \A p \in posts : p \in P /\ [p EXCEPT !.tab = Gate!NoTab] \in P
      BY <1>0
    <3> HIDE DEF P
    <3>2. posts' \subseteq P
      BY <3>1 DEF Gate!Unload
    <3> QED BY <3>2 DEF P
  <2>2. cut' \subseteq 1 .. codes
    BY PostsHaveFamilies DEF Gate!Unload, GateInv, Gate!TypeOK
  <2>3. /\ calls' \in [Tabs -> [Callers -> {"none", "reading", "leaving", "waiting"}]]
        /\ inFlight' \in [Tabs -> BOOLEAN] /\ lost' \in [Tabs -> BOOLEAN]
        /\ held' \in [Tabs -> {0} \cup Gate!Ids]
    BY DEF Gate!Unload, GateInv, Gate!TypeOK
  <2>4. rejected' \in [Tabs -> [Callers -> 0 .. MaxSerial]]
    <3>1. 0 \in 0 .. MaxSerial
      BY GateBounds
    <3> QED BY <3>1 DEF Gate!Unload, GateInv, Gate!TypeOK
  <2>5. \A p \in posts' : p.tab = Gate!NoTab => p.answer = "none"
    BY <1>6 DEF GateInv, Gate!TypeOK
  <2>6. session' \in [Tabs -> Sessions]
    BY DEF GateInv, Gate!TypeOK
  <2>7. page' \in [Tabs -> Gate!Going \cup Gate!Resting \cup {"closed"}]
    BY DEF GateInv, Gate!TypeOK, Gate!Going, Gate!Resting
  <2> QED BY <2>1, <2>2, <2>3, <2>4, <2>5, <2>6, <2>7 DEF GateInv, Gate!TypeOK, Gate!provider
<1>8. LocksInv'
  <2>1. \A u \in Tabs :
          /\ page'[u] \in Away <=> held'[u] = 0
          /\ held'[u] # 0 => held'[u] = id'[u]
          /\ url'[u] # 0 => page'[u] \in {"loading", "callback", "closed"}
          /\ page'[u] = "callback" => url'[u] # 0
          /\ id'[u] = 0 => session'[u] = Gate!NoSession
    <3> SUFFICES ASSUME NEW u \in Tabs PROVE
          /\ page'[u] \in Away <=> held'[u] = 0
          /\ held'[u] # 0 => held'[u] = id'[u]
          /\ url'[u] # 0 => page'[u] \in {"loading", "callback", "closed"}
          /\ page'[u] = "callback" => url'[u] # 0
          /\ id'[u] = 0 => session'[u] = Gate!NoSession
      OBVIOUS
    <3>1. CASE u = t
      <4>1. page'[t] = q /\ held'[t] = 0 /\ url'[t] = url[t] /\ id'[t] = id[t] /\ q \in Away
        BY <1>2 DEF Away
      <4>2. url[t] # 0 => q \in {"loading", "closed"}
        OBVIOUS
      <4>3. id[t] = 0 => session'[t] = Gate!NoSession
        BY <1>3 DEF GateInv, LocksInv
      <4> QED BY <3>1, <4>1, <4>2, <4>3
    <3>2. CASE u # t
      <4>1. /\ page'[u] = page[u] /\ held'[u] = held[u] /\ url'[u] = url[u] /\ id'[u] = id[u]
            /\ session'[u] = session[u]
        BY <3>2, <1>2, <1>3
      <4>2. /\ page[u] \in Away <=> held[u] = 0
            /\ held[u] # 0 => held[u] = id[u]
            /\ url[u] # 0 => page[u] \in {"loading", "callback", "closed"}
            /\ page[u] = "callback" => url[u] # 0
            /\ id[u] = 0 => session[u] = Gate!NoSession
        BY DEF GateInv, LocksInv
      <4> QED BY <4>1, <4>2
    <3> QED BY <3>1, <3>2
  <2>2. ASSUME NEW u \in Tabs, NEW v \in Tabs, u # v, id[u] = id[v], id[u] # 0
        PROVE  /\ page'[u] \notin {"closed", "away"} /\ url'[u] = 0
               /\ page'[u] = "loading" \/ page'[v] = "loading"
    <3>1. u # t /\ v # t
      BY <1>1, <2>2
    <3> QED BY <1>2, <2>2, <3>1 DEF GateInv, LocksInv
  <2> QED BY <2>1, <2>2 DEF LocksInv
<1>9. PostsInv'
  <2>1. \A u \in Tabs : u # t => page'[u] = page[u] /\ inFlight'[u] = inFlight[u]
                                 /\ session'[u] = session[u]
                                 /\ \A c \in Callers : calls'[u][c] = calls[u][c]
    BY <1>2, <1>3
  <2>2. ~inFlight'[t] /\ \A c \in Callers : calls'[t][c] = "none"
    BY <1>2
  <2>3. \A r \in posts' : r.tab # Gate!NoTab => r \in posts /\ r.tab # t /\ r.tab \in Tabs
    BY <1>6, PostsHaveFamilies DEF Gate!NoTab
  <2>4. \A r \in posts' : r.tab = Gate!NoTab => r.family \in cut'
    BY <1>6, <1>4 DEF GateInv, PostsInv
  <2> QED BY <2>1, <2>2, <2>3, <2>4 DEF GateInv, PostsInv
<1>10. FamiliesInv'
  <2>1. \A u \in Tabs, f \in Gate!Families : Claims(u, f)' => Claims(u, f)
    BY <1>3, <1>6, GateBounds DEF Claims, Gate!NoSession, Gate!NoTab
  <2>2. \A r \in posts' : r.family \in used
    BY <1>6 DEF GateInv, FamiliesInv
  <2>3. \A u \in Tabs : page'[u] = "copy" <=> page[u] = "copy"
    BY <1>1, <1>2
  <2>4. \A u \in Tabs : session'[u].family \in used \cup {0}
    BY <1>3 DEF GateInv, FamiliesInv, Gate!NoSession
  <2> QED BY <2>1, <2>2, <2>3, <2>4 DEF GateInv, FamiliesInv, Gate!provider
<1>11. TokensInv'
  <2>1. ASSUME NEW u \in Tabs, Owns(u)', session'[u] # Gate!NoSession
        PROVE  Owns(u) /\ session'[u] = session[u]
    <3>1. session'[u] = session[u] /\ id[u] # 0
      BY <2>1, <1>3 DEF GateInv, LocksInv
    <3>2. held[t] # 0 => held[t] = id[t]
      BY DEF GateInv, LocksInv
    <3>3. page[u] # "copy"
      BY <2>1, <1>1, <1>2 DEF Owns
    <3>4. CASE held'[u] # 0
      BY <3>1, <3>3, <3>4, <1>2 DEF Owns
    <3>5. CASE held'[u] = 0
      <4>1. \A v \in Tabs : v # t => held[v] # id[u]
        BY <2>1, <3>5, <1>2 DEF Owns, Gate!LockFree
      <4>2. u = t \/ held[t] # id[u]
        BY <3>1, <3>2, <1>1
      <4>3. CASE held[t] = id[u]
        BY <3>1, <3>3, <4>2, <4>3 DEF Owns
      <4>4. CASE held[t] # id[u]
        BY <3>1, <3>3, <4>1, <4>4 DEF Owns, Gate!LockFree
      <4> QED BY <4>3, <4>4
    <3> QED BY <3>1, <3>4, <3>5
  <2>2. ASSUME NEW p \in posts, session[t] # Gate!NoSession, p.tab = t
        PROVE  session[t].family \in cut'
    BY <1>4, <2>2, GateBounds DEF GateInv, PostsInv, Gate!NoTab
  <2>3. \A u \in Tabs :
          Owns(u)' /\ session'[u] # Gate!NoSession /\ session'[u].family \notin cut' =>
            \/ session'[u].serial = current[session'[u].family]
            \/ \E p \in posts' : p.tab = u /\ p.answer = "yes"
    BY <1>4, <1>5, <2>1, <2>2 DEF GateInv, TokensInv
  <2>4. revoked \subseteq cut'
    BY <1>4 DEF GateInv, TokensInv
  <2>5. \A r \in posts' :
          /\ r.answer = "yes" => r.serial < MaxSerial
          /\ r.family \notin cut' =>
               /\ r.answer # "no"
               /\ current[r.family] = IF r.answer = "yes" THEN r.serial + 1 ELSE r.serial
    BY <1>4, <1>6 DEF GateInv, TokensInv
  <2> QED BY <2>3, <2>4, <2>5 DEF TokensInv, Gate!provider
<1> QED BY <1>7, <1>8, <1>9, <1>10, <1>11 DEF GateInv

LEMMA RedirectKeeps ==
  ASSUME GateInv, NEW t \in Tabs, Gate!Redirect(t) \/ Gate!SignInAgain(t)
  PROVE  GateInv'
<1>1. CASE page' = [page EXCEPT ![t] = "away"] /\ Gate!Unload(t)
  <2>1. page[t] = "redirecting" /\ Gate!MayGo(t)
          /\ UNCHANGED <<url, Gate!storage, Gate!provider, foreign>>
    BY <1>1 DEF Gate!Redirect, Gate!SignInAgain, GateInv, Gate!TypeOK
  <2>2. url[t] = 0
    BY <2>1 DEF GateInv, LocksInv
  <2> QED BY <1>1, <2>1, <2>2, UnloadKeeps DEF Gate!storage
<1>2. CASE ~(page' = [page EXCEPT ![t] = "away"] /\ Gate!Unload(t))
  <2>1. PICK q \in {"stuck", "redirecting"} :
          /\ page' = [page EXCEPT ![t] = q]
          /\ <<page[t], q>> \in {<<"redirecting", "stuck">>, <<"stuck", "redirecting">>}
          /\ UNCHANGED <<url, Gate!storage, held, Gate!source, posts, Gate!provider, cut, foreign>>
    BY <1>2 DEF Gate!Redirect, Gate!SignInAgain
  <2>2. Gate!TypeOK'
    BY <2>1 DEF GateInv, Gate!TypeOK, Gate!Going, Gate!Resting, Gate!storage, Gate!source,
      Gate!provider, Gate!NoTab
  <2> QED BY <2>1, <2>2, PageKeeps DEF Gate!provider
<1> QED BY <1>1, <1>2

LEMMA GoingKeeps ==
  ASSUME GateInv, NEW t \in Tabs, Gate!SignOut(t) \/ Gate!Reload(t) \/ Gate!Close(t)
  PROVE  GateInv'
<1>1. CASE Gate!SignOut(t)
  <2>1. url[t] = 0
    BY <1>1 DEF Gate!SignOut, GateInv, LocksInv
  <2> QED BY <1>1, <2>1, UnloadKeeps DEF Gate!SignOut
<1>2. CASE Gate!Reload(t) \/ Gate!Close(t)
  BY <1>2, UnloadKeeps DEF Gate!Reload, Gate!Close, Gate!storage
<1> QED BY <1>1, <1>2

-----------------------------------------------------------------------------
(* The provider and the browser *)

\* A family that no answer got lost of has one owner.
LEMMA OneOwner ==
  ASSUME GateInv, NEW t \in Tabs, NEW u \in Tabs, NEW f \in Gate!Families,
         Claims(t, f), Claims(u, f), page[t] # "copy", page[u] # "copy", held[t] # 0, Owns(u)
  PROVE  t = u
<1> SUFFICES ASSUME t # u PROVE FALSE
  OBVIOUS
<1>1. id[t] = id[u] /\ held[t] = id[t]
  BY DEF GateInv, FamiliesInv, LocksInv
<1>2. held[u] # 0
  BY <1>1 DEF Owns, Gate!LockFree
<1> QED BY <1>1, <1>2 DEF GateInv, LocksInv, Away

\* The tab of a renewal holds its lock.
LEMMA PostsAreOwned ==
  ASSUME GateInv, NEW p \in posts, p.tab # Gate!NoTab
  PROVE  /\ p.tab \in Tabs /\ page[p.tab] # "copy" /\ held[p.tab] # 0
         /\ Claims(p.tab, p.family)
<1>1. p.tab \in Tabs /\ p.family # 0
  BY PostsHaveFamilies, GateBounds DEF Gate!NoTab
<1> QED BY <1>1 DEF GateInv, PostsInv, LocksInv, Renewing, Away, Claims

LEMMA AnswerKeeps == ASSUME GateInv, NEW p \in posts, Gate!Answer(p) PROVE GateInv'
<1> DEFINE P    == Messages
           good == p.family \notin revoked /\ p.serial = current[p.family]
           answer == IF good THEN "yes" ELSE "no"
           told == [p EXCEPT !.answer = answer]
<1>1. /\ p.answer = "none"
      /\ good => p.serial < MaxSerial
      /\ posts' = (posts \ {p}) \cup (IF p.tab = Gate!NoTab THEN {} ELSE {told})
      /\ current' = IF good THEN [current EXCEPT ![p.family] = @ + 1] ELSE current
      /\ revoked' = IF p.serial # current[p.family] THEN revoked \cup {p.family} ELSE revoked
      /\ UNCHANGED <<page, url, Gate!storage, held, Gate!source, codes, used, cut, foreign>>
  BY DEF Gate!Answer
<1>2. p.family \in 1 .. codes /\ p.family \in Gate!Families /\ p.serial \in 1 .. MaxSerial
  BY PostsHaveFamilies
<1>3. p \in P
  BY DEF GateInv, Gate!TypeOK
<1>good. good <=> p.family \notin revoked /\ p.serial = current[p.family]
  OBVIOUS
<1>a. answer \in {"yes", "no"} /\ answer = IF good THEN "yes" ELSE "no"
  OBVIOUS
<1> HIDE DEF answer, good
<1>4. /\ told.tab = p.tab /\ told.by = p.by /\ told.family = p.family /\ told.serial = p.serial
      /\ told.answer = IF good THEN "yes" ELSE "no"
      /\ told \in P
  BY <1>3, <1>a
<1> HIDE DEF told
<1>5. \A f \in Gate!Families : f # p.family => current'[f] = current[f]
  BY <1>1 DEF GateInv, Gate!TypeOK
<1>6. good => current'[p.family] = p.serial + 1
  BY <1>1, <1>2, <1>good DEF GateInv, Gate!TypeOK
<1>7. ~good => current' = current
  BY <1>1
<1>8. p.family \notin cut => good /\ revoked' = revoked
  BY <1>1, <1>good DEF GateInv, TokensInv
<1>9. Gate!TypeOK'
  <2>1. current' \in [Gate!Families -> 1 .. MaxSerial]
    <3>1. good => p.serial + 1 \in 1 .. MaxSerial
      BY <1>1, <1>2, GateBounds
    <3> QED BY <1>1, <1>good, <3>1 DEF GateInv, Gate!TypeOK
  <2>2. posts' \subseteq P
    BY <1>1, <1>4 DEF GateInv, Gate!TypeOK
  <2>3. revoked' \subseteq 1 .. codes
    BY <1>1, <1>2 DEF GateInv, Gate!TypeOK
  <2>4. \A r \in posts' : r.tab = Gate!NoTab => r.answer = "none"
    BY <1>1, <1>4 DEF GateInv, Gate!TypeOK
  <2> QED BY <1>1, <2>1, <2>2, <2>3, <2>4 DEF GateInv, Gate!TypeOK, Gate!storage, Gate!source
<1> HIDE DEF P
<1>10. LocksInv'
  BY <1>1 DEF GateInv, LocksInv, Gate!storage
<1>11. PostsInv'
  BY <1>1, <1>4 DEF GateInv, PostsInv, Gate!storage, Gate!source
<1>12. FamiliesInv'
  <2>1. \A u \in Tabs, f \in Gate!Families : Claims(u, f)' => Claims(u, f)
    BY <1>1, <1>4 DEF Claims, Gate!storage
  <2>2. p.family \in used
    BY DEF GateInv, FamiliesInv
  <2> QED BY <1>1, <1>4, <1>5, <2>1, <2>2 DEF GateInv, FamiliesInv, Gate!storage
<1>13. TokensInv'
  <2>1. \A u \in Tabs : Owns(u)' <=> Owns(u)
    BY <1>1 DEF Owns, Gate!LockFree, Gate!storage
  <2>2. p.family \notin cut => p.tab # Gate!NoTab
    BY DEF GateInv, PostsInv
  <2>3. ASSUME NEW u \in Tabs, Owns(u), session[u] # Gate!NoSession, session[u].family \notin cut
        PROVE  \/ session[u].serial = current'[session[u].family]
               \/ \E r \in posts' : r.tab = u /\ r.answer = "yes"
    <3>1. session[u].family \in Gate!Families
      BY <2>3, SessionsHaveFamilies
    <3>2. CASE session[u].family # p.family
      <4>1. current'[session[u].family] = current[session[u].family]
        BY <3>1, <3>2, <1>5
      <4>2. \A r \in posts : r.answer = "yes" => r \in posts'
        BY <1>1
      <4> QED BY <2>3, <4>1, <4>2 DEF GateInv, TokensInv
    <3>3. CASE session[u].family = p.family
      <4>1. good /\ p.tab # Gate!NoTab
        BY <2>2, <2>3, <3>3, <1>8
      <4>2. Claims(u, p.family) /\ page[u] # "copy"
        BY <2>3, <3>3, <1>2 DEF Claims, Owns
      <4>3. u = p.tab
        BY <2>3, <4>1, <4>2, <1>2, OneOwner, PostsAreOwned
      <4> QED BY <1>1, <1>4, <4>1, <4>3
    <3> QED BY <3>2, <3>3
  <2>4. ASSUME NEW r \in posts'
        PROVE  /\ r.answer = "yes" => r.serial < MaxSerial
               /\ r.family \notin cut =>
                    /\ r.answer # "no"
                    /\ current'[r.family] = IF r.answer = "yes" THEN r.serial + 1 ELSE r.serial
    <3>1. CASE r = told
      BY <3>1, <1>1, <1>4, <1>6, <1>8
    <3>2. CASE r \in posts /\ r # p
      <4>1. r.family \in Gate!Families
        BY <3>2, PostsHaveFamilies
      <4>2. r.family = p.family => r.family \in cut
        <5> SUFFICES ASSUME r.family = p.family, r.family \notin cut PROVE FALSE
          OBVIOUS
        <5>1. r.tab # Gate!NoTab /\ p.tab # Gate!NoTab
          BY <3>2 DEF GateInv, PostsInv
        <5>2. r.tab = p.tab
          <6>1. /\ p.tab \in Tabs /\ page[p.tab] # "copy" /\ held[p.tab] # 0
                /\ Claims(p.tab, p.family)
            BY <5>1, PostsAreOwned
          <6>2. /\ r.tab \in Tabs /\ page[r.tab] # "copy" /\ held[r.tab] # 0
                /\ Claims(r.tab, p.family)
            BY <3>2, <5>1, PostsAreOwned
          <6>3. Owns(r.tab)
            BY <6>2 DEF Owns
          <6> QED BY <6>1, <6>2, <6>3, <1>2, OneOwner
        <5> QED BY <3>2, <5>1, <5>2 DEF GateInv, PostsInv
      <4>3. r.family \notin cut => current'[r.family] = current[r.family]
        BY <4>1, <4>2, <1>5
      <4> QED BY <3>2, <4>3 DEF GateInv, TokensInv
    <3> QED BY <1>1, <3>1, <3>2
  <2>5. revoked' \subseteq cut
    BY <1>1, <1>8 DEF GateInv, TokensInv
  <2>6. UNCHANGED <<session, cut>>
    BY <1>1 DEF Gate!storage
  <2> QED BY <2>1, <2>3, <2>4, <2>5, <2>6 DEF TokensInv
<1> QED BY <1>9, <1>10, <1>11, <1>12, <1>13 DEF GateInv

LEMMA BreakKeeps == ASSUME GateInv, NEW p \in posts, Gate!Break(p) PROVE GateInv'
<1> DEFINE P    == Messages
           told == [p EXCEPT !.answer = "no"]
<1>1. /\ p.tab # Gate!NoTab /\ posts' = (posts \ {p}) \cup {told} /\ cut' = cut \cup {p.family}
      /\ UNCHANGED <<page, url, Gate!storage, held, Gate!source, Gate!provider, foreign>>
  BY DEF Gate!Break
<1>2. p \in P
  BY DEF GateInv, Gate!TypeOK
<1>3. /\ told.tab = p.tab /\ told.by = p.by /\ told.family = p.family /\ told.serial = p.serial
      /\ told.answer = "no" /\ told \in P
  BY <1>2
<1> HIDE DEF told
<1>4. Gate!TypeOK'
  <2>1. posts' \subseteq P
    BY <1>1, <1>3 DEF GateInv, Gate!TypeOK
  <2>2. \A r \in posts' : r.tab = Gate!NoTab => r.answer = "none"
    BY <1>1, <1>3 DEF GateInv, Gate!TypeOK
  <2>3. cut' \subseteq 1 .. codes
    BY <1>1, PostsHaveFamilies DEF GateInv, Gate!TypeOK
  <2> QED BY <1>1, <2>1, <2>2, <2>3 DEF GateInv, Gate!TypeOK, Gate!storage, Gate!source,
            Gate!provider
<1>5. LocksInv'
  BY <1>1 DEF GateInv, LocksInv, Gate!storage
<1>6. PostsInv'
  BY <1>1, <1>3 DEF GateInv, PostsInv, Gate!storage, Gate!source
<1>7. FamiliesInv'
  <2>1. \A u \in Tabs, f \in Gate!Families : Claims(u, f)' => Claims(u, f)
    BY <1>1, <1>3 DEF Claims, Gate!storage
  <2>2. p.family \in used
    BY DEF GateInv, FamiliesInv
  <2> QED BY <1>1, <1>3, <2>1, <2>2 DEF GateInv, FamiliesInv, Gate!storage, Gate!provider
<1>8. TokensInv'
  <2>1. \A u \in Tabs : Owns(u)' <=> Owns(u)
    BY <1>1 DEF Owns, Gate!LockFree, Gate!storage
  <2>2. ASSUME NEW u \in Tabs, session[u] # Gate!NoSession, session[u].family \notin cut', p.tab = u
        PROVE  FALSE
    BY <1>1, <2>2 DEF GateInv, PostsInv
  <2>3. ASSUME NEW r \in posts' PROVE r = told \/ r \in posts
    BY <1>1
  <2> QED BY <1>1, <1>3, <2>1, <2>2, <2>3 DEF GateInv, TokensInv, Gate!storage, Gate!provider
<1> QED BY <1>4, <1>5, <1>6, <1>7, <1>8 DEF GateInv

LEMMA ComingKeeps == ASSUME GateInv, NEW t \in Tabs, Gate!Return(t) \/ Gate!Reopen(t) PROVE GateInv'
<1> DEFINE P(n) == [tab : {Gate!NoTab} \cup Tabs, by : Callers \cup {"gate"}, family : 1 .. n,
                    serial : 1 .. MaxSerial, answer : {"none", "yes", "no"}]
           S(n) == {Gate!NoSession} \cup [family : 1 .. n, serial : 1 .. MaxSerial, fresh : BOOLEAN]
<1>1. /\ page[t] \in {"away", "closed"} /\ page' = [page EXCEPT ![t] = "loading"]
      /\ UNCHANGED <<Gate!storage, held, Gate!source, posts, used, current, revoked, cut, foreign>>
  BY DEF Gate!Return, Gate!Reopen, Gate!provider
<1>2. \/ codes' = codes /\ url' = url
      \/ /\ page[t] = "away" /\ codes < MaxFamilies /\ codes' = codes + 1
         /\ url' = [url EXCEPT ![t] = codes + 1]
  BY DEF Gate!Return, Gate!Reopen, Gate!provider
<1>3. codes \in 0 .. MaxFamilies /\ codes' \in 0 .. MaxFamilies /\ codes <= codes'
  <2>1. codes \in 0 .. MaxFamilies
    BY DEF GateInv, Gate!TypeOK
  <2> QED BY <1>2, <2>1, GateBounds
<1>4. 0 .. codes \subseteq 0 .. codes' /\ 1 .. codes \subseteq 1 .. codes'
  BY <1>3, GateBounds
<1>5. Gate!TypeOK'
  <2>1. url' \in [Tabs -> 0 .. codes']
    <3>1. url \in [Tabs -> 0 .. codes]
      BY DEF GateInv, Gate!TypeOK
    <3>2. url \in [Tabs -> 0 .. codes']
      BY <3>1, <1>4
    <3>3. codes' = codes + 1 => codes + 1 \in 0 .. codes'
      BY <1>3, GateBounds
    <3>4. CASE url' = url
      BY <3>2, <3>4
    <3>5. CASE codes' = codes + 1 /\ url' = [url EXCEPT ![t] = codes + 1]
      BY <3>2, <3>3, <3>5
    <3> QED BY <1>2, <3>4, <3>5
  <2>2. session' \in [Tabs -> S(codes')]
    <3>1. session \in [Tabs -> S(codes)]
      BY DEF GateInv, Gate!TypeOK
    <3>2. S(codes) \subseteq S(codes')
      BY <1>4
    <3> HIDE DEF S
    <3>3. session' = session
      BY <1>1 DEF Gate!storage
    <3> QED BY <3>1, <3>2, <3>3
  <2>3. posts' \subseteq P(codes')
    <3>1. posts \subseteq P(codes)
      BY DEF GateInv, Gate!TypeOK
    <3>2. P(codes) \subseteq P(codes')
      BY <1>4
    <3> HIDE DEF P
    <3> QED BY <1>1, <3>1, <3>2
  <2>4. /\ used' \subseteq 1 .. codes' /\ revoked' \subseteq 1 .. codes'
             /\ cut' \subseteq 1 .. codes'
    BY <1>1, <1>4 DEF GateInv, Gate!TypeOK
  <2>5. foreign' \in [Tabs -> 0 .. codes']
    BY <1>1, <1>4 DEF GateInv, Gate!TypeOK
  <2>6. page' \in [Tabs -> Gate!Going \cup Gate!Resting \cup {"closed"}]
    BY <1>1 DEF GateInv, Gate!TypeOK, Gate!Going
  <2> QED BY <1>1, <1>3, <2>1, <2>2, <2>3, <2>4, <2>5, <2>6 DEF GateInv, Gate!TypeOK,
            Gate!storage, Gate!source
<1>6. codes + 1 # 0
  BY <1>3, GateBounds
<1>7. CASE page[t] = "away" /\ url' # url
  BY <1>1, <1>2, <1>5, <1>6, <1>7, PageKeeps
<1>8. CASE url' = url
  BY <1>1, <1>5, <1>8, PageKeeps
<1> QED BY <1>2, <1>7, <1>8

LEMMA OpenNewKeeps == ASSUME GateInv, NEW t \in Tabs, Gate!OpenNew(t) PROVE GateInv'
<1>1. /\ page[t] = "closed" /\ page' = [page EXCEPT ![t] = "loading"]
      /\ url' = [url EXCEPT ![t] = 0] /\ id' = [id EXCEPT ![t] = 0]
      /\ session' = [session EXCEPT ![t] = Gate!NoSession] /\ foreign' = [foreign EXCEPT ![t] = 0]
      /\ UNCHANGED <<held, Gate!source, posts, Gate!provider, cut>>
  BY DEF Gate!OpenNew
<1>2. \A u \in Tabs : /\ page'[u] = IF u = t THEN "loading" ELSE page[u]
                      /\ url'[u] = IF u = t THEN 0 ELSE url[u]
                      /\ id'[u] = IF u = t THEN 0 ELSE id[u]
                      /\ session'[u] = IF u = t THEN Gate!NoSession ELSE session[u]
  BY <1>1 DEF GateInv, Gate!TypeOK
<1>3. held[t] = 0 /\ \A p \in posts : p.tab # t
  BY <1>1, IdleHasNoPosts DEF GateInv, LocksInv, Away
<1>4. Gate!TypeOK'
  <2>1. url' \in [Tabs -> 0 .. codes] /\ foreign' \in [Tabs -> 0 .. codes]
    <3>1. 0 \in 0 .. codes
      BY GateBounds DEF GateInv, Gate!TypeOK
    <3> QED BY <1>1, <3>1 DEF GateInv, Gate!TypeOK
  <2>2. id' \in [Tabs -> {0} \cup Gate!Ids]
          /\ page' \in [Tabs -> Gate!Going \cup Gate!Resting \cup {"closed"}]
    BY <1>1 DEF GateInv, Gate!TypeOK, Gate!Going
  <2>3. session' \in [Tabs -> Sessions]
    BY <1>1 DEF GateInv, Gate!TypeOK
  <2> QED BY <1>1, <2>1, <2>2, <2>3 DEF GateInv, Gate!TypeOK, Gate!source, Gate!provider
<1>5. LocksInv'
  BY <1>1, <1>2, <1>3 DEF GateInv, LocksInv, Away
<1>6. PostsInv'
  <2>1. \A p \in posts : p.tab # Gate!NoTab => p.tab \in Tabs /\ p.tab # t
    BY <1>3, PostsHaveFamilies DEF Gate!NoTab
  <2>2. \A p \in posts : p.tab # Gate!NoTab
          => page'[p.tab] = page[p.tab] /\ session'[p.tab] = session[p.tab]
    BY <1>2, <2>1
  <2>3. \A u \in Tabs : page'[u] \in Idle => page[u] \in Idle
    BY <1>1, <1>2 DEF Idle, Away
  <2> QED BY <1>1, <2>2, <2>3 DEF GateInv, PostsInv, Gate!source
<1>7. FamiliesInv'
  <2>1. \A u \in Tabs, f \in Gate!Families : Claims(u, f)' => u # t /\ Claims(u, f)
    BY <1>1, <1>2, <1>3 DEF Claims, Gate!NoSession
  <2> QED BY <1>1, <1>2, <2>1 DEF GateInv, FamiliesInv, Gate!provider, Gate!NoSession
<1>8. TokensInv'
  <2>1. \A u \in Tabs : Owns(u)' /\ session'[u] # Gate!NoSession
          => Owns(u) /\ session'[u] = session[u]
    BY <1>1, <1>2 DEF Owns, Gate!LockFree
  <2> QED BY <1>1, <2>1 DEF GateInv, TokensInv, Gate!provider
<1> QED BY <1>4, <1>5, <1>6, <1>7, <1>8 DEF GateInv

LEMMA DuplicateKeeps ==
  ASSUME GateInv, NEW t \in Tabs, NEW u \in Tabs, Gate!Duplicate(t, u)
  PROVE  GateInv'
<1>1. /\ page[t] \notin {"copy", "away", "closed"} /\ url[t] = 0 /\ page[u] = "closed" /\ t # u
      /\ page' = [page EXCEPT ![u] = "loading"] /\ url' = [url EXCEPT ![u] = 0]
      /\ id' = [id EXCEPT ![u] = id[t]] /\ session' = [session EXCEPT ![u] = session[t]]
      /\ foreign' = [foreign EXCEPT ![u] = 0]
      /\ UNCHANGED <<held, Gate!source, posts, Gate!provider, cut>>
  BY DEF Gate!Duplicate, Gate!Open, Gate!Going, Gate!Resting, GateInv
<1>2. \A v \in Tabs : /\ page'[v] = IF v = u THEN "loading" ELSE page[v]
                      /\ url'[v] = IF v = u THEN 0 ELSE url[v]
                      /\ id'[v] = IF v = u THEN id[t] ELSE id[v]
                      /\ session'[v] = IF v = u THEN session[t] ELSE session[v]
  BY <1>1 DEF GateInv, Gate!TypeOK
<1>3. held[u] = 0 /\ \A p \in posts : p.tab # u
  BY <1>1, IdleHasNoPosts DEF GateInv, LocksInv, Away
<1>4. Gate!TypeOK'
  <2>1. url' \in [Tabs -> 0 .. codes] /\ foreign' \in [Tabs -> 0 .. codes]
    <3>1. 0 \in 0 .. codes
      BY GateBounds DEF GateInv, Gate!TypeOK
    <3> QED BY <1>1, <3>1 DEF GateInv, Gate!TypeOK
  <2>2. id' \in [Tabs -> {0} \cup Gate!Ids]
          /\ page' \in [Tabs -> Gate!Going \cup Gate!Resting \cup {"closed"}]
    BY <1>1 DEF GateInv, Gate!TypeOK, Gate!Going
  <2>3. session' \in [Tabs -> Sessions]
    BY <1>1 DEF GateInv, Gate!TypeOK
  <2> QED BY <1>1, <2>1, <2>2, <2>3 DEF GateInv, Gate!TypeOK, Gate!source, Gate!provider
<1>5. LocksInv'
  <2>1. \A v \in Tabs :
          /\ page'[v] \in Away <=> held'[v] = 0
          /\ held'[v] # 0 => held'[v] = id'[v]
          /\ url'[v] # 0 => page'[v] \in {"loading", "callback", "closed"}
          /\ page'[v] = "callback" => url'[v] # 0
          /\ id'[v] = 0 => session'[v] = Gate!NoSession
    BY <1>1, <1>2, <1>3 DEF GateInv, LocksInv, Away
  <2>2. ASSUME NEW v \in Tabs, NEW w \in Tabs, v # w, id'[v] = id'[w], id'[v] # 0
        PROVE  /\ page'[v] \notin {"closed", "away"} /\ url'[v] = 0
               /\ page'[v] = "loading" \/ page'[w] = "loading"
    <3>1. CASE v = u
      BY <2>2, <3>1, <1>2
    <3>2. CASE v # u /\ w = u
      <4>1. id[v] = id[t] /\ id[v] # 0
        BY <2>2, <3>2, <1>2
      <4>2. page[v] \notin {"closed", "away"} /\ url[v] = 0
        BY <4>1, <1>1 DEF GateInv, LocksInv
      <4> QED BY <3>2, <4>2, <1>2
    <3>3. CASE v # u /\ w # u
      BY <2>2, <3>3, <1>2 DEF GateInv, LocksInv
    <3> QED BY <3>1, <3>2, <3>3
  <2> QED BY <2>1, <2>2 DEF LocksInv
<1>6. PostsInv'
  <2>1. \A p \in posts : p.tab # Gate!NoTab => p.tab \in Tabs /\ p.tab # u
    BY <1>3, PostsHaveFamilies DEF Gate!NoTab
  <2>2. \A p \in posts : p.tab # Gate!NoTab
          => page'[p.tab] = page[p.tab] /\ session'[p.tab] = session[p.tab]
    BY <1>2, <2>1
  <2>3. \A v \in Tabs : page'[v] \in Idle => page[v] \in Idle
    BY <1>1, <1>2 DEF Idle, Away
  <2> QED BY <1>1, <2>2, <2>3 DEF GateInv, PostsInv, Gate!source
<1>7. FamiliesInv'
  <2>1. \A v \in Tabs, f \in Gate!Families : Claims(v, f)' =>
          IF v = u THEN Claims(t, f) ELSE Claims(v, f)
    BY <1>1, <1>2, <1>3 DEF Claims
  <2>2. ASSUME NEW v \in Tabs, NEW w \in Tabs, NEW f \in Gate!Families, v # w, Claims(v, f)',
          Claims(w, f)'
        PROVE  id'[v] = id'[w] \/ page'[v] = "copy" \/ page'[w] = "copy"
    <3> DEFINE o(x) == IF x = u THEN t ELSE x
    <3>1. o(v) \in Tabs /\ o(w) \in Tabs /\ Claims(o(v), f) /\ Claims(o(w), f)
      BY <2>1, <2>2
    <3>2. id'[v] = id[o(v)] /\ id'[w] = id[o(w)]
      BY <1>2
    <3>3. page[o(v)] = "copy" => page'[v] = "copy"
      BY <1>1, <1>2
    <3>4. page[o(w)] = "copy" => page'[w] = "copy"
      BY <1>1, <1>2
    <3> HIDE DEF o
    <3>5. CASE o(v) = o(w)
      BY <3>2, <3>5
    <3>6. CASE o(v) # o(w)
      <4>1. id[o(v)] = id[o(w)] \/ page[o(v)] = "copy" \/ page[o(w)] = "copy"
        BY <3>1, <3>6 DEF GateInv, FamiliesInv
      <4> QED BY <4>1, <3>2, <3>3, <3>4
    <3> QED BY <3>5, <3>6
  <2>3. \A v \in Tabs : session'[v].family \in used \cup {0}
    BY <1>2 DEF GateInv, FamiliesInv
  <2> QED BY <1>1, <2>2, <2>3 DEF GateInv, FamiliesInv, Gate!provider
<1>8. TokensInv'
  <2>1. ASSUME NEW v \in Tabs, v # u, Owns(v)' PROVE Owns(v)
    BY <2>1, <1>1, <1>2 DEF Owns, Gate!LockFree
  <2>2. Owns(u)' => Owns(t) /\ \A p \in posts : p.tab # t
    <3>1. Owns(u)' => held[t] # id[t] /\ Gate!LockFree(id[t])
      BY <1>1, <1>2, <1>3 DEF Owns, Gate!LockFree
    <3>2. held[t] # id[t] => page[t] \in Away
      BY DEF GateInv, LocksInv
    <3>3. page[t] \in Away => \A p \in posts : p.tab # t
      BY IdleHasNoPosts
    <3> QED BY <1>1, <3>1, <3>2, <3>3 DEF Owns
  <2>3. ASSUME NEW v \in Tabs, Owns(v)', session'[v] # Gate!NoSession, session'[v].family \notin cut
        PROVE  \/ session'[v].serial = current[session'[v].family]
               \/ \E p \in posts : p.tab = v /\ p.answer = "yes"
    <3>1. CASE v = u
      BY <2>2, <2>3, <3>1, <1>2 DEF GateInv, TokensInv
    <3>2. CASE v # u
      BY <2>1, <2>3, <3>2, <1>2 DEF GateInv, TokensInv
    <3> QED BY <3>1, <3>2
  <2> QED BY <1>1, <2>3 DEF GateInv, TokensInv, Gate!provider
<1> QED BY <1>4, <1>5, <1>6, <1>7, <1>8 DEF GateInv

LEMMA TimeKeeps == ASSUME GateInv, NEW t \in Tabs, Gate!TimePasses(t) PROVE GateInv'
<1>1. /\ session' = [session EXCEPT ![t].fresh = FALSE] /\ session[t].fresh
      /\ UNCHANGED <<page, url, id, held, Gate!source, posts, Gate!provider, cut, foreign>>
  BY DEF Gate!TimePasses
<1>2. session[t] # Gate!NoSession
  BY <1>1 DEF Gate!NoSession
<1>3. session[t] \in [family : 1 .. codes, serial : 1 .. MaxSerial, fresh : BOOLEAN]
  BY <1>2, SessionsHaveFamilies
<1>4. /\ [session[t] EXCEPT !.fresh = FALSE] \in
           [family : 1 .. codes, serial : 1 .. MaxSerial, fresh : BOOLEAN]
      /\ [session[t] EXCEPT !.fresh = FALSE].family = session[t].family
      /\ [session[t] EXCEPT !.fresh = FALSE].serial = session[t].serial
  BY <1>3
<1>5. session' = [session EXCEPT ![t] = [session[t] EXCEPT !.fresh = FALSE]]
  BY <1>1
<1>6. session' \in [Tabs -> Sessions]
  BY <1>4, <1>5 DEF GateInv, Gate!TypeOK
<1>7. session'[t] = [session[t] EXCEPT !.fresh = FALSE] 
      /\ \A u \in Tabs : u # t => session'[u] = session[u]
  BY <1>5 DEF GateInv, Gate!TypeOK
<1>8. 0 \notin 1 .. codes
  BY GateBounds DEF GateInv, Gate!TypeOK
<1>9. \A u \in Tabs : /\ session'[u].family = session[u].family
                      /\ session'[u] = Gate!NoSession <=> session[u] = Gate!NoSession
                      /\ session[u] # Gate!NoSession => session'[u].serial = session[u].serial
  <2>1. session'[t] # Gate!NoSession
    BY <1>3, <1>4, <1>7, <1>8 DEF Gate!NoSession
  <2> QED BY <1>2, <1>4, <1>7, <2>1
<1>10. Gate!TypeOK'
  BY <1>1, <1>6 DEF GateInv, Gate!TypeOK, Gate!source, Gate!provider
<1>11. LocksInv'
  BY <1>1, <1>9 DEF GateInv, LocksInv
<1>12. PostsInv'
  <2>1. \A p \in posts : p.tab # Gate!NoTab => p.tab \in Tabs
    BY PostsHaveFamilies DEF Gate!NoTab
  <2> QED BY <1>1, <1>9, <2>1 DEF GateInv, PostsInv, Gate!source
<1>13. FamiliesInv'
  BY <1>1, <1>9 DEF GateInv, FamiliesInv, Claims, Gate!provider
<1>14. TokensInv'
  BY <1>1, <1>9 DEF GateInv, TokensInv, Owns, Gate!LockFree, Gate!provider
<1> QED BY <1>10, <1>11, <1>12, <1>13, <1>14 DEF GateInv

LEMMA GateKeeps == GateInv /\ [Gate!Next]_(Gate!vars) => GateInv'
<1> SUFFICES ASSUME GateInv, [Gate!Next]_(Gate!vars) PROVE GateInv'
  OBVIOUS
<1>1. ASSUME NEW t \in Tabs, Gate!Boot(t) PROVE GateInv'
  BY <1>1, ClaimKeeps, RemoveUserKeeps, RestoreKeeps, RedeemKeeps, RedirectKeeps DEF Gate!Boot
<1>2. ASSUME NEW t \in Tabs, Gate!SignInAgain(t) \/ Gate!SignOut(t) \/ Gate!Return(t) PROVE GateInv'
  BY <1>2, RedirectKeeps, GoingKeeps, ComingKeeps
<1>3. ASSUME NEW t \in Tabs,
             \/ Gate!Reload(t) \/ Gate!Close(t) \/ Gate!Reopen(t)
             \/ Gate!OpenNew(t) \/ Gate!TimePasses(t)
      PROVE  GateInv'
  BY <1>3, GoingKeeps, ComingKeeps, OpenNewKeeps, TimeKeeps
<1>4. ASSUME NEW t \in Tabs, NEW u \in Tabs, Gate!Duplicate(t, u) PROVE GateInv'
  BY <1>4, DuplicateKeeps
<1>5. ASSUME NEW t \in Tabs, NEW c \in Callers,
             Gate!Ask(t, c) \/ Gate!Read(t, c) \/ Gate!Leave(t, c)
      PROVE  GateInv'
  BY <1>5, AskKeeps, TokenReadKeeps, LeaveKeeps
<1>6. ASSUME NEW p \in posts, Gate!Settle(p) \/ Gate!Answer(p) \/ Gate!Break(p) PROVE GateInv'
  BY <1>6, RestoredKeeps, RenewedKeeps, AnswerKeeps, BreakKeeps DEF Gate!Settle
<1>7. CASE UNCHANGED Gate!vars
  <2>1. UNCHANGED <<page, url, id, session, held, calls, rejected, inFlight, lost, posts,
                    codes, used, current, revoked, cut, foreign>>
    BY <1>7 DEF Gate!vars, Gate!storage, Gate!source, Gate!provider
  <2> QED BY <2>1 DEF GateInv, Gate!TypeOK, LocksInv, PostsInv, FamiliesInv, TokensInv, Claims,
            Owns, Gate!LockFree
<1> QED BY <1>1, <1>2, <1>3, <1>4, <1>5, <1>6, <1>7 DEF Gate!Next

LEMMA GateIsConsistent == GateInv => Gate!Consistent
<1> SUFFICES ASSUME GateInv PROVE Gate!Consistent
  OBVIOUS
<1>1. ASSUME NEW t \in Tabs, NEW u \in Tabs, NEW f \in Gate!Families, Gate!Uses(t, f),
        Gate!Uses(u, f)
      PROVE  t = u
  <2>1. Claims(t, f) /\ Claims(u, f)
    BY <1>1 DEF Gate!Uses, Claims
  <2>2. held[t] # 0 /\ held[u] # 0 /\ page[t] # "copy" /\ page[u] # "copy"
    BY <1>1 DEF Gate!Uses, GateInv, LocksInv, Away
  <2> QED BY <2>1, <2>2, OneOwner DEF Owns
<1> QED BY <1>1 DEF Gate!Consistent, Gate!SessionsAreNotShared, Gate!NothingIsRetiredTwice,
          GateInv, TokensInv

\* With Web Locks, and pages that stay until their copies are told from them, two open tabs never
\* use one session, and only where an answer got lost does the provider end one for a token that was
\* retired: whatever is duplicated, reloaded, closed or reopened (claimTab, renewOnce).
THEOREM SessionsAreKeptApart == ASSUME HasLocks, ~CopyRaces PROVE Gate!Spec => []Gate!Consistent
<1>1. Gate!Init => GateInv
  BY GateInit
<1> QED BY <1>1, GateKeeps, GateIsConsistent, PTL DEF Gate!Spec

\* The same of a page of the run that is about sign-in.
LEMMA SharedGateKeeps ==
  ASSUME about = "sign-in" => GateInv, [SharedNext]_<<vars, crumbs, signIn, browser, about>>
  PROVE  about' = "sign-in" => GateInv'
<1> SUFFICES ASSUME about' = "sign-in" PROVE GateInv'
  OBVIOUS
<1>1. about = "sign-in" /\ [Gate!Next]_(Gate!vars)
  BY DEF SharedNext, signIn, Gate!vars, Gate!storage, Gate!source, Gate!provider
<1> QED BY <1>1, GateKeeps

\* SessionsAreOwned, as the run states it: no session is shared between open tabs, and
\* none ends for a retired token but where an answer got lost (claimTab, renewOnce).
THEOREM TabsOwnTheirSessions ==
  ASSUME HasLocks, ~CopyRaces PROVE SharedSpec => []SessionsAreOwned
<1> DEFINE GInv == about = "sign-in" => GateInv
<1>1. SharedInit => GInv
  BY GateInit DEF SharedInit
<1>2. GInv /\ [SharedNext]_<<vars, crumbs, signIn, browser, about>> => GInv'
  BY SharedGateKeeps
<1>3. GInv => SessionsAreOwned
  BY GateIsConsistent DEF SessionsAreOwned
<1> QED BY <1>1, <1>2, <1>3, PTL DEF SharedSpec

-----------------------------------------------------------------------------
(* BrowserStorage *)

\* What the tabs of the instance write, what is on its way to a tab, and what an operation of the
\* store takes and returns.
TabRecords == [v : {Build[t] : t \in Tabs}, d : SUBSET Browser!Updates]
TabEvents  == TabRecords \cup {NoRecord, ClearEvent}
TabStates  == [disk : Browser!Record, writer : Tabs \cup {NoWriter},
               events : [Tabs -> Seq(TabEvents)], entry : {NoEntry} \cup Browser!Entries]

\* What an entry shows is what its record says.
EntryFits(e) ==
  e # NoEntry =>
    /\ e \in Browser!Entries
    /\ ~e.known <=> e.snapshot = Browser!Error("unreadable")
    /\ Browser!Unread(e.snapshot) \/ e.snapshot.value = IF e.raw = NoRecord THEN {} ELSE e.raw.d

EntryIsFresh(e, record) == e = NoEntry \/ ~e.known \/ e.raw = record

NewestIn(queue, record) == queue[Len(queue)] \in {record, ClearEvent}

\* A tab that did not change the store last has heard of the stored record, or will.
CaughtUp ==
  \A t \in Tabs : writer # t =>
    IF events[t] = <<>> THEN EntryIsFresh(entry[t], disk) ELSE NewestIn(events[t], disk)

TabsShape ==
  /\ events \in [Tabs -> Seq(TabEvents)] /\ entry \in [Tabs -> {NoEntry} \cup Browser!Entries]
  /\ failed \in [Tabs -> Browser!Writes \cup {Browser!NoWrite}]
  /\ subscribed \in [Tabs -> SUBSET Consumers]
  /\ shown = [t \in Tabs |-> [c \in Consumers |-> shown[t][c]]]

TabsInv ==
  /\ TabsShape /\ Browser!TypeOK /\ Browser!ConsumersAreCurrent /\ Browser!WriteErrorsAreOwned
  /\ CaughtUp
  /\ \A t \in Tabs : EntryFits(entry[t])

-----------------------------------------------------------------------------
(* What the store's operations return *)

\* What a record is: one of some version that may be compared with a build's, or none.
LEMMA RecordKinds ==
  /\ \A t \in Tabs : Build[t] \in Nat /\ Build[t] \in Browser!Shapes
  /\ NoWriter \notin Tabs /\ MaxUpdates \in Nat
  /\ \A r \in Browser!Record \ {NoRecord} : r.v \in Nat /\ r.v \in Browser!Shapes
       /\ r.d \in SUBSET Browser!Updates
  /\ TabRecords \subseteq Browser!Record /\ NoRecord \in Browser!Record
  /\ NoRecord \notin TabRecords
  /\ NoEntry \notin Browser!Entries /\ ClearEvent \notin Browser!Record
  /\ Browser!Shapes \subseteq Nat
<1>1. Browser!Shapes \subseteq Nat
  BY BrowserAssumption DEF Browser!BrowserStorageAssumption, Browser!Shapes
<1>2. \A t \in Tabs : Build[t] \in Nat /\ Build[t] \in Browser!Shapes
  BY BrowserAssumption DEF Browser!BrowserStorageAssumption, Browser!Shapes
<1>3. [v : Browser!Shapes, d : SUBSET Browser!Updates]
        \subseteq [v : Nat, d : SUBSET Browser!Updates]
  BY <1>1
<1>4. NoRecord \notin [v : Browser!Shapes, d : SUBSET Browser!Updates]
        /\ ClearEvent \notin [v : Browser!Shapes, d : SUBSET Browser!Updates]
  BY <1>3, BrowserAssumption DEF Browser!BrowserStorageAssumption
<1>5. TabRecords \subseteq [v : Browser!Shapes, d : SUBSET Browser!Updates]
  BY <1>2 DEF TabRecords
<1> QED BY <1>1, <1>2, <1>4, <1>5, BrowserAssumption DEF Browser!BrowserStorageAssumption,
          Browser!Record

\* A tab that stores something tells the others, and of that after all else.
OthersAreTold(s, z, t) ==
  /\ z.events[t] = s.events[t]
  /\ \/ z.disk = s.disk /\ z.writer = s.writer /\ z.events = s.events
     \/ z.writer = t /\ \A u \in Tabs \ {t} : z.events[u] # <<>> /\ NewestIn(z.events[u], z.disk)

SameUpdates(s, z) ==
  \/ z.disk = s.disk
  \/ s.disk # NoRecord /\ z.disk # NoRecord /\ z.disk.d = s.disk.d

LEMMA ToldOfBoth ==
  ASSUME NEW s, NEW m, NEW z, NEW t, OthersAreTold(s, m, t), OthersAreTold(m, z, t)
  PROVE  OthersAreTold(s, z, t)
BY DEF OthersAreTold

LEMMA StoredIs ==
  ASSUME NEW s \in TabStates, NEW t \in Tabs, NEW record \in TabRecords \cup {NoRecord}
  PROVE  LET z == Browser!Stored(s, t, record) IN
         /\ z \in TabStates /\ z.entry = s.entry /\ z.disk = record /\ OthersAreTold(s, z, t)
<1> DEFINE told == [u \in Tabs |-> IF u = t THEN s.events[u] ELSE Append(s.events[u], record)]
           z == [s EXCEPT !.disk = record, !.writer = t, !.events = told]
<1>1. record \in Browser!Record /\ record \in TabEvents
  BY RecordKinds DEF TabEvents
<1>2. s.events \in [Tabs -> Seq(TabEvents)]
  BY DEF TabStates
<1>3. told \in [Tabs -> Seq(TabEvents)]
  BY <1>1, <1>2, AppendProperties
<1>4. \A u \in Tabs \ {t} : told[u] # <<>> /\ told[u][Len(told[u])] = record
  <2> TAKE u \in Tabs \ {t}
  <2>1. told[u] = Append(s.events[u], record) /\ s.events[u] \in Seq(TabEvents)
    BY <1>2
  <2> QED BY <2>1, <1>1, AppendProperties
<1>5. CASE record = s.disk
  BY <1>5 DEF Browser!Stored, OthersAreTold
<1>6. CASE record # s.disk
  <2>1. Browser!Stored(s, t, record) = z
    BY <1>6 DEF Browser!Stored
  <2> HIDE DEF told
  <2>2. z \in TabStates /\ z.entry = s.entry /\ z.disk = record /\ z.writer = t /\ z.events = told
    BY <1>1, <1>3 DEF TabStates
  <2>3. told[t] = s.events[t]
    BY DEF told
  <2> QED BY <2>1, <2>2, <2>3, <1>4 DEF OthersAreTold, NewestIn
<1> QED BY <1>5, <1>6

LEMMA HoldingIs ==
  ASSUME NEW s \in TabStates, NEW raw \in Browser!Record, NEW snapshot \in Browser!Snapshots
  PROVE  LET z == Browser!Holding(s, raw, snapshot) IN
         /\ z \in TabStates /\ z.disk = s.disk /\ z.writer = s.writer /\ z.events = s.events
         /\ z.entry = [known |-> TRUE, raw |-> raw, snapshot |-> snapshot]
         /\ z.entry # NoEntry
<1>1. [known |-> TRUE, raw |-> raw, snapshot |-> snapshot] \in Browser!Entries
  BY DEF Browser!Entries
<1> QED BY <1>1, RecordKinds DEF Browser!Holding, TabStates

LEMMA SnapshotsAre ==
  /\ Browser!Default \in Browser!Snapshots
  /\ \A d \in SUBSET Browser!Updates : Browser!Snapshot("value", d) \in Browser!Snapshots
  /\ \A why \in {"unreadable", "newer", "unmigrated"} :
       Browser!Error(why) \in Browser!Snapshots /\ Browser!Unread(Browser!Error(why))
  /\ ~Browser!Unread(Browser!Default) /\ Browser!Default.value = {}
  /\ \A d : ~Browser!Unread(Browser!Snapshot("value", d)) /\ Browser!Snapshot("value", d).value = d
  /\ Browser!Error("unreadable")
       \notin {Browser!Default, Browser!Error("newer"), Browser!Error("unmigrated")}
  /\ \A d : Browser!Error("unreadable") # Browser!Snapshot("value", d)
  /\ \A x \in Browser!Snapshots : x.value \in SUBSET Browser!Updates
<1>1. /\ Browser!Default.status = "default" /\ Browser!Default.value = {}
      /\ \A d : /\ Browser!Snapshot("value", d).status = "value"
               /\ Browser!Snapshot("value", d).value = d
      /\ \A why : Browser!Error(why).status = why /\ Browser!Error(why).value = {}
  BY DEF Browser!Default, Browser!Snapshot, Browser!Error
<1>2. \A x \in Browser!Snapshots : x.value \in SUBSET Browser!Updates
  BY <1>1 DEF Browser!Snapshots
<1>3. Browser!Default \in Browser!Snapshots
        /\ \A d \in SUBSET Browser!Updates : Browser!Snapshot("value", d) \in Browser!Snapshots
  BY DEF Browser!Snapshots
<1>4. \A why \in {"unreadable", "newer", "unmigrated"} : Browser!Error(why) \in Browser!Snapshots
  BY DEF Browser!Snapshots
<1> QED BY <1>1, <1>2, <1>3, <1>4 DEF Browser!Unread

\* A record is held, and nothing stored.
HoldsRecord(s, z, t, raw) ==
  /\ z \in TabStates /\ z.entry # NoEntry /\ EntryFits(z.entry) /\ z.entry.known
  /\ OthersAreTold(s, z, t) /\ z.entry.raw = raw /\ z.disk = s.disk

LEMMA HoldsIs ==
  ASSUME NEW s \in TabStates, NEW t, NEW raw \in Browser!Record, NEW snapshot \in Browser!Snapshots,
         snapshot # Browser!Error("unreadable"),
         Browser!Unread(snapshot) \/ snapshot.value = IF raw = NoRecord THEN {} ELSE raw.d
  PROVE  HoldsRecord(s, Browser!Holding(s, raw, snapshot), t, raw)
<1> DEFINE z == Browser!Holding(s, raw, snapshot)
<1>1. /\ z \in TabStates /\ z.disk = s.disk /\ z.writer = s.writer /\ z.events = s.events
      /\ z.entry = [known |-> TRUE, raw |-> raw, snapshot |-> snapshot]
      /\ z.entry # NoEntry
  BY HoldingIs
<1> HIDE DEF z
<1>2. z.entry \in Browser!Entries
  BY <1>1 DEF TabStates
<1>3. EntryFits(z.entry)
  BY <1>1, <1>2 DEF EntryFits
<1>4. OthersAreTold(s, z, t)
  BY <1>1 DEF OthersAreTold
<1> QED BY <1>1, <1>3, <1>4 DEF z, HoldsRecord

\* No record is held as the default.
LEMMA NoRecordIs ==
  ASSUME NEW s \in TabStates, NEW t
  PROVE  HoldsRecord(s, Browser!Holding(s, NoRecord, Browser!Default), t, NoRecord)
<1>1. Browser!Default \in Browser!Snapshots /\ Browser!Default # Browser!Error("unreadable")
        /\ Browser!Default.value = {}
  BY SnapshotsAre
<1>2. NoRecord \in Browser!Record
  BY RecordKinds
<1>3. Browser!Default.value = IF NoRecord = NoRecord THEN {} ELSE NoRecord.d
  BY <1>1
<1> QED BY <1>1, <1>2, <1>3, HoldsIs

\* A record that is read is held as it is, or converted.
LEMMA ParsedIs ==
  ASSUME NEW s \in TabStates, NEW t \in Tabs, NEW raw \in Browser!Record
  PROVE  LET z == Browser!Parsed(s, t, raw) IN
         /\ z \in TabStates /\ z.entry # NoEntry /\ EntryFits(z.entry) /\ z.entry.known
         /\ OthersAreTold(s, z, t)
         /\ \/ z.entry.raw = raw /\ z.disk = s.disk
            \/ /\ z.entry.raw = z.disk /\ z.disk # NoRecord /\ raw # NoRecord
               /\ z.disk.d = raw.d /\ raw.v < Build[t]
<1>1. CASE raw = NoRecord
  <2>1. Browser!Parsed(s, t, raw) = Browser!Holding(s, raw, Browser!Default)
    BY <1>1 DEF Browser!Parsed
  <2>2. HoldsRecord(s, Browser!Parsed(s, t, raw), t, raw)
    BY <1>1, <2>1, NoRecordIs
  <2> QED BY <2>2 DEF HoldsRecord
<1>2. CASE raw # NoRecord /\ raw.v = Build[t]
  <2>1. Browser!Parsed(s, t, raw) = Browser!Holding(s, raw, Browser!Snapshot("value", raw.d))
    BY <1>2, RecordKinds DEF Browser!Parsed
  <2>2. raw.d \in SUBSET Browser!Updates
    BY <1>2, RecordKinds
  <2> QED BY <1>2, <2>1, <2>2, HoldsIs, SnapshotsAre DEF HoldsRecord
<1>3. CASE raw # NoRecord /\ raw.v > Build[t]
  <2>1. Browser!Parsed(s, t, raw) = Browser!Holding(s, raw, Browser!Error("newer"))
    BY <1>3, RecordKinds DEF Browser!Parsed
  <2> QED BY <1>3, <2>1, HoldsIs, SnapshotsAre DEF HoldsRecord
<1>4. CASE raw # NoRecord /\ raw.v < Build[t]
  <2>1. Browser!Parsed(s, t, raw) = Browser!Migrated(s, t, raw)
    BY <1>4, RecordKinds DEF Browser!Parsed
  <2>2. CASE room # "ok"
    <3>1. Browser!Parsed(s, t, raw) = Browser!Holding(s, raw, Browser!Error("unmigrated"))
      BY <2>1, <2>2 DEF Browser!Migrated
    <3> QED BY <1>4, <3>1, HoldsIs, SnapshotsAre DEF HoldsRecord
  <2>3. CASE room = "ok"
    <3> DEFINE now == [raw EXCEPT !.v = Build[t]]
               m == Browser!Stored(s, t, now)
    <3>1. raw \in [v : Browser!Shapes, d : SUBSET Browser!Updates]
      BY <1>4 DEF Browser!Record
    <3>2. now \in TabRecords /\ now.d = raw.d /\ now # NoRecord
      BY <3>1, RecordKinds DEF TabRecords
    <3>3. Browser!Parsed(s, t, raw) = Browser!Holding(m, now, Browser!Snapshot("value", now.d))
      BY <2>1, <2>3 DEF Browser!Migrated
    <3> HIDE DEF now
    <3>4. m \in TabStates /\ m.disk = now /\ OthersAreTold(s, m, t)
      BY <3>2, StoredIs
    <3>5. now \in Browser!Record /\ now.d \in SUBSET Browser!Updates
      BY <3>2, RecordKinds
    <3> HIDE DEF m
    <3> DEFINE z == Browser!Holding(m, now, Browser!Snapshot("value", now.d))
    <3>6. /\ z \in TabStates /\ z.disk = m.disk /\ z.writer = m.writer /\ z.events = m.events
          /\ z.entry = [known |-> TRUE, raw |-> now, snapshot |-> Browser!Snapshot("value", now.d)]
          /\ z.entry # NoEntry
      BY <3>4, <3>5, HoldingIs, SnapshotsAre
    <3> HIDE DEF z
    <3>7. EntryFits(z.entry)
      <4>1. now # NoRecord /\ Browser!Snapshot("value", now.d).value = now.d
        BY <3>2, SnapshotsAre
      <4>2. Browser!Error("unreadable") # Browser!Snapshot("value", now.d)
        BY SnapshotsAre
      <4>3. z.entry \in Browser!Entries
        BY <3>6 DEF TabStates
      <4> QED BY <3>6, <4>1, <4>2, <4>3 DEF EntryFits
    <3>8. OthersAreTold(s, z, t)
      BY <3>4, <3>6 DEF OthersAreTold
    <3> QED BY <3>2, <3>3, <3>4, <3>6, <3>7, <3>8, <1>4 DEF z
  <2> QED BY <2>2, <2>3
<1>5. raw = NoRecord \/ (raw.v \in Nat /\ Build[t] \in Nat)
  BY RecordKinds
<1> QED BY <1>1, <1>2, <1>3, <1>4, <1>5

\* #applyRaw
LEMMA AppliedIs ==
  ASSUME NEW s \in TabStates, NEW t \in Tabs, NEW raw \in Browser!Record, s.entry # NoEntry,
         s.entry.known => EntryFits(s.entry)
  PROVE  LET z == Browser!Applied(s, t, raw) IN
         /\ z \in TabStates /\ z.entry # NoEntry /\ EntryFits(z.entry) /\ z.entry.known
         /\ OthersAreTold(s, z, t)
         /\ \/ z.entry.raw = raw /\ z.disk = s.disk
            \/ /\ z.entry.raw = z.disk /\ z.disk # NoRecord /\ raw # NoRecord
               /\ z.disk.d = raw.d /\ raw.v < Build[t]
<1>1. CASE s.entry.known /\ s.entry.raw = raw
  BY <1>1 DEF Browser!Applied, OthersAreTold
<1>2. CASE ~(s.entry.known /\ s.entry.raw = raw)
  <2>1. Browser!Applied(s, t, raw) = Browser!Parsed(s, t, raw)
    BY <1>2 DEF Browser!Applied
  <2> QED BY <2>1, ParsedIs
<1> QED BY <1>1, <1>2

LEMMA InvalidatedIs ==
  ASSUME NEW s \in TabStates, NEW t
  PROVE  LET z == Browser!Invalidated(s) IN
         /\ z \in TabStates /\ z.entry # NoEntry /\ EntryFits(z.entry) /\ ~z.entry.known
         /\ OthersAreTold(s, z, t) /\ z.disk = s.disk
<1> DEFINE e == [known |-> FALSE, raw |-> NoRecord, snapshot |-> Browser!Error("unreadable")]
           z == [s EXCEPT !.entry = e]
<1>1. e \in Browser!Entries /\ ~e.known /\ e.snapshot = Browser!Error("unreadable")
  BY RecordKinds, SnapshotsAre DEF Browser!Entries
<1>2. Browser!Invalidated(s) = z
  BY DEF Browser!Invalidated
<1>3. Browser!Unread(e.snapshot)
  BY <1>1, SnapshotsAre
<1> HIDE DEF e
<1>4. /\ z \in TabStates /\ z.entry = e /\ z.disk = s.disk /\ z.events = s.events
      /\ z.writer = s.writer
  BY <1>1 DEF TabStates
<1> HIDE DEF z
<1> QED BY <1>1, <1>2, <1>3, <1>4, RecordKinds DEF EntryFits, OthersAreTold

\* #refresh and #acquireEntry: the entry is what is stored, or nothing is known.
ReadAfresh(s, z, t) ==
  /\ z \in TabStates /\ z.entry # NoEntry /\ EntryFits(z.entry) /\ EntryIsFresh(z.entry, z.disk)
  /\ OthersAreTold(s, z, t) /\ SameUpdates(s, z)

LEMMA RefreshedIs ==
  ASSUME NEW s \in TabStates, NEW t \in Tabs, s.entry # NoEntry, s.entry.known => EntryFits(s.entry)
  PROVE  ReadAfresh(s, Browser!Refreshed(s, t), t)
<1>1. CASE room = "blocked"
  <2>1. Browser!Refreshed(s, t) = Browser!Invalidated(s)
    BY <1>1 DEF Browser!Refreshed
  <2> QED BY <2>1, InvalidatedIs DEF ReadAfresh, EntryIsFresh, SameUpdates
<1>2. CASE room # "blocked"
  <2>1. Browser!Refreshed(s, t) = Browser!Applied(s, t, s.disk)
    BY <1>2 DEF Browser!Refreshed
  <2>2. s.disk \in Browser!Record
    BY DEF TabStates
  <2> QED BY <2>1, <2>2, AppliedIs DEF ReadAfresh, EntryIsFresh, SameUpdates
<1> QED BY <1>1, <1>2

LEMMA AcquiredIs ==
  ASSUME NEW s \in TabStates, NEW t \in Tabs, EntryFits(s.entry)
  PROVE  \/ s.entry # NoEntry /\ Browser!Acquired(s, t) = s
         \/ s.entry = NoEntry /\ ReadAfresh(s, Browser!Acquired(s, t), t)
<1>1. CASE s.entry # NoEntry
  BY <1>1 DEF Browser!Acquired
<1>2. CASE s.entry = NoEntry
  <2> DEFINE e == [known |-> FALSE, raw |-> NoRecord, snapshot |-> Browser!Default]
             m == [s EXCEPT !.entry = e]
  <2>1. Browser!Acquired(s, t) = Browser!Refreshed(m, t)
    BY <1>2 DEF Browser!Acquired
  <2>2. e \in Browser!Entries /\ ~e.known
    BY RecordKinds, SnapshotsAre DEF Browser!Entries
  <2> HIDE DEF e
  <2>3. /\ m \in TabStates /\ m.entry = e /\ m.disk = s.disk /\ m.events = s.events
        /\ m.writer = s.writer
    BY <2>2 DEF TabStates
  <2> HIDE DEF m
  <2>4. ReadAfresh(m, Browser!Refreshed(m, t), t)
    BY <2>2, <2>3, RecordKinds, RefreshedIs
  <2> QED BY <1>2, <2>1, <2>3, <2>4 DEF ReadAfresh, OthersAreTold, SameUpdates
<1> QED BY <1>1, <1>2

LEMMA PutIs ==
  ASSUME NEW s \in TabStates, NEW t \in Tabs, NEW d \in SUBSET Browser!Updates
  PROVE  LET z == Browser!Put(s, t, d) IN
         /\ z \in TabStates /\ z.entry # NoEntry
         /\ EntryFits(z.entry) /\ EntryIsFresh(z.entry, z.disk)
         /\ OthersAreTold(s, z, t) /\ z.disk # NoRecord /\ z.disk.d = d
<1> DEFINE record == [v |-> Build[t], d |-> d]
           m == Browser!Stored(s, t, record)
           z == Browser!Holding(m, record, Browser!Snapshot("value", d))
<1>1. record \in TabRecords /\ record.d = d
  BY DEF TabRecords
<1>2. record \in Browser!Record /\ record # NoRecord
  BY <1>1, RecordKinds
<1>3. Browser!Put(s, t, d) = z
  BY DEF Browser!Put
<1> HIDE DEF record
<1>4. m \in TabStates /\ m.disk = record /\ OthersAreTold(s, m, t)
  BY <1>1, StoredIs
<1> HIDE DEF m
<1>5. /\ z \in TabStates /\ z.entry # NoEntry /\ EntryFits(z.entry) /\ z.entry.known
      /\ OthersAreTold(m, z, t) /\ z.entry.raw = record /\ z.disk = m.disk
  BY <1>1, <1>2, <1>4, SnapshotsAre, HoldsIs DEF HoldsRecord
<1> HIDE DEF z
<1> QED BY <1>1, <1>2, <1>3, <1>4, <1>5, ToldOfBoth DEF EntryIsFresh

\* set(), update() and reset(): what comes of them, and that only they begin anew.
LEMMA AttemptIs ==
  ASSUME NEW s \in TabStates, NEW t \in Tabs, NEW write \in Browser!Writes,
         s.entry # NoEntry, EntryFits(s.entry),
         write = "update" => updates < MaxUpdates, updates \in 0 .. MaxUpdates
  PROVE  LET z == Browser!Attempt(s, t, write).s IN
         /\ z \in TabStates /\ z.entry # NoEntry /\ EntryFits(z.entry) /\ OthersAreTold(s, z, t)
         /\ z = s \/ EntryIsFresh(z.entry, z.disk)
         /\ s.disk # NoRecord /\ z.disk # NoRecord /\ z.disk.d # {} => s.disk.d \subseteq z.disk.d
<1> DEFINE z == Browser!Attempt(s, t, write).s
<1>1. CASE write = "set"
  <2>1. CASE room = "ok"
    <3>1. z = Browser!Put(s, t, {})
      BY <1>1, <2>1 DEF Browser!Attempt, Browser!Outcome
    <3> QED BY <3>1, PutIs
  <2>2. CASE room # "ok"
    <3>1. z = s
      BY <1>1, <2>2 DEF Browser!Attempt, Browser!Outcome
    <3> QED BY <3>1 DEF OthersAreTold
  <2> QED BY <2>1, <2>2
<1>2. CASE write = "update"
  <2> DEFINE base == Browser!Refreshed(s, t)
             d == base.entry.snapshot.value \cup {updates + 1}
  <2>1. ReadAfresh(s, base, t)
    BY RefreshedIs
  <2>2. CASE Browser!Unread(base.entry.snapshot) \/ room # "ok"
    <3>1. z = base
      BY <1>2, <2>2 DEF Browser!Attempt, Browser!Outcome, Browser!Base
    <3> QED BY <2>1, <3>1 DEF ReadAfresh, SameUpdates
  <2>3. CASE ~Browser!Unread(base.entry.snapshot) /\ room = "ok"
    <3>1. z = Browser!Put(base, t, d)
      BY <1>2, <2>3 DEF Browser!Attempt, Browser!Outcome, Browser!Base
    <3> HIDE DEF base
    <3>2. base.entry \in Browser!Entries /\ base.entry.snapshot \in Browser!Snapshots
            /\ base \in TabStates
      BY <2>1 DEF ReadAfresh, EntryFits, Browser!Entries
    <3>3. base.entry.known
      BY <2>1, <2>3, <3>2, SnapshotsAre DEF ReadAfresh, EntryFits
    <3>4. base.entry.snapshot.value = IF base.disk = NoRecord THEN {} ELSE base.disk.d
      BY <2>1, <2>3, <3>3 DEF ReadAfresh, EntryFits, EntryIsFresh
    <3>5. d \in SUBSET Browser!Updates
      BY <1>2, <3>2, SnapshotsAre, RecordKinds DEF Browser!Updates
    <3>6. base.disk # NoRecord => base.disk.d \subseteq d
      BY <3>4
    <3> HIDE DEF d
    <3>7. /\ z \in TabStates /\ z.entry # NoEntry
          /\ EntryFits(z.entry) /\ EntryIsFresh(z.entry, z.disk)
          /\ OthersAreTold(base, z, t) /\ z.disk # NoRecord /\ z.disk.d = d
      BY <3>1, <3>2, <3>5, PutIs
    <3> HIDE DEF z
    <3>8. OthersAreTold(s, z, t)
      BY <2>1, <3>7, ToldOfBoth DEF ReadAfresh
    <3>9. s.disk # NoRecord => s.disk.d \subseteq z.disk.d
      BY <2>1, <3>6, <3>7 DEF ReadAfresh, SameUpdates
    <3> QED BY <3>7, <3>8, <3>9 DEF z
  <2> QED BY <2>2, <2>3
<1>3. CASE write = "reset"
  <2>1. CASE room = "blocked"
    <3>1. z = s
      BY <1>3, <2>1 DEF Browser!Attempt, Browser!Outcome
    <3> QED BY <3>1 DEF OthersAreTold
  <2>2. CASE room # "blocked"
    <3> DEFINE m == Browser!Stored(s, t, NoRecord)
    <3>1. z = Browser!Holding(m, NoRecord, Browser!Default)
      BY <1>3, <2>2 DEF Browser!Attempt, Browser!Outcome
    <3>2. m \in TabStates /\ m.disk = NoRecord /\ OthersAreTold(s, m, t)
      BY StoredIs
    <3> HIDE DEF m
    <3>3. /\ z \in TabStates /\ z.entry # NoEntry /\ EntryFits(z.entry) /\ z.entry.known
          /\ OthersAreTold(m, z, t) /\ z.entry.raw = NoRecord /\ z.disk = m.disk
      BY <3>1, <3>2, NoRecordIs DEF HoldsRecord
    <3> HIDE DEF z
    <3> QED BY <3>2, <3>3, ToldOfBoth DEF EntryIsFresh, z
  <2> QED BY <2>1, <2>2
<1> QED BY <1>1, <1>2, <1>3 DEF Browser!Writes

-----------------------------------------------------------------------------
(* What a step of a tab leaves *)

AsItIs(s, t) == s.disk = disk /\ s.writer = writer /\ s.events = events /\ s.entry = entry[t]

\* Where every tab stands once tab t has done what it does.
AllCaughtUp(s, t) ==
  \A u \in Tabs : s.writer # u =>
    IF s.events[u] = <<>> THEN EntryIsFresh(IF u = t THEN s.entry ELSE entry[u], s.disk)
    ELSE NewestIn(s.events[u], s.disk)

LEMMA NowIs ==
  ASSUME TabsInv, NEW t \in Tabs
  PROVE  /\ Browser!Now(t) \in TabStates /\ AsItIs(Browser!Now(t), t)
         /\ EntryFits(Browser!Now(t).entry)
         /\ Browser!Now(t).entry = NoEntry <=> subscribed[t] = {}
<1>1. disk \in Browser!Record /\ writer \in Tabs \cup {NoWriter}
        /\ (entry[t] = NoEntry <=> subscribed[t] = {})
  BY DEF TabsInv, Browser!TypeOK
<1>2. events \in [Tabs -> Seq(TabEvents)] /\ entry[t] \in {NoEntry} \cup Browser!Entries
        /\ EntryFits(entry[t])
  BY DEF TabsInv, TabsShape
<1> QED BY <1>1, <1>2 DEF Browser!Now, TabStates, AsItIs

LEMMA MovingCatchesUp ==
  ASSUME TabsInv, NEW t \in Tabs, NEW s \in TabStates, OthersAreTold(Browser!Now(t), s, t),
         s.entry = entry[t] \/ EntryIsFresh(s.entry, s.disk)
  PROVE  AllCaughtUp(s, t)
<1>1. AsItIs(Browser!Now(t), t)
  BY NowIs
<1>2. CASE s.disk = disk /\ s.writer = writer /\ s.events = events
  BY <1>2 DEF TabsInv, CaughtUp, AllCaughtUp
<1>3. CASE s.writer = t /\ \A u \in Tabs \ {t} : s.events[u] # <<>> /\ NewestIn(s.events[u], s.disk)
  BY <1>3 DEF AllCaughtUp
<1> QED BY <1>1, <1>2, <1>3 DEF OthersAreTold, AsItIs

LEMMA CommitKeepsTabs ==
  ASSUME TabsInv, NEW t \in Tabs, NEW s \in TabStates,
         NEW write \in Browser!Writes \cup {Browser!NoWrite},
         subscribed[t] # {} => s.entry # NoEntry, EntryFits(s.entry), AllCaughtUp(s, t),
         Browser!Commit(t, s, write), updates' \in 0 .. MaxUpdates
  PROVE  TabsInv'
<1>1. /\ disk' = s.disk /\ writer' = s.writer /\ events' = s.events
      /\ room' = room /\ subscribed' = subscribed
      /\ entry' = [entry EXCEPT ![t] = IF subscribed[t] = {} THEN NoEntry ELSE s.entry]
      /\ failed' = [failed EXCEPT ![t] = IF subscribed[t] = {} THEN Browser!NoWrite ELSE write]
  BY DEF Browser!Commit, Browser!Kept
<1>2. /\ entry \in [Tabs -> {NoEntry} \cup Browser!Entries]
      /\ subscribed \in [Tabs -> SUBSET Consumers]
      /\ failed \in [Tabs -> Browser!Writes \cup {Browser!NoWrite}]
      /\ shown = [u \in Tabs |-> [c \in Consumers |-> shown[u][c]]]
  BY DEF TabsInv, TabsShape
<1>3. /\ s.disk \in Browser!Record /\ s.writer \in Tabs \cup {NoWriter}
      /\ s.events \in [Tabs -> Seq(TabEvents)]
      /\ s.entry \in {NoEntry} \cup Browser!Entries
  BY DEF TabStates
<1>4. \A u \in Tabs : /\ entry'[u] = IF u # t THEN entry[u]
                                     ELSE IF subscribed[t] = {} THEN NoEntry ELSE s.entry
                      /\ failed'[u] = IF u # t THEN failed[u]
                                      ELSE IF subscribed[t] = {} THEN Browser!NoWrite ELSE write
  BY <1>1, <1>2
<1>5. /\ \A u \in Tabs \ {t} : shown'[u] = shown[u]
      /\ shown' = [u \in Tabs |-> [c \in Consumers |-> shown'[u][c]]]
      /\ \/ shown'[t] = shown[t] /\ ~(subscribed[t] # {} /\ Browser!Told(t, s.entry, write))
         \/ \A c \in subscribed[t] : shown'[t][c] = Browser!View(s.entry, write)
  <2>1. CASE subscribed[t] # {} /\ Browser!Told(t, s.entry, write)
    <3> DEFINE new == [c \in Consumers |->
                        IF c \in subscribed[t] THEN Browser!View(s.entry, write) ELSE shown[t][c]]
    <3>1. shown' = [shown EXCEPT ![t] = new]
      BY <2>1 DEF Browser!Commit
    <3>2. \A c \in subscribed[t] : new[c] = Browser!View(s.entry, write)
      BY <1>2
    <3>3. new = [c \in Consumers |-> new[c]]
      OBVIOUS
    <3> HIDE DEF new
    <3>4. shown'[t] = new /\ \A u \in Tabs \ {t} : shown'[u] = shown[u]
      BY <1>2, <3>1
    <3>5. \A u \in Tabs : shown'[u] = [c \in Consumers |-> shown'[u][c]]
      BY <1>2, <3>3, <3>4
    <3>6. shown' = [u \in Tabs |-> shown'[u]]
      BY <1>2, <3>1
    <3> QED BY <3>2, <3>4, <3>5, <3>6
  <2>2. CASE ~(subscribed[t] # {} /\ Browser!Told(t, s.entry, write))
    <3>1. shown' = shown
      BY <2>2 DEF Browser!Commit
    <3> QED BY <1>2, <2>2, <3>1
  <2> QED BY <2>1, <2>2
<1>6. TabsShape'
  <2>1. entry' \in [Tabs -> {NoEntry} \cup Browser!Entries]
    BY <1>1, <1>2, <1>3
  <2>2. failed' \in [Tabs -> Browser!Writes \cup {Browser!NoWrite}]
    BY <1>1, <1>2
  <2> QED BY <1>1, <1>2, <1>3, <1>5, <2>1, <2>2 DEF TabsShape
<1>7. \A u \in Tabs : EntryFits(entry'[u])
  BY <1>4 DEF TabsInv, EntryFits
<1>8. Browser!TypeOK'
  <2>1. room' \in {"ok", "full", "blocked"}
    BY <1>1 DEF TabsInv, Browser!TypeOK
  <2> SUFFICES ASSUME NEW u \in Tabs
               PROVE  /\ \A i \in DOMAIN events'[u] :
                           events'[u][i] \in Browser!Record \cup {ClearEvent}
                      /\ subscribed'[u] \subseteq Consumers
                      /\ failed'[u] \in Browser!Writes \cup {Browser!NoWrite}
                      /\ (entry'[u] = NoEntry) <=> (subscribed'[u] = {})
                      /\ entry'[u] # NoEntry =>
                           /\ entry'[u].raw \in Browser!Record
                           /\ entry'[u].snapshot \in Browser!Snapshots
                           /\ ~entry'[u].known <=> entry'[u].snapshot = Browser!Error("unreadable")
    BY <1>1, <1>3, <2>1 DEF Browser!TypeOK
  <2>2. events'[u] \in Seq(Browser!Record \cup {ClearEvent})
    BY <1>1, <1>3, RecordKinds DEF TabEvents
  <2>3. subscribed'[u] \subseteq Consumers /\ failed'[u] \in Browser!Writes \cup {Browser!NoWrite}
    BY <1>1, <1>2, <1>4
  <2>4. (entry'[u] = NoEntry) <=> (subscribed'[u] = {})
    BY <1>1, <1>4 DEF TabsInv, Browser!TypeOK
  <2>5. ASSUME entry'[u] # NoEntry
        PROVE  /\ entry'[u].raw \in Browser!Record /\ entry'[u].snapshot \in Browser!Snapshots
               /\ ~entry'[u].known <=> entry'[u].snapshot = Browser!Error("unreadable")
    BY <1>7, <2>5 DEF EntryFits, Browser!Entries
  <2> QED BY <2>2, <2>3, <2>4, <2>5, ElementOfSeq
<1>9. Browser!ConsumersAreCurrent'
  <2> SUFFICES ASSUME NEW u \in Tabs, NEW c \in subscribed[u]
               PROVE  shown'[u][c] = Browser!View(entry'[u], failed'[u])
    BY <1>1 DEF Browser!ConsumersAreCurrent
  <2>0. shown[u][c] = Browser!View(entry[u], failed[u])
    BY DEF TabsInv, Browser!ConsumersAreCurrent
  <2>1. CASE u # t
    BY <1>4, <1>5, <2>0, <2>1
  <2>2. CASE u = t /\ ~Browser!Told(t, s.entry, write)
    <3>1. s.entry.snapshot = entry[t].snapshot /\ write = failed[t]
      BY <2>2 DEF Browser!Told
    <3>2. Browser!View(s.entry, write) = Browser!View(entry[t], failed[t])
      BY <3>1 DEF Browser!View
    <3> QED BY <1>4, <1>5, <2>0, <2>2, <3>2
  <2>3. CASE u = t /\ Browser!Told(t, s.entry, write)
    BY <1>4, <1>5, <2>3
  <2> QED BY <2>1, <2>2, <2>3
<1>10. Browser!WriteErrorsAreOwned'
  BY <1>1, <1>4 DEF TabsInv, Browser!WriteErrorsAreOwned
<1>11. CaughtUp'
  <2> SUFFICES ASSUME NEW u \in Tabs, s.writer # u
               PROVE  IF s.events[u] = <<>> THEN EntryIsFresh(entry'[u], s.disk)
                      ELSE NewestIn(s.events[u], s.disk)
    BY <1>1 DEF CaughtUp
  <2> QED BY <1>4 DEF AllCaughtUp, EntryIsFresh
<1> QED BY <1>6, <1>7, <1>8, <1>9, <1>10, <1>11 DEF TabsInv

-----------------------------------------------------------------------------
(* The steps *)

\* What a tab has before it does something: its entry, or one read from the store.
LEMMA AcquiredNow ==
  ASSUME TabsInv, NEW t \in Tabs
  PROVE  LET s == Browser!Acquired(Browser!Now(t), t) IN
         /\ s \in TabStates /\ s.entry # NoEntry /\ EntryFits(s.entry)
         /\ OthersAreTold(Browser!Now(t), s, t)
         /\ s.entry = entry[t] \/ EntryIsFresh(s.entry, s.disk)
         /\ SameUpdates(Browser!Now(t), s)
<1>1. Browser!Now(t) \in TabStates /\ AsItIs(Browser!Now(t), t) /\ EntryFits(Browser!Now(t).entry)
  BY NowIs
<1>2. CASE Browser!Now(t).entry # NoEntry /\ Browser!Acquired(Browser!Now(t), t) = Browser!Now(t)
  BY <1>1, <1>2 DEF AsItIs, OthersAreTold, SameUpdates
<1>3. CASE ReadAfresh(Browser!Now(t), Browser!Acquired(Browser!Now(t), t), t)
  BY <1>3 DEF ReadAfresh
<1> QED BY <1>1, <1>2, <1>3, AcquiredIs

LEMMA WriteKeepsTabs ==
  ASSUME TabsInv, NEW t \in Tabs, NEW write \in Browser!Writes, Browser!Write(t, write)
  PROVE  TabsInv'
<1> DEFINE s == Browser!Acquired(Browser!Now(t), t)
           done == Browser!Attempt(s, t, write)
           error == IF done.ok THEN Browser!NoWrite ELSE write
<1>1. /\ s \in TabStates /\ s.entry # NoEntry /\ EntryFits(s.entry)
      /\ OthersAreTold(Browser!Now(t), s, t)
      /\ s.entry = entry[t] \/ EntryIsFresh(s.entry, s.disk)
  BY AcquiredNow
<1>2. /\ write = "update" => updates < MaxUpdates
      /\ Browser!Commit(t, done.s, error)
      /\ updates' = IF done.ok /\ write = "update" THEN updates + 1 ELSE updates
  BY DEF Browser!Write
<1>3. updates \in 0 .. MaxUpdates
  BY DEF TabsInv, Browser!TypeOK
<1>4. updates' \in 0 .. MaxUpdates /\ error \in Browser!Writes \cup {Browser!NoWrite}
  BY <1>2, <1>3, RecordKinds
<1> HIDE DEF s, error
<1>5. /\ done.s \in TabStates /\ done.s.entry # NoEntry /\ EntryFits(done.s.entry)
      /\ OthersAreTold(s, done.s, t)
      /\ done.s = s \/ EntryIsFresh(done.s.entry, done.s.disk)
  BY <1>1, <1>2, <1>3, AttemptIs
<1> HIDE DEF done
<1>6. OthersAreTold(Browser!Now(t), done.s, t)
  BY <1>1, <1>5, ToldOfBoth
<1>7. AllCaughtUp(done.s, t)
  BY <1>1, <1>5, <1>6, MovingCatchesUp
<1> QED BY <1>2, <1>4, <1>5, <1>7, CommitKeepsTabs

LEMMA RetryKeepsTabs ==
  ASSUME TabsInv, NEW t \in Tabs, Browser!Retry(t)
  PROVE  TabsInv'
<1> DEFINE s == Browser!Now(t)
           write == failed[t]
           done == Browser!Attempt(s, t, write)
           error == IF done.ok THEN Browser!NoWrite ELSE write
<1>1. /\ write # Browser!NoWrite
      /\ write = "update" => updates < MaxUpdates
      /\ Browser!Commit(t, done.s, error)
      /\ updates' = IF done.ok /\ write = "update" THEN updates + 1 ELSE updates
  BY DEF Browser!Retry
<1>2. updates \in 0 .. MaxUpdates /\ write \in Browser!Writes /\ subscribed[t] # {}
  BY <1>1 DEF TabsInv, Browser!TypeOK, Browser!WriteErrorsAreOwned
<1>3. s \in TabStates /\ EntryFits(s.entry) /\ s.entry # NoEntry /\ s.entry = entry[t]
  BY <1>2, NowIs DEF AsItIs
<1>4. updates' \in 0 .. MaxUpdates /\ error \in Browser!Writes \cup {Browser!NoWrite}
  BY <1>1, <1>2, RecordKinds
<1> HIDE DEF s, error, write
<1>5. /\ done.s \in TabStates /\ done.s.entry # NoEntry /\ EntryFits(done.s.entry)
      /\ OthersAreTold(s, done.s, t)
      /\ done.s = s \/ EntryIsFresh(done.s.entry, done.s.disk)
  BY <1>1, <1>2, <1>3, AttemptIs
<1> HIDE DEF done
<1>6. AllCaughtUp(done.s, t)
  BY <1>3, <1>5, MovingCatchesUp DEF s
<1> QED BY <1>1, <1>4, <1>5, <1>6, CommitKeepsTabs

LEMMA PeekKeepsTabs ==
  ASSUME TabsInv, NEW t \in Tabs, Browser!Peek(t)
  PROVE  TabsInv'
<1> DEFINE s == Browser!Acquired(Browser!Now(t), t)
<1>1. /\ s \in TabStates /\ s.entry # NoEntry /\ EntryFits(s.entry)
      /\ OthersAreTold(Browser!Now(t), s, t)
      /\ s.entry = entry[t] \/ EntryIsFresh(s.entry, s.disk)
  BY AcquiredNow
<1>2. Browser!Commit(t, s, failed[t]) /\ updates' = updates
  BY DEF Browser!Peek
<1>3. updates \in 0 .. MaxUpdates /\ failed[t] \in Browser!Writes \cup {Browser!NoWrite}
  BY DEF TabsInv, Browser!TypeOK
<1> HIDE DEF s
<1>4. AllCaughtUp(s, t)
  BY <1>1, MovingCatchesUp
<1> QED BY <1>1, <1>2, <1>3, <1>4, CommitKeepsTabs

\* An event that is heard is the newest of the tab, or another is left behind it.
LEMMA HearEventKeepsTabs ==
  ASSUME TabsInv, NEW t \in Tabs, Browser!HearEvent(t)
  PROVE  TabsInv'
<1> DEFINE queue == events[t]
           rest == [events EXCEPT ![t] = Tail(queue)]
           m == [Browser!Now(t) EXCEPT !.events = rest]
           event == Head(queue)
           z == Browser!Heard(m, t, event)
<1>1. /\ Browser!Now(t) \in TabStates /\ Browser!Now(t).disk = disk
      /\ Browser!Now(t).writer = writer
      /\ Browser!Now(t).events = events /\ Browser!Now(t).entry = entry[t] /\ EntryFits(entry[t])
      /\ (entry[t] = NoEntry <=> subscribed[t] = {})
  BY NowIs DEF AsItIs
<1>2. queue \in Seq(TabEvents) /\ queue # <<>> /\ events \in [Tabs -> Seq(TabEvents)]
  BY DEF Browser!HearEvent, TabsInv, TabsShape
<1>3. /\ event \in TabEvents /\ Tail(queue) \in Seq(TabEvents) /\ Len(Tail(queue)) = Len(queue) - 1
      /\ Tail(queue) = <<>> => event = queue[Len(queue)]
      /\ Tail(queue) # <<>> => Tail(queue)[Len(Tail(queue))] = queue[Len(queue)]
  <2>1. /\ event \in TabEvents /\ Tail(queue) \in Seq(TabEvents)
        /\ Len(Tail(queue)) = Len(queue) - 1
        /\ \A i \in 1 .. Len(Tail(queue)) : Tail(queue)[i] = queue[i + 1]
        /\ event = queue[1] /\ Len(queue) \in Nat \ {0}
    BY <1>2, HeadTailProperties, EmptySeq
  <2> DEFINE tail == Tail(queue)
  <2>4. Len(tail) = Len(queue) - 1 /\ Len(queue) \in Nat
    BY <2>1
  <2> HIDE DEF tail, queue, event
  <2>2. CASE tail = <<>>
    <3>0. Len(tail) = 0
      BY <2>2
    <3>1. Len(queue) = 1
      BY <2>4, <3>0
    <3> QED BY <2>1, <2>2, <3>1 DEF tail
  <2>3. CASE tail # <<>>
    <3>1. Len(tail) \in Nat \ {0}
      BY <2>1, <2>3, EmptySeq DEF tail
    <3>2. Len(tail) \in 1 .. Len(tail) /\ Len(queue) = Len(tail) + 1
      BY <2>1, <3>1 DEF tail
    <3> QED BY <2>1, <2>3, <3>1, <3>2 DEF tail
  <2> QED BY <2>1, <2>2, <2>3 DEF tail
<1>4. /\ rest \in [Tabs -> Seq(TabEvents)] /\ rest[t] = Tail(queue)
      /\ \A u \in Tabs \ {t} : rest[u] = events[u]
  BY <1>2, <1>3
<1>5. Browser!Commit(t, z, failed[t]) /\ updates' = updates
  BY <1>1 DEF Browser!HearEvent
<1>6. updates \in 0 .. MaxUpdates /\ failed[t] \in Browser!Writes \cup {Browser!NoWrite}
  BY DEF TabsInv, Browser!TypeOK
<1> HIDE DEF rest
<1>7. /\ m \in TabStates /\ m.disk = disk /\ m.writer = writer /\ m.events = rest
      /\ m.entry = entry[t] /\ EntryFits(m.entry)
  BY <1>1, <1>4 DEF TabStates
<1> HIDE DEF m, event
<1>8. /\ z \in TabStates /\ EntryFits(z.entry) /\ (entry[t] = NoEntry <=> z.entry = NoEntry)
      /\ OthersAreTold(m, z, t)
      /\ \/ EntryIsFresh(z.entry, z.disk)
         \/ event # ClearEvent /\ z.entry.raw = event /\ z.disk = m.disk
  <2>1. CASE entry[t] = NoEntry
    <3>1. z = m
      BY <1>7, <2>1 DEF Browser!Heard
    <3> QED BY <1>7, <2>1, <3>1 DEF OthersAreTold, EntryIsFresh
  <2>2. CASE entry[t] # NoEntry /\ event = ClearEvent
    <3>1. z = Browser!Refreshed(m, t)
      BY <1>7, <2>2 DEF Browser!Heard
    <3> QED BY <1>7, <2>2, <3>1, RefreshedIs DEF ReadAfresh
  <2>3. CASE entry[t] # NoEntry /\ event # ClearEvent
    <3>1. z = Browser!Applied(m, t, event)
      BY <1>7, <2>3 DEF Browser!Heard
    <3>2. event \in Browser!Record
      BY <1>3, <2>3, RecordKinds DEF TabEvents
    <3> HIDE DEF z
    <3>3. /\ z \in TabStates /\ z.entry # NoEntry /\ EntryFits(z.entry) /\ z.entry.known
          /\ OthersAreTold(m, z, t)
          /\ (z.entry.raw = event /\ z.disk = m.disk) \/ z.entry.raw = z.disk
      BY <1>7, <2>3, <3>1, <3>2, AppliedIs
    <3> QED BY <2>3, <3>3 DEF EntryIsFresh
  <2> QED BY <2>1, <2>2, <2>3
<1> HIDE DEF z
<1>9. AllCaughtUp(z, t)
  <2> SUFFICES ASSUME NEW u \in Tabs, z.writer # u
               PROVE  IF z.events[u] = <<>>
                      THEN EntryIsFresh(IF u = t THEN z.entry ELSE entry[u], z.disk)
                      ELSE NewestIn(z.events[u], z.disk)
    BY DEF AllCaughtUp
  <2>1. CASE z.disk = m.disk /\ z.writer = m.writer /\ z.events = m.events
    <3>1. IF events[u] = <<>> THEN EntryIsFresh(entry[u], disk) ELSE NewestIn(events[u], disk)
      BY <1>7, <2>1 DEF TabsInv, CaughtUp
    <3>2. CASE u # t
      BY <1>4, <1>7, <2>1, <3>1, <3>2
    <3>3. CASE u = t /\ Tail(queue) # <<>>
      BY <1>2, <1>3, <1>4, <1>7, <2>1, <3>1, <3>3 DEF NewestIn
    <3>4. CASE u = t /\ Tail(queue) = <<>>
      <4>1. event \in {disk, ClearEvent}
        BY <1>2, <1>3, <3>1, <3>4 DEF NewestIn
      <4>2. EntryIsFresh(z.entry, z.disk)
        BY <1>7, <1>8, <4>1 DEF EntryIsFresh
      <4>3. z.events[u] = <<>>
        BY <1>4, <1>7, <2>1, <3>4
      <4> QED BY <3>4, <4>2, <4>3
    <3> QED BY <3>2, <3>3, <3>4
  <2>2. CASE /\ z.writer = t
             /\ \A v \in Tabs \ {t} : z.events[v] # <<>> /\ NewestIn(z.events[v], z.disk)
    BY <2>2
  <2> QED BY <1>8, <2>1, <2>2 DEF OthersAreTold
<1> QED BY <1>1, <1>5, <1>6, <1>8, <1>9, CommitKeepsTabs

LEMMA SubscribeKeepsTabs ==
  ASSUME TabsInv, NEW t \in Tabs, NEW c \in Consumers, Browser!Mount(t, c)
  PROVE  TabsInv'
<1> DEFINE s == Browser!Acquired(Browser!Now(t), t)
<1>1. /\ s \in TabStates /\ s.entry # NoEntry /\ EntryFits(s.entry)
      /\ OthersAreTold(Browser!Now(t), s, t)
      /\ s.entry = entry[t] \/ EntryIsFresh(s.entry, s.disk)
  BY AcquiredNow
<1>2. subscribed[t] # {} => s.entry = entry[t]
  BY NowIs, AcquiredIs DEF AsItIs
<1>3. /\ disk' = s.disk /\ writer' = s.writer /\ events' = s.events
      /\ entry' = [entry EXCEPT ![t] = s.entry]
      /\ subscribed' = [subscribed EXCEPT ![t] = @ \cup {c}]
      /\ shown' = [shown EXCEPT ![t][c] = Browser!View(s.entry, failed[t])]
      /\ room' = room /\ updates' = updates /\ failed' = failed
  BY DEF Browser!Mount
<1> HIDE DEF s
<1>4. AllCaughtUp(s, t)
  BY <1>1, MovingCatchesUp
<1>5. /\ entry \in [Tabs -> {NoEntry} \cup Browser!Entries]
      /\ subscribed \in [Tabs -> SUBSET Consumers]
      /\ failed \in [Tabs -> Browser!Writes \cup {Browser!NoWrite}]
      /\ shown = [u \in Tabs |-> [b \in Consumers |-> shown[u][b]]]
  BY DEF TabsInv, TabsShape
<1>6. /\ s.disk \in Browser!Record /\ s.writer \in Tabs \cup {NoWriter}
      /\ s.events \in [Tabs -> Seq(TabEvents)]
      /\ s.entry \in {NoEntry} \cup Browser!Entries
  BY <1>1 DEF TabStates
<1>7. \A u \in Tabs : /\ entry'[u] = IF u = t THEN s.entry ELSE entry[u]
                      /\ subscribed'[u] = IF u = t THEN subscribed[t] \cup {c} ELSE subscribed[u]
                      /\ \A b \in Consumers :
                           shown'[u][b] = IF u = t /\ b = c
                                          THEN Browser!View(s.entry, failed[t]) ELSE shown[u][b]
  BY <1>3, <1>5
<1>8. TabsShape'
  <2>1. entry' \in [Tabs -> {NoEntry} \cup Browser!Entries]
          /\ subscribed' \in [Tabs -> SUBSET Consumers]
    BY <1>3, <1>5, <1>6
  <2>2. shown' = [u \in Tabs |-> [b \in Consumers |-> shown'[u][b]]]
    BY <1>3, <1>5
  <2> QED BY <1>3, <1>5, <1>6, <2>1, <2>2 DEF TabsShape
<1>9. \A u \in Tabs : EntryFits(entry'[u])
  BY <1>1, <1>7 DEF TabsInv
<1>10. Browser!TypeOK'
  <2>1. room' \in {"ok", "full", "blocked"} /\ updates' \in 0 .. MaxUpdates
    BY <1>3 DEF TabsInv, Browser!TypeOK
  <2> SUFFICES ASSUME NEW u \in Tabs
               PROVE  /\ \A i \in DOMAIN events'[u] :
                           events'[u][i] \in Browser!Record \cup {ClearEvent}
                      /\ subscribed'[u] \subseteq Consumers
                      /\ failed'[u] \in Browser!Writes \cup {Browser!NoWrite}
                      /\ (entry'[u] = NoEntry) <=> (subscribed'[u] = {})
                      /\ entry'[u] # NoEntry =>
                           /\ entry'[u].raw \in Browser!Record
                           /\ entry'[u].snapshot \in Browser!Snapshots
                           /\ ~entry'[u].known <=> entry'[u].snapshot = Browser!Error("unreadable")
    BY <1>3, <1>6, <2>1 DEF Browser!TypeOK
  <2>2. events'[u] \in Seq(Browser!Record \cup {ClearEvent})
    BY <1>3, <1>6, RecordKinds DEF TabEvents
  <2>3. subscribed'[u] \subseteq Consumers /\ failed'[u] \in Browser!Writes \cup {Browser!NoWrite}
    BY <1>3, <1>5, <1>7
  <2>4. (entry'[u] = NoEntry) <=> (subscribed'[u] = {})
    BY <1>1, <1>7 DEF TabsInv, Browser!TypeOK
  <2>5. ASSUME entry'[u] # NoEntry
        PROVE  /\ entry'[u].raw \in Browser!Record /\ entry'[u].snapshot \in Browser!Snapshots
               /\ ~entry'[u].known <=> entry'[u].snapshot = Browser!Error("unreadable")
    BY <1>9, <2>5 DEF EntryFits, Browser!Entries
  <2> QED BY <2>2, <2>3, <2>4, <2>5, ElementOfSeq
<1>11. Browser!ConsumersAreCurrent'
  <2> SUFFICES ASSUME NEW u \in Tabs, NEW b \in subscribed'[u]
               PROVE  shown'[u][b] = Browser!View(entry'[u], failed[u])
    BY <1>3 DEF Browser!ConsumersAreCurrent
  <2>1. b \in subscribed[u] => shown[u][b] = Browser!View(entry[u], failed[u])
    BY DEF TabsInv, Browser!ConsumersAreCurrent
  <2>2. b \in Consumers
    BY <1>5, <1>7
  <2> QED BY <1>2, <1>7, <2>1, <2>2
<1>12. Browser!WriteErrorsAreOwned'
  BY <1>3, <1>7 DEF TabsInv, Browser!WriteErrorsAreOwned
<1>13. CaughtUp'
  BY <1>3, <1>4, <1>7 DEF CaughtUp, AllCaughtUp
<1> QED BY <1>8, <1>9, <1>10, <1>11, <1>12, <1>13 DEF TabsInv

LEMMA UnsubscribeKeepsTabs ==
  ASSUME TabsInv, NEW t \in Tabs, NEW c \in Consumers, Browser!Unmount(t, c)
  PROVE  TabsInv'
<1>1. /\ c \in subscribed[t]
      /\ subscribed' = [subscribed EXCEPT ![t] = @ \ {c}]
      /\ shown' = [shown EXCEPT ![t][c] = Browser!NotShown]
      /\ entry' = [entry EXCEPT ![t] = IF subscribed[t] = {c} THEN NoEntry ELSE @]
      /\ failed' = [failed EXCEPT ![t] = IF subscribed[t] = {c} THEN Browser!NoWrite ELSE @]
      /\ disk' = disk /\ writer' = writer /\ events' = events
      /\ room' = room /\ updates' = updates
  BY DEF Browser!Unmount, Browser!store
<1>2. /\ entry \in [Tabs -> {NoEntry} \cup Browser!Entries]
      /\ subscribed \in [Tabs -> SUBSET Consumers]
      /\ failed \in [Tabs -> Browser!Writes \cup {Browser!NoWrite}]
      /\ events \in [Tabs -> Seq(TabEvents)]
      /\ shown = [u \in Tabs |-> [b \in Consumers |-> shown[u][b]]]
  BY DEF TabsInv, TabsShape
<1>3. \A u \in Tabs : /\ entry'[u] = IF u = t /\ subscribed[t] = {c} THEN NoEntry ELSE entry[u]
                      /\ failed'[u] = IF u = t /\ subscribed[t] = {c}
                                      THEN Browser!NoWrite ELSE failed[u]
                      /\ subscribed'[u] = IF u = t THEN subscribed[t] \ {c} ELSE subscribed[u]
                      /\ \A b \in Consumers :
                           shown'[u][b] = IF u = t /\ b = c THEN Browser!NotShown ELSE shown[u][b]
  BY <1>1, <1>2
<1>4. TabsShape'
  <2>1. entry' \in [Tabs -> {NoEntry} \cup Browser!Entries]
    BY <1>1, <1>2
  <2>2. subscribed' \in [Tabs -> SUBSET Consumers]
          /\ failed' \in [Tabs -> Browser!Writes \cup {Browser!NoWrite}]
    BY <1>1, <1>2
  <2>3. shown' = [u \in Tabs |-> [b \in Consumers |-> shown'[u][b]]]
    BY <1>1, <1>2
  <2> QED BY <1>1, <1>2, <2>1, <2>2, <2>3 DEF TabsShape
<1>5. \A u \in Tabs : EntryFits(entry'[u])
  BY <1>3 DEF TabsInv, EntryFits
<1>6. Browser!TypeOK'
  BY <1>1, <1>2, <1>3 DEF TabsInv, Browser!TypeOK
<1>7. Browser!ConsumersAreCurrent'
  <2> SUFFICES ASSUME NEW u \in Tabs, NEW b \in subscribed'[u]
               PROVE  shown'[u][b] = Browser!View(entry'[u], failed'[u])
    BY DEF Browser!ConsumersAreCurrent
  <2>1. b \in subscribed[u] => shown[u][b] = Browser!View(entry[u], failed[u])
    BY DEF TabsInv, Browser!ConsumersAreCurrent
  <2>2. b \in Consumers /\ b \in subscribed[u] /\ ~(u = t /\ b = c)
    BY <1>2, <1>3
  <2> QED BY <1>3, <2>1, <2>2
<1>8. Browser!WriteErrorsAreOwned'
  BY <1>1, <1>3 DEF TabsInv, Browser!WriteErrorsAreOwned
<1>9. CaughtUp'
  BY <1>1, <1>3 DEF TabsInv, CaughtUp, EntryIsFresh
<1> QED BY <1>4, <1>5, <1>6, <1>7, <1>8, <1>9 DEF TabsInv

LEMMA ClearStoreKeepsTabs ==
  ASSUME TabsInv, Browser!ClearStore
  PROVE  TabsInv'
<1>1. /\ disk' = NoRecord /\ writer' = NoWriter
      /\ events' = [t \in Tabs |-> Append(events[t], ClearEvent)]
      /\ room' = room /\ updates' = updates /\ entry' = entry /\ failed' = failed
      /\ subscribed' = subscribed /\ shown' = shown
  BY DEF Browser!ClearStore
<1>2. events \in [Tabs -> Seq(TabEvents)]
  BY DEF TabsInv, TabsShape
<1>3. \A t \in Tabs : /\ events'[t] \in Seq(TabEvents)
                      /\ events'[t] # <<>> /\ events'[t][Len(events'[t])] = ClearEvent
  <2> TAKE t \in Tabs
  <2>1. events[t] \in Seq(TabEvents) /\ events'[t] = Append(events[t], ClearEvent)
    BY <1>1, <1>2
  <2>2. ClearEvent \in TabEvents
    BY DEF TabEvents
  <2> QED BY <2>1, <2>2, AppendProperties
<1>4. events' \in [Tabs -> Seq(TabEvents)]
  BY <1>1, <1>3
<1>5. TabsShape'
  BY <1>1, <1>4 DEF TabsInv, TabsShape
<1>6. Browser!TypeOK'
  <2>1. TabEvents \subseteq Browser!Record \cup {ClearEvent}
    BY RecordKinds DEF TabEvents
  <2>2. \A t \in Tabs : \A i \in DOMAIN events'[t] :
          events'[t][i] \in Browser!Record \cup {ClearEvent}
    BY <1>3, <2>1, ElementOfSeq, LenProperties
  <2> QED BY <1>1, <2>2, RecordKinds DEF TabsInv, Browser!TypeOK
<1>7. CaughtUp'
  BY <1>1, <1>3 DEF CaughtUp, NewestIn
<1> QED BY <1>1, <1>5, <1>6, <1>7 DEF TabsInv, Browser!ConsumersAreCurrent,
          Browser!WriteErrorsAreOwned

LEMMA RestKeepsTabs ==
  ASSUME TabsInv, Browser!RoomChanges \/ UNCHANGED Browser!vars
  PROVE  TabsInv'
<1>1. /\ disk' = disk /\ writer' = writer /\ events' = events
      /\ updates' = updates /\ entry' = entry /\ failed' = failed
      /\ subscribed' = subscribed /\ shown' = shown /\ room' \in {"ok", "full", "blocked"}
  BY DEF Browser!RoomChanges, Browser!vars, Browser!store, TabsInv, Browser!TypeOK
<1> QED BY <1>1 DEF TabsInv, TabsShape, Browser!TypeOK, CaughtUp, Browser!ConsumersAreCurrent,
          Browser!WriteErrorsAreOwned

LEMMA TabsBegin == Browser!Init => TabsInv
<1> SUFFICES ASSUME Browser!Init PROVE TabsInv
  OBVIOUS
<1>1. /\ disk \in Records /\ room = "ok" /\ writer = NoWriter /\ updates = 0
      /\ events = [t \in Tabs |-> <<>>]
      /\ entry = [t \in Tabs |-> NoEntry] /\ failed = [t \in Tabs |-> Browser!NoWrite]
      /\ subscribed = [t \in Tabs |-> {}]
      /\ shown = [t \in Tabs |-> [c \in Consumers |-> Browser!NotShown]]
  BY DEF Browser!Init
<1>2. disk \in Browser!Record
  <2>1. CASE disk = NoRecord
    BY <2>1 DEF Browser!Record
  <2>2. CASE disk # NoRecord
    <3>1. disk \in [v : Nat, d : SUBSET Browser!Updates] /\ disk.v \in Browser!Shapes
      BY <1>1, <2>2, BrowserAssumption DEF Browser!BrowserStorageAssumption, Browser!Shapes
    <3>2. disk \in [v : Browser!Shapes, d : SUBSET Browser!Updates]
      BY <3>1
    <3> QED BY <3>2 DEF Browser!Record
  <2> QED BY <2>1, <2>2
<1>3. events \in [Tabs -> Seq(TabEvents)]
  BY <1>1, EmptySeq
<1>4. TabsShape
  BY <1>1, <1>3 DEF TabsShape
<1>5. Browser!TypeOK
  BY <1>1, <1>2, RecordKinds DEF Browser!TypeOK
<1> QED BY <1>1, <1>4, <1>5
        DEF TabsInv, CaughtUp, EntryIsFresh, EntryFits, Browser!ConsumersAreCurrent,
          Browser!WriteErrorsAreOwned

LEMMA TabsStep == TabsInv /\ [Browser!Next]_(Browser!vars) => TabsInv'
<1> SUFFICES ASSUME TabsInv, [Browser!Next]_(Browser!vars) PROVE TabsInv'
  OBVIOUS
<1> QED BY WriteKeepsTabs, RetryKeepsTabs, PeekKeepsTabs, HearEventKeepsTabs,
           SubscribeKeepsTabs, UnsubscribeKeepsTabs,
           ClearStoreKeepsTabs, RestKeepsTabs DEF Browser!Next

LEMMA TabsInvHolds == TabsInv => Browser!Consistent
BY DEF TabsInv, CaughtUp, EntryIsFresh, Browser!Consistent, Browser!StaleOnlyByOwnWrite,
  Browser!TypeOK

\* Tabs of one build have nothing to convert that one of them wrote.
OneBuild == \A t, u \in Tabs : Build[t] = Build[u]

LEMMA CommitIsStored ==
  ASSUME NEW t, NEW s, NEW write, Browser!Commit(t, s, write)
  PROVE  disk' = s.disk
BY DEF Browser!Commit

LEMMA HeardKeepsUpdates ==
  ASSUME OneBuild, TabsInv, NEW t \in Tabs, Browser!HearEvent(t)
  PROVE  disk' = disk \/ SameUpdates(Browser!Now(t), [disk |-> disk'])
<1> DEFINE queue == events[t]
           rest == [events EXCEPT ![t] = Tail(queue)]
           m == [Browser!Now(t) EXCEPT !.events = rest]
           event == Head(queue)
           z == Browser!Heard(m, t, event)
<1>1. /\ Browser!Now(t) \in TabStates /\ Browser!Now(t).disk = disk
      /\ Browser!Now(t).writer = writer
      /\ Browser!Now(t).events = events /\ Browser!Now(t).entry = entry[t] /\ EntryFits(entry[t])
  BY NowIs DEF AsItIs
<1>2. queue \in Seq(TabEvents) /\ queue # <<>> /\ events \in [Tabs -> Seq(TabEvents)]
  BY DEF Browser!HearEvent, TabsInv, TabsShape
<1>3. event \in TabEvents /\ Tail(queue) \in Seq(TabEvents)
  BY <1>2, HeadTailProperties
<1>4. rest \in [Tabs -> Seq(TabEvents)]
  BY <1>2, <1>3
<1>5. disk' = z.disk
  BY <1>1, CommitIsStored DEF Browser!HearEvent
<1> HIDE DEF rest
<1>6. m \in TabStates /\ m.disk = disk /\ m.entry = entry[t]
  BY <1>1, <1>4 DEF TabStates
<1> HIDE DEF m, event
<1>7. CASE entry[t] = NoEntry
  BY <1>5, <1>6, <1>7 DEF Browser!Heard
<1>8. CASE entry[t] # NoEntry /\ event = ClearEvent
  <2>1. z = Browser!Refreshed(m, t)
    BY <1>6, <1>8 DEF Browser!Heard
  <2> HIDE DEF z
  <2>2. SameUpdates(m, z)
    BY <1>1, <1>6, <1>8, <2>1, RefreshedIs DEF ReadAfresh
  <2> QED BY <1>1, <1>5, <1>6, <2>2 DEF SameUpdates
<1>9. CASE entry[t] # NoEntry /\ event # ClearEvent
  <2>1. z = Browser!Applied(m, t, event)
    BY <1>6, <1>9 DEF Browser!Heard
  <2> HIDE DEF z
  <2>2. event \in Browser!Record /\ (event # NoRecord => event.v = Build[t])
    BY <1>3, <1>9, RecordKinds DEF TabEvents, TabRecords, OneBuild
  <2>3. z.disk = m.disk \/ (event # NoRecord /\ event.v < Build[t])
    BY <1>1, <1>6, <1>9, <2>1, <2>2, AppliedIs
  <2>4. z.disk = m.disk
    BY <2>2, <2>3, RecordKinds
  <2> QED BY <1>5, <1>6, <2>4
<1> QED BY <1>7, <1>8, <1>9

LEMMA UpdatesSurvive ==
  ASSUME OneBuild, TabsInv, [Browser!Next]_(Browser!vars)
  PROVE  disk # NoRecord /\ disk' # NoRecord /\ disk'.d # {} => disk.d \subseteq disk'.d
<1> DEFINE Keeps == disk # NoRecord /\ disk' # NoRecord /\ disk'.d # {} => disk.d \subseteq disk'.d
<1>1. \A t \in Tabs : /\ Browser!Now(t) \in TabStates /\ Browser!Now(t).disk = disk
                      /\ EntryFits(Browser!Now(t).entry) /\ Browser!Now(t).entry = entry[t]
  BY NowIs DEF AsItIs
<1>2. ASSUME NEW t \in Tabs, NEW write \in Browser!Writes, Browser!Write(t, write)
      PROVE  Keeps
  <2> DEFINE s == Browser!Acquired(Browser!Now(t), t)
             z == Browser!Attempt(s, t, write).s
  <2>1. s \in TabStates /\ s.entry # NoEntry /\ EntryFits(s.entry) /\ SameUpdates(Browser!Now(t), s)
    BY AcquiredNow
  <2>2. (write = "update" => updates < MaxUpdates) /\ disk' = z.disk
    BY <1>2, CommitIsStored DEF Browser!Write
  <2>3. updates \in 0 .. MaxUpdates
    BY DEF TabsInv, Browser!TypeOK
  <2> HIDE DEF s
  <2>4. s.disk # NoRecord /\ z.disk # NoRecord /\ z.disk.d # {} => s.disk.d \subseteq z.disk.d
    BY <2>1, <2>2, <2>3, AttemptIs
  <2> HIDE DEF z
  <2> QED BY <1>1, <2>1, <2>2, <2>4 DEF SameUpdates
<1>3. ASSUME NEW t \in Tabs, Browser!Retry(t)
      PROVE  Keeps
  <2> DEFINE s == Browser!Now(t)
             write == failed[t]
             z == Browser!Attempt(s, t, write).s
  <2>1. write # Browser!NoWrite /\ (write = "update" => updates < MaxUpdates) /\ disk' = z.disk
    BY <1>3, CommitIsStored DEF Browser!Retry
  <2>2. updates \in 0 .. MaxUpdates /\ write \in Browser!Writes /\ subscribed[t] # {}
    BY <2>1 DEF TabsInv, Browser!TypeOK, Browser!WriteErrorsAreOwned
  <2>3. s \in TabStates /\ s.entry # NoEntry /\ EntryFits(s.entry) /\ s.disk = disk
    BY <1>1, <2>2, NowIs
  <2> HIDE DEF s, write
  <2>4. s.disk # NoRecord /\ z.disk # NoRecord /\ z.disk.d # {} => s.disk.d \subseteq z.disk.d
    BY <2>1, <2>2, <2>3, AttemptIs
  <2> HIDE DEF z
  <2> QED BY <2>1, <2>3, <2>4
<1>4. ASSUME NEW t \in Tabs, Browser!Peek(t) \/ \E c \in Consumers : Browser!Mount(t, c)
      PROVE  Keeps
  <2>1. disk' = Browser!Acquired(Browser!Now(t), t).disk
    BY <1>4, CommitIsStored DEF Browser!Peek, Browser!Mount
  <2> QED BY <1>1, <2>1, AcquiredNow DEF SameUpdates
<1>5. ASSUME NEW t \in Tabs, Browser!HearEvent(t)
      PROVE  Keeps
  BY <1>1, <1>5, HeardKeepsUpdates DEF SameUpdates
<1>6. ASSUME \/ \E t \in Tabs, c \in Consumers : Browser!Unmount(t, c)
             \/ Browser!RoomChanges \/ Browser!ClearStore \/ UNCHANGED Browser!vars
      PROVE  Keeps
  <2>1. disk' = disk \/ disk' = NoRecord
    BY <1>6 DEF Browser!Unmount, Browser!RoomChanges, Browser!ClearStore, Browser!vars,
      Browser!store
  <2> QED BY <2>1
<1> QED BY <1>2, <1>3, <1>4, <1>5, <1>6 DEF Browser!Next

\* In tabs whose records have a version, what a tab shows of the stored value, of its own failed
\* write, and to whom, is current whatever the other tabs write, the user clears or the browser
\* refuses; a tab that is behind has an event to hear, or wrote last itself
\* (#publish, #applyRaw, #refresh, handleStorageEvent).
THEOREM StoredValuesAreCurrent == Browser!Spec => []Browser!Consistent
<1> QED BY TabsBegin, TabsStep, TabsInvHolds, PTL DEF Browser!Spec

\* Browser!vars, as the page of all the parts has it.
LEMMA BrowserSteps ==
  ASSUME [SharedNext]_<<vars, crumbs, signIn, browser, about>>, about' = "browser"
  PROVE  about = "browser" /\ [Browser!Next]_(Browser!vars)
BY DEF SharedNext, browser, Browser!vars, Browser!store

LEMMA SharedTabsKeep ==
  ASSUME about = "browser" => TabsInv, [SharedNext]_<<vars, crumbs, signIn, browser, about>>
  PROVE  about' = "browser" => TabsInv'
<1> SUFFICES ASSUME about' = "browser" PROVE TabsInv'
  OBVIOUS
<1> QED BY BrowserSteps, TabsStep

\* TabsAreCurrent, as the run states it.
THEOREM TabsShowWhatIsStored == SharedSpec => []TabsAreCurrent
<1> DEFINE TInv == about = "browser" => TabsInv
<1>1. SharedInit => TInv
  BY TabsBegin DEF SharedInit
<1>2. TInv /\ [SharedNext]_<<vars, crumbs, signIn, browser, about>> => TInv'
  BY SharedTabsKeep
<1>3. TInv => TabsAreCurrent
  BY TabsInvHolds DEF TabsAreCurrent
<1> QED BY <1>1, <1>2, <1>3, PTL DEF SharedSpec

\* UpdatesAreKept, as the run states it, where all tabs run one build: a functional update is lost
\* to no other, in whatever order tabs write, hear of it and retry (#setValue, bindBrowser's set).
THEOREM UpdatesSurviveEachOther == ASSUME OneBuild PROVE SharedSpec => UpdatesAreKept
<1> DEFINE TInv == about = "browser" => TabsInv
           Keeps == disk # NoRecord /\ disk' # NoRecord /\ disk'.d # {} => disk.d \subseteq disk'.d
<1>1. SharedInit => TInv
  BY TabsBegin DEF SharedInit
<1>2. TInv /\ [SharedNext]_<<vars, crumbs, signIn, browser, about>> => TInv'
  BY SharedTabsKeep
<1>3. TInv /\ [SharedNext]_<<vars, crumbs, signIn, browser, about>> => [Keeps]_(Browser!vars)
  <2> SUFFICES ASSUME TInv, SharedNext, ~UNCHANGED Browser!vars PROVE Keeps
    BY DEF browser, Browser!vars, Browser!store
  <2>1. about = "browser" /\ Browser!Next
    BY DEF SharedNext, browser, Browser!vars, Browser!store
  <2> QED BY <2>1, UpdatesSurvive
<1> QED BY <1>1, <1>2, <1>3, PTL DEF SharedSpec, UpdatesAreKept, Browser!UpdatesAreKept


-----------------------------------------------------------------------------
(* The trail of breadcrumbs *)

\* `f` puts the first k parts one behind the other, as FlattenSeq does.
Flattens(f, s, k) == f = [i \in 1 .. k |-> IF i = 1 THEN s[i] ELSE f[i - 1] \o s[i]]

LEMMA FlattensExist ==
  ASSUME NEW n \in Nat, NEW s
  PROVE  \E f : Flattens(f, s, n)
<1> DEFINE Bad == {k \in Nat : \A f : ~Flattens(f, s, k)}
<1>1. SUFFICES ASSUME Bad # {} PROVE FALSE
  OBVIOUS
<1>2. PICK k \in Bad : \A j \in Bad : k <= j
  BY <1>1, LeastOf
<1>3. k \in Nat /\ \A f : ~Flattens(f, s, k)
  OBVIOUS
<1>4. k # 0
  <2>1. Flattens([i \in 1 .. 0 |-> 0], s, 0)
    BY DEF Flattens
  <2> QED BY <1>3, <2>1
<1>5. k - 1 \in Nat /\ k - 1 \notin Bad
  BY <1>2, <1>3, <1>4
<1>6. PICK f : Flattens(f, s, k - 1)
  BY <1>5
<1> DEFINE g == [i \in 1 .. k |-> IF i < k THEN f[i] ELSE IF i = 1 THEN s[i] ELSE f[i - 1] \o s[i]]
<1>7. Flattens(g, s, k)
  <2>1. \A i \in 1 .. k - 1 : f[i] = IF i = 1 THEN s[i] ELSE f[i - 1] \o s[i]
    BY <1>3, <1>6 DEF Flattens
  <2>2. \A i \in 1 .. k : i # 1 => i - 1 \in 1 .. k /\ i - 1 < k /\ g[i - 1] = f[i - 1]
    BY <1>3
  <2>3. \A i \in 1 .. k : g[i] = IF i = 1 THEN s[i] ELSE g[i - 1] \o s[i]
    <3> TAKE i \in 1 .. k
    <3>1. CASE i < k
      <4>1. i \in 1 .. k - 1 /\ g[i] = f[i]
        BY <1>3, <3>1
      <4> HIDE DEF g
      <4> QED BY <2>1, <2>2, <4>1
    <3>2. CASE ~(i < k)
      <4>1. g[i] = IF i = 1 THEN s[i] ELSE f[i - 1] \o s[i]
        BY <3>2
      <4> HIDE DEF g
      <4> QED BY <2>2, <4>1
    <3> QED BY <3>1, <3>2
  <2> QED BY <2>3 DEF Flattens
<1> QED BY <1>3, <1>7

\* A trail put together from parts has only what the parts have.
LEMMA FlattenIs ==
  ASSUME NEW S, NEW s \in Seq(Seq(S))
  PROVE  Crumbs!FlattenSeq(s) \in Seq(S)
<1> DEFINE n == Len(s)
           flat == CHOOSE f : f = [i \in 1 .. n |-> IF i = 1 THEN s[i] ELSE f[i - 1] \o s[i]]
<1>1. n \in Nat /\ DOMAIN s = 1 .. n
  BY LenProperties
<1>2. Flattens(flat, s, n)
  BY <1>1, FlattensExist DEF Flattens
<1>3. Crumbs!FlattenSeq(s) = IF n = 0 THEN s ELSE flat[n]
  BY DEF Crumbs!FlattenSeq
<1> HIDE DEF flat, n
<1>4. \A i \in 1 .. n : s[i] \in Seq(S) /\ flat[i] = IF i = 1 THEN s[i] ELSE flat[i - 1] \o s[i]
  BY <1>1, <1>2, ElementOfSeq DEF Flattens, n
<1> DEFINE Bad == {k \in 1 .. n : flat[k] \notin Seq(S)}
<1>5. Bad = {}
  <2>1. SUFFICES ASSUME Bad # {} PROVE FALSE
    OBVIOUS
  <2>2. PICK k \in Bad : \A j \in Bad : k <= j
    <3>1. Bad \subseteq Nat /\ Bad # {}
      BY <1>1, <2>1
    <3> HIDE DEF Bad
    <3> QED BY <3>1, LeastOf
  <2>3. k \in 1 .. n /\ flat[k] \notin Seq(S) /\ k # 1
    BY <1>4
  <2>4. k - 1 \in 1 .. n /\ k - 1 \notin Bad
    BY <1>1, <2>2, <2>3
  <2>5. flat[k - 1] \in Seq(S) /\ s[k] \in Seq(S) /\ flat[k] = flat[k - 1] \o s[k]
    BY <1>4, <2>3, <2>4
  <2> QED BY <2>3, <2>5, ConcatProperties
<1>6. CASE n = 0
  BY <1>3, <1>6, EmptySeq DEF n
<1>7. CASE n # 0
  <2>1. n \in 1 .. n
    BY <1>1, <1>7
  <2> QED BY <1>3, <1>5, <1>7, <2>1
<1> QED BY <1>6, <1>7

-----------------------------------------------------------------------------
(* Breadcrumbs *)

\* A contribution is that of a registration whose handle is held or there is none, and an override is
\* a component's that is there, since the last navigation.
CrumbsInv ==
  /\ Crumbs!TypeOK
  /\ \A m \in Crumbs!Depths :
       /\ contributions[m] = Crumbs!Nothing
          \/ (Crumbs!Registered(m) /\ contributions[m].sequence \in handles[m])
       /\ contributions[m].override # 0 =>
            /\ contributions[m].owner \in mounted /\ InMount[contributions[m].owner] = m
            /\ contributions[m].began = contributions[m].navigation
  /\ Crumbs!TrailIsCurrent

\* What an entry of the trail may be.
Entries(c, here) ==
  [by : here \cup {Nested[m] : m \in {d \in Crumbs!Depths : c[d].sequence # 0}}, items : Nat]

LEMMA DepthsAre == \E n \in Nat : Crumbs!Depths = 1 .. n
BY CrumbsAssumption, LenProperties DEF Crumbs!Depths, Crumbs!BreadcrumbsAssumption

LEMMA TrailIs ==
  ASSUME CrumbsInv
  PROVE  trail \in Seq(Entries(contributions, mounted))
<1> DEFINE E == Entries(contributions, mounted)
           s == [m \in Crumbs!Depths |-> Crumbs!Part(contributions, m)]
<1>1. \A m \in Crumbs!Depths : Crumbs!Part(contributions, m) \in Seq(E)
  <2> TAKE m \in Crumbs!Depths
  <2> DEFINE c == contributions[m]
  <2>1. /\ c.override \in Nat /\ c.items \in Nat
        /\ c.override # 0 => c.owner \in mounted
        /\ c.items # 0 => c.sequence # 0
    BY DEF CrumbsInv, Crumbs!TypeOK, Crumbs!Items, Crumbs!Nothing, Crumbs!Registered
  <2>2. c.override # 0 => [by |-> c.owner, items |-> c.override] \in E
    BY <2>1 DEF Entries
  <2>3. c.items # 0 => [by |-> Nested[m], items |-> c.items] \in E
    BY <2>1 DEF Entries
  <2> HIDE DEF E
  <2>4. \A e \in E : <<e>> \in Seq(E)
    OBVIOUS
  <2>5. <<>> \in Seq(E)
    OBVIOUS
  <2> QED BY <2>2, <2>3, <2>4, <2>5 DEF Crumbs!Part
<1>2. s \in Seq(Seq(E))
  <2>1. PICK n \in Nat : Crumbs!Depths = 1 .. n
    BY DepthsAre
  <2> HIDE DEF E
  <2> QED BY <1>1, <2>1
<1>3. trail = Crumbs!FlattenSeq(s)
  BY DEF CrumbsInv, Crumbs!TrailIsCurrent, Crumbs!Composed
<1> HIDE DEF E, s
<1> QED BY <1>2, <1>3, FlattenIs DEF E

LEMMA CrumbsAreConsistent == CrumbsInv => Crumbs!Consistent
<1> SUFFICES ASSUME CrumbsInv PROVE Crumbs!Consistent
  OBVIOUS
<1>1. \A by \in Crumbs!Shown :
        by \in mounted \cup {Nested[m] : m \in {d \in Crumbs!Depths : Crumbs!Registered(d)}}
  <2> SUFFICES ASSUME NEW i \in DOMAIN trail
               PROVE  trail[i].by \in mounted \cup
                        {Nested[m] : m \in {d \in Crumbs!Depths : Crumbs!Registered(d)}}
    BY DEF Crumbs!Shown
  <2>1. trail[i] \in Entries(contributions, mounted)
    BY TrailIs, LenProperties, ElementOfSeq
  <2> QED BY <2>1 DEF Entries, Crumbs!Registered
<1>2. /\ \A m \in Crumbs!Depths : Nested[m] \notin Components
      /\ \A m, d \in Crumbs!Depths : Nested[m] = Nested[d] => m = d
  BY CrumbsAssumption DEF Crumbs!BreadcrumbsAssumption, Crumbs!Depths, Crumbs!Range,
    Crumbs!IsInjective
<1>3. Crumbs!Shown \cap Components \subseteq mounted
  BY <1>1, <1>2
<1>4. \A m \in Crumbs!Depths : contributions[m].override # 0 => Crumbs!HasLiveOverride(m)
  BY DEF CrumbsInv, Crumbs!HasLiveOverride
<1>5. \A m \in Crumbs!Depths : Nested[m] \in Crumbs!Shown => Crumbs!Registered(m)
  BY <1>1, <1>2 DEF CrumbsInv, Crumbs!TypeOK
<1> QED BY <1>3, <1>4, <1>5 DEF CrumbsInv, Crumbs!Consistent, Crumbs!NothingLeaks

LEMMA CrumbsBegin == Crumbs!Init => CrumbsInv
<1> SUFFICES ASSUME Crumbs!Init PROVE CrumbsInv
  OBVIOUS
<1>1. Crumbs!TypeOK
  BY CrumbsAssumption DEF Crumbs!Init, Crumbs!TypeOK, Crumbs!Nothing, Crumbs!BreadcrumbsAssumption
<1>2. Crumbs!TrailIsCurrent
  <2> DEFINE s == [m \in Crumbs!Depths |-> Crumbs!Part(contributions, m)]
  <2>1. \A m \in Crumbs!Depths : Crumbs!Part(contributions, m) = <<>>
    BY DEF Crumbs!Init, Crumbs!Part, Crumbs!Nothing
  <2>2. PICK n \in Nat : Crumbs!Depths = 1 .. n
    BY DepthsAre
  <2>3. s \in Seq(Seq({}))
    <3>1. <<>> \in Seq({})
      BY EmptySeq
    <3>2. s \in [1 .. n -> Seq({})]
      BY <2>1, <2>2, <3>1
    <3> HIDE DEF s
    <3> QED BY <3>2
  <2>4. Crumbs!FlattenSeq(s) \in Seq({})
    BY <2>3, FlattenIs
  <2>5. Crumbs!FlattenSeq(s) = <<>>
    BY <2>4, EmptySeq, LenProperties, ElementOfSeq
  <2> QED BY <2>5 DEF Crumbs!TrailIsCurrent, Crumbs!Composed, Crumbs!Init
<1> QED BY <1>1, <1>2 DEF Crumbs!Init, CrumbsInv, Crumbs!Nothing

\* A contribution with other items, or without an override.
Contributions(s) ==
  [sequence : 0 .. s, items : {0} \cup Crumbs!Items, override : {0} \cup Crumbs!Items,
   owner : Components \cup {Crumbs!Nobody}, navigation : 0 .. MaxNavigations,
   began : 0 .. MaxNavigations + 1]

\* A handler that composes keeps everything if what it composes is sound.
LEMMA ComposeKeeps ==
  ASSUME CrumbsInv, NEW c \in [Crumbs!Depths -> Contributions(sequence)], Crumbs!Compose(c),
           sequence' = sequence,
         handles' \in [Crumbs!Depths -> SUBSET (1 .. sequence)], mounted' \subseteq Components,
         \A m \in Crumbs!Depths :
           /\ c[m] = Crumbs!Nothing \/ (c[m].sequence # 0 /\ c[m].sequence \in handles'[m])
           /\ c[m].override # 0 =>
                /\ c[m].owner \in mounted' /\ InMount[c[m].owner] = m
                /\ c[m].began = c[m].navigation
  PROVE  CrumbsInv'
<1>1. Crumbs!TypeOK'
  BY DEF CrumbsInv, Crumbs!TypeOK, Contributions, Crumbs!Compose
<1>2. Crumbs!TrailIsCurrent'
  BY DEF Crumbs!Compose, Crumbs!TrailIsCurrent
<1> QED BY <1>1, <1>2 DEF CrumbsInv, Crumbs!Compose, Crumbs!Registered

LEMMA RegisterMountKeeps ==
  ASSUME CrumbsInv, NEW m \in Crumbs!Depths, Crumbs!RegisterMount(m)
  PROVE  CrumbsInv'
<1> DEFINE new == [Crumbs!Nothing EXCEPT !.sequence = sequence + 1, !.began = MaxNavigations + 1]
<1>1. /\ ~Crumbs!Registered(m) /\ sequence' = sequence + 1 /\ sequence < MaxRegistered
      /\ contributions' = [contributions EXCEPT ![m] = new]
      /\ handles' = [handles EXCEPT ![m] = @ \cup {sequence + 1}]
      /\ UNCHANGED <<trail, mounted>>
  BY DEF Crumbs!RegisterMount
<1>2. contributions[m] = Crumbs!Nothing
  BY <1>1 DEF CrumbsInv
<1>3. sequence \in Nat /\ sequence + 1 # 0 /\ sequence + 1 \in 0 .. MaxRegistered
  BY <1>1, CrumbsAssumption DEF CrumbsInv, Crumbs!TypeOK, Crumbs!BreadcrumbsAssumption
<1>4. /\ new \in Contributions(sequence + 1) /\ new.sequence = sequence + 1 /\ new.override = 0
      /\ new.items = 0
  <2>1. /\ MaxNavigations + 1 \in 0 .. MaxNavigations + 1 /\ sequence + 1 \in 0 .. sequence + 1
        /\ MaxNavigations \in Nat
    BY <1>3, CrumbsAssumption DEF Crumbs!BreadcrumbsAssumption
  <2>2. Crumbs!Nothing \in Contributions(sequence + 1) /\ Crumbs!Nothing.override = 0
          /\ Crumbs!Nothing.items = 0
    BY <1>3, <2>1 DEF Crumbs!Nothing, Contributions
  <2> QED BY <2>1, <2>2 DEF Contributions
<1> HIDE DEF new
<1>5. Crumbs!TypeOK'
  <2>1. contributions \in [Crumbs!Depths -> Contributions(sequence + 1)]
    BY <1>3 DEF CrumbsInv, Crumbs!TypeOK, Contributions
  <2>2. contributions' \in [Crumbs!Depths -> Contributions(sequence')]
    BY <1>1, <1>4, <2>1
  <2>3. handles' \in [Crumbs!Depths -> SUBSET (1 .. sequence')]
    BY <1>1, <1>3 DEF CrumbsInv, Crumbs!TypeOK
  <2> QED BY <1>1, <1>3, <2>2, <2>3 DEF CrumbsInv, Crumbs!TypeOK, Contributions
<1>6. \A d \in Crumbs!Depths : Crumbs!Part(contributions', d) = Crumbs!Part(contributions, d)
  <2>1. Crumbs!Part(contributions', m) = <<>> /\ Crumbs!Part(contributions, m) = <<>>
    BY <1>1, <1>2, <1>4 DEF Crumbs!Part, Crumbs!Nothing, CrumbsInv, Crumbs!TypeOK
  <2>2. \A d \in Crumbs!Depths \ {m} : contributions'[d] = contributions[d]
    BY <1>1 DEF CrumbsInv, Crumbs!TypeOK
  <2> QED BY <2>1, <2>2 DEF Crumbs!Part
<1>7. Crumbs!TrailIsCurrent'
  <2>1. [d \in Crumbs!Depths |-> Crumbs!Part(contributions', d)] =
          [d \in Crumbs!Depths |-> Crumbs!Part(contributions, d)]
    BY <1>6
  <2> QED BY <1>1, <2>1 DEF CrumbsInv, Crumbs!TrailIsCurrent, Crumbs!Composed
<1>8. \A d \in Crumbs!Depths :
        /\ contributions'[d] = Crumbs!Nothing
           \/ (contributions'[d].sequence # 0 /\ contributions'[d].sequence \in handles'[d])
        /\ contributions'[d].override # 0 =>
             /\ contributions'[d].owner \in mounted' /\ InMount[contributions'[d].owner] = d
             /\ contributions'[d].began = contributions'[d].navigation
  <2>1. /\ contributions'[m].sequence # 0 /\ contributions'[m].sequence \in handles'[m]
        /\ contributions'[m].override = 0
    BY <1>1, <1>3, <1>4 DEF CrumbsInv, Crumbs!TypeOK
  <2>2. \A d \in Crumbs!Depths \ {m} : contributions'[d] = contributions[d]
          /\ handles'[d] = handles[d]
    BY <1>1 DEF CrumbsInv, Crumbs!TypeOK
  <2> QED BY <1>1, <2>1, <2>2 DEF CrumbsInv, Crumbs!Registered
<1> QED BY <1>5, <1>7, <1>8 DEF CrumbsInv, Crumbs!Registered

\* Items that are published are those of a contribution that is there.
LEMMA UpdateIs ==
  ASSUME NEW c \in [Crumbs!Depths -> Contributions(sequence)], NEW m \in Crumbs!Depths,
           NEW h, NEW i \in Crumbs!Items
  PROVE  /\ Crumbs!Update(c, m, h, i) \in [Crumbs!Depths -> Contributions(sequence)]
         /\ \A d \in Crumbs!Depths :
              /\ Crumbs!Update(c, m, h, i)[d].override = c[d].override
              /\ Crumbs!Update(c, m, h, i)[d].owner = c[d].owner
              /\ Crumbs!Update(c, m, h, i)[d].began = c[d].began
              /\ Crumbs!Update(c, m, h, i)[d].navigation = c[d].navigation
              /\ Crumbs!Update(c, m, h, i)[d].sequence = c[d].sequence
              /\ Crumbs!Update(c, m, h, i)[d] = c[d] \/ (d = m /\ Crumbs!Live(m, h))
BY DEF Crumbs!Update, Contributions

LEMMA PublishKeeps == ASSUME CrumbsInv, NEW m \in Crumbs!Depths, Crumbs!Publish(m) PROVE CrumbsInv'
<1>1. PICK h \in handles[m], i \in Crumbs!Items : Crumbs!Compose(Crumbs!Update(contributions, m, h, i))
  BY DEF Crumbs!Publish
<1>2. contributions \in [Crumbs!Depths -> Contributions(sequence)]
  BY DEF CrumbsInv, Crumbs!TypeOK, Contributions
<1> DEFINE c == Crumbs!Update(contributions, m, h, i)
<1>3. /\ c \in [Crumbs!Depths -> Contributions(sequence)]
      /\ \A d \in Crumbs!Depths :
           /\ c[d].override = contributions[d].override /\ c[d].owner = contributions[d].owner
           /\ c[d].began = contributions[d].began /\ c[d].navigation = contributions[d].navigation
           /\ c[d].sequence = contributions[d].sequence
           /\ c[d] = contributions[d] \/ (d = m /\ Crumbs!Live(m, h))
  BY <1>2, UpdateIs
<1> HIDE DEF c
<1>4. UNCHANGED <<sequence, handles, mounted>>
  BY DEF Crumbs!Publish
<1>5. Crumbs!Live(m, h) => contributions[m].sequence # 0 /\ contributions[m].sequence \in handles[m]
  BY DEF Crumbs!Live, CrumbsInv, Crumbs!TypeOK
<1>6. handles \in [Crumbs!Depths -> SUBSET (1 .. sequence)] /\ mounted \subseteq Components
        /\ Crumbs!Compose(c)
  BY <1>1 DEF CrumbsInv, Crumbs!TypeOK, c
<1> QED BY <1>3, <1>4, <1>5, <1>6, ComposeKeeps DEF CrumbsInv, Crumbs!Registered

\* A mount that navigates loses its override.
LEMMA NotifiedIs ==
  ASSUME CrumbsInv, NEW m \in Crumbs!Depths, contributions[m].navigation < MaxNavigations
  PROVE  LET b == Crumbs!Notified(m)
         IN  /\ b \in [Crumbs!Depths -> Contributions(sequence)]
             /\ \A d \in Crumbs!Depths : b[d].sequence = contributions[d].sequence
             /\ \A d \in Crumbs!Depths : b[d] = contributions[d]
                                         \/ (b[d].override = 0 /\ Crumbs!Registered(d))
             /\ Crumbs!Registered(m) => b[m].override = 0
             /\ \A d \in Crumbs!Depths \ {m} : b[d] = contributions[d]
<1> DEFINE b == Crumbs!Notified(m)
           r == [contributions[m] EXCEPT !.navigation = @ + 1, !.override = 0]
<1>1. contributions \in [Crumbs!Depths -> Contributions(sequence)]
  BY DEF CrumbsInv, Crumbs!TypeOK, Contributions
<1>2. /\ r \in Contributions(sequence) /\ r.sequence = contributions[m].sequence
      /\ r.override = 0
  <2>1. contributions[m] \in Contributions(sequence) /\ MaxNavigations \in Nat
    BY <1>1, CrumbsAssumption DEF Crumbs!BreadcrumbsAssumption
  <2>2. contributions[m].navigation + 1 \in 0 .. MaxNavigations
    BY <2>1 DEF Contributions
  <2> QED BY <2>1, <2>2 DEF Contributions
<1>3. b = IF Crumbs!Registered(m) THEN [contributions EXCEPT ![m] = r] ELSE contributions
  BY <1>1 DEF Crumbs!Notified
<1> HIDE DEF r, b
<1>4. /\ b \in [Crumbs!Depths -> Contributions(sequence)]
      /\ \A d \in Crumbs!Depths : b[d].sequence = contributions[d].sequence
      /\ \A d \in Crumbs!Depths : b[d] = contributions[d]
                                  \/ (b[d].override = 0 /\ Crumbs!Registered(d))
      /\ Crumbs!Registered(m) => b[m].override = 0
      /\ \A d \in Crumbs!Depths \ {m} : b[d] = contributions[d]
  BY <1>1, <1>2, <1>3
<1> QED BY <1>4 DEF b

LEMMA NavigateKeeps ==
  ASSUME CrumbsInv, NEW m \in Crumbs!Depths, Crumbs!Navigate(m)
  PROVE  CrumbsInv'
<1>1. PICK h \in handles[m], i \in Crumbs!Items :
        Crumbs!Compose(Crumbs!Update(Crumbs!Notified(m), m, h, i))
  BY DEF Crumbs!Navigate
<1> DEFINE b == Crumbs!Notified(m)
           c == Crumbs!Update(b, m, h, i)
<1>2. /\ b \in [Crumbs!Depths -> Contributions(sequence)]
      /\ \A d \in Crumbs!Depths : b[d].sequence = contributions[d].sequence
      /\ \A d \in Crumbs!Depths : b[d] = contributions[d]
                                  \/ (b[d].override = 0 /\ Crumbs!Registered(d))
  BY NotifiedIs DEF Crumbs!Navigate
<1> HIDE DEF b
<1>3. /\ c \in [Crumbs!Depths -> Contributions(sequence)]
      /\ \A d \in Crumbs!Depths :
           /\ c[d].override = b[d].override /\ c[d].owner = b[d].owner
           /\ c[d].began = b[d].began /\ c[d].navigation = b[d].navigation
           /\ c[d].sequence = b[d].sequence
           /\ c[d] = b[d] \/ (d = m /\ Crumbs!Live(m, h))
  BY <1>2, UpdateIs
<1> HIDE DEF c
<1>4. UNCHANGED <<sequence, handles, mounted>>
  BY DEF Crumbs!Navigate
<1>5. Crumbs!Live(m, h) => Crumbs!Registered(m) /\ contributions[m].sequence \in handles[m]
  BY DEF Crumbs!Live, Crumbs!Registered, CrumbsInv, Crumbs!TypeOK
<1>6. handles \in [Crumbs!Depths -> SUBSET (1 .. sequence)] /\ mounted \subseteq Components
        /\ Crumbs!Compose(c)
  BY <1>1 DEF CrumbsInv, Crumbs!TypeOK, b, c
<1>7. \A d \in Crumbs!Depths :
        /\ c[d] = Crumbs!Nothing \/ (c[d].sequence # 0 /\ c[d].sequence \in handles'[d])
        /\ c[d].override # 0 =>
             /\ c[d].owner \in mounted' /\ InMount[c[d].owner] = d
             /\ c[d].began = c[d].navigation
  <2> TAKE d \in Crumbs!Depths
  <2>1. CASE c[d] = contributions[d]
    BY <1>4, <2>1 DEF CrumbsInv, Crumbs!Registered
  <2>2. CASE Crumbs!Registered(d)
    <3>1. Crumbs!Nothing.sequence = 0
      BY DEF Crumbs!Nothing
    <3>2. c[d].sequence = contributions[d].sequence /\ contributions[d].sequence \in handles'[d]
      BY <1>2, <1>3, <1>4, <2>2, <3>1 DEF CrumbsInv, Crumbs!Registered
    <3>3. c[d].override # 0 => b[d] = contributions[d]
      BY <1>2, <1>3
    <3> QED BY <1>3, <1>4, <2>2, <3>2, <3>3 DEF CrumbsInv, Crumbs!Registered
  <2> QED BY <1>2, <1>3, <1>5, <2>1, <2>2
<1> QED BY <1>3, <1>4, <1>6, <1>7, ComposeKeeps

LEMMA RemoveKeeps ==
  ASSUME CrumbsInv, NEW m \in Crumbs!Depths, NEW h,
         Crumbs!RemoveHandle(m, h) \/ Crumbs!RemoveMount(m)
  PROVE  CrumbsInv'
<1>1. Crumbs!Nothing \in Contributions(sequence) /\ Crumbs!Nothing.override = 0
  BY CrumbsAssumption DEF CrumbsInv, Crumbs!TypeOK, Crumbs!Nothing, Contributions,
    Crumbs!BreadcrumbsAssumption
<1>2. contributions \in [Crumbs!Depths -> Contributions(sequence)]
  BY DEF CrumbsInv, Crumbs!TypeOK, Contributions
<1> DEFINE without == [contributions EXCEPT ![m] = Crumbs!Nothing]
<1>3. without \in [Crumbs!Depths -> Contributions(sequence)] /\ without[m] = Crumbs!Nothing
      /\ \A d \in Crumbs!Depths \ {m} : without[d] = contributions[d]
  BY <1>1, <1>2
<1> HIDE DEF without
<1>4. CASE Crumbs!RemoveHandle(m, h)
  <2>1. /\ handles' = [handles EXCEPT ![m] = @ \ {h}] /\ UNCHANGED <<sequence, mounted>>
        /\ handles' \in [Crumbs!Depths -> SUBSET (1 .. sequence)] /\ mounted' \subseteq Components
    BY <1>4 DEF Crumbs!RemoveHandle, CrumbsInv, Crumbs!TypeOK
  <2>2. CASE Crumbs!Live(m, h)
    <3>1. Crumbs!Compose(without)
      BY <1>4, <2>2 DEF Crumbs!RemoveHandle, without
    <3>2. \A d \in Crumbs!Depths \ {m} : handles'[d] = handles[d]
      BY <2>1 DEF CrumbsInv, Crumbs!TypeOK
    <3> QED BY <1>1, <1>3, <2>1, <3>1, <3>2, ComposeKeeps DEF CrumbsInv, Crumbs!Registered
  <2>3. CASE ~Crumbs!Live(m, h)
    <3>1. Crumbs!Compose(contributions)
      BY <1>4, <2>3 DEF Crumbs!RemoveHandle
    <3>2. \/ contributions[m] = Crumbs!Nothing
          \/ contributions[m].sequence # 0 /\ contributions[m].sequence \in handles'[m]
      BY <2>1, <2>3 DEF Crumbs!Live, CrumbsInv, Crumbs!TypeOK, Crumbs!Registered
    <3>3. \A d \in Crumbs!Depths \ {m} : handles'[d] = handles[d]
      BY <2>1 DEF CrumbsInv, Crumbs!TypeOK
    <3> QED BY <1>1, <1>2, <2>1, <3>1, <3>2, <3>3, ComposeKeeps DEF CrumbsInv, Crumbs!Registered
  <2> QED BY <2>2, <2>3
<1>5. CASE Crumbs!RemoveMount(m)
  <2>1. /\ UNCHANGED <<sequence, handles, mounted>> /\ Crumbs!Compose(without)
        /\ handles \in [Crumbs!Depths -> SUBSET (1 .. sequence)] /\ mounted \subseteq Components
    BY <1>5 DEF Crumbs!RemoveMount, CrumbsInv, Crumbs!TypeOK, without
  <2> QED BY <1>1, <1>3, <2>1, ComposeKeeps DEF CrumbsInv, Crumbs!Registered
<1> QED BY <1>4, <1>5

\* An override that is cleared is without, and nothing else is.
LEMMA ClearedIs ==
  ASSUME CrumbsInv, NEW m \in Crumbs!Depths, NEW o
  PROVE  /\ Crumbs!Cleared(m, o) \in [Crumbs!Depths -> Contributions(sequence)]
         /\ \A d \in Crumbs!Depths : Crumbs!Cleared(m, o)[d].sequence = contributions[d].sequence
         /\ \A d \in Crumbs!Depths :
              \/ Crumbs!Cleared(m, o)[d] = contributions[d]
              \/ Crumbs!Cleared(m, o)[d].override = 0 /\ contributions[d].override # 0
         /\ Crumbs!Cleared(m, o)[m].override = 0 \/ Crumbs!Cleared(m, o)[m].owner # o
<1> DEFINE r == [contributions[m] EXCEPT !.override = 0, !.owner = Crumbs!Nobody]
<1>1. contributions \in [Crumbs!Depths -> Contributions(sequence)]
  BY DEF CrumbsInv, Crumbs!TypeOK, Contributions
<1>2. /\ r \in Contributions(sequence) /\ r.sequence = contributions[m].sequence
      /\ r.override = 0
  <2>1. contributions[m] \in Contributions(sequence)
    BY <1>1
  <2> QED BY <2>1 DEF Contributions
<1>3. CASE Crumbs!Owned(m, o)
  <2>1. Crumbs!Cleared(m, o) = [contributions EXCEPT ![m] = r] /\ contributions[m].override # 0
    BY <1>1, <1>3 DEF Crumbs!Cleared, Crumbs!Owned
  <2> HIDE DEF r
  <2> QED BY <1>1, <1>2, <2>1
<1>4. CASE ~Crumbs!Owned(m, o)
  <2>1. Crumbs!Cleared(m, o) = contributions
    BY <1>4 DEF Crumbs!Cleared
  <2> QED BY <1>1, <1>4, <2>1 DEF Crumbs!Owned
<1> QED BY <1>3, <1>4

\* An override that is put up is its owner's, since the mount's last navigation.
Installed(m, o, i) ==
  [contributions EXCEPT ![m].override = i, ![m].owner = o, ![m].began = contributions[m].navigation]

LEMMA InstalledIs ==
  ASSUME CrumbsInv, NEW m \in Crumbs!Depths, NEW o \in Components, NEW i \in Crumbs!Items
  PROVE  /\ Installed(m, o, i) \in [Crumbs!Depths -> Contributions(sequence)]
         /\ Installed(m, o, i)[m].owner = o
         /\ Installed(m, o, i)[m].began = Installed(m, o, i)[m].navigation
         /\ Installed(m, o, i)[m].sequence = contributions[m].sequence
         /\ \A d \in Crumbs!Depths \ {m} : Installed(m, o, i)[d] = contributions[d]
<1> DEFINE r == [contributions[m] EXCEPT !.override = i, !.owner = o,
                                         !.began = contributions[m].navigation]
<1>1. contributions \in [Crumbs!Depths -> Contributions(sequence)]
  BY DEF CrumbsInv, Crumbs!TypeOK, Contributions
<1>2. /\ r \in Contributions(sequence) /\ r.sequence = contributions[m].sequence
      /\ r.owner = o /\ r.began = r.navigation
  <2>1. contributions[m] \in Contributions(sequence)
    BY <1>1
  <2>2. contributions[m].navigation \in 0 .. MaxNavigations + 1
    BY <2>1, CrumbsAssumption DEF Contributions, Crumbs!BreadcrumbsAssumption
  <2> QED BY <2>1, <2>2 DEF Contributions
<1>3. Installed(m, o, i) = [contributions EXCEPT ![m] = r]
  BY <1>1 DEF Installed
<1> HIDE DEF r
<1> QED BY <1>1, <1>2, <1>3

LEMMA ContributeKeeps ==
  ASSUME CrumbsInv, NEW o \in Components, Crumbs!Contribute(o)
  PROVE  CrumbsInv'
<1> DEFINE m == InMount[o]
<1>1. /\ m \in Crumbs!Depths /\ mounted' = mounted \cup {o} /\ UNCHANGED <<sequence, handles>>
      /\ handles' \in [Crumbs!Depths -> SUBSET (1 .. sequence)] /\ mounted' \subseteq Components
  BY CrumbsAssumption DEF Crumbs!Contribute, CrumbsInv, Crumbs!TypeOK, Crumbs!Depths,
    Crumbs!BreadcrumbsAssumption
<1>2. contributions \in [Crumbs!Depths -> Contributions(sequence)]
  BY DEF CrumbsInv, Crumbs!TypeOK, Contributions
<1>3. Crumbs!Nothing.override = 0
  BY DEF Crumbs!Nothing
<1>4. ASSUME Crumbs!Compose(contributions) PROVE CrumbsInv'
  BY <1>1, <1>2, <1>4, ComposeKeeps DEF CrumbsInv, Crumbs!Registered
<1>5. ASSUME NEW i \in Crumbs!Items, Crumbs!SetOverride(m, o, i), Crumbs!Registered(m)
      PROVE CrumbsInv'
  <2> DEFINE c == Installed(m, o, i)
  <2>1. CASE Crumbs!Refused(m, o)
    BY <1>4, <1>5, <2>1 DEF Crumbs!SetOverride
  <2>2. CASE ~Crumbs!Refused(m, o)
    <3>1. Crumbs!Compose(c)
      BY <1>5, <2>2 DEF Crumbs!SetOverride, Installed
    <3>2. /\ c \in [Crumbs!Depths -> Contributions(sequence)]
          /\ c[m].owner = o /\ c[m].began = c[m].navigation
          /\ c[m].sequence = contributions[m].sequence
          /\ \A d \in Crumbs!Depths \ {m} : c[d] = contributions[d]
      BY <1>1, InstalledIs
    <3>3. contributions[m].sequence # 0 /\ contributions[m].sequence \in handles[m]
      BY <1>1, <1>5 DEF CrumbsInv, Crumbs!Registered, Crumbs!Nothing
    <3> HIDE DEF c
    <3>4. \A d \in Crumbs!Depths :
            /\ c[d] = Crumbs!Nothing \/ (c[d].sequence # 0 /\ c[d].sequence \in handles'[d])
            /\ c[d].override # 0 =>
                 /\ c[d].owner \in mounted' /\ InMount[c[d].owner] = d
                 /\ c[d].began = c[d].navigation
      BY <1>1, <3>2, <3>3 DEF CrumbsInv, Crumbs!Registered
    <3> QED BY <1>1, <3>1, <3>2, <3>4, ComposeKeeps
  <2> QED BY <2>1, <2>2
<1>6. ASSUME Crumbs!Compose(Crumbs!Cleared(m, o)) PROVE CrumbsInv'
  <2> DEFINE c == Crumbs!Cleared(m, o)
  <2>1. /\ c \in [Crumbs!Depths -> Contributions(sequence)]
        /\ \A d \in Crumbs!Depths : c[d].sequence = contributions[d].sequence
        /\ \A d \in Crumbs!Depths : c[d] = contributions[d]
                                    \/ (c[d].override = 0 /\ contributions[d].override # 0)
    BY <1>1, ClearedIs
  <2> HIDE DEF c, m
  <2>2. \A d \in Crumbs!Depths :
          /\ c[d] = Crumbs!Nothing \/ (c[d].sequence # 0 /\ c[d].sequence \in handles'[d])
          /\ c[d].override # 0 =>
               /\ c[d].owner \in mounted' /\ InMount[c[d].owner] = d
               /\ c[d].began = c[d].navigation
    BY <1>1, <1>3, <2>1 DEF CrumbsInv, Crumbs!Registered
  <2> QED BY <1>1, <1>6, <2>1, <2>2, ComposeKeeps DEF c
<1>7. ASSUME NEW i \in Crumbs!Items, Crumbs!SetOverride(m, o, i), ~Crumbs!Registered(m)
      PROVE CrumbsInv'
  BY <1>4, <1>7 DEF Crumbs!SetOverride
<1> QED BY <1>5, <1>6, <1>7 DEF Crumbs!Contribute

LEMMA ComponentLeaves == ASSUME CrumbsInv, NEW o \in Components, Crumbs!Leave(o) PROVE CrumbsInv'
<1> DEFINE m == InMount[o]
           b == Crumbs!Cleared(m, o)
           c == [b EXCEPT ![m].owner = IF @ = o THEN Crumbs!Nobody ELSE @]
<1>1. /\ m \in Crumbs!Depths /\ mounted' = mounted \ {o} /\ UNCHANGED <<sequence, handles>>
      /\ handles' \in [Crumbs!Depths -> SUBSET (1 .. sequence)] /\ mounted' \subseteq Components
      /\ Crumbs!Compose(c)
  BY CrumbsAssumption DEF Crumbs!Leave, CrumbsInv, Crumbs!TypeOK, Crumbs!Depths,
    Crumbs!BreadcrumbsAssumption
<1>2. /\ b \in [Crumbs!Depths -> Contributions(sequence)]
      /\ \A d \in Crumbs!Depths : b[d].sequence = contributions[d].sequence
      /\ \A d \in Crumbs!Depths : b[d] = contributions[d]
                                  \/ (b[d].override = 0 /\ contributions[d].override # 0)
      /\ b[m].override = 0 \/ b[m].owner # o
  BY <1>1, ClearedIs
<1>3. Crumbs!Nothing.override = 0 /\ Crumbs!Nothing.owner = Crumbs!Nobody
  BY DEF Crumbs!Nothing
<1> HIDE DEF b
<1>4. /\ c \in [Crumbs!Depths -> Contributions(sequence)]
      /\ \A d \in Crumbs!Depths \ {m} : c[d] = b[d]
      /\ c[m] = b[m] \/ (b[m].owner = o /\ o # Crumbs!Nobody /\ c[m].override = b[m].override)
      /\ c[m].sequence = b[m].sequence
  <2> HIDE DEF m
  <2> DEFINE r == [b[m] EXCEPT !.owner = IF @ = o THEN Crumbs!Nobody ELSE @]
  <2>1. b[m] \in Contributions(sequence)
    BY <1>1, <1>2
  <2>2. /\ r \in Contributions(sequence) /\ r.sequence = b[m].sequence
        /\ r.override = b[m].override
    BY <2>1 DEF Contributions
  <2>3. o = Crumbs!Nobody \/ b[m].owner # o => r = b[m]
    BY <2>1 DEF Contributions
  <2>4. c = [b EXCEPT ![m] = r]
    BY <1>1, <1>2
  <2> HIDE DEF c, r
  <2> QED BY <1>1, <1>2, <2>2, <2>3, <2>4
<1> HIDE DEF c
<1>5. \A d \in Crumbs!Depths :
        /\ c[d] = Crumbs!Nothing \/ (c[d].sequence # 0 /\ c[d].sequence \in handles'[d])
        /\ c[d].override # 0 =>
             /\ c[d].owner \in mounted' /\ InMount[c[d].owner] = d
             /\ c[d].began = c[d].navigation
  <2> TAKE d \in Crumbs!Depths
  <2>1. CASE c[d] = contributions[d]
    <3>1. d = m => c[d].override = 0 \/ c[d].owner # o
      BY <1>2, <1>4
    <3>2. d # m => InMount[o] # d
      OBVIOUS
    <3> HIDE DEF m
    <3>3. c[d].override # 0 => c[d].owner \in mounted /\ c[d].owner # o
      BY <2>1, <3>1, <3>2 DEF CrumbsInv
    <3> QED BY <1>1, <2>1, <3>3 DEF CrumbsInv, Crumbs!Registered
  <2>2. CASE c[d].override = 0 /\ contributions[d] # Crumbs!Nothing
    <3> HIDE DEF m
    <3> QED BY <1>1, <1>2, <1>4, <2>2 DEF CrumbsInv, Crumbs!Registered
  <2>3. CASE c[d].override = 0 /\ contributions[d] = Crumbs!Nothing /\ d = m
    <3>1. b[m] = Crumbs!Nothing
      BY <1>2, <1>3, <2>3
    <3>2. c[m] = Crumbs!Nothing
      BY <1>3, <1>4, <3>1
    <3> QED BY <2>3, <3>1, <3>2, <1>3, <1>4
  <2>4. CASE c[d].override = 0 /\ contributions[d] = Crumbs!Nothing /\ d # m
    BY <1>2, <1>3, <1>4, <2>4
  <2>5. c[d].override # 0 => c[d] = contributions[d]
    BY <1>2, <1>4
  <2> QED BY <2>1, <2>2, <2>3, <2>4, <2>5
<1> QED BY <1>1, <1>4, <1>5, ComposeKeeps

LEMMA CrumbsStep == ASSUME CrumbsInv, [Crumbs!Next]_(Crumbs!vars) PROVE CrumbsInv'
<1>1. CASE UNCHANGED Crumbs!vars
  BY <1>1 DEF Crumbs!vars, CrumbsInv, Crumbs!TypeOK, Crumbs!TrailIsCurrent, Crumbs!Registered
<1> QED BY <1>1, RegisterMountKeeps, PublishKeeps, NavigateKeeps, RemoveKeeps, ContributeKeeps,
          ComponentLeaves
        DEF Crumbs!Next

\* ContributionsLast, of one step.
AllLast ==
  \A m \in Crumbs!Depths :
    contributions[m].sequence \in handles'[m] /\ ~Crumbs!RemoveMount(m) =>
      contributions'[m].sequence = contributions[m].sequence

LEMMA ContributionsStay == ASSUME CrumbsInv, [Crumbs!Next]_(Crumbs!vars) PROVE AllLast
<1> SUFFICES ASSUME NEW m \in Crumbs!Depths, contributions[m].sequence \in handles'[m],
                    ~Crumbs!RemoveMount(m),
                    contributions'[m].sequence # contributions[m].sequence
             PROVE  FALSE
  BY DEF AllLast
<1>1. contributions \in [Crumbs!Depths -> Contributions(sequence)]
  BY DEF CrumbsInv, Crumbs!TypeOK, Contributions
<1>2. handles \in [Crumbs!Depths -> SUBSET (1 .. sequence)] /\ sequence \in Nat
  BY DEF CrumbsInv, Crumbs!TypeOK
<1>3. ~UNCHANGED Crumbs!vars
  BY DEF Crumbs!vars
<1>4. ASSUME NEW d \in Crumbs!Depths, Crumbs!RegisterMount(d) PROVE FALSE
  <2>1. d = m /\ contributions[m].sequence = 0 /\ handles'[m] = handles[m] \cup {sequence + 1}
    BY <1>1, <1>2, <1>4 DEF Crumbs!RegisterMount, Crumbs!Registered
  <2> QED BY <1>2, <2>1
<1>5. ASSUME NEW d \in Crumbs!Depths, Crumbs!Publish(d) PROVE FALSE
  <2>1. PICK h \in handles[d], i \in Crumbs!Items :
          contributions' = Crumbs!Update(contributions, d, h, i)
    BY <1>5 DEF Crumbs!Publish, Crumbs!Compose
  <2> QED BY <1>1, <2>1, UpdateIs
<1>6. ASSUME NEW d \in Crumbs!Depths, NEW h \in handles[d], Crumbs!RemoveHandle(d, h) PROVE FALSE
  <2>1. CASE Crumbs!Live(d, h)
    <3>1. contributions' = [contributions EXCEPT ![d] = Crumbs!Nothing]
      BY <1>6, <2>1 DEF Crumbs!RemoveHandle, Crumbs!Compose
    <3>2. d = m
      BY <1>1, <3>1
    <3>3. handles'[m] = handles[m] \ {h} /\ contributions[m].sequence = h
      BY <1>2, <1>6, <2>1, <3>2 DEF Crumbs!RemoveHandle, Crumbs!Live
    <3> QED BY <3>3
  <2>2. CASE ~Crumbs!Live(d, h)
    BY <1>6, <2>2 DEF Crumbs!RemoveHandle, Crumbs!Compose
  <2> QED BY <2>1, <2>2
<1>7. ASSUME NEW d \in Crumbs!Depths, Crumbs!RemoveMount(d) PROVE FALSE
  BY <1>1, <1>7 DEF Crumbs!RemoveMount, Crumbs!Compose
<1>8. ASSUME NEW d \in Crumbs!Depths, Crumbs!Navigate(d) PROVE FALSE
  <2>1. PICK h \in handles[d], i \in Crumbs!Items :
          contributions' = Crumbs!Update(Crumbs!Notified(d), d, h, i)
    BY <1>8 DEF Crumbs!Navigate, Crumbs!Compose
  <2>2. /\ Crumbs!Notified(d) \in [Crumbs!Depths -> Contributions(sequence)]
        /\ Crumbs!Notified(d)[m].sequence = contributions[m].sequence
    BY <1>8, NotifiedIs DEF Crumbs!Navigate
  <2> QED BY <2>1, <2>2, UpdateIs
<1>9. ASSUME NEW o \in Components, Crumbs!Contribute(o) \/ Crumbs!Leave(o) PROVE FALSE
  <2> DEFINE d == InMount[o]
             b == Crumbs!Cleared(d, o)
  <2>1. d \in Crumbs!Depths
    BY CrumbsAssumption DEF Crumbs!Depths, Crumbs!BreadcrumbsAssumption
  <2>2. /\ b \in [Crumbs!Depths -> Contributions(sequence)]
        /\ b[m].sequence = contributions[m].sequence
    BY <2>1, ClearedIs
  <2>3. CASE Crumbs!Leave(o)
    <3>1. contributions' = [b EXCEPT ![d].owner = IF @ = o THEN Crumbs!Nobody ELSE @]
      BY <2>3 DEF Crumbs!Leave, Crumbs!Compose
    <3> HIDE DEF b, d
    <3>2. contributions'[m].sequence = b[m].sequence
      BY <2>1, <2>2, <3>1 DEF Contributions
    <3> QED BY <2>2, <3>2
  <2>4. ASSUME NEW i \in Crumbs!Items, contributions' = Installed(d, o, i) PROVE FALSE
    <3>1. d = m \/ contributions'[m] = contributions[m]
      BY <2>1, <2>4, InstalledIs
    <3> QED BY <2>1, <2>4, <3>1, InstalledIs
  <2>5. CASE Crumbs!Contribute(o)
    <3>1. ASSUME NEW i \in Crumbs!Items, Crumbs!SetOverride(d, o, i) PROVE FALSE
      <4>1. contributions' = contributions \/ contributions' = Installed(d, o, i)
        BY <3>1 DEF Crumbs!SetOverride, Crumbs!Compose, Installed
      <4> QED BY <2>4, <4>1
    <3>2. CASE Crumbs!Compose(b)
      BY <2>2, <3>2 DEF Crumbs!Compose
    <3> QED BY <2>5, <3>1, <3>2 DEF Crumbs!Contribute
  <2> QED BY <1>9, <2>3, <2>5
<1> QED BY <1>3, <1>4, <1>5, <1>6, <1>7, <1>8, <1>9 DEF Crumbs!Next

\* NobodyIsReplaced, of one step.
NoneReplaced ==
  \A m \in Crumbs!Depths :
    Crumbs!HasLiveOverride(m) /\ contributions[m].owner \in mounted'
      /\ Crumbs!HasLiveOverride(m)' =>
      contributions'[m].owner = contributions[m].owner

LEMMA NobodyReplaces == ASSUME CrumbsInv, [Crumbs!Next]_(Crumbs!vars) PROVE NoneReplaced
<1> SUFFICES ASSUME NEW m \in Crumbs!Depths, Crumbs!HasLiveOverride(m),
      contributions[m].owner \in mounted',
                    Crumbs!HasLiveOverride(m)', contributions'[m].owner # contributions[m].owner
             PROVE  FALSE
  BY DEF NoneReplaced
<1>1. contributions \in [Crumbs!Depths -> Contributions(sequence)]
        /\ contributions'[m] # contributions[m]
  BY DEF CrumbsInv, Crumbs!TypeOK, Contributions
<1>2. contributions[m].override # 0 /\ contributions'[m].override # 0
  BY DEF Crumbs!HasLiveOverride
<1>3. Crumbs!Nothing.override = 0
  BY DEF Crumbs!Nothing
<1>4. ~UNCHANGED Crumbs!vars
  BY <1>1 DEF Crumbs!vars
<1>5. ASSUME NEW d \in Crumbs!Depths, Crumbs!RegisterMount(d) PROVE FALSE
  <2>1. d = m
    BY <1>1, <1>5 DEF Crumbs!RegisterMount
  <2>2. contributions[m] = Crumbs!Nothing
    BY <1>5, <2>1 DEF Crumbs!RegisterMount, CrumbsInv, Crumbs!Registered
  <2> QED BY <1>2, <1>3, <2>2
<1>6. ASSUME NEW d \in Crumbs!Depths, Crumbs!Publish(d) PROVE FALSE
  <2>1. PICK h \in handles[d], i \in Crumbs!Items :
          contributions' = Crumbs!Update(contributions, d, h, i)
    BY <1>6 DEF Crumbs!Publish, Crumbs!Compose
  <2> QED BY <1>1, <2>1, UpdateIs
<1>7. ASSUME NEW d \in Crumbs!Depths, NEW h, Crumbs!RemoveHandle(d, h) \/ Crumbs!RemoveMount(d)
      PROVE  FALSE
  <2>1. contributions' \in {contributions, [contributions EXCEPT ![d] = Crumbs!Nothing]}
    BY <1>7 DEF Crumbs!RemoveHandle, Crumbs!RemoveMount, Crumbs!Compose
  <2> QED BY <1>1, <1>2, <1>3, <2>1
<1>8. ASSUME NEW d \in Crumbs!Depths, Crumbs!Navigate(d) PROVE FALSE
  <2>1. PICK h \in handles[d], i \in Crumbs!Items :
          contributions' = Crumbs!Update(Crumbs!Notified(d), d, h, i)
    BY <1>8 DEF Crumbs!Navigate, Crumbs!Compose
  <2>2. CASE d = m
    <3>1. Crumbs!Notified(d)[m].override = 0
      <4>1. contributions[m].sequence # 0
        BY <1>2, <1>3 DEF CrumbsInv, Crumbs!Registered
      <4> QED BY <1>8, <2>2, <4>1, NotifiedIs DEF Crumbs!Navigate, Crumbs!Registered
    <3>2. Crumbs!Update(Crumbs!Notified(d), d, h, i)[m].override = Crumbs!Notified(d)[m].override
      <4>1. Crumbs!Notified(d) \in [Crumbs!Depths -> Contributions(sequence)]
        BY <1>8, NotifiedIs DEF Crumbs!Navigate
      <4> QED BY <4>1, UpdateIs
    <3> QED BY <1>2, <2>1, <3>1, <3>2
  <2>3. CASE d # m
    <3>1. contributions'[m] = contributions[m]
      BY <1>1, <2>1, <2>3 DEF Crumbs!Update, Crumbs!Notified
    <3> QED BY <1>1, <3>1
  <2> QED BY <2>2, <2>3
<1>9. ASSUME NEW o \in Components, Crumbs!Contribute(o) PROVE FALSE
  <2> DEFINE d == InMount[o]
  <2>0. d \in Crumbs!Depths
    BY CrumbsAssumption DEF Crumbs!Depths, Crumbs!BreadcrumbsAssumption
  <2>1. CASE contributions' = contributions
    BY <1>1, <2>1
  <2>2. CASE contributions' = Crumbs!Cleared(d, o)
    BY <1>1, <1>2, <2>0, <2>2, ClearedIs
  <2>3. ASSUME NEW i \in Crumbs!Items, ~Crumbs!Refused(d, o), contributions' = Installed(d, o, i),
                 d = m
        PROVE  FALSE
    <3>1. contributions[m].owner = o
      BY <2>3 DEF Crumbs!Refused
    <3>2. contributions'[m].owner = o
      BY <2>0, <2>3, InstalledIs
    <3> QED BY <3>1, <3>2
  <2>4. ASSUME NEW i \in Crumbs!Items, contributions' = Installed(d, o, i), d # m PROVE FALSE
    BY <1>1, <2>0, <2>4, InstalledIs
  <2>5. PICK i \in Crumbs!Items :
          Crumbs!SetOverride(d, o, i) \/ Crumbs!Compose(Crumbs!Cleared(d, o))
    BY <1>9, <2>2 DEF Crumbs!Contribute, Crumbs!Compose
  <2>6. Crumbs!SetOverride(d, o, i) => ~Crumbs!Refused(d, o) /\ contributions' = Installed(d, o, i)
    BY <2>1 DEF Crumbs!SetOverride, Crumbs!Compose, Installed
  <2>7. ~Crumbs!Refused(d, o) /\ contributions' = Installed(d, o, i)
    BY <2>2, <2>5, <2>6 DEF Crumbs!Compose
  <2> QED BY <2>3, <2>4, <2>7
<1>10. ASSUME NEW o \in Components, Crumbs!Leave(o) PROVE FALSE
  <2> DEFINE d == InMount[o]
             b == Crumbs!Cleared(d, o)
  <2>1. d \in Crumbs!Depths /\ mounted' = mounted \ {o}
    BY <1>10, CrumbsAssumption DEF Crumbs!Leave, Crumbs!Depths, Crumbs!BreadcrumbsAssumption
  <2>2. contributions' = [b EXCEPT ![d].owner = IF @ = o THEN Crumbs!Nobody ELSE @]
    BY <1>10 DEF Crumbs!Leave, Crumbs!Compose
  <2>3. b \in [Crumbs!Depths -> Contributions(sequence)]
          /\ (b[m] = contributions[m] \/ b[m].override = 0)
    BY <2>1, ClearedIs
  <2>4. contributions[m].owner # o
    BY <2>1
  <2> HIDE DEF b, d
  <2>5. contributions'[m].override = b[m].override
    BY <2>1, <2>2, <2>3 DEF Contributions
  <2>6. b[m] = contributions[m]
    BY <1>2, <2>3, <2>5
  <2>7. contributions'[m].owner = b[m].owner
    BY <2>1, <2>2, <2>3, <2>4, <2>6 DEF Contributions
  <2> QED BY <2>6, <2>7
<1> QED BY <1>4, <1>5, <1>6, <1>7, <1>8, <1>9, <1>10 DEF Crumbs!Next

\* The trail says what the page's components want it to say, shows nobody who has left, nobody's
\* crumbs are replaced by another component's while they are up, and no late cleanup takes those of a
\* mount that registered again (setOverride, update, notifyNavigation, removeMount, live).
THEOREM TrailsAreKept == Crumbs!Spec => Crumbs!TrailIsKept
<1>1. CrumbsInv /\ [Crumbs!Next]_(Crumbs!vars) => [NoneReplaced]_(Crumbs!vars)
  BY NobodyReplaces
<1>2. CrumbsInv /\ [Crumbs!Next]_(Crumbs!vars) => [AllLast]_(Crumbs!vars)
  BY ContributionsStay
<1> QED BY <1>1, <1>2, CrumbsBegin, CrumbsStep, CrumbsAreConsistent, PTL
        DEF Crumbs!Spec, Crumbs!TrailIsKept, Crumbs!NobodyIsReplaced, NoneReplaced,
            Crumbs!ContributionsLast, AllLast

\* Crumbs!vars, as the page of all the parts has it.
LEMMA CrumbsSteps ==
  ASSUME [SharedNext]_<<vars, crumbs, signIn, browser, about>>
  PROVE  [Crumbs!Next]_(Crumbs!vars)
BY DEF SharedNext, crumbs, Crumbs!vars

\* TrailIsKept, as the run states it.
THEOREM TheTrailIsKept == SharedSpec => TrailIsKept
<1>1. SharedInit => CrumbsInv
  BY CrumbsBegin DEF SharedInit
<1>2. CrumbsInv /\ [SharedNext]_<<vars, crumbs, signIn, browser, about>> => CrumbsInv'
  BY CrumbsSteps, CrumbsStep
<1>3. CrumbsInv /\ [SharedNext]_<<vars, crumbs, signIn, browser, about>> =>
        [NoneReplaced]_(Crumbs!vars)
  BY CrumbsSteps, NobodyReplaces
<1>4. CrumbsInv /\ [SharedNext]_<<vars, crumbs, signIn, browser, about>> => [AllLast]_(Crumbs!vars)
  BY CrumbsSteps, ContributionsStay
<1> QED BY <1>1, <1>2, <1>3, <1>4, CrumbsAreConsistent, PTL
        DEF SharedSpec, TrailIsKept, Crumbs!TrailIsKept, Crumbs!NobodyIsReplaced, NoneReplaced,
            Crumbs!ContributionsLast, AllLast
=============================================================================
