---------------------------- MODULE AngularAppProofs ----------------------------
(***************************************************************************)
(* Proofs about AngularApp, for any number of sessions, and Navigator, for  *)
(* any number of mounts and places.                                         *)
(*                                                                          *)
(* That only the present session's application is on the page rests on the  *)
(* signals: every earlier generation's is aborted, and an application whose *)
(* signal is aborted is not on the page.  That the host hears of the end of *)
(* the present one rests on where the present generation can stand.         *)
(*                                                                          *)
(* That mounts are asked from the innermost out rests on there being such   *)
(* an order of any finite set of mounts (OrdersExist).                      *)
(***************************************************************************)
EXTENDS MCAdapters, FiniteSetTheorems, SequenceTheorems, WellFoundedInduction, TLAPS

\* The generations and their signals.
SignalsInv ==
  /\ ~disposed => generation = started
  /\ disposed => started \in aborted /\ waitsFor # generation
  /\ \A g \in Generations : g < started => g \in aborted \/ stage[g] = "none"
  /\ \A g \in aborted : g <= started
  /\ \A g \in Generations : g > started => stage[g] = "none"
  /\ stage[started] # "none"
  /\ \A g \in onPage : g = started /\ g \notin aborted /\ stage[g] \in {"live", "adopted"}

\* Where the present generation stands.
PresentInv ==
  /\ promise = "resolved" => mounted
  /\ application # 0 /\ ~disposed => application = generation
  /\ ~disposed /\ stage[started] \in {"ready", "live"} => creation[started] = "created"
  /\ ~disposed /\ stage[started] = "adopted" =>
       application = started /\ (creation[started] = "created" \/ started \in reported)
  /\ ~disposed /\ mounted /\ stage[started] = "refused" => started \in reported
  /\ ~disposed => started \notin aborted

IInv == TypeOK /\ SignalsInv /\ PresentInv

LEMMA InvImpliesConsistent == IInv => Consistent
<1> SUFFICES ASSUME IInv PROVE Consistent
  OBVIOUS
<1>1. OnlyTheLatestIsShown
  BY DEF IInv, SignalsInv, OnlyTheLatestIsShown
<1>2. NothingFailsSilently
  <2> SUFFICES ASSUME Quiet, promise = "resolved", ~disposed
               PROVE  \/ stage[generation] = "creating"
                      \/ application = generation /\ creation[generation] = "created"
                      \/ generation \in reported
    BY DEF NothingFailsSilently
  <2>1. started \in Generations /\ generation = started /\ stage[started] # "none"
    BY AngularAppAssumption DEF IInv, TypeOK, SignalsInv, Generations
  <2>2. stage[started] \in {"creating", "adopted", "refused"}
    BY <2>1 DEF IInv, TypeOK, Quiet
  <2> QED BY <2>1, <2>2 DEF IInv, PresentInv
<1> QED BY <1>1, <1>2 DEF IInv, PresentInv, Consistent

LEMMA InitInv == Init => IInv
<1> SUFFICES ASSUME Init PROVE IInv
  OBVIOUS
<1>1. 1 \in Generations
  BY AngularAppAssumption DEF Generations
<1>2. TypeOK
  <2>1. /\ generation \in 1 .. MaxGenerations + 1 /\ started \in Generations
        /\ application \in 0 .. started /\ waitsFor \in 0 .. generation
    BY <1>1, AngularAppAssumption DEF Init, Generations
  <2>2. stage \in [Generations -> {"none", "creating", "ready", "failed", "stopped", "live",
                                  "adopted", "refused"}]
    BY DEF Init
  <2> QED BY <2>1, <2>2 DEF Init, TypeOK
<1>3. SignalsInv
  BY <1>1 DEF Init, SignalsInv, Generations
<1>4. PresentInv
  BY <1>1 DEF Init, PresentInv
<1> QED BY <1>2, <1>3, <1>4 DEF IInv

-----------------------------------------------------------------------------

USE AngularAppAssumption DEF Generations

LEMMA SessionChangesKeeps == ASSUME IInv, SessionChanges PROVE IInv'
<1> PICK n \in {1, 2} : Start(n)
  BY DEF SessionChanges
<1>1. /\ generation = started /\ generation' = generation + n /\ started' = generation + n
      /\ generation + n \in Generations /\ started \in Generations
      /\ application' = 0 /\ aborted' = aborted \cup {started}
      /\ stage' = [stage EXCEPT ![generation + n] = "creating"]
      /\ UNCHANGED <<disposed, mounted, waitsFor, promise, reported>> /\ ~disposed
  <2>1. /\ AbortSignal(started) /\ ~disposed
        /\ UNCHANGED <<disposed, mounted, waitsFor, promise, reported>>
    BY DEF SessionChanges
  <2>2. generation = started /\ started \in Generations
    BY <2>1 DEF IInv, TypeOK, SignalsInv
  <2>3. generation + n \in Generations
    BY <2>2 DEF Start
  <2> QED BY <2>1, <2>2, <2>3 DEF Start, AbortSignal
<1>2. /\ creation' \in [Generations -> {"pending", "created", "rejected", "destroyed"}]
      /\ onPage' \subseteq onPage /\ started \notin onPage'
  BY <1>1 DEF SessionChanges, AbortSignal, TearDown, IInv, TypeOK, SignalsInv
<1>3. TypeOK'
  BY <1>1, <1>2 DEF IInv, TypeOK
<1>4. SignalsInv'
  BY <1>1, <1>2 DEF IInv, TypeOK, SignalsInv
<1>5. PresentInv'
  <2>1. stage'[started'] = "creating" /\ ~disposed' /\ started' \notin aborted'
    BY <1>1 DEF IInv, TypeOK, SignalsInv
  <2> QED BY <1>1, <2>1 DEF IInv, PresentInv
<1> QED BY <1>3, <1>4, <1>5 DEF IInv

LEMMA HostDisposesKeeps == ASSUME IInv, HostDisposes PROVE IInv'
<1>1. /\ ~disposed /\ disposed' = TRUE /\ generation' = generation + 1 /\ generation = started
      /\ aborted' = aborted \cup {started} /\ started \in Generations
      /\ UNCHANGED <<mounted, started, application, waitsFor, promise, stage, reported>>
  BY DEF HostDisposes, Dispose, AbortSignal, IInv, TypeOK, SignalsInv
<1>2. /\ creation' \in [Generations -> {"pending", "created", "rejected", "destroyed"}]
      /\ onPage' \subseteq onPage /\ started \notin onPage'
  BY <1>1 DEF HostDisposes, Dispose, AbortSignal, TearDown, IInv, TypeOK, SignalsInv
<1>3. TypeOK'
  BY <1>1, <1>2 DEF IInv, TypeOK
<1>4. SignalsInv' /\ PresentInv'
  BY <1>1, <1>2 DEF IInv, TypeOK, SignalsInv, PresentInv
<1> QED BY <1>3, <1>4 DEF IInv

LEMMA SessionChangeDisposesKeeps == ASSUME IInv, SessionChangeDisposes PROVE IInv'
<1>1. /\ ~disposed /\ disposed' = TRUE /\ generation' = generation + 2 /\ generation = started
      /\ aborted' = aborted \cup {started} /\ started \in Generations /\ started < MaxGenerations
      /\ UNCHANGED <<mounted, started, application, waitsFor, promise, stage, reported>>
  BY DEF SessionChangeDisposes, AbortSignal, IInv, TypeOK, SignalsInv
<1>2. /\ creation' \in [Generations -> {"pending", "created", "rejected", "destroyed"}]
      /\ onPage' \subseteq onPage /\ started \notin onPage'
  BY <1>1 DEF SessionChangeDisposes, AbortSignal, TearDown, IInv, TypeOK, SignalsInv
<1>3. TypeOK'
  BY <1>1, <1>2 DEF IInv, TypeOK
<1>4. SignalsInv' /\ PresentInv'
  BY <1>1, <1>2 DEF IInv, TypeOK, SignalsInv, PresentInv
<1> QED BY <1>3, <1>4 DEF IInv

LEMMA CreationSettlesKeeps == ASSUME IInv, NEW g \in Generations, CreationSettles(g) PROVE IInv'
  BY DEF CreationSettles, Quiet, mount, IInv, TypeOK, SignalsInv, PresentInv

LEMMA WaitStopsKeeps == ASSUME IInv, NEW g \in Generations, WaitStops(g) PROVE IInv'
  BY DEF WaitStops, mount, IInv, TypeOK, SignalsInv, PresentInv

LEMMA FoundAbortedKeeps == ASSUME IInv, NEW g \in Generations, FoundAborted(g) PROVE IInv'
  BY DEF FoundAborted, mount, IInv, TypeOK, SignalsInv, PresentInv

LEMMA RenderFailsKeeps == ASSUME IInv, NEW g \in Generations, RenderFails(g) PROVE IInv'
  BY DEF RenderFails, mount, IInv, TypeOK, SignalsInv, PresentInv

LEMMA RendersKeeps == ASSUME IInv, NEW g \in Generations, Renders(g) PROVE IInv'
  BY DEF Renders, mount, IInv, TypeOK, SignalsInv, PresentInv

LEMMA ForeignDestroyKeeps == ASSUME IInv, NEW g \in Generations, ForeignDestroy(g) PROVE IInv'
  BY DEF ForeignDestroy, TearDown, mount, IInv, TypeOK, SignalsInv, PresentInv

LEMMA AdoptKeeps == ASSUME IInv, NEW g \in Generations, Adopt(g) PROVE IInv'
<1>1. CASE disposed \/ g # generation
  <2>1. disposed \/ g # started
    BY <1>1 DEF IInv, SignalsInv
  <2>2. /\ stage[g] = "live" /\ stage' = [stage EXCEPT ![g] = "refused"]
        /\ creation' = [creation EXCEPT ![g] = "destroyed"] /\ onPage' = onPage \ {g}
        /\ UNCHANGED <<application, generation, disposed, mounted, started, waitsFor, promise,
                      aborted, reported>>
    BY <1>1 DEF Adopt, TearDown
  <2>3. TypeOK'
    BY <2>2 DEF IInv, TypeOK
  <2>4. SignalsInv'
    BY <2>2 DEF IInv, TypeOK, SignalsInv
  <2>5. PresentInv'
    BY <2>1, <2>2 DEF IInv, TypeOK, PresentInv
  <2> QED BY <2>3, <2>4, <2>5 DEF IInv
<1>2. CASE ~disposed /\ g = generation
  <2>1. g = started /\ creation[g] = "created" /\ stage'[g] = "adopted" /\ application' = g
    BY <1>2 DEF Adopt, IInv, TypeOK, SignalsInv, PresentInv
  <2>2. TypeOK'
    <3>1. application' \in 0 .. started'
      BY <1>2, <2>1 DEF Adopt, IInv, TypeOK
    <3>2. stage' \in [Generations -> {"none", "creating", "ready", "failed", "stopped", "live",
                                     "adopted", "refused"}]
      BY <1>2 DEF Adopt, IInv, TypeOK
    <3> QED BY <1>2, <3>1, <3>2 DEF Adopt, IInv, TypeOK
  <2>3. SignalsInv'
    BY <1>2, <2>1 DEF Adopt, IInv, TypeOK, SignalsInv
  <2>4. PresentInv'
    BY <1>2, <2>1 DEF Adopt, IInv, TypeOK, PresentInv
  <2> QED BY <2>2, <2>3, <2>4 DEF IInv
<1> QED BY <1>1, <1>2

LEMMA RefuseKeeps == ASSUME IInv, NEW g \in Generations, Refuse(g) PROVE IInv'
  BY DEF Refuse, mount, IInv, TypeOK, SignalsInv, PresentInv

LEMMA RenderChangesSessionKeeps ==
  ASSUME IInv, NEW g \in Generations, RenderChangesSession(g) PROVE IInv'
<1>1. /\ g = started /\ ~disposed /\ generation = started
      /\ generation' = generation + 1 /\ started' = generation + 1 /\ generation + 1 \in Generations
      /\ application' = 0 /\ aborted' = aborted \cup {g}
      /\ stage' = [stage EXCEPT ![g] = "stopped", ![generation + 1] = "creating"]
      /\ UNCHANGED <<disposed, mounted, waitsFor, promise, onPage, reported>>
      /\ g \notin onPage
  BY DEF RenderChangesSession, IInv, TypeOK, SignalsInv
<1>2. TypeOK'
  BY <1>1 DEF RenderChangesSession, IInv, TypeOK
<1>3. SignalsInv'
  BY <1>1 DEF IInv, TypeOK, SignalsInv
<1>4. PresentInv'
  <2>1. stage'[started'] = "creating" /\ started' \notin aborted'
    BY <1>1 DEF IInv, TypeOK, SignalsInv
  <2> QED BY <1>1, <2>1 DEF IInv, PresentInv
<1> QED BY <1>2, <1>3, <1>4 DEF IInv

LEMMA RenderDisposesKeeps == ASSUME IInv, NEW g \in Generations, RenderDisposes(g) PROVE IInv'
  BY DEF RenderDisposes, IInv, TypeOK, SignalsInv, PresentInv

LEMMA WakeKeeps == ASSUME IInv, Wake PROVE IInv'
<1>1. CASE /\ waitsFor = generation /\ stage[waitsFor] = "refused"
           /\ promise' = "rejected" /\ waitsFor' = 0
           /\ disposed' = TRUE /\ generation' = generation + 1
           /\ AbortSignal(started)
           /\ UNCHANGED <<mounted, started, application, stage, reported>>
  <2>1. ~disposed /\ waitsFor = started
    BY <1>1 DEF IInv, SignalsInv
  <2>2. generation + 1 \in 1 .. MaxGenerations + 1 /\ started \in Generations
    BY <1>1, <2>1 DEF IInv, TypeOK
  <2>3. aborted' = aborted \cup {started}
    BY <1>1 DEF AbortSignal
  <2>4. /\ creation' \in [Generations -> {"pending", "created", "rejected", "destroyed"}]
        /\ onPage' \subseteq onPage /\ started \notin onPage'
    BY <1>1 DEF AbortSignal, TearDown, IInv, TypeOK, SignalsInv
  <2>5. TypeOK'
    BY <1>1, <2>2, <2>3, <2>4 DEF IInv, TypeOK
  <2>6. SignalsInv'
    BY <1>1, <2>2, <2>3, <2>4 DEF IInv, TypeOK, SignalsInv
  <2>7. PresentInv'
    BY <1>1 DEF IInv, PresentInv
  <2> QED BY <2>5, <2>6, <2>7 DEF IInv
<1>2. CASE /\ UNCHANGED <<generation, disposed, started, application, aborted, creation, onPage, stage,
                          reported>>
           /\ promise' = "resolved" => mounted'
           /\ mounted' # mounted => stage[generation] = "adopted"
           /\ mounted' \in BOOLEAN
           /\ waitsFor' = 0 \/ (waitsFor' = generation /\ ~disposed)
           /\ promise' \in {"pending", "resolved", "rejected"}
  <2>1. TypeOK'
    BY <1>2 DEF IInv, TypeOK
  <2>2. SignalsInv'
    BY <1>2 DEF IInv, TypeOK, SignalsInv
  <2>3. PresentInv'
    BY <1>2 DEF IInv, SignalsInv, PresentInv
  <2> QED BY <2>1, <2>2, <2>3 DEF IInv
<1>3. CASE /\ waitsFor = generation /\ stage[waitsFor] = "adopted"
           /\ mounted' = TRUE /\ promise' = "resolved" /\ waitsFor' = 0
           /\ UNCHANGED <<generation, disposed, started, application, aborted, creation, onPage,
                         stage, reported>>
  BY <1>2, <1>3
<1>4. CASE /\ waitsFor # generation
           /\ \/ waitsFor' = generation /\ ~disposed /\ UNCHANGED promise
              \/ waitsFor' = 0 /\ promise' = "rejected"
           /\ UNCHANGED <<generation, disposed, mounted, started, application, aborted, creation,
                         onPage, stage, reported>>
  BY <1>2, <1>4 DEF IInv, TypeOK, SignalsInv, PresentInv
<1> QED BY <1>1, <1>3, <1>4 DEF Wake

LEMMA StutterKeeps == ASSUME IInv, UNCHANGED vars PROVE IInv'
  BY DEF vars, mount, IInv, TypeOK, SignalsInv, PresentInv

LEMMA NextKeeps == IInv /\ [Next]_vars => IInv'
<1> SUFFICES ASSUME IInv, [Next]_vars PROVE IInv'
  OBVIOUS
<1>1. ASSUME NEW g \in Generations, Continuation(g) PROVE IInv'
  BY <1>1, WaitStopsKeeps, FoundAbortedKeeps, RenderFailsKeeps, RendersKeeps,
     RenderChangesSessionKeeps, RenderDisposesKeeps, AdoptKeeps, RefuseKeeps
     DEF Continuation
<1>2. ASSUME NEW g \in Generations, CreationSettles(g) \/ ForeignDestroy(g) PROVE IInv'
  BY <1>2, CreationSettlesKeeps, ForeignDestroyKeeps
<1>3. ASSUME SessionChanges \/ SessionChangeDisposes \/ HostDisposes \/ Wake PROVE IInv'
  BY <1>3, SessionChangesKeeps, SessionChangeDisposesKeeps, HostDisposesKeeps, WakeKeeps
<1> QED BY <1>1, <1>2, <1>3, StutterKeeps DEF Next

LEMMA Invariance == Spec => []IInv
<1>1. IInv /\ [Next]_vars => IInv'
  BY NextKeeps
<1> QED BY <1>1, InitInv, PTL DEF Spec

\* However often the session changes, only the present session's application is on the page, none
\* is once the mount is disposed, and a mount that shows nothing is starting or the host knows why
\* (start, dispose, latestApplication).
THEOREM OneApplicationIsShown == Spec => []Consistent
<1>1. IInv => Consistent
  BY InvImpliesConsistent
<1> QED BY <1>1, Invariance, PTL

\* The host never hears of a failure of a session that is over, whenever it comes (onFailure in
\* start).
THEOREM FailuresAreTheLatest == Spec => OnlyTheLatestFails
<1> DEFINE Heard == \A g \in reported' \ reported : g = generation /\ ~disposed
<1>1. Next => Heard
  <2> SUFFICES ASSUME Next PROVE Heard
    OBVIOUS
  <2>1. ASSUME NEW g \in Generations, Continuation(g) PROVE Heard
    BY <2>1 DEF Continuation, WaitStops, FoundAborted, RenderFails, Renders, RenderChangesSession,
                RenderDisposes, Adopt, Refuse
  <2>2. ASSUME NEW g \in Generations, CreationSettles(g) \/ ForeignDestroy(g) PROVE Heard
    BY <2>2 DEF CreationSettles, ForeignDestroy
  <2>3. ASSUME SessionChanges \/ SessionChangeDisposes \/ HostDisposes \/ Wake PROVE Heard
    BY <2>3 DEF SessionChanges, SessionChangeDisposes, HostDisposes, Dispose, Wake
  <2> QED BY <2>1, <2>2, <2>3 DEF Next
<1>2. [Next]_vars => [Heard]_vars
  BY <1>1
<1> QED BY <1>2, PTL DEF Spec, OnlyTheLatestFails

-----------------------------------------------------------------------------
(* Navigator *)

LEMMA LeastOf ==
  ASSUME NEW T, T \subseteq Nat, T # {}
  PROVE  \E x \in T : \A y \in T : x <= y
<1> DEFINE R == OpToRel(<, Nat)
<1>1. IsWellFoundedOn(R, Nat)
  BY NatLessThanWellFounded
<1>2. \A x, y \in Nat : x < y => <<x, y>> \in R
  BY DEF OpToRel
<1> HIDE DEF R
<1>3. PICK x \in T : \A y \in T : <<y, x>> \notin R
  BY <1>1, WFMin
<1>4. ASSUME NEW y \in T PROVE x <= y
  <2>1. x \in Nat /\ y \in Nat /\ ~(y < x)
    BY <1>2, <1>3
  <2> QED BY <2>1
<1> QED BY <1>4

\* The mounts of a set, the innermost first.
InOrder(s, ms) ==
  s \in [1 .. Cardinality(ms) -> ms] /\ \A i, j \in DOMAIN s : i < j => s[i] > s[j]

\* Any set of mounts has an order: its outermost comes after the order of the others.
LEMMA OrdersExist ==
  ASSUME NEW ms, ms \subseteq Nat, IsFiniteSet(ms)
  PROVE  \E s : InOrder(s, ms)
<1> DEFINE Unordered(n) == \E S \in SUBSET ms : Cardinality(S) = n /\ \A s : ~InOrder(s, S)
           Bad == {n \in Nat : Unordered(n)}
<1>1. \A S \in SUBSET ms : IsFiniteSet(S) /\ Cardinality(S) \in Nat
  BY FS_Subset, FS_CardinalityType
<1>2. SUFFICES ASSUME Bad # {} PROVE FALSE
  BY <1>1
<1>3. PICK n \in Bad : \A k \in Bad : n <= k
  <2> HIDE DEF Unordered
  <2> QED BY <1>2, LeastOf
<1>4. PICK S \in SUBSET ms : Cardinality(S) = n /\ \A s : ~InOrder(s, S)
  BY <1>3
<1>5. CASE S = {}
  <2> DEFINE s == [i \in 1 .. 0 |-> 0]
  <2>1. Cardinality(S) = 0
    BY <1>5, FS_EmptySet
  <2>2. s \in [1 .. 0 -> S] /\ DOMAIN s = {}
    OBVIOUS
  <2>3. InOrder(s, S)
    BY <2>1, <2>2 DEF InOrder
  <2> QED BY <1>4, <2>3
<1>6. CASE S # {}
  <2>1. S \subseteq Nat
    BY <1>4
  <2>2. PICK least \in S : \A x \in S : least <= x
    BY <1>6, <2>1, LeastOf
  <2> DEFINE rest == S \ {least}
  <2>3. IsFiniteSet(S) /\ n \in Nat /\ n # 0
    BY <1>1, <1>4, <1>6, FS_EmptySet
  <2>4. Cardinality(rest) = n - 1
    BY <1>4, <2>3, FS_RemoveElement
  <2>5. n - 1 \in Nat /\ rest \in SUBSET ms
    BY <2>3
  <2>6. ~Unordered(n - 1)
    <3> HIDE DEF Unordered
    <3> QED BY <1>3, <2>3, <2>5
  <2>7. PICK r : InOrder(r, rest)
    BY <2>4, <2>5, <2>6
  <2> DEFINE s == [i \in 1 .. n |-> IF i = n THEN least ELSE r[i]]
  <2>8. r \in [1 .. n - 1 -> rest] /\ \A i, j \in 1 .. n - 1 : i < j => r[i] > r[j]
    BY <2>4, <2>7 DEF InOrder
  <2>9. \A i \in 1 .. n : i # n => i \in 1 .. n - 1
    BY <2>3
  <2>10. s \in [1 .. n -> S]
    BY <2>8, <2>9
  <2>11. \A x \in rest : x > least
    BY <2>1, <2>2
  <2>12. ASSUME NEW i \in 1 .. n, NEW j \in 1 .. n, i < j PROVE s[i] > s[j]
    <3>1. i # n /\ i \in 1 .. n - 1
      BY <2>3, <2>12
    <3>2. CASE j = n
      BY <2>8, <2>11, <3>1, <3>2
    <3>3. CASE j # n
      BY <2>8, <2>9, <2>12, <3>1, <3>3
    <3> QED BY <3>2, <3>3
  <2>13. InOrder(s, S)
    <3> HIDE DEF s
    <3> QED BY <1>4, <2>10, <2>12 DEF InOrder
  <2> QED BY <1>4, <2>13
<1> QED BY <1>5, <1>6

Descending(s) == s \in Seq(Mounts) /\ \A i, j \in DOMAIN s : i < j => s[i] > s[j]

\* The sets an instance counts are those of the module it is in.
LEMMA SameFinite == \A S : Nav!IsFiniteSet(S) <=> IsFiniteSet(S)
BY DEF Nav!IsFiniteSet, IsFiniteSet

LEMMA SameSize == \A S : Nav!Cardinality(S) = Cardinality(S)
BY DEF Nav!Cardinality, Cardinality

\* TypeOK, with who is asked and who is told as sequences.
NavInv ==
  /\ page \in Places /\ known \in Places /\ at \in [Mounts -> Places]
  /\ negotiating \in BOOLEAN /\ announcing \in BOOLEAN /\ cleared \in BOOLEAN /\ deaf \in BOOLEAN
  /\ deferred \subseteq Nav!Listening /\ later \in Seq(SUBSET Nav!Listening)
  /\ Descending(asking) /\ (deaf => asking # <<>>)
  /\ origin \in Places \cup {NoPlace} /\ target \in Places \cup {NoPlace}
  /\ going \in Places \cup {NoPlace} /\ home \in Places \cup {NoPlace}
  /\ live \subseteq Mounts /\ dirty \subseteq live /\ left \subseteq Mounts

LEMMA Asked ==
  ASSUME NavInv
  PROVE  Descending(Nav!InnermostFirst(Nav!Objecting))
<1>1. Nav!Objecting \subseteq Mounts /\ Nav!Objecting \subseteq Nat
  BY NavAssumption DEF NavInv, Nav!Objecting, Nav!NavigatorAssumption
<1>2. IsFiniteSet(Nav!Objecting)
  BY <1>1, NavAssumption, SameFinite, FS_Subset DEF Nav!NavigatorAssumption
<1>3. InOrder(Nav!InnermostFirst(Nav!Objecting), Nav!Objecting)
  BY <1>1, <1>2, OrdersExist, SameSize DEF InOrder, Nav!InnermostFirst
<1>4. Cardinality(Nav!Objecting) \in Nat
  BY <1>2, FS_CardinalityType
<1> DEFINE n == Cardinality(Nav!Objecting)
           s == Nav!InnermostFirst(Nav!Objecting)
<1>5. s \in [1 .. n -> Mounts] /\ \A i, j \in DOMAIN s : i < j => s[i] > s[j]
  BY <1>1, <1>3 DEF InOrder
<1> HIDE DEF n, s
<1>6. s \in Seq(Mounts)
  BY <1>4, <1>5 DEF n
<1> QED BY <1>5, <1>6 DEF s, Descending

LEMMA NavTypes == NavInv => Nav!TypeOK
<1> SUFFICES ASSUME NavInv PROVE Nav!TypeOK
  OBVIOUS
<1>1. \A i \in DOMAIN later : later[i] \subseteq Nav!Listening
  <2> TAKE i \in DOMAIN later
  <2>1. later \in Seq(SUBSET Nav!Listening) /\ i \in 1 .. Len(later)
    BY LenProperties DEF NavInv
  <2> QED BY <2>1, ElementOfSeq
<1>2. \A i \in DOMAIN asking : asking[i] \in Mounts
  <2> TAKE i \in DOMAIN asking
  <2>1. asking \in Seq(Mounts) /\ i \in 1 .. Len(asking)
    BY LenProperties DEF NavInv, Descending
  <2> QED BY <2>1, ElementOfSeq
<1> QED BY <1>1, <1>2 DEF NavInv, Nav!TypeOK, Descending

-----------------------------------------------------------------------------
(* The steps *)

LEMMA TailDescends ==
  ASSUME NEW s, Descending(s), s # <<>>
  PROVE  Descending(Tail(s)) /\ (Tail(s) # <<>> => Len(s) > 1) /\ (Len(s) > 1 => Tail(s) # <<>>)
<1>1. /\ s \in Seq(Mounts) /\ Tail(s) \in Seq(Mounts) /\ Len(Tail(s)) = Len(s) - 1
      /\ \A i \in 1 .. Len(Tail(s)) : Tail(s)[i] = s[i + 1]
      /\ Len(s) \in Nat \ {0}
  BY HeadTailProperties, EmptySeq DEF Descending
<1> DEFINE r == Tail(s)
<1>2. DOMAIN r = 1 .. Len(s) - 1 /\ DOMAIN s = 1 .. Len(s)
  BY <1>1, LenProperties
<1>3. \A i \in 1 .. Len(s) - 1 : i + 1 \in 1 .. Len(s)
  BY <1>1
<1> HIDE DEF r
<1>4. \A i, j \in DOMAIN r : i < j => r[i] > r[j]
  <2> TAKE i, j \in DOMAIN r
  <2>1. i + 1 \in DOMAIN s /\ j + 1 \in DOMAIN s /\ i \in Nat /\ j \in Nat
    BY <1>1, <1>2, <1>3
  <2>2. r[i] = s[i + 1] /\ r[j] = s[j + 1]
    BY <1>1, <1>2 DEF r
  <2>3. i < j => i + 1 < j + 1
    BY <2>1
  <2> QED BY <2>1, <2>2, <2>3 DEF Descending
<1>5. (r # <<>> => Len(s) > 1) /\ (Len(s) > 1 => r # <<>>)
  <2>1. r \in Seq(Mounts) /\ Len(r) = Len(s) - 1
    BY <1>1 DEF r
  <2>2. r # <<>> => Len(r) \in Nat \ {0}
    BY <2>1, EmptySeq
  <2>3. r = <<>> => Len(r) = 0
    OBVIOUS
  <2> QED BY <1>1, <2>1, <2>2, <2>3
<1> QED BY <1>1, <1>4, <1>5 DEF Descending, r

LEMMA Telling ==
  ASSUME NavInv, NEW listeners \in SUBSET Nav!Listening, Nav!TellLater(listeners)
  PROVE  later' \in Seq(SUBSET Nav!Listening)
<1>1. later \in Seq(SUBSET Nav!Listening)
  BY DEF NavInv
<1> QED BY <1>1, AppendProperties DEF Nav!TellLater

\* The routers that are told believe the page to be where they are told it is.
LEMMA Emitted ==
  ASSUME NavInv, NEW listeners, NEW place \in Places, Nav!Emit(listeners, place)
  PROVE  known' \in Places /\ at' \in [Mounts -> Places]
BY DEF NavInv, Nav!Emit

LEMMA RunMicrotaskKeeps == ASSUME NavInv, Nav!RunMicrotask PROVE NavInv'
<1>1. /\ later # <<>> /\ later' = Tail(later)
      /\ UNCHANGED <<page, negotiating, asking, deaf, left, origin, target, cleared>>
      /\ UNCHANGED <<Nav!host, Nav!mounts>>
  BY DEF Nav!RunMicrotask
<1>2. later' \in Seq(SUBSET Nav!Listening)
  BY <1>1, HeadTailProperties DEF NavInv
<1>3. known' \in Places /\ at' \in [Mounts -> Places] /\ deferred' \subseteq Nav!Listening
  BY Emitted DEF Nav!RunMicrotask, NavInv
<1>4. Nav!Listening' = Nav!Listening
  BY <1>1 DEF Nav!Listening, Nav!mounts
<1> QED BY <1>1, <1>2, <1>3, <1>4 DEF NavInv, Nav!host, Nav!mounts

LEMMA HostAnnouncesKeeps == ASSUME NavInv, Nav!HostAnnounces PROVE NavInv'
<1>1. /\ announcing' = FALSE
      /\ UNCHANGED <<page, negotiating, later, asking, deaf, left, origin, target, cleared>>
      /\ UNCHANGED <<going, home, Nav!mounts>>
  BY DEF Nav!HostAnnounces
<1>3. known' \in Places /\ at' \in [Mounts -> Places] /\ deferred' \subseteq Nav!Listening
  BY Emitted DEF Nav!HostAnnounces, Nav!Announce, NavInv
<1>4. Nav!Listening' = Nav!Listening
  BY <1>1 DEF Nav!Listening, Nav!mounts
<1> QED BY <1>1, <1>3, <1>4 DEF NavInv, Nav!mounts

LEMMA HostMovesKeeps == ASSUME NavInv, Nav!HostMoves PROVE NavInv'
BY DEF NavInv, Nav!HostMoves, Nav!Listening, Nav!navigator, Nav!mounts

LEMMA BrowserReturnsKeeps == ASSUME NavInv, Nav!BrowserReturns PROVE NavInv'
<1>1. /\ home # NoPlace /\ page' = home /\ home' = NoPlace
      /\ Nav!TellLater(Nav!Listening) /\ UNCHANGED <<known, at>>
      /\ UNCHANGED <<negotiating, deferred, asking, deaf, left, origin, target, cleared>>
      /\ UNCHANGED <<going, announcing, Nav!mounts>>
  BY DEF Nav!BrowserReturns, Nav!Hear
<1>2. later' \in Seq(SUBSET Nav!Listening)
  BY <1>1, Telling
<1>4. Nav!Listening' = Nav!Listening
  BY <1>1 DEF Nav!Listening, Nav!mounts
<1> QED BY <1>1, <1>2, <1>4 DEF NavInv, Nav!mounts

LEMMA ReleasedIs ==
  ASSUME NavInv, NEW outcome, Nav!ReleaseDeferred(outcome)
  PROVE  deferred' = {} /\ known' \in Places /\ at' \in [Mounts -> Places]
BY Emitted DEF Nav!ReleaseDeferred, NavInv

LEMMA ClearBlockersKeeps == ASSUME NavInv, Nav!ClearBlockers PROVE NavInv'
<1>1. /\ cleared' = TRUE /\ dirty' = {} /\ negotiating' = FALSE /\ Nav!ReleaseDeferred("proceeded")
      /\ UNCHANGED <<page, later, asking, deaf, left, origin, target, Nav!host, live>>
  BY DEF Nav!ClearBlockers
<1>2. deferred' = {} /\ known' \in Places /\ at' \in [Mounts -> Places]
  BY <1>1, ReleasedIs
<1>3. Nav!Listening' = Nav!Listening
  BY <1>1 DEF Nav!Listening
<1> QED BY <1>1, <1>2, <1>3 DEF NavInv, Nav!host

LEMMA NegotiateIs ==
  ASSUME NavInv, NEW from, NEW to, Nav!Negotiate(from, to)
  PROVE  /\ Descending(asking') /\ negotiating' = TRUE /\ deaf' = FALSE /\ left' = {}
         /\ origin' = from /\ target' = to
BY Asked DEF Nav!Negotiate

LEMMA HostClicksKeeps == ASSUME NavInv, NEW p \in Places, Nav!HostClicks(p) PROVE NavInv'
<1>1. /\ UNCHANGED <<page, known, deferred, later, cleared, announcing, home, Nav!mounts, at>>
      /\ \/ going' = p /\ UNCHANGED <<negotiating, asking, deaf, left, origin, target>>
         \/ Nav!Negotiate(NoPlace, p) /\ UNCHANGED going
  BY DEF Nav!HostClicks
<1>2. Nav!Listening' = Nav!Listening
  BY <1>1 DEF Nav!Listening, Nav!mounts
<1>3. CASE going' = p /\ UNCHANGED <<negotiating, asking, deaf, left, origin, target>>
  BY <1>1, <1>2, <1>3 DEF NavInv, Nav!mounts
<1>4. CASE Nav!Negotiate(NoPlace, p) /\ UNCHANGED going
  <2>1. /\ Descending(asking') /\ negotiating' = TRUE /\ deaf' = FALSE /\ left' = {}
        /\ origin' = NoPlace /\ target' = p
    BY <1>4, NegotiateIs
  <2> QED BY <1>1, <1>2, <1>4, <2>1 DEF NavInv, Nav!mounts
<1> QED BY <1>1, <1>3, <1>4

LEMMA BrowserGoesKeeps == ASSUME NavInv, NEW p \in Places, Nav!BrowserGoes(p) PROVE NavInv'
<1>1. /\ page' = p /\ Nav!TellLater(Nav!Listening)
      /\ UNCHANGED <<known, at, deferred, cleared, going, Nav!mounts>>
      /\ \/ home' = page /\ UNCHANGED <<negotiating, asking, deaf, left, origin, target, announcing>>
         \/ announcing' = TRUE /\ UNCHANGED <<negotiating, asking, deaf, left, origin, target, home>>
         \/ Nav!Negotiate(page, NoPlace) /\ UNCHANGED <<announcing, home>>
  BY DEF Nav!BrowserGoes, Nav!Hear
<1>2. Nav!Listening' = Nav!Listening
  BY <1>1 DEF Nav!Listening, Nav!mounts
<1>3. later' \in Seq(SUBSET Nav!Listening)
  BY <1>1, Telling
<1>4. CASE Nav!Negotiate(page, NoPlace) /\ UNCHANGED <<announcing, home>>
  <2>1. /\ Descending(asking') /\ negotiating' = TRUE /\ deaf' = FALSE /\ left' = {}
        /\ origin' = page /\ target' = NoPlace
    BY <1>4, NegotiateIs
  <2> QED BY <1>1, <1>2, <1>3, <1>4, <2>1 DEF NavInv, Nav!mounts
<1>5. CASE home' = page /\ UNCHANGED <<negotiating, asking, deaf, left, origin, target, announcing>>
  BY <1>1, <1>2, <1>3, <1>5 DEF NavInv, Nav!mounts
<1>6. CASE announcing' = TRUE /\ UNCHANGED <<negotiating, asking, deaf, left, origin, target, home>>
  BY <1>1, <1>2, <1>3, <1>6 DEF NavInv, Nav!mounts
<1> QED BY <1>1, <1>4, <1>5, <1>6

LEMMA AnswerKeeps == ASSUME NavInv, NEW m \in Mounts, Nav!Answer(m) PROVE NavInv'
<1>1. asking # <<>> /\ UNCHANGED <<page, later, origin, target, cleared, Nav!mounts>>
  BY DEF Nav!Answer
<1>2. Nav!Listening' = Nav!Listening
  BY <1>1 DEF Nav!Listening, Nav!mounts
<1>3. CASE /\ Len(asking) > 1 /\ asking' = Tail(asking) /\ deaf' \in BOOLEAN
           /\ UNCHANGED <<left, known, negotiating, deferred, Nav!host, at>>
  <2>1. Descending(asking') /\ asking' # <<>>
    BY <1>1, <1>3, TailDescends DEF NavInv
  <2> QED BY <1>1, <1>2, <1>3, <2>1 DEF NavInv, Nav!host, Nav!mounts
<1>4. CASE ~deaf /\ (Nav!Proceed \/ Nav!Block) /\ UNCHANGED deaf
  <2>1. /\ asking' = <<>> /\ left' = {} /\ negotiating' = FALSE
        /\ going' \in {going, target} /\ announcing' \in BOOLEAN /\ home' \in {home, origin}
    BY <1>4 DEF Nav!Proceed, Nav!Block, NavInv
  <2>2. deferred' = {} /\ known' \in Places /\ at' \in [Mounts -> Places]
    BY <1>4, ReleasedIs DEF Nav!Proceed, Nav!Block
  <2>3. Descending(<<>>)
    BY EmptySeq DEF Descending
  <2>4. going' \in Places \cup {NoPlace} /\ home' \in Places \cup {NoPlace}
    BY <2>1 DEF NavInv
  <2>5. /\ page' \in Places /\ later' \in Seq(SUBSET (Nav!Listening'))
        /\ origin' \in Places \cup {NoPlace} /\ target' \in Places \cup {NoPlace}
        /\ cleared' \in BOOLEAN /\ live' \subseteq Mounts /\ dirty' \subseteq live'
    BY <1>1, <1>2 DEF NavInv, Nav!mounts
  <2>6. /\ negotiating' \in BOOLEAN /\ announcing' \in BOOLEAN /\ deaf' = FALSE
        /\ deferred' \subseteq Nav!Listening' /\ left' \subseteq Mounts
    BY <1>4, <2>1, <2>2 DEF NavInv
  <2>7. Descending(asking')
    BY <2>1, <2>3
  <2> QED BY <2>2, <2>4, <2>5, <2>6, <2>7 DEF NavInv
<1>5. (deaf' = (asking[2] \in left \ Apps)) => deaf' \in BOOLEAN
  OBVIOUS
<1>6. ASSUME Nav!Agrees(m), Len(asking) > 1, asking' = Tail(asking),
             deaf' = (asking[2] \in left \ Apps),
             UNCHANGED <<left, known, negotiating, deferred, Nav!host, at>>
      PROVE  NavInv'
  BY <1>3, <1>5, <1>6
<1> QED BY <1>4, <1>6 DEF Nav!Answer, Nav!Agrees

LEMMA AppPushesKeeps ==
  ASSUME NavInv, NEW m \in Mounts, NEW p \in Places, Nav!AppPushes(m, p) PROVE NavInv'
<1>1. /\ page' = p /\ at' = [at EXCEPT ![m] = p]
      /\ \/ UNCHANGED <<known, later>>
         \/ known' = p /\ Nav!TellLater(Nav!Listening \ {m})
      /\ UNCHANGED <<negotiating, deferred, asking, deaf, left, origin, target, cleared>>
      /\ UNCHANGED <<Nav!host, Nav!mounts>>
  BY DEF Nav!AppPushes, Nav!Committed
<1>2. Nav!Listening' = Nav!Listening
  BY <1>1 DEF Nav!Listening, Nav!mounts
<1>3. known' \in Places /\ later' \in Seq(SUBSET Nav!Listening)
  BY <1>1, Telling DEF NavInv
<1>4. at' \in [Mounts -> Places]
  BY <1>1 DEF NavInv
<1> QED BY <1>1, <1>2, <1>3, <1>4 DEF NavInv, Nav!host, Nav!mounts

LEMMA AppearKeeps == ASSUME NavInv, NEW m \in Mounts, Nav!Appear(m) PROVE NavInv'
<1>1. live' = live \cup {m} /\ at' = [at EXCEPT ![m] = page]
        /\ UNCHANGED <<page, Nav!navigator, Nav!host, dirty>>
  BY DEF Nav!Appear
<1>2. Nav!Listening \subseteq Nav!Listening'
  BY <1>1 DEF Nav!Listening
<1>3. later' \in Seq(SUBSET (Nav!Listening'))
  <2>1. SUBSET Nav!Listening \subseteq SUBSET (Nav!Listening')
    BY <1>2
  <2>2. later \in Seq(SUBSET Nav!Listening) /\ later' = later
    BY <1>1 DEF NavInv, Nav!navigator
  <2> QED BY <2>1, <2>2, SeqMonotonic
<1>4. at' \in [Mounts -> Places]
  BY <1>1 DEF NavInv
<1> QED BY <1>1, <1>2, <1>3, <1>4 DEF NavInv, Nav!navigator, Nav!host

LEMMA VanishKeeps == ASSUME NavInv, NEW m \in Mounts, Nav!Vanish(m) PROVE NavInv'
<1>1. /\ live' = live \ {m} /\ dirty' = dirty \ {m} /\ deferred' = deferred \ {m}
      /\ later' = [i \in DOMAIN later |-> later[i] \ {m}]
      /\ left' \subseteq left \cup {m}
      /\ UNCHANGED <<page, known, negotiating, asking, deaf, origin, target, cleared, Nav!host, at>>
  BY DEF Nav!Vanish
<1>2. Nav!Listening' = Nav!Listening \ {m}
  BY <1>1 DEF Nav!Listening
<1>3. later' \in Seq(SUBSET (Nav!Listening'))
  <2>1. /\ later \in Seq(SUBSET Nav!Listening) /\ Len(later) \in Nat
        /\ DOMAIN later = 1 .. Len(later)
    BY LenProperties DEF NavInv
  <2>2. \A i \in 1 .. Len(later) : later[i] \ {m} \in SUBSET (Nav!Listening')
    BY <1>2, <2>1, ElementOfSeq
  <2>3. later' \in [1 .. Len(later) -> SUBSET (Nav!Listening')]
    BY <1>1, <2>1, <2>2
  <2> QED BY <2>1, <2>3, SeqDef
<1> QED BY <1>1, <1>2, <1>3 DEF NavInv, Nav!host

LEMMA EditKeeps == ASSUME NavInv, NEW m \in Mounts, Nav!Edit(m) PROVE NavInv'
<1>1. live' = live /\ Nav!Listening' = Nav!Listening
  BY DEF Nav!Edit, Nav!Listening
<1> QED BY <1>1 DEF NavInv, Nav!Edit, Nav!navigator, Nav!host

LEMMA NavKeeps == NavInv /\ [Nav!Next]_(Nav!vars) => NavInv'
<1> SUFFICES ASSUME NavInv, [Nav!Next]_(Nav!vars) PROVE NavInv'
  OBVIOUS
<1>1. CASE UNCHANGED Nav!vars
  BY <1>1 DEF Nav!vars, Nav!navigator, Nav!host, Nav!mounts, NavInv, Nav!Listening
<1> QED BY <1>1, RunMicrotaskKeeps, HostMovesKeeps, HostAnnouncesKeeps, BrowserReturnsKeeps,
           ClearBlockersKeeps, HostClicksKeeps, BrowserGoesKeeps, AnswerKeeps, AppearKeeps,
           VanishKeeps, EditKeeps, AppPushesKeeps DEF Nav!Next

LEMMA NavBegins == Nav!Init => NavInv
<1> SUFFICES ASSUME Nav!Init PROVE NavInv
  OBVIOUS
<1>1. Descending(<<>>) /\ <<>> \in Seq(SUBSET Nav!Listening)
  BY EmptySeq DEF Descending
<1> QED BY <1>1 DEF Nav!Init, NavInv

\* Whoever handles a move in the middle of a negotiation tells nobody.
NobodyIsTold ==
  negotiating' => \A m \in live \cap live' : at'[m] = at[m] \/ \E p \in Places : Nav!AppPushes(m, p)

LEMMA NobodyTold == ASSUME NavInv, Nav!Next PROVE NobodyIsTold
<1>1. CASE Nav!RunMicrotask \/ Nav!HostMoves \/ Nav!HostAnnounces \/ Nav!BrowserReturns
  BY <1>1 DEF NobodyIsTold, Nav!RunMicrotask, Nav!HostMoves, Nav!HostAnnounces, Nav!Announce,
    Nav!BrowserReturns, Nav!Hear, Nav!navigator
<1>2. CASE Nav!ClearBlockers
  BY <1>2 DEF NobodyIsTold, Nav!ClearBlockers
<1>3. ASSUME NEW p \in Places, Nav!HostClicks(p) \/ Nav!BrowserGoes(p) PROVE NobodyIsTold
  BY <1>3 DEF NobodyIsTold, Nav!HostClicks, Nav!BrowserGoes, Nav!Hear
<1>4. ASSUME NEW m \in Mounts, Nav!Answer(m) PROVE NobodyIsTold
  BY <1>4 DEF NobodyIsTold, Nav!Answer, Nav!Proceed, Nav!Block
<1>5. ASSUME NEW m \in Mounts, Nav!Appear(m) \/ Nav!Vanish(m) \/ Nav!Edit(m) PROVE NobodyIsTold
  BY <1>5 DEF NobodyIsTold, Nav!Appear, Nav!Vanish, Nav!Edit, NavInv
<1>6. ASSUME NEW m \in Mounts, NEW p \in Places, Nav!AppPushes(m, p) PROVE NobodyIsTold
  <2>1. \A n \in Mounts \ {m} : at'[n] = at[n]
    BY <1>6 DEF Nav!AppPushes, NavInv
  <2> QED BY <1>6, <2>1 DEF NobodyIsTold, NavInv
<1> QED BY <1>1, <1>2, <1>3, <1>4, <1>5, <1>6 DEF Nav!Next

\* The mounts that block are asked from the innermost out, and while one is asked about a move no App
\* is told of one by the navigator: whoever moves the page meanwhile, by whatever handler, and
\* whatever is deferred (requestNavigation, subscribe, #tellLater, announce, #releaseDeferred).
THEOREM NobodyIsToldTooEarly == Nav!Spec => Nav!NegotiationsAreSafe
<1>1. NavInv /\ [Nav!Next]_(Nav!vars) => [NobodyIsTold]_(Nav!vars)
  BY NobodyTold
<1> QED BY <1>1, NavBegins, NavKeeps, NavTypes, PTL
        DEF Nav!Spec, Nav!NegotiationsAreSafe, Nav!AskedBeforeTold, NobodyIsTold

\* The same of a page of the run, which is about an application or about navigation.
LEMMA AdaptersNavigate ==
  ASSUME [AdaptersNext]_<<vars, nav, about>> PROVE [Nav!Next]_(Nav!vars)
BY DEF AdaptersNext, nav, Nav!vars, Nav!navigator, Nav!host, Nav!mounts

\* NegotiationsAreSafe, as the run states it: the mounts that block are asked from the innermost out,
\* and meanwhile no App is told of a move (requestNavigation, #tellLater, announce).
THEOREM MovesAreAskedFirst == AdaptersSpec => NegotiationsAreSafe
<1>1. AdaptersInit => NavInv
  BY NavBegins DEF AdaptersInit
<1>2. NavInv /\ [AdaptersNext]_<<vars, nav, about>> => NavInv'
  BY AdaptersNavigate, NavKeeps
<1>3. NavInv /\ [AdaptersNext]_<<vars, nav, about>> => [NobodyIsTold]_(Nav!vars)
  BY AdaptersNavigate, NobodyTold
<1> QED BY <1>1, <1>2, <1>3, NavTypes, PTL
        DEF AdaptersSpec, NegotiationsAreSafe, Nav!NegotiationsAreSafe, Nav!AskedBeforeTold,
            NobodyIsTold
=============================================================================
