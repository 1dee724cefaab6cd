------------------------------ MODULE Breadcrumbs ------------------------------
(***************************************************************************)
(* The breadcrumb trail of a page: what nested mounts contribute to it, and *)
(* what components inside a mount put in place of that mount's own part,    *)
(* until they leave or the mount navigates                                  *)
(* (breadcrumbs/breadcrumb-store.ts).                                       *)
(*                                                                          *)
(* Around the store are the adapters, which register a mount in an effect,  *)
(* publish what its router resolved, and clean up late when the mount is    *)
(* disposed first, maybe once it is registered again; and the components,   *)
(* whose effects run when they render.  No adapter registers a mount whose  *)
(* contribution stands: an effect runs again after its cleanup.             *)
(*                                                                          *)
(* Items are the number of the publication that made them; none is 0.       *)
(***************************************************************************)
EXTENDS Naturals, Sequences, SequencesExt

CONSTANTS
  Mounts,          \* a sequence: the nested mounts, by depth
  Components,      \* the components that contribute
  InMount,         \* the mount each is in
  MaxNavigations,  \* bound: navigations of a contribution
  MaxRegistered,   \* bound: registrations over a run
  MaxItems         \* bound: different items of one contributor

BreadcrumbsAssumption ==
  /\ Mounts \in Seq(Range(Mounts)) /\ IsInjective(Mounts) /\ Range(Mounts) \cap Components = {}
  /\ InMount \in [Components -> DOMAIN Mounts]
  /\ MaxNavigations \in Nat /\ MaxRegistered \in Nat /\ MaxItems \in Nat

Depths == DOMAIN Mounts
Items  == 1 .. MaxItems
Nobody == "nobody"

VARIABLES
  contributions,   \* by mount: what it contributes, or nothing
  trail,           \* as published: who contributes, in order, and which items
  sequence,        \* registrations so far
  handles,         \* the registrations that adapters hold of each mount
  mounted          \* the components with an effect that has not been cleaned up

vars == <<contributions, trail, sequence, handles, mounted>>

Nothing == [sequence |-> 0, items |-> 0, override |-> 0, owner |-> Nobody, navigation |-> 0, began |-> 0]
Registered(m) == contributions[m].sequence # 0

Part(c, m) ==
  IF c[m].override # 0 THEN <<[by |-> c[m].owner, items |-> c[m].override]>>
  ELSE IF c[m].items # 0 THEN <<[by |-> Mounts[m], items |-> c[m].items]>>
  ELSE <<>>

\* By depth.  Every mount of the chain has a depth of its own.
Composed(c) == FlattenSeq([m \in Depths |-> Part(c, m)])

Compose(c) ==
  /\ contributions' = c
  /\ trail' = Composed(c)

-----------------------------------------------------------------------------
(* The handle of a mount *)

\* The contribution starts empty: there is nothing to compose.
RegisterMount(m) ==
  /\ ~Registered(m) /\ sequence < MaxRegistered
  /\ sequence' = sequence + 1
  /\ contributions' = [contributions EXCEPT ![m] =
                         [Nothing EXCEPT !.sequence = sequence + 1, !.began = MaxNavigations + 1]]
  /\ handles' = [handles EXCEPT ![m] = @ \cup {sequence + 1}]
  /\ UNCHANGED <<trail, mounted>>

\* removeMount() may have taken the contribution, and another one may stand in its place.
Live(m, h) == contributions[m].sequence = h

Update(c, m, h, i) == IF Live(m, h) THEN [c EXCEPT ![m].items = i] ELSE c

\* The router resolved where it was, or at another search: what it contributes may be new.
Publish(m) ==
  /\ \E h \in handles[m], i \in Items : Compose(Update(contributions, m, h, i))
  /\ UNCHANGED <<sequence, handles, mounted>>

\* The adapter's cleanup.
RemoveHandle(m, h) ==
  /\ h \in handles[m]
  /\ Compose(IF Live(m, h) THEN [contributions EXCEPT ![m] = Nothing] ELSE contributions)
  /\ handles' = [handles EXCEPT ![m] = @ \ {h}]
  /\ UNCHANGED <<sequence, mounted>>

\* The mount's disposal.
RemoveMount(m) ==
  /\ Registered(m)
  /\ Compose([contributions EXCEPT ![m] = Nothing])
  /\ UNCHANGED <<sequence, handles, mounted>>

-----------------------------------------------------------------------------
(* Overrides *)

HasLiveOverride(m) ==
  contributions[m].override # 0 /\ contributions[m].began = contributions[m].navigation

\* Fault: the last override wins.
RefusedIfRetired(m, o) ==
  ~HasLiveOverride(m) /\ contributions[m].owner = o /\ contributions[m].began # contributions[m].navigation

\* An owner whose override was retired may not install it again, and nobody over another's.
Refused(m, o) ==
  \/ /\ ~HasLiveOverride(m)
     /\ contributions[m].owner = o
     /\ contributions[m].began # contributions[m].navigation
  \/ HasLiveOverride(m) /\ contributions[m].owner # o

SetOverride(m, o, i) ==
  Compose(IF ~Registered(m) \/ Refused(m, o) THEN contributions
          ELSE [contributions EXCEPT ![m].override = i, ![m].owner = o,
                                     ![m].began = contributions[m].navigation])

Owned(m, o) == contributions[m].override # 0 /\ contributions[m].owner = o

Cleared(m, o) ==
  IF Owned(m, o)
  THEN [contributions EXCEPT ![m].override = 0, ![m].owner = Nobody]
  ELSE contributions

\* A component's effect runs with items, or with none.
Contribute(o) ==
  /\ o \in mounted \/ handles[InMount[o]] # {}
  /\ mounted' = mounted \cup {o}
  /\ \/ \E i \in Items : SetOverride(InMount[o], o, i)
     \/ Compose(Cleared(InMount[o], o))
  /\ UNCHANGED <<sequence, handles>>

\* The component unmounts.  The next to render has a token of its own, so nobody has this one's.
Leave(o) ==
  /\ o \in mounted
  /\ mounted' = mounted \ {o}
  /\ LET m == InMount[o]
         c == Cleared(m, o)
     IN Compose([c EXCEPT ![m].owner = IF @ = o THEN Nobody ELSE @])
  /\ UNCHANGED <<sequence, handles>>

-----------------------------------------------------------------------------
(* Navigation *)

Notified(m) ==
  IF Registered(m)
  THEN [contributions EXCEPT ![m].navigation = @ + 1, ![m].override = 0]
  ELSE contributions

\* The mount's router resolved at another path: overrides end, then its own items are published.
Navigate(m) ==
  /\ contributions[m].navigation < MaxNavigations
  /\ \E h \in handles[m], i \in Items : Compose(Update(Notified(m), m, h, i))
  /\ UNCHANGED <<sequence, handles, mounted>>

-----------------------------------------------------------------------------

Init ==
  /\ contributions = [m \in Depths |-> Nothing] /\ trail = <<>> /\ sequence = 0
  /\ handles = [m \in Depths |-> {}] /\ mounted = {}

Next ==
  \/ \E m \in Depths :
       \/ RegisterMount(m) \/ Publish(m) \/ RemoveMount(m) \/ Navigate(m)
       \/ \E h \in handles[m] : RemoveHandle(m, h)
  \/ \E o \in Components : Contribute(o) \/ Leave(o)

Spec == Init /\ [][Next]_vars

-----------------------------------------------------------------------------
(* Properties *)

\* Every variable has its type.
TypeOK ==
  /\ contributions \in [Depths ->
       [sequence : 0 .. sequence, items : {0} \cup Items, override : {0} \cup Items,
        owner : Components \cup {Nobody}, navigation : 0 .. MaxNavigations,
        began : 0 .. MaxNavigations + 1]]
  /\ sequence \in 0 .. MaxRegistered /\ handles \in [Depths -> SUBSET (1 .. sequence)]
  /\ mounted \subseteq Components

\* Who contributes to the trail.
Shown == {trail[i].by : i \in DOMAIN trail}

\* The trail is what the contributions make of it, although most changes compose nothing when they
\* see none (update, notifyNavigation, registerMount).
TrailIsCurrent == trail = Composed(contributions)

\* What is shown is there: a component that has left, or whose mount navigated since it last put
\* its items up, shows nothing, and neither does a mount that is gone (removeMount, live).
NothingLeaks ==
  /\ Shown \cap Components \subseteq mounted
  /\ \A m \in Depths : contributions[m].override # 0 => HasLiveOverride(m)
  /\ \A m \in Depths : Mounts[m] \in Shown => Registered(m)

Consistent == TypeOK /\ TrailIsCurrent /\ NothingLeaks

\* Nobody's crumbs are replaced by another component's while they are up (setOverride).
NobodyIsReplaced ==
  [][\A m \in Depths :
       HasLiveOverride(m) /\ contributions[m].owner \in mounted' /\ HasLiveOverride(m)' =>
         contributions'[m].owner = contributions[m].owner]_vars

\* What a mount contributes lasts until the adapter that registered it cleans up or the mount is
\* disposed: the late cleanup of its earlier life does not take it (live).
ContributionsLast ==
  [][\A m \in Depths :
       contributions[m].sequence \in handles'[m] /\ ~RemoveMount(m) =>
         contributions'[m].sequence = contributions[m].sequence]_vars

\* The trail says what the page's mounts and components want it to say, and takes from none of them.
TrailIsKept == []Consistent /\ NobodyIsReplaced /\ ContributionsLast
=============================================================================
