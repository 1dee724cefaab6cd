-------------------------- MODULE ActionRegistryProofs --------------------------
(***************************************************************************)
(* Proofs about ActionRegistry, for any number of actions, mounts, names    *)
(* and shortcuts, and about the two shells of MCChrome, for any users,      *)
(* groups, mounts and sessions.                                             *)
(*                                                                          *)
(* Which shortcuts may fire is kept, not derived.  What is kept is current  *)
(* because a shortcut is judged by the host page's shortcuts alone          *)
(* (UsableDependsOnHosts), and every call that changes those judges every   *)
(* container's again (RefreshContainersJudges).                             *)
(*                                                                          *)
(* That an id is free to be found is a pigeon-hole argument: there are more *)
(* numbers to try than actions (FreeIdIsFree).                              *)
(*                                                                          *)
(* What a shell's page shows is current or somebody is still to hear of the *)
(* change: the stack of passes says who (HostDue, SessionDue, RouterDue).   *)
(***************************************************************************)
EXTENDS MCChrome, FiniteSetTheorems, SequenceTheorems, WellFoundedInduction, TLAPS

Fields   == {"status", "name", "id", "declared", "usable", "entry"}
Declared == Shortcuts \cup {NoShortcut}

\* What a registry is made of.
Sound(rr) ==
  /\ DOMAIN rr = Slots
  /\ \A s \in Slots :
       /\ DOMAIN rr[s] = Fields
       /\ rr[s].status \in {"absent", "live", "orphaned", "removed"}
       /\ rr[s].declared \in Declared /\ rr[s].usable \in Declared

\* A slot's shortcut and entry are those of its registration.
Judged(s, rr)  == rr[s].usable = UsableOf(s, rr[s].declared, rr)
Shown(s, rr)   == rr[s].entry.id = rr[s].id /\ rr[s].entry.shortcut = rr[s].usable
Current(s, rr) == Judged(s, rr) /\ Shown(s, rr)

\* The live ones and their declared shortcuts are the same, for the slots of `set`.
SameDeclared(set, rr, qq) ==
  \A s \in set : /\ s \in Live(rr) <=> s \in Live(qq)
                 /\ s \in Live(rr) => rr[s].declared = qq[s].declared

RestOK ==
  /\ gone \subseteq Scopes \ {Host} /\ enabled \in [Slots -> BOOLEAN]
  /\ inside \in Places /\ pressed \in Seq(Chords) /\ fresh \in BOOLEAN
  /\ fired.kind \in {"none", "pending", "ambiguous", "complete"}

IInv ==
  /\ Sound(action) /\ RestOK
  /\ published = {action[s].entry : s \in Live(action)}
  /\ \A s \in Live(action) : Current(s, action) /\ ScopeOf[s] \notin gone

LEMMA InvImpliesConsistent == IInv => Consistent
  BY DEF IInv, Sound, RestOK, Current, Judged, Shown, Declared, Consistent, TypeOK, PaletteIsCurrent, Live

-----------------------------------------------------------------------------
(* Shortcuts *)

\* A shortcut is judged by the host page's, and by nothing else.
LEMMA UsableDependsOnHosts ==
  ASSUME NEW rr, NEW qq, SameDeclared(Hosts, rr, qq), NEW s, NEW d
  PROVE  UsableOf(s, d, rr) = UsableOf(s, d, qq)
<1>1. Hosts \cap Live(rr) = Hosts \cap Live(qq)
  BY DEF SameDeclared
<1>2. HostShortcuts(rr) = HostShortcuts(qq)
  BY <1>1 DEF SameDeclared, HostShortcuts
<1> QED BY <1>2 DEF UsableOf, Refused

\* The host page's own are never refused.
LEMMA HostsAreUsable ==
  ASSUME NEW rr, NEW s \in Hosts, NEW d
  PROVE  UsableOf(s, d, rr) = d
  BY ActionRegistryAssumption DEF UsableOf, Refused, Hosts

LEMMA UsableIsDeclared ==
  ASSUME NEW rr, NEW s, NEW d \in Declared
  PROVE  UsableOf(s, d, rr) \in Declared
  BY DEF UsableOf, Declared

LEMMA RefreshShows ==
  ASSUME NEW s, NEW r, DOMAIN r = Fields
  PROVE  /\ DOMAIN Refresh(s, r) = Fields
         /\ Refresh(s, r).status = r.status /\ Refresh(s, r).id = r.id
         /\ Refresh(s, r).declared = r.declared /\ Refresh(s, r).usable = r.usable
         /\ Refresh(s, r).entry.id = r.id /\ Refresh(s, r).entry.shortcut = r.usable
  BY DEF Refresh, EntryOf, Fields

\* After a change of the host page's shortcuts, everybody's is current again.
LEMMA RefreshContainersJudges ==
  ASSUME NEW rr, Sound(rr),
         \A s \in Live(rr) : Shown(s, rr),
         \A s \in Live(rr) : s \in Hosts \/ rr[s].declared = NoShortcut => Judged(s, rr)
  PROVE  LET qq == RefreshContainers(rr)
         IN  /\ Sound(qq) /\ SameDeclared(Slots, rr, qq)
             /\ \A s \in Live(qq) : Current(s, qq)
<1> DEFINE qq == RefreshContainers(rr)
           judged(s) == [rr[s] EXCEPT !.usable = UsableOf(s, rr[s].declared, rr)]
<1>1. ASSUME NEW s \in Slots
      PROVE  /\ DOMAIN judged(s) = Fields
             /\ judged(s).status = rr[s].status /\ judged(s).declared = rr[s].declared
             /\ judged(s).usable = UsableOf(s, rr[s].declared, rr)
  BY <1>1 DEF Sound, Fields
<1>2. ASSUME NEW s \in Slots
      PROVE  /\ DOMAIN qq[s] = Fields
             /\ qq[s].status = rr[s].status /\ qq[s].declared = rr[s].declared
             /\ s \in Live(rr) => qq[s].usable = UsableOf(s, rr[s].declared, rr) /\ Shown(s, qq)
             /\ s \notin Live(rr) => qq[s] = rr[s]
  <2>1. CASE s \in Live(rr) \ Hosts /\ rr[s].declared # NoShortcut
    <3>1. qq[s] = Refresh(s, judged(s))
      BY <1>2, <2>1 DEF RefreshContainers
    <3> HIDE DEF judged
    <3>2. DOMAIN judged(s) = Fields
      BY <1>1
    <3> QED BY <2>1, <3>1, <3>2, <1>1, RefreshShows DEF Shown
  <2>2. CASE ~(s \in Live(rr) \ Hosts /\ rr[s].declared # NoShortcut)
    <3>1. qq[s] = rr[s]
      BY <1>2, <2>2 DEF RefreshContainers
    <3>2. s \in Live(rr) => rr[s].usable = UsableOf(s, rr[s].declared, rr)
      BY <2>2 DEF Judged
    <3> QED BY <3>1, <3>2 DEF Sound, Shown
  <2> QED BY <2>1, <2>2
<1>3. DOMAIN qq = Slots
  BY DEF RefreshContainers
<1>4. SameDeclared(Slots, rr, qq)
  BY <1>2 DEF SameDeclared, Live
<1>5. \A s \in Slots : qq[s].declared \in Declared /\ qq[s].usable \in Declared
  BY <1>2, UsableIsDeclared DEF Sound
<1>6. Sound(qq)
  BY <1>2, <1>3, <1>5 DEF Sound
<1>7. SameDeclared(Hosts, rr, qq)
  BY <1>4 DEF SameDeclared, Hosts
<1>8. ASSUME NEW s \in Live(qq) PROVE Current(s, qq)
  <2>1. s \in Slots /\ s \in Live(rr)
    BY <1>2, <1>8 DEF Live
  <2>2. UsableOf(s, rr[s].declared, rr) = UsableOf(s, rr[s].declared, qq)
    BY <1>7, UsableDependsOnHosts
  <2> HIDE DEF qq
  <2> QED BY <1>2, <2>1, <2>2 DEF Current, Judged
<1> QED BY <1>4, <1>6, <1>8

-----------------------------------------------------------------------------
(* The calls *)

\* One registration is new or changed, and the rest is as it was: everybody is current if the host
\* page's shortcuts are the same, or are judged by again.
LEMMA ChangeOfOne ==
  ASSUME NEW rr, NEW qq, NEW s \in Slots, Sound(rr), Sound(qq),
         \A t \in Live(rr) : Current(t, rr),
         \A t \in Slots \ {s} : qq[t] = rr[t],
         s \in Live(qq) => qq[s].usable = UsableOf(s, qq[s].declared, rr) /\ Shown(s, qq),
         s \in Hosts => SameDeclared({s}, rr, qq)
  PROVE  \A t \in Live(qq) : Current(t, qq)
<1>1. SameDeclared(Hosts, rr, qq)
  BY DEF SameDeclared, Live, Hosts
<1> SUFFICES ASSUME NEW t \in Live(qq) PROVE Current(t, qq)
  OBVIOUS
<1>2. UsableOf(t, qq[t].declared, rr) = UsableOf(t, qq[t].declared, qq)
  BY <1>1, UsableDependsOnHosts
<1> QED BY <1>2 DEF Current, Judged, Shown, Live

LEMMA HostChange ==
  ASSUME NEW rr, NEW qq, NEW s \in Slots, Sound(rr), Sound(qq),
         \A t \in Live(rr) : Current(t, rr),
         \A t \in Slots \ {s} : qq[t] = rr[t],
         s \in Live(qq) => qq[s].usable = UsableOf(s, qq[s].declared, rr) /\ Shown(s, qq)
  PROVE  LET after == AfterHostChange(s, qq)
         IN  /\ Sound(after) /\ SameDeclared(Slots, qq, after)
             /\ \A t \in Live(after) : Current(t, after)
<1>1. CASE s \in Hosts
  <2>1. \A t \in Live(qq) : Shown(t, qq)
    BY DEF Current, Shown, Live
  <2>2. ASSUME NEW t \in Live(qq), t \in Hosts \/ qq[t].declared = NoShortcut PROVE Judged(t, qq)
    <3>1. qq[t].usable = UsableOf(t, qq[t].declared, rr)
      BY DEF Current, Judged, Live
    <3>2. CASE t \in Hosts
      BY <3>1, <3>2, HostsAreUsable DEF Judged
    <3>3. CASE qq[t].declared = NoShortcut
      BY <3>1, <3>3 DEF Judged, UsableOf
    <3> QED BY <2>2, <3>2, <3>3
  <2> QED BY <1>1, <2>1, <2>2, RefreshContainersJudges DEF AfterHostChange
<1>2. CASE s \notin Hosts
  <2>1. \A t \in Live(qq) : Current(t, qq)
    BY <1>2, ChangeOfOne
  <2> QED BY <1>2, <2>1 DEF AfterHostChange, SameDeclared
<1> QED BY <1>1, <1>2

-----------------------------------------------------------------------------
(* The steps *)

LEMMA AbsentIsARegistration ==
  ASSUME NEW st
  PROVE  LET r == [Absent EXCEPT !.status = st]
         IN  DOMAIN r = Fields /\ r.status = st /\ r.declared = NoShortcut /\ r.usable = NoShortcut
  BY DEF Absent, Fields

\* What is left to show of a call that publishes.
LEMMA PublishedKeeps ==
  ASSUME Sound(action'), Publish, RestOK',
         \A s \in Live(action') : Current(s, action') /\ ScopeOf[s] \notin gone'
  PROVE  IInv'
  BY DEF IInv, Publish, Sound, Live, Current, Judged, Shown, UsableOf, Refused, HostShortcuts

\* A call that changes one registration and looks at the shortcuts again.
LEMMA OneChangeKeeps ==
  ASSUME IInv, RestOK', gone' = gone, Publish,
         NEW s \in Slots, NEW r,
         DOMAIN r = Fields, r.status \in {"live", "removed"},
         r.declared \in Declared, r.usable \in Declared,
         r.status = "live" => /\ ScopeOf[s] \notin gone
                              /\ r.usable = UsableOf(s, r.declared, action)
                              /\ r.entry.id = r.id /\ r.entry.shortcut = r.usable,
         \/ action' = AfterHostChange(s, [action EXCEPT ![s] = r])
         \/ /\ action' = [action EXCEPT ![s] = r]
            /\ SameDeclared({s}, action, [action EXCEPT ![s] = r])
  PROVE  IInv'
<1> DEFINE rr == [action EXCEPT ![s] = r]
<1>1. Sound(action) /\ \A t \in Live(action) : Current(t, action) /\ ScopeOf[t] \notin gone
  BY DEF IInv
<1>2. DOMAIN rr = Slots /\ rr[s] = r /\ \A t \in Slots \ {s} : rr[t] = action[t]
  BY <1>1 DEF Sound
<1>3. Sound(rr)
  BY <1>1, <1>2 DEF Sound
<1>4. s \in Live(rr) => rr[s].usable = UsableOf(s, rr[s].declared, action) /\ Shown(s, rr)
  BY <1>2 DEF Live, Shown
<1>5. \A t \in Live(rr) : ScopeOf[t] \notin gone
  BY <1>1, <1>2 DEF Live
<1>6. CASE action' = AfterHostChange(s, rr)
  <2> HIDE DEF rr
  <2>1. /\ Sound(action') /\ SameDeclared(Slots, rr, action')
        /\ \A t \in Live(action') : Current(t, action')
    BY <1>1, <1>2, <1>3, <1>4, <1>6, HostChange
  <2>2. \A t \in Live(action') : ScopeOf[t] \notin gone'
    BY <1>5, <2>1 DEF SameDeclared, Live
  <2> QED BY <2>1, <2>2, PublishedKeeps
<1>7. CASE action' = rr /\ SameDeclared({s}, action, rr)
  <2> HIDE DEF rr
  <2>1. \A t \in Live(rr) : Current(t, rr)
    BY <1>1, <1>2, <1>3, <1>4, <1>7, ChangeOfOne
  <2>2. \A t \in Live(action') : Current(t, action') /\ ScopeOf[t] \notin gone'
    BY <1>5, <1>7, <2>1
  <2>3. Sound(action')
    BY <1>3, <1>7
  <2> QED BY <2>2, <2>3, PublishedKeeps
<1> QED BY <1>6, <1>7

LEMMA RestStays ==
  ASSUME IInv, fired' = Nothing, UNCHANGED <<gone, enabled, inside, keys>>
  PROVE  RestOK'
  BY DEF IInv, RestOK, Nothing, keys

LEMMA RegisterKeeps ==
  ASSUME IInv, NEW s \in Slots, NEW n, NEW d \in Declared, Register(s, n, d)
  PROVE  IInv'
<1> DEFINE made == [status |-> "live", name |-> n, id |-> FreeId(DefinitionOf[ScopeOf[s]], n),
                    declared |-> d, usable |-> UsableOf(s, d, action), entry |-> Absent.entry]
           r == Refresh(s, made)
<1>1. /\ DOMAIN made = Fields /\ made.status = "live"
      /\ made.declared = d /\ made.usable = UsableOf(s, d, action)
  BY DEF Fields
<1>2. /\ DOMAIN r = Fields /\ r.status = "live" /\ r.declared = d /\ r.usable = UsableOf(s, d, action)
      /\ r.entry.id = r.id /\ r.entry.shortcut = r.usable
  <2> HIDE DEF made
  <2> QED BY <1>1, RefreshShows
<1>3. /\ action' = IF d = NoShortcut THEN [action EXCEPT ![s] = r]
                   ELSE AfterHostChange(s, [action EXCEPT ![s] = r])
      /\ Publish /\ gone' = gone /\ ScopeOf[s] \notin gone /\ RestOK'
      /\ action[s].status \in {"absent", "removed"}
  BY RestStays DEF Register
<1>4. r.usable \in Declared
  BY <1>2, UsableIsDeclared
<1> HIDE DEF r
<1>5. CASE d # NoShortcut
  BY <1>2, <1>3, <1>4, <1>5, OneChangeKeeps
<1>6. CASE d = NoShortcut
  <2> DEFINE rr == [action EXCEPT ![s] = r]
  <2>1. Sound(action) /\ \A t \in Live(action) : Current(t, action) /\ ScopeOf[t] \notin gone
    BY DEF IInv
  <2>2. /\ Sound(rr) /\ rr[s] = r /\ \A t \in Slots \ {s} : rr[t] = action[t]
    BY <1>2, <1>4, <2>1 DEF Sound
  <2>3. HostShortcuts(rr) = HostShortcuts(action)
    BY <1>2, <1>3, <1>6, <2>2 DEF HostShortcuts, Live, Hosts
  <2>4. \A t \in Live(rr) : Current(t, rr) /\ ScopeOf[t] \notin gone
    BY <1>2, <1>3, <2>1, <2>2, <2>3 DEF Current, Judged, Shown, UsableOf, Refused, Live
  <2>5. action' = rr
    BY <1>3, <1>6
  <2> HIDE DEF rr
  <2> QED BY <1>3, <2>2, <2>4, <2>5, PublishedKeeps
<1> QED BY <1>5, <1>6

LEMMA UpdateKeeps ==
  ASSUME IInv, NEW s \in Slots, NEW n, NEW d \in Declared, Update(s, n, d)
  PROVE  IInv'
<1> DEFINE made == Updated(s, n, d)
           r == Refresh(s, made)
<1>1. /\ s \in Live(action) /\ DOMAIN action[s] = Fields /\ action[s].status = "live"
      /\ action[s].declared \in Declared
      /\ action[s].usable = UsableOf(s, action[s].declared, action) /\ ScopeOf[s] \notin gone
  BY DEF Update, IInv, Sound, Live, Current, Judged
<1>2. /\ DOMAIN made = Fields /\ made.status = "live" /\ made.declared = d
      /\ made.usable = UsableOf(s, d, action)
  BY <1>1 DEF Updated, Fields
<1>3. /\ DOMAIN r = Fields /\ r.status = "live" /\ r.declared = d /\ r.usable = UsableOf(s, d, action)
      /\ r.entry.id = r.id /\ r.entry.shortcut = r.usable
  <2> HIDE DEF made
  <2> QED BY <1>2, RefreshShows
<1>4. /\ action' = IF d = action[s].declared THEN [action EXCEPT ![s] = r]
                   ELSE AfterHostChange(s, [action EXCEPT ![s] = r])
      /\ Publish /\ gone' = gone /\ RestOK'
  BY RestStays DEF Update
<1>5. r.usable \in Declared
  BY <1>3, UsableIsDeclared
<1> HIDE DEF r
<1>6. CASE d # action[s].declared
  BY <1>1, <1>3, <1>4, <1>5, <1>6, OneChangeKeeps
<1>7. CASE d = action[s].declared
  <2>1. SameDeclared({s}, action, [action EXCEPT ![s] = r])
    BY <1>1, <1>3, <1>7 DEF SameDeclared, Live, IInv, Sound
  <2>2. action' = [action EXCEPT ![s] = r]
    BY <1>4, <1>7
  <2> QED BY <1>1, <1>3, <1>4, <1>5, <2>1, <2>2, OneChangeKeeps
<1> QED BY <1>6, <1>7

LEMMA UnregisterKeeps ==
  ASSUME IInv, NEW s \in Slots, Unregister(s)
  PROVE  IInv'
<1> DEFINE r == [Absent EXCEPT !.status = "removed"]
           rr == [action EXCEPT ![s] = r]
<1>1. /\ action' = IF action[s].declared = NoShortcut THEN rr ELSE AfterHostChange(s, rr)
      /\ Publish /\ gone' = gone /\ RestOK'
  BY RestStays DEF Unregister
<1>2. DOMAIN r = Fields /\ r.status = "removed" /\ r.declared \in Declared /\ r.usable \in Declared
  BY AbsentIsARegistration DEF Declared
<1>3. Sound(action) /\ \A t \in Live(action) : Current(t, action) /\ ScopeOf[t] \notin gone
  BY DEF IInv
<1> HIDE DEF r
<1>4. CASE action[s].declared # NoShortcut
  BY <1>1, <1>2, <1>4, OneChangeKeeps
<1>5. CASE action[s].declared = NoShortcut
  <2>1. /\ Sound(rr) /\ rr[s] = r /\ \A t \in Slots \ {s} : rr[t] = action[t]
    BY <1>2, <1>3 DEF Sound
  <2>2. HostShortcuts(rr) = HostShortcuts(action)
    BY <1>2, <1>5, <2>1 DEF HostShortcuts, Live, Hosts
  <2>3. \A t \in Live(rr) : Current(t, rr) /\ ScopeOf[t] \notin gone
    BY <1>2, <1>3, <2>1, <2>2 DEF Current, Judged, Shown, UsableOf, Refused, Live
  <2>4. action' = rr
    BY <1>1, <1>5
  <2> HIDE DEF rr
  <2> QED BY <1>1, <2>1, <2>3, <2>4, PublishedKeeps
<1> QED BY <1>4, <1>5

LEMMA RemoveMountKeeps ==
  ASSUME IInv, NEW m \in Scopes, RemoveMount(m)
  PROVE  IInv'
<1> DEFINE theirs == {s \in Live(action) : ScopeOf[s] = m}
           r == [Absent EXCEPT !.status = "orphaned"]
<1>1. /\ m # Host /\ gone' = gone \cup {m} /\ Publish /\ RestOK'
      /\ action' = [s \in Slots |-> IF s \in theirs THEN r ELSE action[s]]
  BY DEF RemoveMount, IInv, RestOK, Nothing, keys
<1>2. DOMAIN r = Fields /\ r.status = "orphaned" /\ r.declared \in Declared /\ r.usable \in Declared
  BY AbsentIsARegistration DEF Declared
<1>3. Sound(action) /\ \A t \in Live(action) : Current(t, action) /\ ScopeOf[t] \notin gone
  BY DEF IInv
<1> HIDE DEF r
<1>4. Sound(action')
  BY <1>1, <1>2, <1>3 DEF Sound
<1>5. \A t \in Live(action') : t \in Live(action) /\ ScopeOf[t] # m /\ action'[t] = action[t]
  BY <1>1, <1>2 DEF Live
<1>6. SameDeclared(Hosts, action, action')
  BY <1>1, <1>5 DEF SameDeclared, Live, Hosts
<1>7. ASSUME NEW t \in Live(action') PROVE Current(t, action') /\ ScopeOf[t] \notin gone'
  <2>1. UsableOf(t, action[t].declared, action) = UsableOf(t, action[t].declared, action')
    BY <1>6, UsableDependsOnHosts
  <2> QED BY <1>1, <1>3, <1>5, <2>1 DEF Current, Judged, Shown
<1> QED BY <1>1, <1>4, <1>7, PublishedKeeps

\* Entries are evaluated again, and nothing is decided about shortcuts.
LEMMA EvaluationKeeps ==
  ASSUME IInv, Publish, RestOK', gone' = gone,
         NEW set \in SUBSET Live(action),
         action' = [s \in Slots |-> IF s \in set THEN Refresh(s, action[s]) ELSE action[s]]
  PROVE  IInv'
<1>1. Sound(action) /\ \A t \in Live(action) : Current(t, action) /\ ScopeOf[t] \notin gone
  BY DEF IInv
<1>2. ASSUME NEW t \in Slots
      PROVE  /\ DOMAIN action'[t] = Fields
             /\ action'[t].status = action[t].status /\ action'[t].declared = action[t].declared
             /\ action'[t].usable = action[t].usable
             /\ t \in Live(action) => Shown(t, action')
  <2>1. DOMAIN action[t] = Fields
    BY <1>1 DEF Sound
  <2>2. CASE t \in set
    <3>1. action'[t] = Refresh(t, action[t])
      BY <2>2
    <3> QED BY <2>1, <3>1, RefreshShows DEF Shown
  <2>3. CASE t \notin set
    <3>1. action'[t] = action[t]
      BY <2>3
    <3> QED BY <1>1, <2>1, <3>1 DEF Current, Shown
  <2> QED BY <2>2, <2>3
<1>3. Sound(action')
  BY <1>1, <1>2 DEF Sound
<1>4. SameDeclared(Hosts, action, action')
  BY <1>2 DEF SameDeclared, Live, Hosts
<1>5. ASSUME NEW t \in Live(action') PROVE Current(t, action') /\ ScopeOf[t] \notin gone'
  <2>1. t \in Live(action) /\ t \in Slots
    BY <1>2, <1>5 DEF Live
  <2>2. UsableOf(t, action[t].declared, action) = UsableOf(t, action[t].declared, action')
    BY <1>4, UsableDependsOnHosts
  <2> QED BY <1>1, <1>2, <2>1, <2>2 DEF Current, Judged
<1> QED BY <1>3, <1>5, PublishedKeeps

LEMMA EvaluateAllKeeps == ASSUME IInv, EvaluateAll PROVE IInv'
<1>1. Publish /\ RestOK' /\ gone' = gone
  BY RestStays DEF EvaluateAll
<1>2. action' = [s \in Slots |-> IF s \in Live(action) THEN Refresh(s, action[s]) ELSE action[s]]
  BY DEF EvaluateAll
<1> QED BY <1>1, <1>2, EvaluationKeeps

LEMMA DenyKeeps == ASSUME IInv, NEW s \in Slots, Deny(s) PROVE IInv'
<1>1. Publish /\ RestOK' /\ gone' = gone /\ {s} \in SUBSET Live(action)
  BY RestStays DEF Deny
<1>2. action' = [t \in Slots |-> IF t \in {s} THEN Refresh(t, action[t]) ELSE action[t]]
  BY DEF Deny, IInv, Sound
<1> QED BY <1>1, <1>2, EvaluationKeeps

-----------------------------------------------------------------------------
(* Keys *)

LEMMA RegistryUntouched ==
  ASSUME IInv, RestOK', UNCHANGED <<action, gone, published>>
  PROVE  IInv'
  BY DEF IInv, Sound, Live, Current, Judged, Shown, UsableOf, Refused, HostShortcuts

LEMMA MatchIsAnOutcome ==
  ASSUME NEW typed, NEW f
  PROVE  MatchSequence(typed, f).kind \in {"none", "pending", "ambiguous", "complete"}
  BY DEF MatchSequence, Nothing

LEMMA SequencesOfChords ==
  ASSUME NEW S
  PROVE  /\ <<>> \in Seq(S)
         /\ \A c \in S : <<c>> \in Seq(S) /\ \A q \in Seq(S) : Append(q, c) \in Seq(S)
  OBVIOUS

LEMMA KeyDownKeeps ==
  ASSUME IInv, NEW c \in Chords, NEW f \in BOOLEAN, KeyDown(c, f)
  PROVE  IInv'
<1> DEFINE earlier == IF fresh THEN pressed ELSE <<>>
<1>1. earlier \in Seq(Chords)
  BY SequencesOfChords DEF IInv, RestOK
<1>2. /\ fired' \in {MatchSequence(<<c>>, f), MatchSequence(Append(earlier, c), f)}
      /\ pressed' \in {<<>>, <<c>>, Append(earlier, c)}
      /\ fresh' = TRUE /\ UNCHANGED <<action, gone, enabled, published, inside>>
  BY DEF KeyDown
<1> HIDE DEF earlier
<1>3. pressed' \in Seq(Chords)
  BY <1>1, <1>2, SequencesOfChords
<1>4. fired'.kind \in {"none", "pending", "ambiguous", "complete"}
  BY <1>2, MatchIsAnOutcome
<1>5. RestOK'
  BY <1>2, <1>3, <1>4 DEF IInv, RestOK
<1> QED BY <1>2, <1>5, RegistryUntouched

LEMMA OthersKeep ==
  ASSUME IInv,
         \/ \E s \in Slots : \E e \in DecisionsOf[s] : Decide(s, e)
         \/ \E c \in Chords : Type(c)
         \/ Pause
         \/ \E p \in Places : PageMoves(p)
         \/ UNCHANGED vars
  PROVE  IInv'
<1>1. UNCHANGED <<action, gone, published>>
  BY DEF Decide, Type, Pause, PageMoves, vars
<1>2. RestOK'
  <2>1. CASE \E s \in Slots : \E e \in DecisionsOf[s] : Decide(s, e)
    <3>1. enabled' \in [Slots -> BOOLEAN]
      BY <2>1, ActionRegistryAssumption DEF Decide, IInv, RestOK
    <3> QED BY <2>1, <3>1 DEF Decide, IInv, RestOK, Nothing, keys
  <2>2. CASE \E c \in Chords : Type(c)
    BY <2>2 DEF Type, IInv, RestOK, Nothing
  <2>3. CASE Pause
    BY <2>3 DEF Pause, IInv, RestOK, Nothing
  <2>4. CASE \E p \in Places : PageMoves(p)
    BY <2>4 DEF PageMoves, IInv, RestOK, Nothing, keys
  <2>5. CASE UNCHANGED vars
    BY <2>5 DEF vars, IInv, RestOK, keys
  <2> QED BY <2>1, <2>2, <2>3, <2>4, <2>5
<1> QED BY <1>1, <1>2, RegistryUntouched

-----------------------------------------------------------------------------

LEMMA InitInv == Init => IInv
<1> SUFFICES ASSUME Init PROVE IInv
  OBVIOUS
<1>1. \A s \in Slots : action[s] = Absent
  BY DEF Init
<1>2. Live(action) = {}
  BY <1>1 DEF Live, Absent
<1>3. Sound(action)
  BY <1>1 DEF Init, Sound, Absent, Fields, Declared
<1>4. enabled \in [Slots -> BOOLEAN]
  BY ActionRegistryAssumption DEF Init
<1>5. RestOK
  BY <1>4, SequencesOfChords DEF Init, RestOK, Nothing
<1> QED BY <1>2, <1>3, <1>5 DEF Init, IInv

LEMMA NextKeeps == IInv /\ [Next]_vars => IInv'
<1> SUFFICES ASSUME IInv, [Next]_vars PROVE IInv'
  OBVIOUS
<1>1. ASSUME NEW s \in Slots, NEW n \in NamesOf[s], NEW d \in Shortcuts \cup {NoShortcut},
             Register(s, n, d) \/ Update(s, n, d)
      PROVE  IInv'
  BY <1>1, RegisterKeeps, UpdateKeeps DEF Declared
<1>2. ASSUME NEW s \in Slots, Unregister(s) \/ Deny(s) PROVE IInv'
  BY <1>2, UnregisterKeeps, DenyKeeps
<1>3. ASSUME NEW m \in Scopes, RemoveMount(m) PROVE IInv'
  BY <1>3, RemoveMountKeeps
<1>4. ASSUME NEW c \in Chords, NEW f \in BOOLEAN, KeyDown(c, f) PROVE IInv'
  BY <1>4, KeyDownKeeps
<1> QED BY <1>1, <1>2, <1>3, <1>4, EvaluateAllKeeps, OthersKeep DEF Next

\* Whatever is registered, updated, removed and disposed, a shortcut may fire if and only if the
\* host page's present shortcuts leave it alone, and the palette shows the live actions as they
\* are registered, and no others.
THEOREM PaletteStaysCurrent == Spec => []Consistent
<1>1. IInv /\ [Next]_vars => IInv'
  BY NextKeeps
<1>2. Spec => []IInv
  BY <1>1, InitInv, PTL DEF Spec
<1>3. IInv => Consistent
  BY InvImpliesConsistent
<1> QED BY <1>2, <1>3, PTL

-----------------------------------------------------------------------------
(* Ids *)

LEMMA LeastNumber ==
  ASSUME NEW T, T \subseteq Nat, T # {}
  PROVE  \E x \in T : \A y \in T : x <= y
<1> DEFINE R == OpToRel(<, Nat)
<1>1. IsWellFoundedOn(R, Nat)
  BY NatLessThanWellFounded
<1>2. \A x, y \in Nat : x < y => <<x, y>> \in R
  BY DEF OpToRel
<1> HIDE DEF R
<1>3. PICK x \in T : \A y \in T : <<y, x>> \notin R
  BY <1>1, WFMin
<1>4. ASSUME NEW y \in T PROVE x <= y
  <2>1. x \in Nat /\ y \in Nat /\ ~(y < x)
    BY <1>2, <1>3
  <2> QED BY <2>1
<1> QED BY <1>4

\* Two numbers never make one id of a name.
LEMMA NumbersDiffer ==
  ASSUME NEW d, NEW n, n[2] \in Seq(Nat), NEW j \in Nat \ {0}, NEW k \in Nat \ {0}, j # k
  PROVE  Numbered(d, n, j) # Numbered(d, n, k)
<1> DEFINE longer(i) == Append(n[2], i)
<1>1. ASSUME NEW i \in Nat
      PROVE  /\ Len(longer(i)) = Len(n[2]) + 1 /\ Len(n[2]) \in Nat
             /\ longer(i)[Len(n[2]) + 1] = i
  OBVIOUS
<1>2. longer(j) # longer(k) /\ longer(j) # n[2] /\ longer(k) # n[2]
  <2> HIDE DEF longer
  <2>1. longer(j)[Len(n[2]) + 1] = j /\ longer(k)[Len(n[2]) + 1] = k
    BY <1>1
  <2>2. \A i \in {j, k} : Len(longer(i)) = Len(n[2]) + 1 /\ Len(n[2]) \in Nat
    BY <1>1
  <2>3. longer(j) # n[2] /\ longer(k) # n[2]
    BY <2>2
  <2> QED BY <2>1, <2>3
<1> QED BY <1>2 DEF Numbered

LEMMA FreeIdIsFree ==
  ASSUME NEW d, NEW n, n[2] \in Seq(Nat), NEW s \in Live(action)
  PROVE  FreeId(d, n) # action[s].id
<1> DEFINE taken == {action[t].id : t \in Live(action)}
           N == Cardinality(Slots)
           free == {k \in 1 .. N + 1 : Numbered(d, n, k) \notin taken}
<1>1. IsFiniteSet(Slots) /\ N \in Nat
  BY ActionRegistryAssumption, FS_CardinalityType
<1> HIDE DEF N
<1>2. free # {}
  <2> SUFFICES ASSUME \A k \in 1 .. N + 1 : Numbered(d, n, k) \in taken PROVE FALSE
    OBVIOUS
  <2> DEFINE f == [k \in 1 .. N + 1 |->
                    CHOOSE t \in Slots : t \in Live(action) /\ action[t].id = Numbered(d, n, k)]
  <2>1. ASSUME NEW k \in 1 .. N + 1 PROVE f[k] \in Slots /\ action[f[k]].id = Numbered(d, n, k)
    <3>1. \E t \in Slots : t \in Live(action) /\ action[t].id = Numbered(d, n, k)
      BY DEF Live
    <3> QED BY <3>1
  <2>2. f \in [1 .. N + 1 -> Slots]
    BY <2>1
  <2>3. IsFiniteSet(1 .. N + 1) /\ Cardinality(1 .. N + 1) = N + 1
    BY <1>1, FS_Interval
  <2>4. Cardinality(Slots) < Cardinality(1 .. N + 1)
    BY <1>1, <2>3 DEF N
  <2> HIDE DEF f
  <2>5. PICK j, k \in 1 .. N + 1 : j # k /\ f[j] = f[k]
    BY <1>1, <2>2, <2>3, <2>4, FS_PigeonHole
  <2>6. j \in Nat \ {0} /\ k \in Nat \ {0}
    BY <1>1
  <2> QED BY <2>1, <2>5, <2>6, NumbersDiffer
<1>3. free \subseteq Nat
  BY <1>1
<1>4. PICK least \in free : \A k \in free : least <= k
  BY <1>2, <1>3, LeastNumber
<1>5. \A j \in 1 .. least - 1 : Numbered(d, n, j) \in taken
  <2> SUFFICES ASSUME NEW j \in 1 .. least - 1, Numbered(d, n, j) \notin taken PROVE FALSE
    OBVIOUS
  <2>1. least \in 1 .. N + 1 /\ j \in 1 .. N + 1 /\ j < least
    BY <1>1
  <2> QED BY <1>4, <2>1
<1> DEFINE First(k) == Numbered(d, n, k) \notin taken
                       /\ \A j \in 1 .. k - 1 : Numbered(d, n, j) \in taken
<1>6. \E k \in 1 .. N + 1 : First(k)
  BY <1>4, <1>5
<1>7. PICK k \in 1 .. N + 1 : k = (CHOOSE i \in 1 .. N + 1 : First(i)) /\ First(k)
  BY <1>6
<1>8. FreeId(d, n) = Numbered(d, n, k)
  BY <1>7 DEF FreeId, N
<1> QED BY <1>7, <1>8

Unique(rr) == \A s, t \in Live(rr) : s # t => rr[s].id # rr[t].id

\* Nobody comes, and everybody who stays keeps the id.
SameIds(rr, qq) == \A s \in Live(qq) : s \in Live(rr) /\ qq[s].id = rr[s].id

LEMMA SameIdsStayUnique ==
  ASSUME NEW rr, NEW qq, Unique(rr), SameIds(rr, qq) PROVE Unique(qq)
  BY DEF Unique, SameIds

LEMMA HostChangeKeepsIds ==
  ASSUME NEW rr, Sound(rr), NEW s PROVE SameIds(rr, AfterHostChange(s, rr))
<1> DEFINE judged(t) == [rr[t] EXCEPT !.usable = UsableOf(t, rr[t].declared, rr)]
           qq == RefreshContainers(rr)
<1>1. ASSUME NEW t \in Slots PROVE qq[t].status = rr[t].status /\ qq[t].id = rr[t].id
  <2>1. DOMAIN judged(t) = Fields /\ judged(t).status = rr[t].status /\ judged(t).id = rr[t].id
    BY DEF Sound, Fields
  <2>2. qq[t] \in {Refresh(t, judged(t)), rr[t]}
    BY DEF RefreshContainers
  <2> HIDE DEF judged, qq
  <2> QED BY <2>1, <2>2, RefreshShows
<1> QED BY <1>1 DEF SameIds, AfterHostChange, Live

\* One registration takes a free id, or keeps its own, or goes.
LEMMA OneIdChanges ==
  ASSUME IInv, Unique(action), NEW s \in Slots, NEW r,
         r.status = "live" => \/ \A t \in Live(action) : r.id # action[t].id
                              \/ s \in Live(action) /\ r.id = action[s].id
  PROVE  Unique([action EXCEPT ![s] = r])
  BY DEF IInv, Sound, Unique, Live

LEMMA NextKeepsIds ==
  ASSUME IInv, IInv', Unique(action), [Next]_vars PROVE Unique(action')
<1> USE DEF IInv
<1>1. ASSUME NEW s \in Slots, NEW n \in NamesOf[s], NEW d \in Declared, Register(s, n, d)
      PROVE  Unique(action')
  <2> DEFINE made == [status |-> "live", name |-> n, id |-> FreeId(DefinitionOf[ScopeOf[s]], n),
                      declared |-> d, usable |-> UsableOf(s, d, action), entry |-> Absent.entry]
             r == Refresh(s, made)
             rr == [action EXCEPT ![s] = r]
  <2>1. DOMAIN made = Fields /\ made.declared = d /\ made.usable = UsableOf(s, d, action)
        /\ made.status = "live" /\ made.id = FreeId(DefinitionOf[ScopeOf[s]], n)
    BY DEF Fields
  <2>2. action' = IF d = NoShortcut THEN rr ELSE AfterHostChange(s, rr)
    BY <1>1 DEF Register
  <2> HIDE DEF made
  <2>3. /\ r.id = FreeId(DefinitionOf[ScopeOf[s]], n) /\ DOMAIN r = Fields /\ r.status = "live"
        /\ r.declared = d /\ r.usable \in Declared
    BY <2>1, RefreshShows, UsableIsDeclared
  <2> HIDE DEF r
  <2>4. \A t \in Live(action) : r.id # action[t].id
    BY <2>3, FreeIdIsFree, ActionRegistryAssumption
  <2>5. Unique(rr)
    BY <2>4, OneIdChanges
  <2>6. Sound(rr)
    BY <2>3 DEF Sound
  <2> HIDE DEF rr
  <2> QED BY <2>2, <2>5, <2>6, HostChangeKeepsIds, SameIdsStayUnique
<1>2. ASSUME NEW s \in Slots, NEW n \in NamesOf[s], NEW d \in Declared, Update(s, n, d)
      PROVE  Unique(action')
  <2> DEFINE made == Updated(s, n, d)
             r == Refresh(s, made)
             rr == [action EXCEPT ![s] = r]
  <2>1. s \in Live(action) /\ DOMAIN action[s] = Fields
    BY <1>2 DEF Update, Sound
  <2>2. /\ DOMAIN made = Fields /\ made.declared = d
        /\ made.usable \in {action[s].usable, UsableOf(s, d, action)} /\ made.status = action[s].status
        /\ made.id \in {action[s].id, FreeId(DefinitionOf[ScopeOf[s]], n)}
    BY <2>1 DEF Updated, Fields
  <2>3. action' \in {rr, AfterHostChange(s, rr)}
    BY <1>2 DEF Update
  <2> HIDE DEF made
  <2>4. /\ r.id \in {action[s].id, FreeId(DefinitionOf[ScopeOf[s]], n)} /\ DOMAIN r = Fields
        /\ r.status = action[s].status /\ r.declared = d /\ r.usable \in Declared
    BY <2>2, RefreshShows, UsableIsDeclared DEF Sound
  <2> HIDE DEF r
  <2>5. Unique(rr)
    BY <2>1, <2>4, OneIdChanges, FreeIdIsFree, ActionRegistryAssumption
  <2>6. Sound(rr)
    BY <2>4 DEF Sound
  <2> HIDE DEF rr
  <2> QED BY <2>3, <2>5, <2>6, HostChangeKeepsIds, SameIdsStayUnique
<1>3. ASSUME NEW s \in Slots, Unregister(s) PROVE Unique(action')
  <2> DEFINE r == [Absent EXCEPT !.status = "removed"]
             rr == [action EXCEPT ![s] = r]
  <2>1. DOMAIN r = Fields /\ r.status = "removed" /\ r.declared \in Declared /\ r.usable \in Declared
    BY AbsentIsARegistration DEF Declared
  <2>2. action' \in {rr, AfterHostChange(s, rr)}
    BY <1>3 DEF Unregister
  <2> HIDE DEF r
  <2>3. Unique(rr) /\ Sound(rr)
    BY <2>1, OneIdChanges DEF Sound
  <2> HIDE DEF rr
  <2> QED BY <2>2, <2>3, HostChangeKeepsIds, SameIdsStayUnique
<1>4. ASSUME NEW m \in Scopes, RemoveMount(m) PROVE Unique(action')
  <2>1. SameIds(action, action')
    BY <1>4, AbsentIsARegistration DEF RemoveMount, SameIds, Live, Sound
  <2> QED BY <2>1, SameIdsStayUnique
<1>5. ASSUME EvaluateAll \/ \E s \in Slots : Deny(s) PROVE Unique(action')
  <2>1. ASSUME NEW t \in Slots
        PROVE  action'[t].status = action[t].status /\ action'[t].id = action[t].id
    <3>1. action'[t] \in {action[t], Refresh(t, action[t])} /\ DOMAIN action[t] = Fields
      BY <1>5 DEF EvaluateAll, Deny, Sound
    <3> QED BY <3>1, RefreshShows
  <2>2. SameIds(action, action')
    BY <2>1 DEF SameIds, Live
  <2> QED BY <2>2, SameIdsStayUnique
<1>6. ASSUME action' = action PROVE Unique(action')
  BY <1>6
<1> QED BY <1>1, <1>2, <1>3, <1>4, <1>5, <1>6
        DEF Next, vars, Declared, Decide, Pause, Type, KeyDown, PageMoves

\* An id names one action, for any number of mounts of a definition and any names.
THEOREM AnIdNamesOneAction == Spec => []IdsAreUnique
<1>1. Init => IInv /\ Unique(action)
  BY InitInv DEF Init, Unique, Live, Absent
<1>2. IInv /\ Unique(action) /\ [Next]_vars => (IInv /\ Unique(action))'
  <2> SUFFICES ASSUME IInv, Unique(action), [Next]_vars PROVE IInv' /\ Unique(action)'
    OBVIOUS
  <2>1. IInv'
    BY NextKeeps
  <2>2. Unique(action')
    BY <2>1, NextKeepsIds
  <2> QED BY <2>1, <2>2 DEF Unique, Live
<1>3. IInv /\ Unique(action) => IdsAreUnique
  BY DEF Unique, IdsAreUnique
<1> QED BY <1>1, <1>2, <1>3, PTL DEF Spec

-----------------------------------------------------------------------------
(* What happens to the others *)

\* What a change of one registration leaves of another: all but what is judged and shown.
SameRegistration(r, q) ==
  q.status = r.status /\ q.name = r.name /\ q.id = r.id /\ q.declared = r.declared

LEMMA HostChangeKeepsRegistrations ==
  ASSUME NEW rr, Sound(rr), NEW s, NEW t \in Slots
  PROVE  /\ SameRegistration(rr[t], AfterHostChange(s, rr)[t])
         /\ s \notin Hosts => AfterHostChange(s, rr) = rr
<1> DEFINE judged == [rr[t] EXCEPT !.usable = UsableOf(t, rr[t].declared, rr)]
           qq == RefreshContainers(rr)
<1>1. /\ DOMAIN judged = Fields /\ judged.status = rr[t].status /\ judged.name = rr[t].name
      /\ judged.id = rr[t].id /\ judged.declared = rr[t].declared
  BY DEF Sound, Fields
<1>2. qq[t] \in {Refresh(t, judged), rr[t]}
  BY DEF RefreshContainers
<1> HIDE DEF judged, qq
<1>3. SameRegistration(judged, Refresh(t, judged))
  BY <1>1 DEF SameRegistration, Refresh, Fields
<1>4. SameRegistration(rr[t], qq[t])
  BY <1>1, <1>2, <1>3 DEF SameRegistration
<1> QED BY <1>4 DEF AfterHostChange, SameRegistration, qq

\* What is not in the registry declares no shortcut.
OnlyLiveDeclare == \A s \in Slots : s \notin Live(action) => action[s].declared = NoShortcut

OthersInv == IInv /\ OnlyLiveDeclare

\* A change of one registration leaves the others as they were, or changes a shortcut of the host
\* page.
OneChanges(u, n) ==
  /\ \A s \in Slots : action'[s].declared = (IF s = u THEN n ELSE action[s].declared)
  /\ \A s \in Slots \ {u} : SameRegistration(action[s], action'[s])
  /\ u \notin Hosts \/ n = action[u].declared => \A s \in Slots \ {u} : action'[s] = action[s]

LEMMA ChangeIsOfOne ==
  ASSUME Sound(action), NEW u \in Slots, NEW r,
         DOMAIN r = Fields, r.status \in {"live", "removed"},
         r.declared \in Declared, r.usable \in Declared,
         action' = IF r.declared = action[u].declared THEN [action EXCEPT ![u] = r]
                   ELSE AfterHostChange(u, [action EXCEPT ![u] = r])
  PROVE  OneChanges(u, r.declared) /\ SameRegistration(r, action'[u])
<1> DEFINE rr == [action EXCEPT ![u] = r]
<1>1. Sound(rr) /\ rr[u] = r /\ \A s \in Slots \ {u} : rr[s] = action[s]
  BY DEF Sound
<1>2. action' = IF r.declared = action[u].declared THEN rr ELSE AfterHostChange(u, rr)
  OBVIOUS
<1> HIDE DEF rr
<1>3. \A s \in Slots : SameRegistration(rr[s], action'[s])
  <2>1. \A s \in Slots : SameRegistration(rr[s], AfterHostChange(u, rr)[s])
    BY <1>1, HostChangeKeepsRegistrations
  <2>2. \A s \in Slots : SameRegistration(rr[s], rr[s])
    BY DEF SameRegistration
  <2> QED BY <1>2, <2>1, <2>2
<1>4. u \notin Hosts \/ r.declared = action[u].declared => action' = rr
  BY <1>1, <1>2, HostChangeKeepsRegistrations
<1>5. SameRegistration(r, action'[u])
  BY <1>1, <1>3
<1>6. \A s \in Slots \ {u} : SameRegistration(action[s], action'[s])
  BY <1>1, <1>3
<1>7. \A s \in Slots : action'[s].declared = (IF s = u THEN r.declared ELSE action[s].declared)
  BY <1>5, <1>6 DEF SameRegistration
<1>8. u \notin Hosts \/ r.declared = action[u].declared => \A s \in Slots \ {u} : action'[s] = action[s]
  BY <1>1, <1>4
<1> QED BY <1>5, <1>6, <1>7, <1>8 DEF OneChanges

LEMMA RegisterIsOfOne ==
  ASSUME OthersInv, NEW u \in Slots, NEW n, NEW d \in Declared, Register(u, n, d)
  PROVE  OneChanges(u, d) /\ u \notin Live(action) /\ u \in Live(action')
<1> DEFINE made == [status |-> "live", name |-> n, id |-> FreeId(DefinitionOf[ScopeOf[u]], n),
                    declared |-> d, usable |-> UsableOf(u, d, action), entry |-> Absent.entry]
           r == Refresh(u, made)
<1>1. DOMAIN made = Fields /\ made.declared = d /\ made.status = "live"
      /\ made.usable = UsableOf(u, d, action)
  BY DEF Fields
<1>2. u \notin Live(action) /\ action[u].declared = NoShortcut
  BY DEF Register, Live, OthersInv, OnlyLiveDeclare
<1>3. action' = IF d = NoShortcut THEN [action EXCEPT ![u] = r]
                ELSE AfterHostChange(u, [action EXCEPT ![u] = r])
  BY DEF Register
<1> HIDE DEF made
<1>4. DOMAIN r = Fields /\ r.status = "live" /\ r.declared = d /\ r.usable \in Declared
  BY <1>1, RefreshShows, UsableIsDeclared
<1> HIDE DEF r
<1>5. OneChanges(u, r.declared) /\ SameRegistration(r, action'[u])
  BY <1>2, <1>3, <1>4, ChangeIsOfOne DEF OthersInv, IInv
<1> QED BY <1>2, <1>4, <1>5 DEF SameRegistration, Live

LEMMA UpdateIsOfOne ==
  ASSUME OthersInv, NEW u \in Slots, NEW n, NEW d \in Declared, Update(u, n, d)
  PROVE  /\ OneChanges(u, d) /\ u \in Live(action) /\ u \in Live(action')
         /\ action'[u].name = n
         /\ n = action[u].name => action'[u].id = action[u].id
<1> DEFINE made == Updated(u, n, d)
           r == Refresh(u, made)
<1>1. u \in Live(action) /\ DOMAIN action[u] = Fields
  BY DEF Update, OthersInv, IInv, Sound
<1>2. /\ DOMAIN made = Fields /\ made.declared = d /\ made.status = "live" /\ made.name = n
      /\ made.usable \in {action[u].usable, UsableOf(u, d, action)}
      /\ n = action[u].name => made.id = action[u].id
  BY <1>1 DEF Updated, Fields, Live
<1>3. action' = IF d = action[u].declared THEN [action EXCEPT ![u] = r]
                ELSE AfterHostChange(u, [action EXCEPT ![u] = r])
  BY DEF Update
<1> HIDE DEF made
<1>4. /\ DOMAIN r = Fields /\ r.status = "live" /\ r.declared = d /\ r.usable \in Declared
      /\ r.id = made.id
  BY <1>2, RefreshShows, UsableIsDeclared DEF OthersInv, IInv, Sound
<1>5. r.name = made.name
  BY <1>2 DEF Refresh, Fields
<1> HIDE DEF r
<1>6. OneChanges(u, r.declared) /\ SameRegistration(r, action'[u])
  BY <1>3, <1>4, ChangeIsOfOne DEF OthersInv, IInv
<1> QED BY <1>1, <1>2, <1>4, <1>5, <1>6 DEF SameRegistration, Live

LEMMA UnregisterIsOfOne ==
  ASSUME OthersInv, NEW u \in Slots, Unregister(u)
  PROVE  OneChanges(u, NoShortcut) /\ u \notin Live(action')
<1> DEFINE r == [Absent EXCEPT !.status = "removed"]
<1>1. DOMAIN r = Fields /\ r.status = "removed" /\ r.declared = NoShortcut /\ r.usable = NoShortcut
  BY AbsentIsARegistration
<1>2. action' = IF action[u].declared = NoShortcut THEN [action EXCEPT ![u] = r]
                ELSE AfterHostChange(u, [action EXCEPT ![u] = r])
  BY DEF Unregister
<1> HIDE DEF r
<1>3. OneChanges(u, r.declared) /\ SameRegistration(r, action'[u])
  BY <1>1, <1>2, ChangeIsOfOne DEF OthersInv, IInv, Declared
<1> QED BY <1>1, <1>3 DEF SameRegistration, Live

\* A step that is no registration, update or removal of one action.
OtherSteps ==
  \/ EvaluateAll \/ Pause
  \/ \E s \in Slots : Deny(s) \/ \E e \in DecisionsOf[s] : Decide(s, e)
  \/ \E c \in Chords : Type(c) \/ \E f \in BOOLEAN : KeyDown(c, f)
  \/ \E p \in Places : PageMoves(p)
  \/ UNCHANGED vars

LEMMA OtherStepsRegisterNothing ==
  ASSUME IInv, OtherSteps
  PROVE  \A s \in Slots : SameRegistration(action[s], action'[s])
<1>1. ASSUME NEW s \in Slots PROVE SameRegistration(action[s], Refresh(s, action[s]))
  BY DEF IInv, Sound, Refresh, SameRegistration, Fields
<1>2. ASSUME NEW s \in Slots PROVE action'[s] \in {action[s], Refresh(s, action[s])}
  BY DEF OtherSteps, EvaluateAll, Pause, Deny, Decide, Type, KeyDown, PageMoves, vars, IInv, Sound
<1> QED BY <1>1, <1>2 DEF SameRegistration

LEMMA RemoveMountOrphans ==
  ASSUME IInv, NEW m \in Scopes, RemoveMount(m), NEW s \in Slots
  PROVE  \/ action'[s] = action[s]
         \/ s \notin Live(action') /\ action'[s].declared = NoShortcut
<1> DEFINE r == [Absent EXCEPT !.status = "orphaned"]
<1>1. r.status = "orphaned" /\ r.declared = NoShortcut
  BY AbsentIsARegistration
<1>2. action'[s] \in {action[s], r}
  BY DEF RemoveMount
<1> HIDE DEF r
<1> QED BY <1>1, <1>2 DEF Live

LEMMA NextIsOneOf ==
  ASSUME [Next]_vars
  PROVE  \/ \E u \in Slots, n \in UNION {NamesOf[s] : s \in Slots}, d \in Declared :
              Register(u, n, d) \/ Update(u, n, d)
         \/ \E u \in Slots : Unregister(u)
         \/ \E m \in Scopes : RemoveMount(m)
         \/ OtherSteps
  BY DEF Next, OtherSteps, Declared

LEMMA OthersInvNext == OthersInv /\ [Next]_vars => OthersInv'
<1> SUFFICES ASSUME OthersInv, [Next]_vars PROVE OthersInv'
  OBVIOUS
<1>1. IInv'
  BY NextKeeps DEF OthersInv
<1> SUFFICES ASSUME NEW s \in Slots, s \notin Live(action') PROVE action'[s].declared = NoShortcut
  BY <1>1 DEF OthersInv, OnlyLiveDeclare, Live
<1>2. s \notin Live(action) => action[s].declared = NoShortcut
  BY DEF OthersInv, OnlyLiveDeclare
<1>3. ASSUME NEW u \in Slots, NEW n, NEW d \in Declared, Register(u, n, d) \/ Update(u, n, d)
      PROVE  action'[s].declared = NoShortcut
  <2>1. OneChanges(u, d) /\ u \in Live(action')
    BY <1>3, RegisterIsOfOne, UpdateIsOfOne
  <2> QED BY <1>2, <2>1 DEF OneChanges, SameRegistration, Live
<1>4. ASSUME NEW u \in Slots, Unregister(u) PROVE action'[s].declared = NoShortcut
  <2>1. OneChanges(u, NoShortcut)
    BY <1>4, UnregisterIsOfOne
  <2> QED BY <1>2, <2>1 DEF OneChanges, SameRegistration, Live
<1>5. ASSUME NEW m \in Scopes, RemoveMount(m) PROVE action'[s].declared = NoShortcut
  BY <1>2, <1>5, RemoveMountOrphans DEF OthersInv, Live
<1>6. ASSUME OtherSteps PROVE action'[s].declared = NoShortcut
  BY <1>2, <1>6, OtherStepsRegisterNothing DEF OthersInv, SameRegistration, Live
<1> QED BY <1>3, <1>4, <1>5, <1>6, NextIsOneOf

LEMMA OthersInvInit == Init => OthersInv
  BY InitInv DEF Init, OthersInv, OnlyLiveDeclare, Absent

KeepsIds ==
  \A s \in Live(action) : s \in Live(action') /\ action'[s].name = action[s].name =>
    action'[s].id = action[s].id

EvaluatesNoOther ==
  \A s, t \in Slots :
    s # t /\ Registration(action'[t]) # Registration(action[t])
      /\ s \in Live(action) \cap Live(action') /\ HostShortcutsStay =>
    action'[s].entry.enabled = action[s].entry.enabled

LEMMA StepsKeepIds == ASSUME OthersInv, [Next]_vars PROVE KeepsIds
<1> SUFFICES ASSUME NEW s \in Live(action), s \in Live(action'), action'[s].name = action[s].name
             PROVE  action'[s].id = action[s].id
  BY DEF KeepsIds
<1>1. s \in Slots
  BY DEF Live
<1>2. ASSUME NEW u \in Slots, NEW n, NEW d \in Declared, Register(u, n, d)
      PROVE  action'[s].id = action[s].id
  BY <1>1, <1>2, RegisterIsOfOne DEF OneChanges, SameRegistration
<1>3. ASSUME NEW u \in Slots, NEW n, NEW d \in Declared, Update(u, n, d)
      PROVE  action'[s].id = action[s].id
  BY <1>1, <1>3, UpdateIsOfOne DEF OneChanges, SameRegistration
<1>4. ASSUME NEW u \in Slots, Unregister(u) PROVE action'[s].id = action[s].id
  BY <1>1, <1>4, UnregisterIsOfOne DEF OneChanges, SameRegistration
<1>5. ASSUME NEW m \in Scopes, RemoveMount(m) PROVE action'[s].id = action[s].id
  BY <1>1, <1>5, RemoveMountOrphans DEF OthersInv
<1>6. ASSUME OtherSteps PROVE action'[s].id = action[s].id
  BY <1>1, <1>6, OtherStepsRegisterNothing DEF OthersInv, SameRegistration
<1> QED BY <1>2, <1>3, <1>4, <1>5, <1>6, NextIsOneOf

LEMMA StepsEvaluateNoOther == ASSUME OthersInv, [Next]_vars PROVE EvaluatesNoOther
<1> SUFFICES ASSUME NEW s \in Slots, NEW t \in Slots, s # t,
                    Registration(action'[t]) # Registration(action[t]),
                    s \in Live(action), s \in Live(action'), HostShortcutsStay
             PROVE  action'[s].entry.enabled = action[s].entry.enabled
  BY DEF EvaluatesNoOther
<1>1. ASSUME NEW u \in Slots, NEW d, OneChanges(u, d)
      PROVE  u # s => action'[s] = action[s]
  <2>1. u \in Hosts => d = action[u].declared
    BY <1>1 DEF OneChanges, HostShortcutsStay, Hosts
  <2> QED BY <1>1, <2>1 DEF OneChanges
<1>2. ASSUME NEW u \in Slots, NEW d, OneChanges(u, d)
      PROVE  u = t
  BY <1>2 DEF OneChanges, SameRegistration, Registration
<1>3. ASSUME NEW u \in Slots, NEW n, NEW d \in Declared, Register(u, n, d) \/ Update(u, n, d)
      PROVE  action'[s] = action[s]
  BY <1>1, <1>2, <1>3, RegisterIsOfOne, UpdateIsOfOne
<1>4. ASSUME NEW u \in Slots, Unregister(u) PROVE action'[s] = action[s]
  BY <1>1, <1>2, <1>4, UnregisterIsOfOne
<1>5. ASSUME NEW m \in Scopes, RemoveMount(m) PROVE action'[s] = action[s]
  BY <1>5, RemoveMountOrphans DEF OthersInv
<1>6. ASSUME OtherSteps PROVE FALSE
  BY <1>6, OtherStepsRegisterNothing DEF OthersInv, SameRegistration, Registration
<1> QED BY <1>3, <1>4, <1>5, <1>6, NextIsOneOf

\* What happens to one action leaves the others' entries as they were, for any number of actions:
\* an action keeps its id for as long as it keeps its name, and what registers, changes or goes
\* evaluates no other action, unless it changes a shortcut of the host page.
THEOREM EntriesAreLeftAlone == Spec => EntriesStay
<1>1. OthersInv /\ [Next]_vars => OthersInv'
  BY OthersInvNext
<1>2. OthersInv /\ [Next]_vars => KeepsIds /\ EvaluatesNoOther
  BY StepsKeepIds, StepsEvaluateNoOther
<1>3. OthersInv /\ [Next]_vars => [KeepsIds]_vars /\ [EvaluatesNoOther]_vars
  BY <1>2
<1>4. Spec => [][KeepsIds]_vars /\ [][EvaluatesNoOther]_vars
  BY <1>1, <1>3, OthersInvInit, PTL DEF Spec
<1> QED BY <1>4 DEF EntriesStay, IdsStay, OthersAreNotEvaluated, KeepsIds, EvaluatesNoOther

-----------------------------------------------------------------------------
(* The keys of a sequence *)

\* What IsSuffix says, position by position.
Ends(q, r) == /\ Len(q) <= Len(r)
              /\ \A i \in 1 .. Len(q) : q[i] = r[Len(r) - Len(q) + i]

LEMMA EndsIsSuffix ==
  ASSUME NEW S, NEW q \in Seq(S), NEW r \in Seq(S), Ends(q, r)
  PROVE  IsSuffix(q, r)
<1> DEFINE m == Len(q)
           n == Len(r)
           qq == Reverse(q)
           rr == Reverse(r)
<1>1. m \in Nat /\ n \in Nat /\ m <= n
  BY DEF Ends
<1>2. qq \in Seq(S) /\ Len(qq) = m /\ \A i \in 1 .. m : qq[i] = q[m - i + 1]
  BY DEF Reverse
<1>3. rr \in Seq(S) /\ Len(rr) = n /\ \A i \in 1 .. n : rr[i] = r[n - i + 1]
  BY DEF Reverse
<1>4. ASSUME NEW i \in 1 .. m PROVE qq[i] = rr[i]
  <2>1. m - i + 1 \in 1 .. m /\ i \in 1 .. n
    BY <1>1
  <2>2. q[m - i + 1] = r[n - m + (m - i + 1)]
    BY <2>1 DEF Ends
  <2>3. n - m + (m - i + 1) = n - i + 1
    BY <1>1
  <2> QED BY <1>2, <1>3, <2>1, <2>2, <2>3
<1> HIDE DEF qq, rr
<1>5. SubSeq(qq, 1, m) = SubSeq(rr, 1, m)
  <2>1. /\ SubSeq(qq, 1, m) \in Seq(S) /\ Len(SubSeq(qq, 1, m)) = m
        /\ \A i \in 1 .. m : SubSeq(qq, 1, m)[i] = qq[i]
    BY <1>1, <1>2
  <2>2. /\ SubSeq(rr, 1, m) \in Seq(S) /\ Len(SubSeq(rr, 1, m)) = m
        /\ \A i \in 1 .. m : SubSeq(rr, 1, m)[i] = rr[i]
    BY <1>1, <1>3
  <2> HIDE DEF m
  <2> QED BY <1>4, <2>1, <2>2
<1> QED BY <1>1, <1>2, <1>3, <1>5 DEF IsSuffix, IsPrefix, qq, rr

LEMMA AppendedEnds ==
  ASSUME NEW S, NEW q \in Seq(S), NEW r \in Seq(S), Ends(q, r), NEW c \in S
  PROVE  Ends(Append(q, c), Append(r, c))
  BY DEF Ends

LEMMA TailEnds ==
  ASSUME NEW S, NEW q \in Seq(S), NEW r \in Seq(S), Ends(q, r), Len(q) < Len(r)
  PROVE  Ends(q, Tail(r))
  BY DEF Ends

LEMMA LastEnds ==
  ASSUME NEW S, NEW r \in Seq(S), NEW c \in S
  PROVE  Ends(<<c>>, Append(r, c))
  BY DEF Ends

\* Less than the longest shortcut is ever pressed without an answer, and what is pressed is what was
\* typed last.
KeysInv ==
  /\ recent \in Seq(Chords) /\ Len(recent) <= MaxTyped
  /\ Len(pressed) < MaxTyped \/ pressed = <<>>
  /\ fresh => Ends(pressed, recent)

\* A sequence of keys runs the one action that claims it, and goes on only while it is shorter than
\* a shortcut.
LEMMA MatchHasOneOwner ==
  ASSUME IInv, NEW typed \in Seq(Chords), NEW f \in BOOLEAN
  PROVE  LET m == MatchSequence(typed, f)
         IN  /\ m.kind = "complete" =>
                  /\ m.inField = f
                  /\ \E s \in Candidates(f) :
                       /\ m.targets = {s} /\ action[s].usable = typed
                       /\ \A t \in Candidates(f) \ {s} : ~IsPrefix(typed, action[t].usable)
             /\ m.kind = "pending" => Len(typed) < MaxTyped
<1> DEFINE all == Matching(typed, f)
           whole == Completing(typed, f)
           m == MatchSequence(typed, f)
<1>1. \A s \in Candidates(f) : /\ s \in Slots /\ s \in Live(action)
                              /\ action[s].usable \in Shortcuts
  BY DEF Candidates, Live, IInv, Sound, Declared
<1>2. \A k \in Shortcuts : k \in Seq(Chords) /\ Len(k) <= MaxTyped /\ Len(k) \in Nat
  BY ActionRegistryAssumption DEF Chords
<1>3. \A q \in Seq(Chords) : IsPrefix(q, q)
  BY DEF IsPrefix
<1>4. whole \subseteq all /\ IsFiniteSet(all)
  <2>1. all \subseteq Slots
    BY <1>1 DEF Matching
  <2>2. IsFiniteSet(all)
    BY <2>1, ActionRegistryAssumption, FS_Subset
  <2> QED BY <1>1, <1>2, <1>3, <2>2 DEF Matching, Completing
<1>5. CASE whole # {} /\ Cardinality(all) = 1
  <2>1. PICK s : all = {s}
    BY <1>4, <1>5, FS_Singleton
  <2>2. whole = {s} /\ s \in Candidates(f) /\ action[s].usable = typed
    BY <1>4, <1>5, <2>1 DEF Completing
  <2>3. m = [kind |-> "complete", targets |-> whole, inField |-> f]
    BY <1>5 DEF MatchSequence
  <2>4. \A t \in Candidates(f) \ {s} : ~IsPrefix(typed, action[t].usable)
    BY <2>1 DEF Matching
  <2> QED BY <2>2, <2>3, <2>4
<1>6. CASE whole # {} /\ Cardinality(all) # 1
  <2>1. Cardinality(all) \in Nat /\ Cardinality(all) # 0
    BY <1>4, <1>6, FS_CardinalityType, FS_EmptySet
  <2>2. Cardinality(all) > 1
    BY <1>6, <2>1
  <2>3. m = [kind |-> "ambiguous", targets |-> all, inField |-> f]
    BY <1>6, <2>2 DEF MatchSequence
  <2> QED BY <2>3
<1>7. CASE whole = {} /\ all # {}
  <2>1. m = [Nothing EXCEPT !.kind = "pending"]
    BY <1>7 DEF MatchSequence
  <2>2. m.kind = "pending"
    BY <2>1 DEF Nothing
  <2>3. PICK s \in Candidates(f) : IsPrefix(typed, action[s].usable) /\ action[s].usable # typed
    BY <1>7 DEF Matching, Completing
  <2>4. action[s].usable \in Seq(Chords) /\ Len(action[s].usable) <= MaxTyped
    BY <1>1, <1>2
  <2>5. Len(typed) # Len(action[s].usable)
    <3> SUFFICES ASSUME Len(typed) = Len(action[s].usable) PROVE FALSE
      OBVIOUS
    <3>1. SubSeq(typed, 1, Len(typed)) = SubSeq(action[s].usable, 1, Len(action[s].usable))
      BY <2>3 DEF IsPrefix
    <3>2. \A q \in Seq(Chords) : SubSeq(q, 1, Len(q)) = q
      OBVIOUS
    <3> QED BY <2>3, <2>4, <3>1, <3>2
  <2>6. Len(typed) <= Len(action[s].usable)
    BY <2>3 DEF IsPrefix
  <2>7. Len(typed) < MaxTyped
    <3>1. Len(typed) \in Nat /\ Len(action[s].usable) \in Nat /\ MaxTyped \in Nat
      BY <2>4, ActionRegistryAssumption
    <3> QED BY <2>4, <2>5, <2>6, <3>1
  <2> QED BY <2>2, <2>7
<1>8. CASE whole = {} /\ all = {}
  <2>1. m = Nothing
    BY <1>8 DEF MatchSequence
  <2> QED BY <2>1 DEF Nothing
<1> QED BY <1>5, <1>6, <1>7, <1>8

\* Candidates(f), of any registry and place.
CandidatesIn(rr, place, f) ==
  {s \in Live(rr) : /\ rr[s].usable # NoShortcut
                    /\ f => FiresInField(rr[s].usable)
                    /\ ScopeOf[s] \in place \cup {Host}}

LEMMA KeyDownKeepsKeys ==
  ASSUME IInv, IInv', KeysInv, NEW c \in Chords, NEW f \in BOOLEAN, KeyDown(c, f)
  PROVE  KeysInv' /\ KeysHaveOneOwner'
<1> DEFINE earlier == IF fresh THEN pressed ELSE <<>>
           before == IF fresh THEN recent ELSE <<>>
           typed == Append(before, c)
           longer == Append(earlier, c)
<1>1. MaxTyped \in Nat /\ MaxTyped >= 1
  <2>1. PICK k \in Shortcuts : c \in ToSet(k)
    BY DEF Chords
  <2>2. k \in Seq(Chords) /\ k # <<>> /\ Len(k) <= MaxTyped /\ MaxTyped \in Nat
    BY <2>1, ActionRegistryAssumption DEF Chords
  <2>3. Len(k) \in Nat /\ Len(k) # 0
    BY <2>2
  <2> QED BY <2>2, <2>3
<1>2. /\ earlier \in Seq(Chords) /\ before \in Seq(Chords) /\ Ends(earlier, before)
      /\ Len(before) <= MaxTyped /\ Len(earlier) < MaxTyped
  <2>1. pressed \in Seq(Chords) /\ recent \in Seq(Chords) /\ <<>> \in Seq(Chords)
    BY SequencesOfChords DEF IInv, RestOK, KeysInv
  <2>2. Ends(<<>>, <<>>) /\ Len(<<>>) = 0
    BY DEF Ends
  <2>3. Len(pressed) < MaxTyped
    BY <1>1, <2>2 DEF KeysInv
  <2> QED BY <1>1, <2>1, <2>2, <2>3 DEF KeysInv
<1> HIDE DEF earlier, before
<1>3. recent' = IF Len(typed) > MaxTyped THEN Tail(typed) ELSE typed
  BY DEF KeyDown, before
<1>4. typed \in Seq(Chords) /\ Len(typed) = Len(before) + 1 /\ Len(before) \in Nat
  BY <1>2
<1>5. recent' \in Seq(Chords) /\ Len(recent') <= MaxTyped
  <2> HIDE DEF typed
  <2>1. Len(typed) # 0
    BY <1>4
  <2>2. Tail(typed) \in Seq(Chords) /\ Len(Tail(typed)) = Len(typed) - 1
    BY <1>4, <2>1
  <2> QED BY <1>1, <1>2, <1>3, <1>4, <2>2
<1>6. ASSUME NEW q \in {<<c>>, longer}
      PROVE  q \in Seq(Chords) /\ Ends(q, recent')
  <2>1. q \in Seq(Chords) /\ Len(q) <= MaxTyped /\ Len(q) \in Nat
    <3>1. <<c>> \in Seq(Chords) /\ Len(<<c>>) = 1
      OBVIOUS
    <3>2. longer \in Seq(Chords) /\ Len(longer) = Len(earlier) + 1 /\ Len(earlier) \in Nat
      BY <1>2
    <3>3. CASE q = <<c>>
      BY <1>1, <3>1, <3>3
    <3>4. CASE q = longer
      <4> HIDE DEF longer
      <4> QED BY <1>1, <1>2, <3>2, <3>4
    <3> QED BY <1>6, <3>3, <3>4
  <2>2. Ends(q, typed)
    BY <1>2, <1>6, AppendedEnds, LastEnds
  <2> HIDE DEF typed
  <2>3. Len(typed) > MaxTyped => Ends(q, Tail(typed))
    <3> SUFFICES ASSUME Len(typed) > MaxTyped PROVE Ends(q, Tail(typed))
      OBVIOUS
    <3>1. Len(q) < Len(typed)
      BY <1>1, <1>4, <2>1
    <3> QED BY <1>4, <2>1, <2>2, <3>1, TailEnds
  <2> QED BY <1>3, <2>1, <2>2, <2>3
<1>7. PICK q \in {<<c>>, longer} :
        /\ fired' = MatchSequence(q, f)
        /\ pressed' = IF fired'.kind # "pending" THEN <<>> ELSE q
  <2> DEFINE alone == MatchSequence(longer, f) = Nothing
  <2>1. /\ fired' = IF alone THEN MatchSequence(<<c>>, f) ELSE MatchSequence(longer, f)
        /\ pressed' = IF fired'.kind # "pending" THEN <<>>
                      ELSE IF alone THEN <<c>> ELSE longer
    BY DEF KeyDown, earlier
  <2>2. CASE alone
    BY <2>1, <2>2
  <2>3. CASE ~alone
    BY <2>1, <2>3
  <2> QED BY <2>2, <2>3
<1>8. UNCHANGED <<action, gone, enabled, published, inside>>
  BY DEF KeyDown
<1> HIDE DEF typed, longer
<1>9. KeysInv'
  <2>1. Ends(pressed', recent')
    <3>1. Ends(<<>>, recent')
      BY <1>5 DEF Ends
    <3> QED BY <1>6, <1>7, <3>1
  <2>2. Len(pressed') < MaxTyped \/ pressed' = <<>>
    BY <1>6, <1>7, MatchHasOneOwner
  <2> QED BY <1>5, <2>1, <2>2 DEF KeysInv
<1>10. KeysHaveOneOwner'
  <2> SUFFICES ASSUME fired'.kind = "complete"
               PROVE  \E s \in Live(action') :
                        /\ fired'.targets = {s}
                        /\ IsSuffix(action'[s].declared, recent')
                        /\ ScopeOf[s] \in inside' \cup {Host}
                        /\ \A t \in CandidatesIn(action', inside', fired'.inField) \ {s} :
                             ~IsPrefix(action'[s].declared, action'[t].declared)
                        /\ s \notin Hosts =>
                             \A h \in HostShortcuts(action') : ~Overlap(action'[s].declared, h)
    BY DEF KeysHaveOneOwner, Candidates, CandidatesIn
  <2>1. q \in Seq(Chords) /\ Ends(q, recent')
    BY <1>6
  <2>2. fired'.inField = f
    BY <1>7, <2>1, MatchHasOneOwner
  <2>3. PICK s \in Candidates(f) :
          /\ fired'.targets = {s} /\ action[s].usable = q
          /\ \A t \in Candidates(f) \ {s} : ~IsPrefix(q, action[t].usable)
    BY <1>7, <2>1, MatchHasOneOwner
  <2>4. \A t \in Candidates(f) :
          /\ t \in Live(action) /\ ScopeOf[t] \in inside \cup {Host}
          /\ action[t].usable = action[t].declared
          /\ ~Refused(t, action[t].declared, action)
    BY DEF Candidates, IInv, Current, Judged, UsableOf
  <2>5. CandidatesIn(action', inside', f) = Candidates(f)
    BY <1>8 DEF Candidates, CandidatesIn
  <2>6. IsSuffix(q, recent')
    BY <1>5, <2>1, EndsIsSuffix
  <2>7. s \notin Hosts => \A h \in HostShortcuts(action) : ~Overlap(q, h)
    BY <2>3, <2>4 DEF Refused, Hosts, Live
  <2>8. CandidatesIn(action', inside', fired'.inField) = Candidates(f)
    BY <2>2, <2>5
  <2> QED BY <1>8, <2>3, <2>4, <2>6, <2>7, <2>8
<1> QED BY <1>9, <1>10

LEMMA OtherStepsKeepKeys ==
  ASSUME KeysInv, KeysHaveOneOwner, [Next]_vars,
         ~\E c \in Chords, f \in BOOLEAN : KeyDown(c, f)
  PROVE  KeysInv' /\ KeysHaveOneOwner'
<1>1. \/ fired' = Nothing /\ UNCHANGED keys
      \/ fired' = Nothing /\ pressed' = <<>> /\ recent' = <<>>
      \/ fired' = Nothing /\ recent' = <<>> /\ pressed' = pressed /\ fresh' = FALSE
      \/ UNCHANGED vars
  <2>1. CASE \E u \in Slots, n \in UNION {NamesOf[s] : s \in Slots}, d \in Declared :
               Register(u, n, d) \/ Update(u, n, d)
    BY <2>1 DEF Register, Update
  <2>2. CASE \E u \in Slots : Unregister(u)
    BY <2>2 DEF Unregister
  <2>3. CASE \E m \in Scopes : RemoveMount(m)
    BY <2>3 DEF RemoveMount
  <2>4. CASE OtherSteps
    BY <2>4 DEF OtherSteps, EvaluateAll, Pause, Deny, Decide, Type, PageMoves
  <2> QED BY <2>1, <2>2, <2>3, <2>4, NextIsOneOf
<1>2. KeysInv'
  <2>1. <<>> \in Seq(Chords) /\ Len(<<>>) = 0 /\ Ends(<<>>, <<>>) /\ MaxTyped \in Nat
    BY SequencesOfChords, ActionRegistryAssumption DEF Ends
  <2>2. CASE UNCHANGED keys
    BY <2>2 DEF keys, KeysInv, Ends
  <2>3. CASE pressed' = <<>> /\ recent' = <<>>
    BY <2>1, <2>3 DEF KeysInv
  <2>4. CASE recent' = <<>> /\ pressed' = pressed /\ fresh' = FALSE
    BY <2>1, <2>4 DEF KeysInv
  <2> QED BY <1>1, <2>2, <2>3, <2>4 DEF vars
<1>3. KeysHaveOneOwner'
  <2>1. CASE fired' = Nothing
    BY <2>1 DEF KeysHaveOneOwner, Nothing
  <2>2. CASE UNCHANGED vars
    BY <2>2 DEF KeysHaveOneOwner, vars, keys, Candidates, Live, HostShortcuts
  <2> QED BY <1>1, <2>1, <2>2
<1> QED BY <1>2, <1>3

\* A key press runs an action only if the keys just typed are its own and nobody else's: no other
\* action that could be pressed for on this page claims them, and the host page does not, whatever
\* was registered, changed or removed between the keys of the sequence.
THEOREM KeysRunTheirOwner == Spec => []KeysHaveOneOwner
<1> DEFINE Inv == IInv /\ KeysInv /\ KeysHaveOneOwner
<1>1. Init => Inv
  <2> SUFFICES ASSUME Init PROVE Inv
    OBVIOUS
  <2>1. KeysInv
    BY SequencesOfChords, ActionRegistryAssumption DEF Init, KeysInv, Ends
  <2>2. KeysHaveOneOwner
    BY DEF Init, KeysHaveOneOwner, Nothing
  <2> QED BY <2>1, <2>2, InitInv
<1>2. Inv /\ [Next]_vars => Inv'
  <2> SUFFICES ASSUME Inv, [Next]_vars PROVE Inv'
    OBVIOUS
  <2>1. IInv'
    BY NextKeeps
  <2>2. CASE \E c \in Chords, f \in BOOLEAN : KeyDown(c, f)
    BY <2>1, <2>2, KeyDownKeepsKeys
  <2>3. CASE ~\E c \in Chords, f \in BOOLEAN : KeyDown(c, f)
    BY <2>1, <2>3, OtherStepsKeepKeys
  <2> QED BY <2>2, <2>3
<1> QED BY <1>1, <1>2, PTL DEF Spec

-----------------------------------------------------------------------------
(* Sequences *)

\* `f` puts the first k parts one behind the other, as FlattenSeq does.
Flattens(f, s, k) == f = [i \in 1 .. k |-> IF i = 1 THEN s[i] ELSE f[i - 1] \o s[i]]

LEMMA FlattensExist ==
  ASSUME NEW n \in Nat, NEW s
  PROVE  \E f : Flattens(f, s, n)
<1> DEFINE Bad == {k \in Nat : \A f : ~Flattens(f, s, k)}
<1>1. SUFFICES ASSUME Bad # {} PROVE FALSE
  OBVIOUS
<1>2. PICK k \in Bad : \A j \in Bad : k <= j
  BY <1>1, LeastNumber
<1>3. k \in Nat /\ \A f : ~Flattens(f, s, k)
  OBVIOUS
<1>4. k # 0
  <2>1. Flattens([i \in 1 .. 0 |-> 0], s, 0)
    BY DEF Flattens
  <2> QED BY <1>3, <2>1
<1>5. k - 1 \in Nat /\ k - 1 \notin Bad
  BY <1>2, <1>3, <1>4
<1>6. PICK f : Flattens(f, s, k - 1)
  BY <1>5
<1> DEFINE g == [i \in 1 .. k |-> IF i < k THEN f[i] ELSE IF i = 1 THEN s[i] ELSE f[i - 1] \o s[i]]
<1>7. Flattens(g, s, k)
  <2>1. \A i \in 1 .. k - 1 : f[i] = IF i = 1 THEN s[i] ELSE f[i - 1] \o s[i]
    BY <1>3, <1>6 DEF Flattens
  <2>2. \A i \in 1 .. k : i # 1 => i - 1 \in 1 .. k /\ i - 1 < k /\ g[i - 1] = f[i - 1]
    BY <1>3
  <2>3. \A i \in 1 .. k : g[i] = IF i = 1 THEN s[i] ELSE g[i - 1] \o s[i]
    <3> TAKE i \in 1 .. k
    <3>1. CASE i < k
      <4>1. i \in 1 .. k - 1 /\ g[i] = f[i]
        BY <1>3, <3>1
      <4> HIDE DEF g
      <4> QED BY <2>1, <2>2, <4>1
    <3>2. CASE ~(i < k)
      <4>1. g[i] = IF i = 1 THEN s[i] ELSE f[i - 1] \o s[i]
        BY <3>2
      <4> HIDE DEF g
      <4> QED BY <2>2, <4>1
    <3> QED BY <3>1, <3>2
  <2> QED BY <2>3 DEF Flattens
<1> QED BY <1>3, <1>7

Distinct(s) == \A i, j \in DOMAIN s : s[i] = s[j] => i = j
In(o, s) == \E i \in DOMAIN s : s[i] = o

\* What is left of s without some elements.
Kept(s, out) == Shell!FlattenSeq([i \in DOMAIN s |-> IF s[i] \in out THEN <<>> ELSE <<s[i]>>])

LEMMA ElementsOf ==
  ASSUME NEW S, NEW s \in Seq(S)
  PROVE  /\ Len(s) \in Nat /\ DOMAIN s = 1 .. Len(s)
         /\ \A i \in DOMAIN s : s[i] \in S
BY LenProperties, ElementOfSeq

\* One more.
LEMMA AppendAdds ==
  ASSUME NEW S, NEW s \in Seq(S), NEW x \in S
  PROVE  /\ Append(s, x) \in Seq(S)
         /\ \A o : In(o, Append(s, x)) <=> In(o, s) \/ o = x
         /\ Distinct(s) /\ ~In(x, s) => Distinct(Append(s, x))
<1> DEFINE a == Append(s, x)
<1>1. /\ a \in Seq(S) /\ Len(a) = Len(s) + 1 /\ a[Len(s) + 1] = x
      /\ \A i \in 1 .. Len(s) : a[i] = s[i]
  BY AppendProperties
<1>2. Len(s) \in Nat /\ DOMAIN s = 1 .. Len(s) /\ DOMAIN a = 1 .. Len(s) + 1
  BY <1>1, ElementsOf
<1> HIDE DEF a
<1>3. \A o : In(o, a) <=> In(o, s) \/ o = x
  <2> TAKE o
  <2>1. In(o, a) => In(o, s) \/ o = x
    BY <1>1, <1>2 DEF In
  <2>2. In(o, s) => In(o, a)
    BY <1>1, <1>2 DEF In
  <2>3. In(x, a)
    BY <1>1, <1>2 DEF In
  <2> QED BY <2>1, <2>2, <2>3
<1>4. ASSUME Distinct(s), ~In(x, s) PROVE Distinct(a)
  <2> SUFFICES ASSUME NEW i \in DOMAIN a, NEW j \in DOMAIN a, a[i] = a[j] PROVE i = j
    BY DEF Distinct
  <2>1. CASE i = Len(s) + 1 /\ j # i
    BY <1>1, <1>2, <1>4, <2>1 DEF In
  <2>2. CASE j = Len(s) + 1 /\ j # i
    BY <1>1, <1>2, <1>4, <2>2 DEF In
  <2>3. CASE i \in 1 .. Len(s) /\ j \in 1 .. Len(s)
    BY <1>1, <1>2, <1>4, <2>3 DEF Distinct
  <2> QED BY <1>2, <2>1, <2>2, <2>3
<1> QED BY <1>1, <1>3, <1>4 DEF a

\* One fewer at the front.
LEMMA TailDrops ==
  ASSUME NEW S, NEW s \in Seq(S), s # <<>>
  PROVE  /\ Tail(s) \in Seq(S) /\ Head(s) \in S
         /\ \A o : In(o, s) <=> In(o, Tail(s)) \/ o = Head(s)
         /\ Distinct(s) => Distinct(Tail(s)) /\ ~In(Head(s), Tail(s))
<1> DEFINE t == Tail(s)
<1>1. /\ t \in Seq(S) /\ Len(t) = Len(s) - 1 /\ Head(s) = s[1] /\ Head(s) \in S
      /\ \A i \in 1 .. Len(t) : t[i] = s[i + 1]
  BY HeadTailProperties
<1>2. /\ Len(s) \in Nat /\ Len(s) > 0 /\ DOMAIN s = 1 .. Len(s)
      /\ Len(t) \in Nat /\ DOMAIN t = 1 .. Len(t)
  BY <1>1, ElementsOf, EmptySeq, LenProperties
<1> HIDE DEF t
<1>3. \A o : In(o, s) <=> In(o, t) \/ o = Head(s)
  <2> TAKE o
  <2>1. ASSUME NEW i \in DOMAIN s, s[i] = o, i # 1 PROVE In(o, t)
    <3>1. i - 1 \in DOMAIN t /\ t[i - 1] = s[i]
      BY <1>1, <1>2, <2>1
    <3> QED BY <2>1, <3>1 DEF In
  <2>2. ASSUME NEW i \in DOMAIN t, t[i] = o PROVE In(o, s)
    <3>1. i + 1 \in DOMAIN s /\ s[i + 1] = t[i]
      BY <1>1, <1>2, <2>2
    <3> QED BY <2>2, <3>1 DEF In
  <2>3. In(Head(s), s)
    BY <1>1, <1>2 DEF In
  <2> QED BY <1>1, <2>1, <2>2, <2>3 DEF In
<1>4. ASSUME Distinct(s) PROVE Distinct(t)
  <2> SUFFICES ASSUME NEW i \in DOMAIN t, NEW j \in DOMAIN t, t[i] = t[j] PROVE i = j
    BY DEF Distinct
  <2>1. i + 1 \in DOMAIN s /\ j + 1 \in DOMAIN s /\ s[i + 1] = s[j + 1]
    BY <1>1, <1>2
  <2>2. i + 1 = j + 1
    BY <1>4, <2>1 DEF Distinct
  <2> QED BY <1>2, <2>2
<1>5. ASSUME Distinct(s), In(Head(s), t) PROVE FALSE
  <2>1. PICK i \in DOMAIN t : t[i] = Head(s)
    BY <1>5 DEF In
  <2>2. i + 1 \in DOMAIN s /\ 1 \in DOMAIN s /\ s[i + 1] = s[1]
    BY <1>1, <1>2, <2>1
  <2>3. i + 1 = 1
    BY <1>5, <2>2 DEF Distinct
  <2> QED BY <1>2, <2>3
<1> QED BY <1>1, <1>3, <1>4, <1>5 DEF t

LEMMA FlattenedFrom ==
  ASSUME NEW s, Len(s) \in Nat
  PROVE  \E f : Flattens(f, s, Len(s)) /\ Shell!FlattenSeq(s) = IF Len(s) = 0 THEN s ELSE f[Len(s)]
<1> DEFINE flat == CHOOSE f : f = [i \in 1 .. Len(s) |-> IF i = 1 THEN s[i] ELSE f[i - 1] \o s[i]]
<1>1. Flattens(flat, s, Len(s))
  BY FlattensExist DEF Flattens
<1>2. Shell!FlattenSeq(s) = IF Len(s) = 0 THEN s ELSE flat[Len(s)]
  BY DEF Shell!FlattenSeq
<1> QED BY <1>1, <1>2

\* Those that stay are there once each, and nobody else.
LEMMA WithoutIs ==
  ASSUME NEW S, NEW s \in Seq(S), NEW out, Distinct(s)
  PROVE  /\ Kept(s, out) \in Seq(S)
         /\ Distinct(Kept(s, out))
         /\ \A o : In(o, Kept(s, out)) <=> In(o, s) /\ o \notin out
<1> DEFINE p == [i \in DOMAIN s |-> IF s[i] \in out THEN <<>> ELSE <<s[i]>>]
           n == Len(s)
<1>1. n \in Nat /\ DOMAIN s = 1 .. n /\ \A i \in 1 .. n : s[i] \in S
  BY ElementsOf
<1>3. p \in Seq(Seq(S)) /\ Len(p) = n
  <2>1. \A i \in 1 .. n : p[i] \in Seq(S)
    BY <1>1, EmptySeq
  <2>2. p \in [1 .. n -> Seq(S)]
    BY <1>1, <2>1
  <2> HIDE DEF p
  <2> QED BY <1>1, <2>2
<1>2. PICK flat : Flattens(flat, p, n) /\ Shell!FlattenSeq(p) = IF n = 0 THEN p ELSE flat[n]
  <2> HIDE DEF p
  <2> QED BY <1>1, <1>3, FlattenedFrom
<1>4. Kept(s, out) = IF n = 0 THEN p ELSE flat[n]
  BY <1>2 DEF Kept
<1> DEFINE Good(k) == /\ flat[k] \in Seq(S)
                      /\ Distinct(flat[k])
                      /\ \A o : In(o, flat[k]) <=> \E i \in 1 .. k : s[i] = o /\ o \notin out
<1>5. \A i \in 1 .. n : p[i] = IF s[i] \in out THEN <<>> ELSE <<s[i]>>
  BY <1>1
<1> HIDE DEF p
<1>6. \A i \in 1 .. n : flat[i] = IF i = 1 THEN p[i] ELSE flat[i - 1] \o p[i]
  BY <1>1, <1>2 DEF Flattens
<1>7. ASSUME NEW k \in 1 .. n, k # 1, Good(k - 1) PROVE Good(k)
  <2>1. flat[k] = flat[k - 1] \o p[k] /\ s[k] \in S
    BY <1>1, <1>6, <1>7
  <2>2. CASE s[k] \in out
    <3>1. flat[k] = flat[k - 1]
      BY <1>5, <1>7, <2>1, <2>2, ConcatEmptySeq
    <3>2. \A o : (\E i \in 1 .. k : s[i] = o /\ o \notin out)
                   <=> (\E i \in 1 .. k - 1 : s[i] = o /\ o \notin out)
      BY <1>1, <2>2
    <3> QED BY <1>7, <3>1, <3>2
  <2>3. CASE s[k] \notin out
    <3>1. flat[k - 1] \in Seq(S)
      BY <1>7
    <3>2. ~In(s[k], flat[k - 1])
      BY <1>1, <1>7 DEF Distinct
    <3>3. \A o : (\E i \in 1 .. k : s[i] = o /\ o \notin out)
                   <=> (\E i \in 1 .. k - 1 : s[i] = o /\ o \notin out) \/ o = s[k]
      BY <1>1, <2>3
    <3> HIDE DEF Good
    <3>4. flat[k] = Append(flat[k - 1], s[k])
      <4>1. p[k] = <<s[k]>>
        BY <1>5, <2>3
      <4> QED BY <2>1, <3>1, <4>1, AppendIsConcat
    <3>5. /\ flat[k] \in Seq(S)
          /\ \A o : In(o, flat[k]) <=> In(o, flat[k - 1]) \/ o = s[k]
          /\ Distinct(flat[k - 1]) /\ ~In(s[k], flat[k - 1]) => Distinct(flat[k])
      BY <2>1, <3>1, <3>4, AppendAdds
    <3> QED BY <1>7, <3>2, <3>3, <3>5 DEF Good
  <2> QED BY <2>2, <2>3
<1>8. ASSUME n > 0 PROVE Good(1)
  <2>1. flat[1] = IF s[1] \in out THEN <<>> ELSE <<s[1]>>
    BY <1>1, <1>5, <1>6, <1>8
  <2>2. flat[1] \in Seq(S) /\ Distinct(flat[1])
    BY <1>1, <1>8, <2>1 DEF Distinct
  <2>3. \A o : In(o, flat[1]) <=> s[1] = o /\ o \notin out
    BY <2>1 DEF In
  <2> QED BY <2>2, <2>3
<1>9. \A k \in 1 .. n : Good(k)
  <2> DEFINE Bad == {k \in 1 .. n : ~Good(k)}
  <2> HIDE DEF Good
  <2>1. Bad \subseteq Nat
    BY <1>1
  <2>2. SUFFICES ASSUME Bad # {} PROVE FALSE
    OBVIOUS
  <2>3. PICK k \in Bad : \A j \in Bad : k <= j
    BY <2>1, <2>2, LeastNumber
  <2>4. k = 1
    <3>1. k # 1 => k - 1 \in 1 .. n /\ ~(k <= k - 1)
      BY <1>1
    <3> QED BY <1>7, <2>3, <3>1
  <2> QED BY <1>1, <1>8, <2>3, <2>4
<1>10. CASE n = 0
  <2>1. s = <<>> /\ p = <<>>
    BY <1>1, <1>3, <1>10, EmptySeq
  <2>2. Kept(s, out) = <<>>
    BY <1>4, <1>10, <2>1
  <2>3. \A o : ~In(o, <<>>)
    BY DEF In
  <2>4. Distinct(<<>>)
    BY DEF Distinct
  <2> QED BY <2>1, <2>2, <2>3, <2>4, EmptySeq
<1>11. CASE n > 0
  <2>1. Good(n)
    <3> HIDE DEF Good
    <3> QED BY <1>1, <1>9, <1>11
  <2>2. Kept(s, out) = flat[n]
    BY <1>4, <1>11
  <2>3. \A o : In(o, s) <=> \E i \in 1 .. n : s[i] = o
    BY <1>1 DEF In
  <2> QED BY <2>1, <2>2, <2>3
<1> QED BY <1>1, <1>10, <1>11

-----------------------------------------------------------------------------
(* Passes over the shell state's observers *)

Observers ==
  {Shell!Runtime} \cup {Shell!Session(m) : m \in Mounts} \cup {Shell!Router(m) : m \in Mounts}

Passes == [identity : BOOLEAN, security : BOOLEAN, paint : Shell!Themes \cup {Shell!Unset},
           todo : Seq(Observers)]

\* A second pass runs only within one that a change of session started.
StackIs(s) ==
  /\ s \in Seq(Passes) /\ Len(s) <= 2
  /\ \A i \in DOMAIN s :
       /\ Distinct(s[i].todo)
       /\ s[i].identity => s[i].security
       /\ s[i].security => s[i].paint = Shell!Unset
  /\ Len(s) = 2 => s[2].security /\ ~s[1].security

\* Who is still to hear of a change that concerns it.
HostDue(s)       == \E i \in DOMAIN s : s[i].identity /\ In(Shell!Runtime, s[i].todo)
SessionDue(s, m) == \E i \in DOMAIN s : s[i].security /\ In(Shell!Session(m), s[i].todo)
RouterDue(s, m)  == \E i \in DOMAIN s : ~s[i].security /\ In(Shell!Router(m), s[i].todo)

LEMMA ObserversDiffer ==
  /\ \A m, n \in Mounts :
       /\ Shell!Session(m) = Shell!Session(n) => m = n
       /\ Shell!Router(m) = Shell!Router(n) => m = n
       /\ Shell!Session(m) # Shell!Router(n)
  /\ \A m \in Mounts : Shell!Session(m) # Shell!Runtime /\ Shell!Router(m) # Shell!Runtime
  /\ Shell!Runtime \in Observers
  /\ \A m \in Mounts : Shell!Session(m) \in Observers /\ Shell!Router(m) \in Observers
BY DEF Shell!Session, Shell!Router, Shell!Runtime, Observers

\* A pass more.
LEMMA PushIs ==
  ASSUME NEW S, NEW s \in Seq(S), NEW p \in S
  PROVE  /\ <<p>> \o s \in Seq(S) /\ Len(<<p>> \o s) = Len(s) + 1
         /\ (<<p>> \o s)[1] = p /\ \A i \in 1 .. Len(s) : (<<p>> \o s)[i + 1] = s[i]
<1>1. <<p>> \in Seq(S) /\ Len(<<p>>) = 1 /\ Len(s) \in Nat
  BY LenProperties
<1>2. /\ <<p>> \o s \in Seq(S) /\ Len(<<p>> \o s) = 1 + Len(s)
      /\ \A i \in 1 .. 1 + Len(s) : (<<p>> \o s)[i] = IF i <= 1 THEN <<p>>[i] ELSE s[i - 1]
  BY <1>1, ConcatProperties
<1>3. \A i \in 1 .. Len(s) : (<<p>> \o s)[i + 1] = s[i]
  <2> TAKE i \in 1 .. Len(s)
  <2>1. i + 1 \in 1 .. 1 + Len(s) /\ ~(i + 1 <= 1) /\ (i + 1) - 1 = i
    BY <1>1
  <2> QED BY <1>2, <2>1
<1>4. 1 \in 1 .. 1 + Len(s) /\ <<p>>[1] = p
  BY <1>1
<1> QED BY <1>1, <1>2, <1>3, <1>4

\* The pass in progress, and the one it interrupts.
LEMMA StackSplits ==
  ASSUME NEW s, StackIs(s), s # <<>>
  PROVE  /\ Len(s) \in 1 .. 2 /\ DOMAIN s = 1 .. Len(s)
         /\ Head(s) = s[1] /\ s[1] \in Passes /\ 1 \in DOMAIN s
         /\ Len(s) = 1 => Tail(s) = <<>>
         /\ Tail(s) \in Seq(Passes) /\ Len(Tail(s)) = Len(s) - 1
         /\ \A i \in 1 .. Len(s) - 1 : Tail(s)[i] = s[i + 1]
         /\ s[1].security => Len(s) = 1
<1>1. s \in Seq(Passes) /\ Len(s) <= 2
  BY DEF StackIs
<1>2. Len(s) \in Nat /\ Len(s) # 0 /\ DOMAIN s = 1 .. Len(s) /\ \A i \in 1 .. Len(s) : s[i] \in Passes
  BY <1>1, ElementsOf, EmptySeq
<1>3. Len(s) \in 1 .. 2
  BY <1>1, <1>2
<1>4. /\ Tail(s) \in Seq(Passes) /\ Len(Tail(s)) = Len(s) - 1 /\ Head(s) = s[1]
      /\ \A i \in 1 .. Len(Tail(s)) : Tail(s)[i] = s[i + 1]
  BY <1>1, HeadTailProperties
<1>5. Len(s) = 1 => Tail(s) = <<>>
  <2>1. Tail(s) # <<>> => Len(Tail(s)) \in Nat \ {0}
    BY <1>4, EmptySeq
  <2> QED BY <1>2, <1>4, <2>1
<1> QED BY <1>2, <1>3, <1>4, <1>5 DEF StackIs

\* A new pass is on top.
LEMMA PushKeeps ==
  ASSUME NEW s, StackIs(s), NEW p \in Passes, Distinct(p.todo), Len(s) <= 1,
         p.identity => p.security, p.security => p.paint = Shell!Unset,
         s # <<>> => s[1].security /\ ~p.security
  PROVE  /\ StackIs(<<p>> \o s) /\ <<p>> \o s # <<>> /\ Head(<<p>> \o s) = p
         /\ HostDue(<<p>> \o s) <=> HostDue(s) \/ (p.identity /\ In(Shell!Runtime, p.todo))
         /\ \A m \in Mounts :
              /\ SessionDue(<<p>> \o s, m) <=>
                   SessionDue(s, m) \/ (p.security /\ In(Shell!Session(m), p.todo))
              /\ RouterDue(<<p>> \o s, m) <=>
                   RouterDue(s, m) \/ (~p.security /\ In(Shell!Router(m), p.todo))
<1> DEFINE t == <<p>> \o s
<1>1. /\ t \in Seq(Passes) /\ Len(t) = Len(s) + 1
      /\ t[1] = p /\ \A i \in 1 .. Len(s) : t[i + 1] = s[i]
  BY PushIs DEF StackIs
<1>2. Len(s) \in 0 .. 1 /\ DOMAIN s = 1 .. Len(s) /\ DOMAIN t = 1 .. Len(s) + 1
  BY <1>1, ElementsOf DEF StackIs
<1>3. t # <<>> /\ Head(t) = p
  BY <1>1, <1>2, HeadTailProperties, EmptySeq
<1> HIDE DEF t
<1>4. CASE Len(s) = 0
  <2>1. DOMAIN s = {} /\ DOMAIN t = {1}
    BY <1>2, <1>4
  <2>2. StackIs(t)
    BY <1>1, <1>4, <2>1 DEF StackIs
  <2>3. HostDue(t) <=> HostDue(s) \/ (p.identity /\ In(Shell!Runtime, p.todo))
    BY <1>1, <2>1 DEF HostDue
  <2>4. \A m \in Mounts : SessionDue(t, m) <=>
           SessionDue(s, m) \/ (p.security /\ In(Shell!Session(m), p.todo))
    BY <1>1, <2>1 DEF SessionDue
  <2>5. \A m \in Mounts : RouterDue(t, m) <=>
           RouterDue(s, m) \/ (~p.security /\ In(Shell!Router(m), p.todo))
    BY <1>1, <2>1 DEF RouterDue
  <2> QED BY <1>3, <2>2, <2>3, <2>4, <2>5 DEF t
<1>5. CASE Len(s) = 1
  <2>1. DOMAIN s = {1} /\ DOMAIN t = {1, 2} /\ t[2] = s[1]
    BY <1>1, <1>2, <1>5
  <2>2. s[1].security /\ ~p.security
    BY <2>1
  <2>3. StackIs(t)
    BY <1>1, <1>5, <2>1, <2>2 DEF StackIs
  <2>4. HostDue(t) <=> HostDue(s) \/ (p.identity /\ In(Shell!Runtime, p.todo))
    BY <1>1, <2>1 DEF HostDue
  <2>5. \A m \in Mounts : SessionDue(t, m) <=>
           SessionDue(s, m) \/ (p.security /\ In(Shell!Session(m), p.todo))
    BY <1>1, <2>1 DEF SessionDue
  <2>6. \A m \in Mounts : RouterDue(t, m) <=>
           RouterDue(s, m) \/ (~p.security /\ In(Shell!Router(m), p.todo))
    BY <1>1, <2>1 DEF RouterDue
  <2> QED BY <1>3, <2>3, <2>4, <2>5, <2>6 DEF t
<1> QED BY <1>2, <1>4, <1>5

\* An observer has heard what the pass in progress tells it.
LEMMA HeardKeeps ==
  ASSUME StackIs(calls), NEW o, Shell!Hears(o)
  PROVE  /\ StackIs(Shell!Heard) /\ Shell!Heard # <<>> /\ Len(Shell!Heard) = Len(calls)
         /\ Head(calls) = calls[1] /\ calls # <<>> /\ calls[1] \in Passes
         /\ Shell!Heard[1] = [calls[1] EXCEPT !.todo = Tail(@)]
         /\ Head(Shell!Heard) = Shell!Heard[1]
         /\ \A i \in 2 .. Len(calls) : Shell!Heard[i] = calls[i]
         /\ \A x : In(x, calls[1].todo) <=> In(x, Shell!Heard[1].todo) \/ x = o
         /\ ~In(o, Shell!Heard[1].todo)
<1> DEFINE p == calls[1]
           q == [p EXCEPT !.todo = Tail(@)]
<1>1. calls # <<>> /\ Head(calls).todo # <<>> /\ Head(Head(calls).todo) = o
  BY DEF Shell!Hears, Shell!Quiet
<1>2. /\ Len(calls) \in 1 .. 2 /\ DOMAIN calls = 1 .. Len(calls)
      /\ Head(calls) = p /\ p \in Passes /\ 1 \in DOMAIN calls
      /\ Tail(calls) \in Seq(Passes) /\ Len(Tail(calls)) = Len(calls) - 1
      /\ \A i \in 1 .. Len(calls) - 1 : Tail(calls)[i] = calls[i + 1]
  BY <1>1, StackSplits
<1>3. p.todo \in Seq(Observers) /\ p.todo # <<>> /\ Head(p.todo) = o /\ Distinct(p.todo)
  BY <1>1, <1>2 DEF Passes, StackIs
<1>4. /\ Tail(p.todo) \in Seq(Observers)
      /\ \A x : In(x, p.todo) <=> In(x, Tail(p.todo)) \/ x = o
      /\ Distinct(Tail(p.todo)) /\ ~In(o, Tail(p.todo))
  BY <1>3, TailDrops
<1>5. /\ q \in Passes /\ q.todo = Tail(p.todo) /\ q.paint = p.paint
      /\ q.identity = p.identity /\ q.security = p.security
  BY <1>2, <1>4 DEF Passes
<1>6. Shell!Heard = <<q>> \o Tail(calls)
  BY <1>2 DEF Shell!Heard
<1> HIDE DEF q
<1>7. /\ Shell!Heard \in Seq(Passes) /\ Len(Shell!Heard) = Len(calls) /\ Shell!Heard[1] = q
      /\ \A i \in 1 .. Len(calls) - 1 : Shell!Heard[i + 1] = calls[i + 1]
  <2>1. /\ Shell!Heard \in Seq(Passes) /\ Len(Shell!Heard) = (Len(calls) - 1) + 1
        /\ Shell!Heard[1] = q
        /\ \A i \in 1 .. Len(calls) - 1 : Shell!Heard[i + 1] = Tail(calls)[i]
    BY <1>2, <1>5, <1>6, PushIs
  <2> QED BY <1>2, <2>1
<1>8. \A i \in 2 .. Len(calls) : Shell!Heard[i] = calls[i]
  <2> TAKE i \in 2 .. Len(calls)
  <2>1. i - 1 \in 1 .. Len(calls) - 1 /\ (i - 1) + 1 = i
    BY <1>2
  <2> QED BY <1>7, <2>1
<1>9. DOMAIN Shell!Heard = 1 .. Len(calls) /\ Shell!Heard # <<>> /\ Head(Shell!Heard) = Shell!Heard[1]
  BY <1>2, <1>7, ElementsOf, EmptySeq, HeadTailProperties
<1>10. StackIs(Shell!Heard)
  <2>1. ASSUME NEW i \in 1 .. Len(calls)
        PROVE  /\ Distinct(Shell!Heard[i].todo)
               /\ Shell!Heard[i].identity => Shell!Heard[i].security
               /\ Shell!Heard[i].security => Shell!Heard[i].paint = Shell!Unset
    <3>1. CASE i = 1
      BY <1>2, <1>4, <1>5, <1>7, <3>1 DEF StackIs
    <3>2. CASE i # 1
      BY <1>2, <1>8, <3>2 DEF StackIs
    <3> QED BY <3>1, <3>2
  <2>2. Len(calls) = 2 => Shell!Heard[2].security /\ ~Shell!Heard[1].security
    BY <1>5, <1>7, <1>8 DEF StackIs
  <2>3. Len(calls) <= 2
    BY <1>2
  <2> QED BY <1>7, <1>9, <2>1, <2>2, <2>3 DEF StackIs
<1> QED BY <1>1, <1>2, <1>4, <1>5, <1>7, <1>8, <1>9, <1>10 DEF q

\* What is due then.
LEMMA HeardIs ==
  ASSUME StackIs(calls), NEW o, Shell!Hears(o)
  PROVE  /\ HostDue(Shell!Heard) <=> HostDue(calls) /\ ~(o = Shell!Runtime /\ Head(calls).identity)
         /\ \A m \in Mounts : SessionDue(Shell!Heard, m) <=>
              SessionDue(calls, m) /\ ~(o = Shell!Session(m) /\ Head(calls).security)
         /\ \A m \in Mounts : RouterDue(Shell!Heard, m) <=>
              RouterDue(calls, m) /\ ~(o = Shell!Router(m) /\ ~Head(calls).security)
<1> DEFINE h == Shell!Heard
<1>1. /\ StackIs(h) /\ h # <<>> /\ Len(h) = Len(calls)
      /\ Head(calls) = calls[1] /\ calls # <<>> /\ calls[1] \in Passes
      /\ h[1] = [calls[1] EXCEPT !.todo = Tail(@)]
      /\ \A i \in 2 .. Len(calls) : h[i] = calls[i]
      /\ \A x : In(x, calls[1].todo) <=> In(x, h[1].todo) \/ x = o
      /\ ~In(o, h[1].todo)
  BY HeardKeeps
<1>2. /\ Len(calls) \in 1 .. 2 /\ DOMAIN calls = 1 .. Len(calls) /\ DOMAIN h = 1 .. Len(calls)
      /\ calls[1].security => Len(calls) = 1
      /\ Len(calls) = 2 => calls[2].security /\ ~calls[1].security
      /\ calls[1].identity => calls[1].security
  <2>1. 1 \in DOMAIN calls /\ StackIs(calls)
    BY <1>1, StackSplits
  <2> QED BY <1>1, <2>1, StackSplits DEF StackIs
<1>3. h[1].identity = calls[1].identity /\ h[1].security = calls[1].security
  BY <1>1 DEF Passes
<1> HIDE DEF h
<1>4. CASE Len(calls) = 1
  <2>1. DOMAIN calls = {1} /\ DOMAIN h = {1}
    BY <1>2, <1>4
  <2>2. HostDue(h) <=> HostDue(calls) /\ ~(o = Shell!Runtime /\ calls[1].identity)
    BY <1>1, <1>3, <2>1 DEF HostDue
  <2>3. ASSUME NEW m \in Mounts
        PROVE  SessionDue(h, m) <=>
                 SessionDue(calls, m) /\ ~(o = Shell!Session(m) /\ calls[1].security)
    BY <1>1, <1>3, <2>1 DEF SessionDue
  <2>4. ASSUME NEW m \in Mounts
        PROVE  RouterDue(h, m) <=>
                 RouterDue(calls, m) /\ ~(o = Shell!Router(m) /\ ~calls[1].security)
    BY <1>1, <1>3, <2>1 DEF RouterDue
  <2> QED BY <1>1, <2>2, <2>3, <2>4 DEF h
<1>5. CASE Len(calls) = 2
  <2>1. /\ DOMAIN calls = {1, 2} /\ DOMAIN h = {1, 2} /\ h[2] = calls[2]
        /\ calls[2].security /\ ~calls[1].security /\ ~calls[1].identity
    BY <1>1, <1>2, <1>5
  <2>2. HostDue(h) <=> HostDue(calls) /\ ~(o = Shell!Runtime /\ calls[1].identity)
    BY <1>1, <1>3, <2>1 DEF HostDue
  <2>3. ASSUME NEW m \in Mounts
        PROVE  SessionDue(h, m) <=>
                 SessionDue(calls, m) /\ ~(o = Shell!Session(m) /\ calls[1].security)
    BY <1>1, <1>3, <2>1 DEF SessionDue
  <2>4. ASSUME NEW m \in Mounts
        PROVE  RouterDue(h, m) <=>
                 RouterDue(calls, m) /\ ~(o = Shell!Router(m) /\ ~calls[1].security)
    BY <1>1, <1>3, <2>1 DEF RouterDue
  <2> QED BY <1>1, <2>2, <2>3, <2>4 DEF h
<1> QED BY <1>2, <1>4, <1>5

\* A single pass is a stack.
LEMMA StackOfOne ==
  ASSUME NEW s, s \in Seq(Passes), Len(s) = 1, DOMAIN s = {1},
         Distinct(s[1].todo), s[1].identity => s[1].security,
         s[1].security => s[1].paint = Shell!Unset
  PROVE  StackIs(s)
BY DEF StackIs

\* The pass in progress has told everybody.
LEMMA PopKeeps ==
  ASSUME StackIs(calls), calls # <<>>, Head(calls).todo = <<>>
  PROVE  /\ StackIs(Tail(calls)) /\ Head(calls) = calls[1] /\ calls[1] \in Passes
         /\ HostDue(Tail(calls)) <=> HostDue(calls)
         /\ \A m \in Mounts :
              /\ SessionDue(Tail(calls), m) <=> SessionDue(calls, m)
              /\ RouterDue(Tail(calls), m) <=> RouterDue(calls, m)
         /\ \A i \in DOMAIN Tail(calls) : Tail(calls)[i].paint = Shell!Unset
<1> DEFINE t == Tail(calls)
<1>1. /\ Len(calls) \in 1 .. 2 /\ DOMAIN calls = 1 .. Len(calls)
      /\ Head(calls) = calls[1] /\ calls[1] \in Passes /\ 1 \in DOMAIN calls
      /\ t \in Seq(Passes) /\ Len(t) = Len(calls) - 1
      /\ \A i \in 1 .. Len(calls) - 1 : t[i] = calls[i + 1]
  BY StackSplits
<1>2. DOMAIN t = 1 .. Len(calls) - 1
  BY <1>1, ElementsOf
<1>3. \A x : ~In(x, calls[1].todo)
  BY <1>1 DEF In
<1> HIDE DEF t
<1>4. CASE Len(calls) = 1
  <2>1. DOMAIN calls = {1} /\ DOMAIN t = {} /\ Len(t) = 0
    BY <1>1, <1>2, <1>4
  <2>2. StackIs(t)
    BY <1>1, <2>1 DEF StackIs
  <2> QED BY <1>1, <1>3, <2>1, <2>2 DEF t, HostDue, SessionDue, RouterDue
<1>5. CASE Len(calls) = 2
  <2>1. DOMAIN calls = {1, 2} /\ DOMAIN t = {1} /\ Len(t) = 1 /\ t[1] = calls[2]
    BY <1>1, <1>2, <1>5
  <2>2. StackIs(t)
    <3>1. Distinct(calls[2].todo) /\ (calls[2].identity => calls[2].security)
      BY <2>1 DEF StackIs
    <3>2. calls[2].security => calls[2].paint = Shell!Unset
      BY <2>1 DEF StackIs
    <3> QED BY <1>1, <2>1, <3>1, <3>2, StackOfOne
  <2>3. t[1].paint = Shell!Unset
    BY <1>5, <2>1 DEF StackIs
  <2> QED BY <1>1, <1>3, <2>1, <2>2, <2>3 DEF t, HostDue, SessionDue, RouterDue
<1> QED BY <1>1, <1>4, <1>5

-----------------------------------------------------------------------------
(* Sessions *)

\* Who has a client hears of the next session, and a router hears of changes from when it is used.
ObserversAre ==
  /\ observers \in Seq(Observers) /\ Distinct(observers) /\ In(Shell!Runtime, observers)
  /\ \A m \in Mounts : In(Shell!Session(m), observers) <=> m \in Shell!Mounted
  /\ \A m \in Mounts : router[m] # Shell!NoRouter => In(Shell!Router(m), observers)

ViewsAre ==
  /\ session \in 1 .. MaxSessions /\ client \in [Mounts -> 0 .. session]
  /\ rendered \in [Mounts -> Shell!Contexts] /\ router \in [Mounts -> Shell!Contexts]
  /\ \A m \in Mounts :
       /\ router[m].client <= client[m] /\ rendered[m].client <= client[m]
       /\ m \notin Shell!Mounted => router[m] = Shell!NoRouter /\ rendered[m] = Shell!NoRouter

\* A client is that of the session exactly when its mount need not be told of it any more.
SessionInv ==
  /\ ObserversAre /\ ViewsAre /\ StackIs(calls)
  /\ \A m \in Shell!Mounted : client[m] # session <=> SessionDue(calls, m)

StateType == state \in [user : Users \cup {Nobody}, groups : Groups, theme : Shell!Themes]

\* In the middle of nothing, nobody is due.
LEMMA QuietIsDone ==
  /\ StackIs(<<>>) /\ Len(<<>>) = 0
  /\ ~HostDue(<<>>) /\ \A m \in Mounts : ~SessionDue(<<>>, m) /\ ~RouterDue(<<>>, m)
<1>1. <<>> \in Seq(Passes) /\ Len(<<>>) = 0 /\ DOMAIN <<>> = {}
  BY EmptySeq
<1> QED BY <1>1 DEF StackIs, HostDue, SessionDue, RouterDue

LEMMA SessionsAreKnown ==
  SessionInv /\ Shell!Quiet => \A m \in Shell!Mounted : client[m] = session
BY QuietIsDone DEF SessionInv, Shell!Quiet, Shell!Mounted

\* What the stored theme and the runtime do to the passes.
LEMMA ReadCalls ==
  ASSUME StackIs(calls), ObserversAre, NEW passes, NEW t \in Shell!Themes \cup {Shell!Unset},
         \/ passes = calls /\ Shell!Quiet
         \/ passes = Shell!Heard /\ Shell!Hears(Shell!Runtime) /\ Head(calls).identity,
         calls' = passes \/ calls' = <<Shell!Pass(FALSE, FALSE, t)>> \o passes
  PROVE  /\ StackIs(calls') /\ ~HostDue(calls')
         /\ \A m \in Mounts : SessionDue(calls', m) <=> SessionDue(calls, m)
         /\ \A m \in Mounts : RouterDue(calls, m) => RouterDue(calls', m)
         /\ \A i \in DOMAIN calls' : calls'[i].paint \in {Shell!Unset, t}
         /\ calls' = <<Shell!Pass(FALSE, FALSE, t)>> \o passes =>
              /\ calls' # <<>> /\ Head(calls').paint = t
              /\ \A m \in Mounts : In(Shell!Router(m), observers) => RouterDue(calls', m)
<1> DEFINE p == Shell!Pass(FALSE, FALSE, t)
<1>1. /\ p \in Passes /\ Distinct(p.todo) /\ p.todo = observers /\ p.paint = t
      /\ ~p.identity /\ ~p.security
  BY DEF Shell!Pass, Passes, ObserversAre
<1>2. /\ StackIs(passes) /\ Len(passes) <= 1 /\ ~HostDue(passes)
      /\ passes # <<>> => passes[1].security
      /\ \A m \in Mounts : SessionDue(passes, m) <=> SessionDue(calls, m)
      /\ \A m \in Mounts : RouterDue(calls, m) <=> RouterDue(passes, m)
  <2>1. CASE passes = calls /\ Shell!Quiet
    BY <2>1, QuietIsDone DEF Shell!Quiet
  <2>2. CASE passes = Shell!Heard /\ Shell!Hears(Shell!Runtime) /\ Head(calls).identity
    <3>1. /\ StackIs(passes) /\ Len(passes) = Len(calls) /\ calls # <<>> /\ calls[1] \in Passes
          /\ Head(calls) = calls[1] /\ passes[1] = [calls[1] EXCEPT !.todo = Tail(@)]
      BY <2>2, HeardKeeps
    <3>2. calls[1].security /\ Len(calls) = 1
      <4>1. 1 \in DOMAIN calls /\ (calls[1].security => Len(calls) = 1)
        BY <3>1, StackSplits
      <4> QED BY <2>2, <3>1, <4>1 DEF StackIs
    <3>3. passes[1].security
      BY <3>1, <3>2 DEF Passes
    <3>4. /\ ~HostDue(passes)
          /\ \A m \in Mounts : SessionDue(passes, m) <=> SessionDue(calls, m)
          /\ \A m \in Mounts : RouterDue(calls, m) <=> RouterDue(passes, m)
      BY <2>2, HeardIs, ObserversDiffer
    <3> QED BY <3>1, <3>2, <3>3, <3>4
  <2> QED BY <2>1, <2>2
<1>3. \A i \in DOMAIN passes : passes[i].paint = Shell!Unset
  <2>1. DOMAIN passes = 1 .. Len(passes) /\ Len(passes) \in Nat
    BY <1>2, ElementsOf DEF StackIs
  <2>2. \A i \in DOMAIN passes : i = 1
    BY <1>2, <2>1
  <2>3. DOMAIN passes # {} => passes # <<>>
    BY EmptySeq
  <2> QED BY <1>2, <2>2, <2>3 DEF StackIs
<1> HIDE DEF p
<1>4. CASE calls' = passes /\ calls' # <<p>> \o passes
  <2>1. \A i \in DOMAIN calls' : calls'[i].paint \in {Shell!Unset, t}
    BY <1>3, <1>4
  <2> QED BY <1>2, <1>4, <2>1 DEF p
<1>5. CASE calls' = <<p>> \o passes
  <2>1. /\ StackIs(calls') /\ calls' # <<>> /\ Head(calls') = p
        /\ HostDue(calls') <=> HostDue(passes) \/ (p.identity /\ In(Shell!Runtime, p.todo))
        /\ \A m \in Mounts :
             /\ SessionDue(calls', m) <=>
                  SessionDue(passes, m) \/ (p.security /\ In(Shell!Session(m), p.todo))
             /\ RouterDue(calls', m) <=>
                  RouterDue(passes, m) \/ (~p.security /\ In(Shell!Router(m), p.todo))
    BY <1>1, <1>2, <1>5, PushKeeps
  <2>2. \A i \in DOMAIN calls' : calls'[i].paint \in {Shell!Unset, t}
    <3>1. /\ Len(calls') = Len(passes) + 1 /\ calls'[1] = p
          /\ \A i \in 1 .. Len(passes) : calls'[i + 1] = passes[i]
      BY <1>1, <1>2, <1>5, PushIs DEF StackIs
    <3>2. DOMAIN calls' = 1 .. Len(passes) + 1 /\ DOMAIN passes = 1 .. Len(passes) /\ Len(passes) \in Nat
      BY <1>2, <2>1, <3>1, ElementsOf DEF StackIs
    <3>3. ASSUME NEW i \in DOMAIN calls', i # 1 PROVE calls'[i].paint = Shell!Unset
      <4>1. i - 1 \in 1 .. Len(passes) /\ (i - 1) + 1 = i
        BY <3>2, <3>3
      <4> QED BY <1>3, <3>1, <3>2, <4>1
    <3> QED BY <1>1, <3>1, <3>3
  <2> QED BY <1>1, <1>2, <2>1, <2>2
<1> QED BY <1>4, <1>5 DEF p

\* Sessions are unmoved by what leaves mounts and observers alone.
LEMMA OthersKeepSessions ==
  ASSUME SessionInv, UNCHANGED <<observers, session, client, rendered, router>>, StackIs(calls'),
         \A m \in Mounts : SessionDue(calls', m) <=> SessionDue(calls, m)
  PROVE  SessionInv'
<1>1. ObserversAre'
  BY DEF SessionInv, ObserversAre, Shell!Mounted
<1>2. ViewsAre'
  BY DEF SessionInv, ViewsAre, Shell!Mounted, Shell!Contexts
<1>3. \A m \in Shell!Mounted' : client'[m] # session' <=> SessionDue(calls, m)'
  BY DEF SessionInv, Shell!Mounted
<1> QED BY <1>1, <1>2, <1>3 DEF SessionInv

\* Those who go take their observers with them.
LEMMA GoneIs ==
  ASSUME ObserversAre, NEW ms \in SUBSET Mounts, Shell!Gone(ms)
  PROVE  /\ observers' \in Seq(Observers) /\ Distinct(observers') /\ In(Shell!Runtime, observers')
         /\ \A m \in Mounts :
              /\ In(Shell!Session(m), observers') <=> In(Shell!Session(m), observers) /\ m \notin ms
              /\ In(Shell!Router(m), observers') <=> In(Shell!Router(m), observers) /\ m \notin ms
<1> DEFINE out == UNION {{Shell!Session(m), Shell!Router(m)} : m \in ms}
<1>1. observers' = Kept(observers, out)
  BY DEF Shell!Gone, Shell!Without, Kept
<1>2. /\ Shell!Runtime \notin out
      /\ \A m \in Mounts : /\ Shell!Session(m) \in out <=> m \in ms
                           /\ Shell!Router(m) \in out <=> m \in ms
  BY ObserversDiffer
<1> HIDE DEF out
<1>3. /\ observers' \in Seq(Observers) /\ Distinct(observers')
      /\ \A o : In(o, observers') <=> In(o, observers) /\ o \notin out
  BY <1>1, WithoutIs DEF ObserversAre
<1> QED BY <1>2, <1>3 DEF ObserversAre

LEMMA SessionHearsKeeps ==
  ASSUME SessionInv, NEW m \in Mounts, Shell!SessionHears(m)
  PROVE  SessionInv'
<1>1. /\ Shell!Hears(Shell!Session(m)) /\ calls' = Shell!Heard /\ session' = session
      /\ StackIs(calls) /\ ObserversAre /\ ViewsAre
  BY DEF Shell!SessionHears, SessionInv
<1>2. /\ StackIs(calls') /\ Head(calls) = calls[1] /\ calls # <<>>
      /\ \A n \in Mounts : SessionDue(calls', n) <=>
           SessionDue(calls, n) /\ ~(m = n /\ Head(calls).security)
  BY <1>1, HeardKeeps, HeardIs, ObserversDiffer
<1>3. CASE Head(calls).security /\ m \in Shell!Mounted
  <2>1. PICK ms \in {{}, Inside[m]} :
          /\ client' = [n \in Mounts |-> IF n = m THEN session ELSE IF n \in ms THEN 0 ELSE client[n]]
          /\ Shell!Gone(ms)
    BY <1>3 DEF Shell!SessionHears
  <2>2. ms \in SUBSET Mounts /\ m \notin ms
    BY <2>1, ShellAssumption DEF Shell!ShellStateAssumption
  <2>3. /\ session \in 1 .. MaxSessions /\ client \in [Mounts -> 0 .. session]
        /\ client' \in [Mounts -> 0 .. session] /\ client'[m] = session
        /\ \A n \in Mounts : n \in ms => client'[n] = 0
        /\ \A n \in Mounts : n # m /\ n \notin ms => client'[n] = client[n]
    BY <1>1, <2>1, <2>2 DEF ViewsAre
  <2>4. \A n \in Mounts : n \in Shell!Mounted' <=> n \in Shell!Mounted /\ n \notin ms
    BY <1>3, <2>2, <2>3 DEF Shell!Mounted
  <2>5. /\ rendered' = [n \in Mounts |-> IF n \in ms THEN Shell!NoRouter ELSE rendered[n]]
        /\ router' = [n \in Mounts |-> IF n \in ms THEN Shell!NoRouter ELSE router[n]]
    BY <2>1 DEF Shell!Gone
  <2>6. ObserversAre'
    <3>1. /\ observers' \in Seq(Observers) /\ Distinct(observers') /\ In(Shell!Runtime, observers')
          /\ \A n \in Mounts :
               /\ In(Shell!Session(n), observers') <=> In(Shell!Session(n), observers) /\ n \notin ms
               /\ In(Shell!Router(n), observers') <=> In(Shell!Router(n), observers) /\ n \notin ms
      BY <1>1, <2>1, <2>2, GoneIs
    <3> QED BY <1>1, <2>4, <2>5, <3>1 DEF ObserversAre
  <2>7. ViewsAre'
    <3>1. /\ Shell!NoRouter \in Shell!Contexts /\ Shell!Contexts' = Shell!Contexts
          /\ Shell!NoRouter.client = 0
      BY <1>1, <2>3 DEF Shell!NoRouter, Shell!Contexts
    <3>2. \A n \in Mounts :
            /\ router[n] \in Shell!Contexts /\ rendered[n] \in Shell!Contexts
            /\ router[n].client <= client[n] /\ rendered[n].client <= client[n]
            /\ n \notin Shell!Mounted => router[n] = Shell!NoRouter /\ rendered[n] = Shell!NoRouter
      BY <1>1 DEF ViewsAre
    <3>3. \A n \in Mounts : router'[n] \in Shell!Contexts /\ rendered'[n] \in Shell!Contexts
      BY <2>5, <3>1, <3>2
    <3>4. \A n \in Mounts : router'[n].client <= client'[n] /\ rendered'[n].client <= client'[n]
      <4> TAKE n \in Mounts
      <4>1. CASE n \in ms
        BY <2>3, <2>5, <3>1, <4>1
      <4>2. CASE n = m
        <5>1. /\ client[m] \in 0 .. session /\ router[m].client \in 0 .. session
              /\ rendered[m].client \in 0 .. session
          BY <2>3, <3>2 DEF Shell!Contexts
        <5> QED BY <2>2, <2>3, <2>5, <4>2, <5>1
      <4>3. CASE n \notin ms /\ n # m
        BY <2>3, <2>5, <3>2, <4>3
      <4> QED BY <4>1, <4>2, <4>3
    <3>5. \A n \in Mounts : n \notin Shell!Mounted' =>
            router'[n] = Shell!NoRouter /\ rendered'[n] = Shell!NoRouter
      BY <2>4, <2>5, <3>2
    <3>6. router' \in [Mounts -> Shell!Contexts'] /\ rendered' \in [Mounts -> Shell!Contexts']
      BY <2>5, <3>1, <3>3
    <3> QED BY <1>1, <2>3, <3>4, <3>5, <3>6 DEF ViewsAre
  <2>8. \A n \in Shell!Mounted' : client'[n] # session' <=> SessionDue(calls, n)'
    <3> TAKE n \in Shell!Mounted'
    <3>1. n \in Mounts /\ n \in Shell!Mounted /\ n \notin ms
      BY <2>4 DEF Shell!Mounted
    <3>2. SessionDue(calls, n)' <=> SessionDue(calls', n)
      OBVIOUS
    <3>3. client[n] # session <=> SessionDue(calls, n)
      BY <3>1 DEF SessionInv
    <3> QED BY <1>1, <1>2, <1>3, <2>3, <3>1, <3>2, <3>3
  <2> QED BY <1>2, <2>6, <2>7, <2>8 DEF SessionInv
<1>4. CASE ~(Head(calls).security /\ m \in Shell!Mounted)
  <2>1. UNCHANGED <<observers, session, client, rendered, router>>
    BY <1>4 DEF Shell!SessionHears, Shell!views
  <2>2. CASE ~Head(calls).security
    BY <1>2, <2>1, <2>2, OthersKeepSessions
  <2>3. CASE m \notin Shell!Mounted
    <3>1. ObserversAre' /\ ViewsAre'
      BY <1>1, <2>1 DEF ObserversAre, ViewsAre, Shell!Mounted, Shell!Contexts
    <3>2. \A n \in Shell!Mounted' : client'[n] # session' <=> SessionDue(calls, n)'
      BY <1>2, <2>1, <2>3 DEF SessionInv, Shell!Mounted
    <3> QED BY <1>2, <3>1, <3>2 DEF SessionInv
  <2> QED BY <1>4, <2>2, <2>3
<1> QED BY <1>3, <1>4

\* A router's context is of the session its mount's client is for.
LEMMA ContextIs ==
  ASSUME ViewsAre, StateType, NEW m \in Mounts
  PROVE  Shell!Context(m) \in Shell!Contexts /\ Shell!Context(m).client = client[m]
BY DEF ViewsAre, StateType, Shell!Context, Shell!Contexts

LEMMA RouterHearsKeeps ==
  ASSUME SessionInv, StateType, NEW m \in Mounts, Shell!RouterHears(m)
  PROVE  SessionInv'
<1>1. /\ Shell!Hears(Shell!Router(m)) /\ calls' = Shell!Heard
      /\ UNCHANGED <<observers, session, client, rendered>>
      /\ StackIs(calls) /\ ObserversAre /\ ViewsAre
      /\ router' = IF Head(calls).security \/ router[m] = Shell!NoRouter THEN router
                   ELSE [router EXCEPT ![m] = Shell!Context(m)]
  BY DEF Shell!RouterHears, SessionInv
<1>2. StackIs(calls') /\ \A n \in Mounts : SessionDue(calls', n) <=> SessionDue(calls, n)
  BY <1>1, HeardKeeps, HeardIs, ObserversDiffer
<1>3. CASE router' = router
  BY <1>1, <1>2, <1>3, OthersKeepSessions
<1>4. CASE router[m] # Shell!NoRouter /\ router' = [router EXCEPT ![m] = Shell!Context(m)]
  <2>1. /\ Shell!Context(m) \in Shell!Contexts /\ Shell!Context(m).client = client[m]
        /\ client[m] \in Nat /\ m \in Shell!Mounted
    BY <1>1, <1>4, ContextIs DEF ViewsAre
  <2>2. /\ router' \in [Mounts -> Shell!Contexts] /\ router'[m] = Shell!Context(m)
        /\ \A n \in Mounts : n # m => router'[n] = router[n]
    BY <1>1, <1>4, <2>1 DEF ViewsAre
  <2>3. ObserversAre'
    BY <1>1, <1>4, <2>2 DEF ObserversAre, Shell!Mounted
  <2>4. ViewsAre'
    BY <1>1, <2>1, <2>2 DEF ViewsAre, Shell!Mounted, Shell!Contexts
  <2>5. \A n \in Shell!Mounted' : client'[n] # session' <=> SessionDue(calls, n)'
    BY <1>1, <1>2 DEF SessionInv, Shell!Mounted
  <2> QED BY <1>2, <2>3, <2>4, <2>5 DEF SessionInv
<1> QED BY <1>1, <1>3, <1>4

LEMMA ReturnKeeps ==
  ASSUME SessionInv, Shell!Return
  PROVE  SessionInv'
<1>1. /\ calls # <<>> /\ Head(calls).todo = <<>> /\ calls' = Tail(calls) /\ StackIs(calls)
      /\ UNCHANGED <<observers, session, client, rendered, router>>
  BY DEF Shell!Return, Shell!Quiet, Shell!views, SessionInv
<1> QED BY <1>1, PopKeeps, OthersKeepSessions

LEMMA MountOpensKeeps ==
  ASSUME SessionInv, NEW m \in Mounts, Shell!MountOpens(m)
  PROVE  SessionInv'
<1>1. /\ calls = <<>> /\ calls' = <<>> /\ m \notin Shell!Mounted
      /\ client' = [client EXCEPT ![m] = session]
      /\ observers' = Append(observers, Shell!Session(m))
      /\ UNCHANGED <<session, rendered, router>>
      /\ ObserversAre /\ ViewsAre
  BY DEF Shell!MountOpens, Shell!Quiet, Shell!views, SessionInv
<1>2. /\ client' \in [Mounts -> 0 .. session] /\ client'[m] = session /\ session \in 1 .. MaxSessions
      /\ \A n \in Mounts : n # m => client'[n] = client[n]
      /\ Shell!Mounted' = Shell!Mounted \cup {m}
  BY <1>1 DEF ViewsAre, Shell!Mounted
<1>3. ObserversAre'
  <2>1. /\ observers' \in Seq(Observers)
        /\ \A o : In(o, observers') <=> In(o, observers) \/ o = Shell!Session(m)
        /\ Distinct(observers')
    <3>1. ~In(Shell!Session(m), observers) /\ Shell!Session(m) \in Observers
      BY <1>1, ObserversDiffer DEF ObserversAre
    <3> QED BY <1>1, <3>1, AppendAdds DEF ObserversAre
  <2> QED BY <1>1, <1>2, <2>1, ObserversDiffer DEF ObserversAre
<1>4. ViewsAre'
  <2>1. router[m].client = 0 /\ rendered[m].client = 0
    BY <1>1 DEF ViewsAre, Shell!NoRouter
  <2> QED BY <1>1, <1>2, <2>1 DEF ViewsAre, Shell!Contexts
<1>5. \A n \in Shell!Mounted' : client'[n] # session' <=> SessionDue(calls, n)'
  <2>1. \A n \in Shell!Mounted : client[n] = session
    BY <1>1, SessionsAreKnown DEF Shell!Quiet
  <2>2. \A n \in Mounts : ~SessionDue(calls, n)'
    BY <1>1, QuietIsDone
  <2> QED BY <1>1, <1>2, <2>1, <2>2 DEF Shell!Mounted
<1> QED BY <1>1, <1>3, <1>4, <1>5, QuietIsDone DEF SessionInv

LEMMA MountClosesKeeps ==
  ASSUME SessionInv, NEW m \in Mounts, Shell!MountCloses(m)
  PROVE  SessionInv'
<1> DEFINE ms == {m} \cup Inside[m]
<1>1. /\ calls = <<>> /\ calls' = <<>> /\ session' = session
      /\ client' = [n \in Mounts |-> IF n \in ms THEN 0 ELSE client[n]]
      /\ Shell!Gone(ms)
      /\ ObserversAre /\ ViewsAre
  BY DEF Shell!MountCloses, Shell!Quiet, SessionInv
<1>2. ms \in SUBSET Mounts
  BY ShellAssumption DEF Shell!ShellStateAssumption
<1> HIDE DEF ms
<1>3. /\ client' \in [Mounts -> 0 .. session] /\ session \in 1 .. MaxSessions
      /\ \A n \in Mounts : client'[n] = IF n \in ms THEN 0 ELSE client[n]
      /\ \A n \in Mounts : n \in Shell!Mounted' <=> n \in Shell!Mounted /\ n \notin ms
  BY <1>1 DEF ViewsAre, Shell!Mounted
<1>4. /\ rendered' = [n \in Mounts |-> IF n \in ms THEN Shell!NoRouter ELSE rendered[n]]
      /\ router' = [n \in Mounts |-> IF n \in ms THEN Shell!NoRouter ELSE router[n]]
  BY <1>1 DEF Shell!Gone
<1>5. ObserversAre'
  <2>1. /\ observers' \in Seq(Observers) /\ Distinct(observers') /\ In(Shell!Runtime, observers')
        /\ \A n \in Mounts :
             /\ In(Shell!Session(n), observers') <=> In(Shell!Session(n), observers) /\ n \notin ms
             /\ In(Shell!Router(n), observers') <=> In(Shell!Router(n), observers) /\ n \notin ms
    BY <1>1, <1>2, GoneIs
  <2> QED BY <1>1, <1>3, <1>4, <2>1 DEF ObserversAre
<1>6. ViewsAre'
  <2>1. Shell!NoRouter \in Shell!Contexts /\ Shell!Contexts' = Shell!Contexts /\ Shell!NoRouter.client = 0
    BY <1>1, <1>3 DEF Shell!NoRouter, Shell!Contexts
  <2>2. /\ router' \in [Mounts -> Shell!Contexts'] /\ rendered' \in [Mounts -> Shell!Contexts']
        /\ \A n \in Mounts : router'[n].client <= client'[n] /\ rendered'[n].client <= client'[n]
    BY <1>1, <1>3, <1>4, <2>1 DEF ViewsAre
  <2>3. \A n \in Mounts : n \notin Shell!Mounted' =>
          router'[n] = Shell!NoRouter /\ rendered'[n] = Shell!NoRouter
    BY <1>1, <1>3, <1>4 DEF ViewsAre
  <2> QED BY <1>1, <1>3, <2>2, <2>3 DEF ViewsAre
<1>7. \A n \in Shell!Mounted' : client'[n] # session' <=> SessionDue(calls, n)'
  <2>1. \A n \in Shell!Mounted : client[n] = session
    BY <1>1, SessionsAreKnown DEF Shell!Quiet
  <2>2. \A n \in Mounts : ~SessionDue(calls, n)'
    BY <1>1, QuietIsDone
  <2> QED BY <1>1, <1>3, <2>1, <2>2 DEF Shell!Mounted
<1> QED BY <1>1, <1>5, <1>6, <1>7, QuietIsDone DEF SessionInv

\* A router is in use, with a context of its mount's client or of an earlier one.
LEMMA AttachedKeeps ==
  ASSUME SessionInv, NEW m \in Mounts, NEW c \in Shell!Contexts, m \in Shell!Mounted,
         c.client <= client[m], Shell!Attached(m, c), UNCHANGED <<calls, session, client>>
  PROVE  SessionInv'
<1>1. /\ observers' = Append(Kept(observers, {Shell!Router(m)}), Shell!Router(m))
      /\ router' = [router EXCEPT ![m] = c] /\ rendered' = [rendered EXCEPT ![m] = Shell!NoRouter]
      /\ ObserversAre /\ ViewsAre
  BY DEF Shell!Attached, Shell!Without, Kept, SessionInv
<1>2. ObserversAre'
  <2> DEFINE k == Kept(observers, {Shell!Router(m)})
  <2>1. /\ k \in Seq(Observers) /\ Distinct(k)
        /\ \A o : In(o, k) <=> In(o, observers) /\ o \notin {Shell!Router(m)}
    BY <1>1, WithoutIs DEF ObserversAre
  <2> HIDE DEF k
  <2>2. Shell!Router(m) \in Observers /\ ~In(Shell!Router(m), k)
    BY <2>1, ObserversDiffer
  <2>3. /\ Append(k, Shell!Router(m)) \in Seq(Observers)
        /\ \A o : In(o, Append(k, Shell!Router(m))) <=> In(o, k) \/ o = Shell!Router(m)
        /\ Distinct(Append(k, Shell!Router(m)))
    BY <2>1, <2>2, AppendAdds
  <2>4. /\ observers' \in Seq(Observers) /\ Distinct(observers')
        /\ \A o : In(o, observers') <=> In(o, observers) \/ o = Shell!Router(m)
    BY <1>1, <2>1, <2>3 DEF k
  <2>5. \A n \in Mounts : n # m => router'[n] = router[n]
    BY <1>1 DEF ViewsAre
  <2> QED BY <1>1, <2>4, <2>5, ObserversDiffer DEF ObserversAre, Shell!Mounted
<1>3. ViewsAre'
  <2>1. Shell!NoRouter \in Shell!Contexts /\ Shell!NoRouter.client = 0 /\ client[m] \in Nat
    BY <1>1 DEF Shell!NoRouter, Shell!Contexts, ViewsAre
  <2>2. /\ router' \in [Mounts -> Shell!Contexts] /\ rendered' \in [Mounts -> Shell!Contexts]
        /\ \A n \in Mounts : router'[n].client <= client[n] /\ rendered'[n].client <= client[n]
    BY <1>1, <2>1 DEF ViewsAre
  <2>3. \A n \in Mounts : n \notin Shell!Mounted =>
          router'[n] = Shell!NoRouter /\ rendered'[n] = Shell!NoRouter
    BY <1>1 DEF ViewsAre
  <2> QED BY <1>1, <2>2, <2>3 DEF ViewsAre, Shell!Mounted, Shell!Contexts
<1> QED BY <1>2, <1>3 DEF SessionInv, Shell!Mounted

\* A router is made, whether it is in use at once or not.
LEMMA RouterRendersKeeps ==
  ASSUME SessionInv, StateType, NEW m \in Mounts, Shell!Quiet, Shell!Replaceable(m),
         UNCHANGED <<calls, session, client>>,
         \/ Shell!Attached(m, Shell!Context(m))
         \/ rendered' = [rendered EXCEPT ![m] = Shell!Context(m)] /\ UNCHANGED <<observers, router>>
  PROVE  SessionInv'
<1>1. /\ Shell!Context(m) \in Shell!Contexts /\ Shell!Context(m).client = client[m]
      /\ m \in Shell!Mounted /\ client[m] \in Nat
  BY ContextIs DEF SessionInv, ViewsAre, Shell!Replaceable
<1>2. CASE Shell!Attached(m, Shell!Context(m))
  BY <1>1, <1>2, AttachedKeeps
<1>3. CASE rendered' = [rendered EXCEPT ![m] = Shell!Context(m)] /\ UNCHANGED <<observers, router>>
  <2>1. ObserversAre'
    BY <1>3 DEF SessionInv, ObserversAre, Shell!Mounted
  <2>2. ViewsAre'
    BY <1>1, <1>3 DEF SessionInv, ViewsAre, Shell!Mounted, Shell!Contexts
  <2> QED BY <2>1, <2>2 DEF SessionInv, Shell!Mounted
<1> QED BY <1>2, <1>3

LEMMA RouterAttachesKeeps ==
  ASSUME SessionInv, NEW m \in Mounts, Shell!RouterAttaches(m)
  PROVE  SessionInv'
<1>1. /\ rendered[m] \in Shell!Contexts /\ m \in Shell!Mounted /\ rendered[m].client <= client[m]
      /\ Shell!Attached(m, rendered[m]) /\ UNCHANGED <<calls, session, client>>
  BY DEF Shell!RouterAttaches, SessionInv, ViewsAre
<1> QED BY <1>1, AttachedKeeps

LEMMA OneIs ==
  ASSUME NEW S, NEW p \in S
  PROVE  /\ <<p>> \in Seq(S) /\ Len(<<p>>) = 1 /\ DOMAIN <<p>> = {1} /\ <<p>>[1] = p
         /\ <<p>> # <<>>
<1>1. <<p>> \in Seq(S) /\ Len(<<p>>) = 1 /\ <<p>>[1] = p
  BY LenProperties
<1>2. DOMAIN <<p>> = 1 .. 1
  BY <1>1, ElementsOf
<1>3. Len(<<>>) = 0
  BY EmptySeq
<1> QED BY <1>1, <1>2, <1>3

LEMMA OnePassIs ==
  ASSUME NEW p \in Passes, Distinct(p.todo), p.identity => p.security,
         p.security => p.paint = Shell!Unset
  PROVE  StackIs(<<p>>)
<1>1. /\ <<p>> \in Seq(Passes) /\ Len(<<p>>) = 1 /\ DOMAIN <<p>> = {1} /\ <<p>>[1] = p
  BY OneIs
<1> DEFINE s == <<p>>
<1>2. s \in Seq(Passes) /\ Len(s) = 1 /\ DOMAIN s = {1} /\ s[1] = p
  BY <1>1
<1> HIDE DEF s
<1>3. StackIs(s)
  BY <1>2 DEF StackIs
<1> QED BY <1>3 DEF s

\* Every mount that is there is to hear of the new session.
LEMMA SetSessionKeeps ==
  ASSUME SessionInv, Shell!Quiet, session < MaxSessions, session' = session + 1, NEW i \in BOOLEAN,
         calls' = <<Shell!Pass(i, TRUE, Shell!Unset)>>,
         UNCHANGED <<observers, client, rendered, router>>
  PROVE  /\ SessionInv' /\ calls' # <<>> /\ (i => HostDue(calls'))
         /\ \A m \in Shell!Mounted : SessionDue(calls', m)
         /\ \A j \in DOMAIN calls' : calls'[j].paint = Shell!Unset
<1> DEFINE p == Shell!Pass(i, TRUE, Shell!Unset)
<1>1. /\ p \in Passes /\ p.todo = observers /\ p.identity = i /\ p.security /\ p.paint = Shell!Unset
      /\ Distinct(p.todo) /\ ObserversAre /\ ViewsAre
  BY DEF Shell!Pass, Passes, ObserversAre, SessionInv
<1>2. /\ calls' \in Seq(Passes) /\ Len(calls') = 1 /\ DOMAIN calls' = {1} /\ calls'[1] = p
      /\ calls' # <<>>
  <2> HIDE DEF p
  <2>1. /\ <<p>> \in Seq(Passes) /\ Len(<<p>>) = 1 /\ DOMAIN <<p>> = {1} /\ <<p>>[1] = p
        /\ <<p>> # <<>>
    BY <1>1, OneIs
  <2> QED BY <2>1 DEF p
<1>3. StackIs(calls')
  <2> HIDE DEF p
  <2>1. StackIs(<<p>>)
    BY <1>1, OnePassIs
  <2> QED BY <2>1 DEF p
<1> HIDE DEF p
<1>4. \A m \in Shell!Mounted : SessionDue(calls', m)
  BY <1>1, <1>2 DEF SessionDue, ObserversAre, Shell!Mounted
<1>5. i => HostDue(calls')
  BY <1>1, <1>2 DEF HostDue, ObserversAre
<1>6. ObserversAre'
  BY <1>1 DEF ObserversAre, Shell!Mounted
<1>7. ViewsAre'
  <2>1. session + 1 \in 1 .. MaxSessions /\ 0 .. session \subseteq 0 .. session + 1
    BY <1>1, ShellAssumption DEF ViewsAre, Shell!ShellStateAssumption
  <2>2. Shell!Contexts \subseteq Shell!Contexts'
    BY <2>1 DEF Shell!Contexts
  <2>3. /\ client' \in [Mounts -> 0 .. session + 1]
        /\ router' \in [Mounts -> Shell!Contexts'] /\ rendered' \in [Mounts -> Shell!Contexts']
    BY <1>1, <2>1, <2>2 DEF ViewsAre
  <2> QED BY <1>1, <2>1, <2>3 DEF ViewsAre, Shell!Mounted
<1>8. \A m \in Shell!Mounted' : client'[m] # session'
  BY <1>1 DEF ViewsAre, Shell!Mounted
<1>9. \A m \in Shell!Mounted' : client'[m] # session' <=> SessionDue(calls, m)'
  BY <1>4, <1>8 DEF Shell!Mounted
<1> QED BY <1>1, <1>2, <1>3, <1>4, <1>5, <1>6, <1>7, <1>9 DEF SessionInv

-----------------------------------------------------------------------------
(* The user's stored values, and the cache *)

Areas ==
  [of : Users \cup {Nobody}, phase : {"loading", "ready", "error"},
   row : Shell!Rows, pending : Shell!Preferences \cup {Shell!Unset}, failed : BOOLEAN]

StoresAre ==
  /\ backend \in [Users -> Shell!Rows]
  /\ confirmed \in [Users -> SUBSET Shell!Preferences]
  /\ cache \in [Users -> Shell!Preferences \cup {Shell!Unset}]

\* A preference that the area holds is somebody's, and the backend had it.
HoldsConfirmed(a) ==
  /\ a.row \in Shell!Preferences => a.of \in Users /\ a.row \in confirmed[a.of]
  /\ a.pending # Shell!Unset => a.of \in Users

\* The values are the present user's, or the runtime is to hear who that is.
AreaInv ==
  /\ StoresAre /\ area \in Areas /\ HoldsConfirmed(area)
  /\ area.of # state.user => HostDue(calls)
  /\ \A u \in Users : backend[u] \in confirmed[u] \cup {Shell!Unset, Shell!Invalid}
  /\ Shell!CacheIsConfirmed

\* A backend may take a save.
Stores ==
  \/ UNCHANGED <<backend, confirmed>>
  \/ area.pending # Shell!Unset /\ Shell!Store(area.of, area.pending)

LEMMA StoresKeep ==
  ASSUME AreaInv, Stores
  PROVE  /\ backend' \in [Users -> Shell!Rows]
         /\ confirmed' \in [Users -> SUBSET Shell!Preferences]
         /\ \A u \in Users : confirmed[u] \subseteq confirmed'[u]
         /\ \A u \in Users : backend'[u] \in confirmed'[u] \cup {Shell!Unset, Shell!Invalid}
<1>1. CASE UNCHANGED <<backend, confirmed>>
  BY <1>1 DEF AreaInv, StoresAre
<1>2. CASE area.pending # Shell!Unset /\ Shell!Store(area.of, area.pending)
  <2>1. area.of \in Users /\ area.pending \in Shell!Preferences
    BY <1>2 DEF AreaInv, HoldsConfirmed, Areas
  <2>2. /\ backend' = [backend EXCEPT ![area.of] = area.pending]
        /\ confirmed' = [confirmed EXCEPT ![area.of] = @ \cup {area.pending}]
    BY <1>2 DEF Shell!Store
  <2> QED BY <2>1, <2>2 DEF AreaInv, StoresAre, Shell!Rows
<1> QED BY <1>1, <1>2 DEF Stores

\* The area changes for the present user.
LEMMA ReadKeepsArea ==
  ASSUME StateType, AreaInv, Stores, area' \in Areas, area'.of = state.user, state'.user = state.user,
         HoldsConfirmed(area)', ~HostDue(calls'),
         cache' = cache \/ Shell!CacheConfirmed(area', state.user)
  PROVE  AreaInv'
<1>1. /\ backend' \in [Users -> Shell!Rows]
      /\ confirmed' \in [Users -> SUBSET Shell!Preferences]
      /\ \A u \in Users : confirmed[u] \subseteq confirmed'[u]
      /\ \A u \in Users : backend'[u] \in confirmed'[u] \cup {Shell!Unset, Shell!Invalid}
  BY StoresKeep
<1>2. /\ cache \in [Users -> Shell!Preferences \cup {Shell!Unset}]
      /\ \A u \in Users : cache[u] \in confirmed[u] \cup {"system", Shell!Unset}
  BY DEF AreaInv, StoresAre, Shell!CacheIsConfirmed
<1>3. /\ cache' \in [Users -> Shell!Preferences \cup {Shell!Unset}]
      /\ \A u \in Users : cache'[u] \in confirmed'[u] \cup {"system", Shell!Unset}
  <2>1. CASE cache' = cache
    BY <1>1, <1>2, <2>1
  <2>2. CASE Shell!Ready(area') /\ state.user # Nobody
              /\ cache' = [cache EXCEPT ![state.user] = Shell!Value(area')]
    <3>1. state.user \in Users
      BY <2>2 DEF StateType
    <3>2. Shell!Value(area') \in confirmed'[state.user] \cup {"system"}
      BY <2>2, <3>1 DEF Shell!Ready, Shell!Settled, Shell!Value, HoldsConfirmed
    <3>3. Shell!Value(area') \in Shell!Preferences
      BY DEF Shell!Value, Areas, Shell!Preferences
    <3> QED BY <1>1, <1>2, <2>2, <3>1, <3>2, <3>3
  <2> QED BY <2>1, <2>2 DEF Shell!CacheConfirmed
<1> QED BY <1>1, <1>3 DEF AreaInv, StoresAre, Shell!CacheIsConfirmed

\* The area stays.
LEMMA OthersKeepArea ==
  ASSUME AreaInv, Stores, UNCHANGED <<area, cache>>,
         HostDue(calls) => HostDue(calls'), state'.user # state.user => HostDue(calls')
  PROVE  AreaInv'
<1>1. /\ backend' \in [Users -> Shell!Rows]
      /\ confirmed' \in [Users -> SUBSET Shell!Preferences]
      /\ \A u \in Users : confirmed[u] \subseteq confirmed'[u]
      /\ \A u \in Users : backend'[u] \in confirmed'[u] \cup {Shell!Unset, Shell!Invalid}
  BY StoresKeep
<1>2. Shell!CacheIsConfirmed'
  BY <1>1 DEF AreaInv, Shell!CacheIsConfirmed
<1>3. HoldsConfirmed(area)'
  BY <1>1 DEF AreaInv, HoldsConfirmed
<1>4. area'.of # state'.user => HostDue(calls')
  BY DEF AreaInv
<1> QED BY <1>1, <1>2, <1>3, <1>4 DEF AreaInv, StoresAre

\* What the handlers make of the area.
LEMMA AreasAre ==
  ASSUME StateType, AreaInv
  PROVE  /\ Shell!NoArea(state.user) \in Areas /\ Shell!NoArea(state.user).of = state.user
         /\ Shell!Quiet => area.of = state.user
         /\ Shell!Held(area.of) \in Shell!Rows
         /\ Shell!Held(area.of) \in Shell!Preferences =>
              area.of \in Users /\ Shell!Held(area.of) \in confirmed[area.of]
<1>1. Shell!NoArea(state.user) \in Areas /\ Shell!NoArea(state.user).of = state.user
  BY DEF Shell!NoArea, Areas, StateType, Shell!Rows
<1>2. Shell!Quiet => area.of = state.user
  BY QuietIsDone DEF AreaInv, Shell!Quiet
<1>3. /\ Shell!Held(area.of) \in Shell!Rows
      /\ Shell!Held(area.of) \in Shell!Preferences =>
           area.of \in Users /\ Shell!Held(area.of) \in confirmed[area.of]
  BY DEF Shell!Held, AreaInv, StoresAre, Areas, Shell!Rows, Shell!Preferences, Shell!Unset,
         Shell!Invalid
<1> QED BY <1>1, <1>2, <1>3

-----------------------------------------------------------------------------
(* The theme and the routers, of a shell that stores the theme *)

PaintType ==
  current \in Shell!Preferences /\ system \in Shell!Themes /\ painted \in Shell!Themes

\* The theme is the one preferred, by the present user as soon as the values are that user's; a
\* document that shows another one is about to be painted.
ThemeInv ==
  /\ state.theme = Shell!Resolve(current)
  /\ area.of = state.user => current = Shell!Selected(area, state.user)
  /\ painted # state.theme => calls # <<>> /\ Head(calls).paint # Shell!Unset
  /\ \A i \in DOMAIN calls : calls[i].paint \in {Shell!Unset, state.theme}

\* A router with an old context is about to be replaced, or to hear.
RouterInv ==
  /\ \A m \in Mounts : rendered[m] = Shell!NoRouter
  /\ \A m \in Shell!Mounted :
       router[m].client = client[m] /\ router[m] # Shell!Context(m) =>
         SessionDue(calls, m) \/ RouterDue(calls, m)

ShellInv == StateType /\ SessionInv /\ AreaInv /\ PaintType /\ ThemeInv /\ RouterInv

LEMMA RouterInUse ==
  ASSUME SessionInv, NEW m \in Shell!Mounted, router[m].client = client[m]
  PROVE  In(Shell!Router(m), observers)
<1>1. m \in Mounts /\ client[m] # 0
  BY DEF Shell!Mounted
<1> QED BY <1>1 DEF SessionInv, ObserversAre, Shell!NoRouter

LEMMA PreferencesAre ==
  ASSUME StateType, AreaInv, PaintType, NEW a \in Areas
  PROVE  /\ Shell!Selected(a, state.user) \in Shell!Preferences
         /\ Shell!Resolve(Shell!Selected(a, state.user)) \in Shell!Themes
<1>1. Shell!Value(a) \in Shell!Preferences
  BY DEF Shell!Value, Areas, Shell!Preferences
<1>2. Shell!Cached(state.user) \in Shell!Preferences
  BY DEF Shell!Cached, StateType, AreaInv, StoresAre, Shell!Preferences
<1>3. Shell!Selected(a, state.user) \in Shell!Preferences
  BY <1>1, <1>2 DEF Shell!Selected
<1> QED BY <1>3 DEF Shell!Resolve, PaintType, Shell!Preferences, Shell!Themes

\* The stored theme applies what it reads.
LEMMA AppliedKeeps ==
  ASSUME ShellInv, NEW a \in Areas, a.of = state.user, NEW passes,
         \/ passes = calls /\ Shell!Quiet
         \/ passes = Shell!Heard /\ Shell!Hears(Shell!Runtime) /\ Head(calls).identity,
         Shell!Read(a, passes), ~Shell!Unreadable(a), Stores, HoldsConfirmed(area)',
         UNCHANGED <<observers, session, client, rendered, router, system>>
  PROVE  ShellInv'
<1> DEFINE p == Shell!Selected(a, state.user)
           t == Shell!Resolve(p)
<1>1. /\ area' = a /\ Shell!ApplyTheme(p, state, passes) /\ Shell!CacheConfirmed(a, state.user)
  BY DEF Shell!Read
<1>2. p \in Shell!Preferences /\ t \in Shell!Themes /\ t # Shell!Unset
  <2>1. t \in Shell!Themes => t # Shell!Unset
    BY DEF Shell!Themes, Shell!Unset
  <2> QED BY <2>1, PreferencesAre DEF ShellInv
<1>3. /\ current' = p /\ state' = [state EXCEPT !.theme = t]
      /\ \/ state.theme = t /\ calls' = passes /\ painted' = t
         \/ /\ state.theme # t /\ calls' = <<Shell!Pass(FALSE, FALSE, t)>> \o passes
            /\ painted' = painted
  BY <1>1 DEF Shell!ApplyTheme
<1>4. p = Shell!Selected(area, state.user)'
  <2>1. Shell!CacheConfirmed(a, state.user) /\ a.phase # "ready" => cache' = cache
    BY DEF Shell!CacheConfirmed, Shell!Ready, Shell!Settled
  <2>2. state'.user = state.user
    BY <1>3 DEF ShellInv, StateType
  <2> QED BY <1>1, <2>1, <2>2
         DEF Shell!Selected, Shell!Value, Shell!Cached, Shell!Unreadable, Shell!Settled
<1>5. t = Shell!Resolve(current)'
  BY <1>3 DEF Shell!Resolve
<1> HIDE DEF p, t
<1>6. StateType' /\ state'.user = state.user /\ state'.theme = t
  BY <1>2, <1>3 DEF ShellInv, StateType
<1>7. /\ StackIs(calls') /\ ~HostDue(calls')
      /\ \A m \in Mounts : SessionDue(calls', m) <=> SessionDue(calls, m)
      /\ \A m \in Mounts : RouterDue(calls, m) => RouterDue(calls', m)
      /\ \A i \in DOMAIN calls' : calls'[i].paint \in {Shell!Unset, t}
      /\ calls' = <<Shell!Pass(FALSE, FALSE, t)>> \o passes =>
           /\ calls' # <<>> /\ Head(calls').paint = t
           /\ \A m \in Mounts : In(Shell!Router(m), observers) => RouterDue(calls', m)
  BY <1>2, <1>3, ReadCalls DEF ShellInv, SessionInv
<1>8. SessionInv'
  BY <1>7, OthersKeepSessions DEF ShellInv
<1>9. AreaInv'
  BY <1>1, <1>6, <1>7, ReadKeepsArea DEF ShellInv
<1>10. PaintType'
  BY <1>2, <1>3 DEF ShellInv, PaintType
<1>11. ThemeInv'
  BY <1>2, <1>3, <1>4, <1>5, <1>6, <1>7 DEF ThemeInv
<1>12. RouterInv'
  <2>1. \A m \in Mounts : rendered'[m] = Shell!NoRouter
    BY DEF ShellInv, RouterInv
  <2>2. Shell!Mounted' = Shell!Mounted /\ Shell!Mounted \subseteq Mounts
    BY DEF Shell!Mounted
  <2>3. ASSUME NEW m \in Shell!Mounted, router[m].client = client[m], router[m] # Shell!Context(m)'
        PROVE  SessionDue(calls', m) \/ RouterDue(calls', m)
    <3>1. CASE state.theme = t
      <4>1. Shell!Context(m)' = Shell!Context(m)
        BY <1>6, <3>1 DEF Shell!Context
      <4>2. SessionDue(calls, m) \/ RouterDue(calls, m)
        BY <2>3, <4>1 DEF ShellInv, RouterInv
      <4> QED BY <1>7, <2>2, <4>2
    <3>2. CASE state.theme # t
      BY <1>3, <1>7, <2>2, <2>3, <3>2, RouterInUse DEF ShellInv
    <3> QED BY <3>1, <3>2
  <2>4. \A m \in Shell!Mounted' :
          router'[m].client = client'[m] /\ router'[m] # Shell!Context(m)' =>
            SessionDue(calls, m)' \/ RouterDue(calls, m)'
    BY <2>2, <2>3
  <2> QED BY <2>1, <2>4 DEF RouterInv
<1> QED BY <1>6, <1>8, <1>9, <1>10, <1>11, <1>12 DEF ShellInv

\* A stored value that cannot be read changes nothing that shows.
LEMMA UnreadableKeeps ==
  ASSUME ShellInv, NEW a \in Areas, a.of = state.user, Shell!Read(a, calls), Shell!Unreadable(a),
         Shell!Quiet, area.phase = "loading", Stores, HoldsConfirmed(area)',
         UNCHANGED <<observers, session, client, rendered, router, system>>
  PROVE  ShellInv'
<1>1. area' = a /\ UNCHANGED <<calls, state, current, cache, painted>>
  BY DEF Shell!Read, Shell!theme
<1>2. /\ StateType /\ SessionInv /\ AreaInv /\ PaintType /\ ThemeInv /\ RouterInv
      /\ StackIs(calls) /\ ~HostDue(calls) /\ area.of = state.user
  BY QuietIsDone, AreasAre DEF ShellInv, SessionInv, Shell!Quiet
<1>3. StateType' /\ PaintType'
  BY <1>1, <1>2 DEF StateType, PaintType
<1>4. SessionInv'
  BY <1>1, <1>2, OthersKeepSessions
<1>5. AreaInv'
  BY <1>1, <1>2, ReadKeepsArea
<1>6. ThemeInv'
  <2>1. current = Shell!Cached(state.user)
    BY <1>2 DEF ThemeInv, Shell!Selected
  <2>2. current' = Shell!Selected(area, state.user)'
    BY <1>1, <2>1 DEF Shell!Selected, Shell!Unreadable, Shell!Settled, Shell!Cached
  <2> QED BY <1>1, <1>2, <2>2 DEF ThemeInv, Shell!Resolve
<1>7. RouterInv'
  BY <1>1, <1>2 DEF RouterInv, Shell!Mounted, Shell!Context, SessionDue, RouterDue
<1> QED BY <1>3, <1>4, <1>5, <1>6, <1>7 DEF ShellInv

\* The stored theme hears of the area: a value that loads and cannot be read, or one to apply.
LEMMA ReadKeeps ==
  ASSUME ShellInv, NEW a \in Areas, a.of = state.user, NEW passes,
         \/ passes = calls /\ Shell!Quiet
         \/ passes = Shell!Heard /\ Shell!Hears(Shell!Runtime) /\ Head(calls).identity,
         Shell!Unreadable(a) => passes = calls /\ Shell!Quiet /\ area.phase = "loading",
         Shell!Read(a, passes), Stores, HoldsConfirmed(area)',
         UNCHANGED <<observers, session, client, rendered, router, system>>
  PROVE  ShellInv'
BY AppliedKeeps, UnreadableKeeps

\* The area's own events.
LEMMA AreaEventsKeep ==
  ASSUME ShellInv, Shell!LoadSettles \/ Shell!LoadAgain \/ Shell!Save \/ Shell!SaveSettles
  PROVE  ShellInv'
<1>1. /\ StateType /\ AreaInv /\ area \in Areas /\ HoldsConfirmed(area) /\ Shell!Quiet
      /\ UNCHANGED <<observers, session, client, rendered, router, system>>
  BY DEF ShellInv, AreaInv, Shell!LoadSettles, Shell!LoadAgain, Shell!Save, Shell!SaveSettles, Shell!views
<1>2. /\ Shell!NoArea(state.user) \in Areas /\ Shell!NoArea(state.user).of = state.user
      /\ area.of = state.user
      /\ Shell!Held(area.of) \in Shell!Rows
      /\ Shell!Held(area.of) \in Shell!Preferences =>
           area.of \in Users /\ Shell!Held(area.of) \in confirmed[area.of]
  BY <1>1, AreasAre
<1>3. ASSUME NEW a \in Areas, a.of = state.user, Shell!Read(a, calls), Stores,
             Shell!Unreadable(a) => area.phase = "loading",
             a.row \in Shell!Preferences => a.of \in Users /\ a.row \in confirmed'[a.of],
             a.pending # Shell!Unset => a.of \in Users
      PROVE  ShellInv'
  <2>1. area' = a
    BY <1>3 DEF Shell!Read
  <2>2. HoldsConfirmed(area)'
    BY <1>3, <2>1 DEF HoldsConfirmed
  <2> QED BY <1>1, <1>3, <2>2, ReadKeeps
<1>4. CASE Shell!LoadSettles
  <2>1. Stores /\ confirmed' = confirmed /\ area.phase = "loading"
    BY <1>4 DEF Shell!LoadSettles, Stores
  <2>2. CASE Shell!Read([area EXCEPT !.phase = "ready", !.row = Shell!Held(area.of)], calls)
    <3> DEFINE a == [area EXCEPT !.phase = "ready", !.row = Shell!Held(area.of)]
    <3>1. /\ a \in Areas /\ a.of = area.of /\ a.row = Shell!Held(area.of) /\ a.pending = area.pending
      BY <1>1, <1>2 DEF Areas
    <3> HIDE DEF a
    <3>2. Shell!Read(a, calls)
      BY <2>2 DEF a
    <3> QED BY <1>1, <1>2, <1>3, <2>1, <3>1, <3>2 DEF HoldsConfirmed
  <2>3. CASE Shell!Read([area EXCEPT !.phase = "error"], calls)
    <3> DEFINE a == [area EXCEPT !.phase = "error"]
    <3>1. a \in Areas /\ a.of = area.of /\ a.row = area.row /\ a.pending = area.pending
      BY <1>1 DEF Areas
    <3> HIDE DEF a
    <3>2. Shell!Read(a, calls)
      BY <2>3 DEF a
    <3> QED BY <1>1, <1>2, <1>3, <2>1, <3>1, <3>2 DEF HoldsConfirmed
  <2> QED BY <1>4, <2>2, <2>3 DEF Shell!LoadSettles
<1>5. CASE Shell!LoadAgain
  <2>1. Stores /\ confirmed' = confirmed /\ Shell!Read(Shell!NoArea(state.user), calls)
    BY <1>2, <1>5 DEF Shell!LoadAgain, Stores
  <2>2. /\ Shell!NoArea(state.user).row = Shell!Unset /\ Shell!NoArea(state.user).pending = Shell!Unset
        /\ ~Shell!Unreadable(Shell!NoArea(state.user))
    BY DEF Shell!NoArea, Shell!Unreadable, Shell!Settled
  <2>3. Shell!Unset \notin Shell!Preferences
    BY DEF Shell!Unset, Shell!Preferences
  <2> QED BY <1>2, <1>3, <2>1, <2>2, <2>3
<1>6. CASE Shell!Save
  <2>1. PICK p \in Shell!Preferences :
          Shell!Read([area EXCEPT !.pending = p, !.failed = FALSE], calls)
    BY <1>6 DEF Shell!Save
  <2>2. Stores /\ confirmed' = confirmed /\ area.of # Nobody
    BY <1>6 DEF Shell!Save, Stores
  <2> DEFINE a == [area EXCEPT !.pending = p, !.failed = FALSE]
  <2>3. /\ a \in Areas /\ a.of = area.of /\ a.row = area.row /\ area.of \in Users
        /\ ~Shell!Unreadable(a)
    BY <1>1, <2>2
       DEF Areas, Shell!Unreadable, Shell!Settled, Shell!Preferences, Shell!Unset
  <2>4. Shell!Read(a, calls)
    BY <2>1
  <2> HIDE DEF a
  <2> QED BY <1>1, <1>2, <1>3, <2>2, <2>3, <2>4 DEF HoldsConfirmed
<1>7. CASE Shell!SaveSettles
  <2>1. area.pending # Shell!Unset /\ area.of \in Users /\ area.pending \in Shell!Preferences
    BY <1>1, <1>7 DEF Shell!SaveSettles, HoldsConfirmed, Areas
  <2>2. CASE /\ Shell!Read([area EXCEPT !.row = area.pending, !.pending = Shell!Unset], calls)
             /\ Shell!Store(area.of, area.pending)
    <3> DEFINE a == [area EXCEPT !.row = area.pending, !.pending = Shell!Unset]
    <3>1. /\ a \in Areas /\ a.of = area.of /\ a.row = area.pending /\ a.pending = Shell!Unset
          /\ ~Shell!Unreadable(a)
      BY <1>1, <2>1
         DEF Areas, Shell!Rows, Shell!Unreadable, Shell!Preferences, Shell!Invalid
    <3>2. Stores
      BY <2>1, <2>2 DEF Stores
    <3>3. area.pending \in confirmed'[area.of]
      BY <1>1, <2>1, <2>2 DEF Shell!Store, AreaInv, StoresAre
    <3>4. Shell!Read(a, calls)
      BY <2>2
    <3> HIDE DEF a
    <3> QED BY <1>2, <1>3, <2>1, <3>1, <3>2, <3>3, <3>4
  <2>3. CASE /\ Shell!Read([area EXCEPT !.pending = Shell!Unset, !.failed = TRUE], calls)
             /\ UNCHANGED <<backend, confirmed>>
    <3> DEFINE a == [area EXCEPT !.pending = Shell!Unset, !.failed = TRUE]
    <3>1. /\ a \in Areas /\ a.of = area.of /\ a.row = area.row /\ a.pending = Shell!Unset
          /\ ~Shell!Unreadable(a)
      BY <1>1 DEF Areas, Shell!Unreadable, Shell!Settled
    <3>2. Stores /\ confirmed' = confirmed
      BY <2>3 DEF Stores
    <3>3. Shell!Read(a, calls)
      BY <2>3
    <3> HIDE DEF a
    <3> QED BY <1>1, <1>2, <1>3, <3>1, <3>2, <3>3 DEF HoldsConfirmed
  <2> QED BY <1>7, <2>2, <2>3 DEF Shell!SaveSettles
<1> QED BY <1>4, <1>5, <1>6, <1>7

LEMMA SystemChangesKeeps ==
  ASSUME ShellInv, Shell!SystemChanges
  PROVE  ShellInv'
<1>1. /\ Shell!Quiet /\ calls = <<>>
      /\ UNCHANGED <<observers, session, client, rendered, router, area, backend, confirmed,
                     current, cache>>
      /\ StateType /\ SessionInv /\ AreaInv /\ PaintType /\ ThemeInv /\ RouterInv
  BY DEF Shell!SystemChanges, Shell!views, Shell!storage, Shell!Quiet, ShellInv
<1>2. PICK t \in Shell!Themes \ {system} :
        /\ system' = t
        /\ IF current = "system"
           THEN /\ state' = [state EXCEPT !.theme = t]
                /\ IF state.theme = t
                   THEN calls' = calls /\ painted' = t
                   ELSE calls' = <<Shell!Pass(FALSE, FALSE, t)>> /\ UNCHANGED painted
           ELSE UNCHANGED <<state, calls, painted>>
  BY DEF Shell!SystemChanges
<1>3. t \in Shell!Themes /\ t # Shell!Unset /\ t # system
  BY <1>2 DEF Shell!Themes, Shell!Unset
<1>4. CASE current # "system"
  <2>1. UNCHANGED <<state, calls, painted>>
    BY <1>2, <1>4
  <2>2. StateType' /\ PaintType'
    BY <1>1, <1>2, <1>3, <2>1 DEF StateType, PaintType
  <2>3. SessionInv'
    BY <1>1, <2>1, OthersKeepSessions DEF SessionInv
  <2>4. AreaInv'
    BY <1>1, <2>1, OthersKeepArea DEF Stores
  <2>5. ThemeInv'
    BY <1>1, <1>4, <2>1
       DEF ThemeInv, Shell!Resolve, Shell!Selected, Shell!Cached, Shell!Value, Shell!Unreadable,
           Shell!Settled
  <2>6. RouterInv'
    BY <1>1, <2>1 DEF RouterInv, Shell!Mounted, Shell!Context, SessionDue, RouterDue
  <2> QED BY <2>2, <2>3, <2>4, <2>5, <2>6 DEF ShellInv
<1>5. CASE current = "system"
  <2>1. state.theme = system /\ state' = [state EXCEPT !.theme = t]
    BY <1>1, <1>2, <1>5 DEF ThemeInv, Shell!Resolve
  <2>2. calls' = <<Shell!Pass(FALSE, FALSE, t)>> /\ painted' = painted
    BY <1>2, <1>3, <1>5, <2>1
  <2>3. StateType' /\ state'.user = state.user /\ state'.theme = t
    BY <1>1, <1>3, <2>1 DEF StateType
  <2>4. calls' = <<Shell!Pass(FALSE, FALSE, t)>> \o calls
    <3>1. Shell!Pass(FALSE, FALSE, t) \in Passes
      BY <1>1, <1>3 DEF Shell!Pass, Passes, SessionInv, ObserversAre
    <3>2. <<Shell!Pass(FALSE, FALSE, t)>> \in Seq(Passes)
      BY <3>1, OneIs
    <3> QED BY <1>1, <2>2, <3>2, ConcatEmptySeq
  <2>5. /\ StackIs(calls') /\ ~HostDue(calls')
        /\ \A m \in Mounts : SessionDue(calls', m) <=> SessionDue(calls, m)
        /\ \A i \in DOMAIN calls' : calls'[i].paint \in {Shell!Unset, t}
        /\ calls' # <<>> /\ Head(calls').paint = t
        /\ \A m \in Mounts : In(Shell!Router(m), observers) => RouterDue(calls', m)
    BY <1>1, <1>3, <2>4, ReadCalls DEF SessionInv
  <2>6. SessionInv'
    BY <1>1, <2>5, OthersKeepSessions
  <2>7. AreaInv'
    <3>1. ~HostDue(calls)
      BY <1>1, QuietIsDone
    <3> QED BY <1>1, <2>3, <3>1, OthersKeepArea DEF Stores
  <2>8. PaintType'
    BY <1>1, <1>2, <1>3, <2>2 DEF PaintType
  <2>9. ThemeInv'
    BY <1>1, <1>2, <1>3, <1>5, <2>3, <2>5
       DEF ThemeInv, Shell!Resolve, Shell!Selected, Shell!Cached, Shell!Value, Shell!Unreadable,
           Shell!Settled
  <2>10. RouterInv'
    <3>1. \A m \in Shell!Mounted : router[m].client = client[m] => RouterDue(calls', m)
      BY <1>1, <2>5, RouterInUse DEF Shell!Mounted
    <3>2. \A m \in Shell!Mounted' :
            router'[m].client = client'[m] => SessionDue(calls, m)' \/ RouterDue(calls, m)'
      BY <1>1, <3>1 DEF Shell!Mounted
    <3> QED BY <1>1, <3>2 DEF RouterInv
  <2> QED BY <2>3, <2>6, <2>7, <2>8, <2>9, <2>10 DEF ShellInv
<1> QED BY <1>4, <1>5

LEMMA SetSessionKeepsShell ==
  ASSUME ShellInv, Shell!SetSession
  PROVE  ShellInv'
<1>1. /\ Shell!Quiet /\ session < MaxSessions /\ session' = session + 1
      /\ UNCHANGED <<observers, client, rendered, router, area, current, cache, painted, system>>
      /\ StateType /\ SessionInv /\ AreaInv /\ PaintType /\ ThemeInv /\ RouterInv
  BY DEF Shell!SetSession, Shell!views, Shell!theme, ShellInv
<1>2. PICK u \in Users \cup {Nobody}, g \in Groups :
        /\ state' = [user |-> u, groups |-> g, theme |-> state.theme]
        /\ calls' = <<Shell!Pass(u # state.user, TRUE, Shell!Unset)>>
        /\ \/ UNCHANGED <<backend, confirmed>>
           \/ area.pending # Shell!Unset /\ u # state.user /\ Shell!Store(area.of, area.pending)
  BY DEF Shell!SetSession
<1>3. StateType' /\ state'.user = u /\ state'.theme = state.theme
  BY <1>1, <1>2 DEF StateType
<1>4. /\ SessionInv' /\ calls' # <<>> /\ (u # state.user => HostDue(calls'))
      /\ \A m \in Shell!Mounted : SessionDue(calls', m)
      /\ \A j \in DOMAIN calls' : calls'[j].paint = Shell!Unset
  <2>1. (u # state.user) \in BOOLEAN
    OBVIOUS
  <2> QED BY <1>1, <1>2, <2>1, SetSessionKeeps
<1>5. AreaInv'
  <2>1. ~HostDue(calls) /\ Stores
    BY <1>1, <1>2, QuietIsDone DEF Shell!Quiet, Stores
  <2> QED BY <1>1, <1>3, <1>4, <2>1, OthersKeepArea
<1>6. PaintType'
  BY <1>1 DEF PaintType
<1>7. ThemeInv'
  <2>1. painted = state.theme
    BY <1>1 DEF ThemeInv, Shell!Quiet
  <2>2. area.of = state.user
    BY <1>1, AreasAre
  <2> QED BY <1>1, <1>3, <1>4, <2>1, <2>2
          DEF ThemeInv, Shell!Resolve, Shell!Selected, Shell!Cached, Shell!Value, Shell!Unreadable,
           Shell!Settled
<1>8. RouterInv'
  <2>1. \A m \in Shell!Mounted' : SessionDue(calls, m)'
    BY <1>1, <1>4 DEF Shell!Mounted
  <2> QED BY <1>1, <2>1 DEF RouterInv
<1> QED BY <1>3, <1>4, <1>5, <1>6, <1>7, <1>8 DEF ShellInv

\* Somebody has heard: what is painted stays the same.
LEMMA HeardKeepsTheme ==
  ASSUME StackIs(calls), ThemeInv, NEW o, Shell!Hears(o), calls' = Shell!Heard,
         UNCHANGED <<state, area, current, cache, system, painted>>
  PROVE  ThemeInv'
<1>1. /\ StackIs(calls') /\ calls' # <<>> /\ Len(calls') = Len(calls)
      /\ Head(calls) = calls[1] /\ calls # <<>> /\ calls[1] \in Passes
      /\ calls'[1] = [calls[1] EXCEPT !.todo = Tail(@)]
      /\ Head(calls') = calls'[1]
      /\ \A i \in 2 .. Len(calls) : calls'[i] = calls[i]
  BY HeardKeeps
<1>2. calls'[1].paint = calls[1].paint
  BY <1>1 DEF Passes
<1>3. /\ DOMAIN calls = 1 .. Len(calls) /\ DOMAIN calls' = 1 .. Len(calls)
  BY <1>1, ElementsOf DEF StackIs
<1>4. \A i \in DOMAIN calls' : i \in DOMAIN calls /\ calls'[i].paint = calls[i].paint
  <2> TAKE i \in DOMAIN calls'
  <2>1. i # 1 => i \in 2 .. Len(calls)
    BY <1>3
  <2> QED BY <1>1, <1>2, <1>3, <2>1
<1> QED BY <1>1, <1>2, <1>4
   DEF ThemeInv, Shell!Resolve, Shell!Selected, Shell!Cached, Shell!Value, Shell!Unreadable,
       Shell!Settled

LEMMA HostHearsKeeps ==
  ASSUME ShellInv, Shell!HostHears
  PROVE  ShellInv'
<1>1. /\ Shell!Hears(Shell!Runtime)
      /\ UNCHANGED <<observers, session, client, rendered, router, backend, confirmed, system>>
      /\ StateType /\ SessionInv /\ AreaInv /\ PaintType /\ ThemeInv /\ RouterInv
      /\ Stores
  BY DEF Shell!HostHears, Shell!views, ShellInv, Stores
<1>2. CASE Head(calls).identity
  <2>1. /\ Shell!Read(Shell!NoArea(state.user), Shell!Heard)
        /\ Shell!NoArea(state.user) \in Areas /\ Shell!NoArea(state.user).of = state.user
    BY <1>1, <1>2, AreasAre DEF Shell!HostHears
  <2>2. HoldsConfirmed(area)' /\ ~Shell!Unreadable(Shell!NoArea(state.user))
    BY <2>1 DEF Shell!Read, Shell!NoArea, HoldsConfirmed, Shell!Unreadable, Shell!Settled,
                Shell!Preferences, Shell!Unset
  <2> QED BY <1>1, <1>2, <2>1, <2>2, ReadKeeps
<1>3. CASE ~Head(calls).identity
  <2>1. calls' = Shell!Heard /\ UNCHANGED <<state, area, current, cache, painted>>
    BY <1>3 DEF Shell!HostHears, Shell!theme
  <2>2. /\ StackIs(calls')
        /\ HostDue(calls') <=> HostDue(calls)
        /\ \A m \in Mounts : SessionDue(calls', m) <=> SessionDue(calls, m)
        /\ \A m \in Mounts : RouterDue(calls', m) <=> RouterDue(calls, m)
    BY <1>1, <1>3, <2>1, HeardKeeps, HeardIs, ObserversDiffer DEF SessionInv
  <2>3. StateType' /\ PaintType'
    BY <1>1, <2>1 DEF StateType, PaintType
  <2>4. SessionInv'
    BY <1>1, <2>2, OthersKeepSessions
  <2>5. AreaInv'
    BY <1>1, <2>1, <2>2, OthersKeepArea
  <2>6. ThemeInv'
    BY <1>1, <2>1, HeardKeepsTheme DEF SessionInv
  <2>7. RouterInv'
    <3>1. \A m \in Shell!Mounted' :
            m \in Shell!Mounted /\ m \in Mounts /\ Shell!Context(m)' = Shell!Context(m)
      BY <1>1, <2>1 DEF Shell!Mounted, Shell!Context
    <3>2. \A m \in Mounts : SessionDue(calls, m) \/ RouterDue(calls, m) =>
            SessionDue(calls, m)' \/ RouterDue(calls, m)'
      BY <2>2
    <3> QED BY <1>1, <3>1, <3>2 DEF RouterInv
  <2> QED BY <2>3, <2>4, <2>5, <2>6, <2>7 DEF ShellInv
<1> QED BY <1>2, <1>3

LEMMA ReturnKeepsShell ==
  ASSUME ShellInv, Shell!Return
  PROVE  ShellInv'
<1>1. /\ calls # <<>> /\ Head(calls).todo = <<>> /\ calls' = Tail(calls)
      /\ painted' = IF Head(calls).paint = Shell!Unset THEN painted ELSE Head(calls).paint
      /\ UNCHANGED <<state, observers, session, client, rendered, router, area, backend, confirmed,
                     current, cache, system>>
      /\ StateType /\ SessionInv /\ AreaInv /\ PaintType /\ ThemeInv /\ RouterInv /\ StackIs(calls)
  BY DEF Shell!Return, Shell!Quiet, Shell!views, Shell!storage, ShellInv, SessionInv
<1>2. /\ StackIs(calls') /\ Head(calls) = calls[1] /\ calls[1] \in Passes
      /\ HostDue(calls') <=> HostDue(calls)
      /\ \A m \in Mounts :
           /\ SessionDue(calls', m) <=> SessionDue(calls, m)
           /\ RouterDue(calls', m) <=> RouterDue(calls, m)
      /\ \A i \in DOMAIN calls' : calls'[i].paint = Shell!Unset
      /\ 1 \in DOMAIN calls
  BY <1>1, PopKeeps, StackSplits
<1>3. StateType' /\ PaintType' /\ painted' = state.theme
  <2>1. painted' = state.theme
    BY <1>1, <1>2 DEF ThemeInv
  <2>2. painted' \in Shell!Themes
    BY <1>1, <2>1 DEF StateType
  <2> QED BY <1>1, <2>1, <2>2 DEF StateType, PaintType
<1>4. SessionInv'
  BY <1>1, ReturnKeeps
<1>5. AreaInv'
  BY <1>1, <1>2, OthersKeepArea DEF Stores
<1>6. ThemeInv'
  BY <1>1, <1>2, <1>3
     DEF ThemeInv, Shell!Resolve, Shell!Selected, Shell!Cached, Shell!Value, Shell!Unreadable,
         Shell!Settled
<1>7. RouterInv'
  <2>1. \A m \in Shell!Mounted' :
          m \in Shell!Mounted /\ m \in Mounts /\ Shell!Context(m)' = Shell!Context(m)
    BY <1>1 DEF Shell!Mounted, Shell!Context
  <2>2. \A m \in Mounts : SessionDue(calls, m) \/ RouterDue(calls, m) =>
          SessionDue(calls, m)' \/ RouterDue(calls, m)'
    BY <1>2
  <2> QED BY <1>1, <2>1, <2>2 DEF RouterInv
<1> QED BY <1>3, <1>4, <1>5, <1>6, <1>7 DEF ShellInv

\* What mounts and their routers do changes neither the values nor the theme.
LEMMA MountsKeepTheme ==
  ASSUME ShellInv, UNCHANGED <<state, area, backend, confirmed, current, cache, painted, system>>,
         calls' = calls \/ \E o : Shell!Hears(o) /\ o # Shell!Runtime /\ calls' = Shell!Heard
  PROVE  StateType' /\ AreaInv' /\ PaintType' /\ ThemeInv'
<1>1. /\ StateType /\ SessionInv /\ AreaInv /\ PaintType /\ ThemeInv /\ StackIs(calls) /\ Stores
  BY DEF ShellInv, SessionInv, Stores
<1>2. StateType' /\ PaintType'
  BY <1>1 DEF StateType, PaintType
<1>3. HostDue(calls) => HostDue(calls')
  BY <1>1, HeardIs
<1>4. AreaInv'
  BY <1>1, <1>3, OthersKeepArea
<1>5. ThemeInv'
  <2>1. CASE calls' = calls
    BY <1>1, <2>1
       DEF ThemeInv, Shell!Resolve, Shell!Selected, Shell!Cached, Shell!Value, Shell!Unreadable,
           Shell!Settled
  <2>2. CASE \E o : Shell!Hears(o) /\ calls' = Shell!Heard
    BY <1>1, <2>2, HeardKeepsTheme
  <2> QED BY <2>1, <2>2
<1> QED BY <1>2, <1>4, <1>5

LEMMA SessionHearsKeepsShell ==
  ASSUME ShellInv, NEW m \in Mounts, Shell!SessionHears(m)
  PROVE  ShellInv'
<1>1. /\ Shell!Hears(Shell!Session(m)) /\ calls' = Shell!Heard
      /\ UNCHANGED <<state, session, area, backend, confirmed, current, cache, painted, system>>
      /\ SessionInv /\ RouterInv /\ StackIs(calls) /\ ViewsAre
  BY DEF Shell!SessionHears, Shell!storage, Shell!theme, ShellInv, SessionInv
<1>2. StateType' /\ AreaInv' /\ PaintType' /\ ThemeInv'
  BY <1>1, MountsKeepTheme, ObserversDiffer
<1>3. SessionInv'
  BY <1>1, SessionHearsKeeps
<1>4. /\ Head(calls) = calls[1] /\ calls # <<>> /\ 1 \in DOMAIN calls
      /\ In(Shell!Session(m), calls[1].todo)
      /\ \A n \in Mounts : SessionDue(calls', n) <=>
           SessionDue(calls, n) /\ ~(m = n /\ Head(calls).security)
      /\ \A n \in Mounts : RouterDue(calls', n) <=> RouterDue(calls, n)
  BY <1>1, HeardKeeps, HeardIs, ObserversDiffer, StackSplits
<1>5. CASE Head(calls).security /\ m \in Shell!Mounted
  <2>1. PICK ms \in {{}, Inside[m]} :
          /\ client' = [n \in Mounts |-> IF n = m THEN session ELSE IF n \in ms THEN 0 ELSE client[n]]
          /\ Shell!Gone(ms)
    BY <1>5 DEF Shell!SessionHears
  <2>2. /\ rendered' = [n \in Mounts |-> IF n \in ms THEN Shell!NoRouter ELSE rendered[n]]
        /\ router' = [n \in Mounts |-> IF n \in ms THEN Shell!NoRouter ELSE router[n]]
    BY <2>1 DEF Shell!Gone
  <2>3. m \notin ms
    BY <2>1, ShellAssumption DEF Shell!ShellStateAssumption
  <2>4. router'[m].client # client'[m]
    <3>1. client[m] # session
      BY <1>1, <1>4, <1>5 DEF SessionInv, SessionDue
    <3>2. client[m] \in 0 .. session /\ router[m].client <= client[m] /\ session \in Nat
          /\ router[m].client \in Nat
      BY <1>1 DEF ViewsAre, Shell!Contexts
    <3>3. client'[m] = session /\ router'[m] = router[m]
      BY <2>1, <2>2, <2>3
    <3> QED BY <3>1, <3>2, <3>3
  <2>5. ASSUME NEW n \in Mounts, client'[n] # 0, n # m,
               router'[n].client = client'[n], router'[n] # Shell!Context(n)'
        PROVE  SessionDue(calls', n) \/ RouterDue(calls', n)
    <3>1. n \notin ms /\ client'[n] = client[n] /\ router'[n] = router[n]
      BY <2>1, <2>2, <2>5
    <3>2. Shell!Context(n)' = Shell!Context(n)
      BY <1>1, <3>1 DEF Shell!Context
    <3>3. SessionDue(calls, n) \/ RouterDue(calls, n)
      BY <1>1, <2>5, <3>1, <3>2 DEF RouterInv, Shell!Mounted
    <3> QED BY <1>4, <2>5, <3>3
  <2>6. \A n \in Mounts : rendered'[n] = Shell!NoRouter
    BY <1>1, <2>2 DEF RouterInv
  <2>7. \A n \in Shell!Mounted' :
          router'[n].client = client'[n] /\ router'[n] # Shell!Context(n)' =>
            SessionDue(calls, n)' \/ RouterDue(calls, n)'
    BY <2>4, <2>5 DEF Shell!Mounted
  <2> QED BY <1>2, <1>3, <2>6, <2>7 DEF ShellInv, RouterInv
<1>6. CASE ~(Head(calls).security /\ m \in Shell!Mounted)
  <2>1. UNCHANGED <<client, rendered, router>>
    BY <1>6 DEF Shell!SessionHears, Shell!views
  <2>2. ASSUME NEW n \in Shell!Mounted',
               router'[n].client = client'[n], router'[n] # Shell!Context(n)'
        PROVE  SessionDue(calls', n) \/ RouterDue(calls', n)
    <3>1. n \in Mounts /\ n \in Shell!Mounted /\ Shell!Context(n)' = Shell!Context(n)
      BY <1>1, <2>1 DEF Shell!Mounted, Shell!Context
    <3>2. SessionDue(calls, n) \/ RouterDue(calls, n)
      BY <1>1, <2>1, <2>2, <3>1 DEF RouterInv
    <3> QED BY <1>4, <1>6, <3>1, <3>2
  <2>3. \A n \in Shell!Mounted' :
          router'[n].client = client'[n] /\ router'[n] # Shell!Context(n)' =>
            SessionDue(calls, n)' \/ RouterDue(calls, n)'
    BY <2>2
  <2> QED BY <1>1, <1>2, <1>3, <2>1, <2>3 DEF ShellInv, RouterInv
<1> QED BY <1>5, <1>6

LEMMA RouterHearsKeepsShell ==
  ASSUME ShellInv, NEW m \in Mounts, Shell!RouterHears(m)
  PROVE  ShellInv'
<1>1. /\ Shell!Hears(Shell!Router(m)) /\ calls' = Shell!Heard
      /\ UNCHANGED <<state, observers, session, client, rendered, area, backend, confirmed,
                     current, cache, painted, system>>
      /\ router' = IF Head(calls).security \/ router[m] = Shell!NoRouter THEN router
                   ELSE [router EXCEPT ![m] = Shell!Context(m)]
      /\ StateType /\ SessionInv /\ RouterInv /\ StackIs(calls) /\ ViewsAre
  BY DEF Shell!RouterHears, Shell!storage, Shell!theme, ShellInv, SessionInv
<1>2. StateType' /\ AreaInv' /\ PaintType' /\ ThemeInv'
  BY <1>1, MountsKeepTheme, ObserversDiffer
<1>3. SessionInv'
  BY <1>1, RouterHearsKeeps
<1>4. /\ \A n \in Mounts : SessionDue(calls', n) <=> SessionDue(calls, n)
      /\ \A n \in Mounts : RouterDue(calls', n) <=>
           RouterDue(calls, n) /\ ~(m = n /\ ~Head(calls).security)
  BY <1>1, HeardIs, ObserversDiffer
<1>5. ASSUME NEW n \in Shell!Mounted',
             router'[n].client = client'[n], router'[n] # Shell!Context(n)'
      PROVE  SessionDue(calls', n) \/ RouterDue(calls', n)
  <2>1. n \in Mounts /\ n \in Shell!Mounted /\ client[n] # 0 /\ Shell!Context(n)' = Shell!Context(n)
    BY <1>1 DEF Shell!Mounted, Shell!Context
  <2>2. router'[n] = router[n]
    BY <1>1, <1>5, <2>1 DEF ViewsAre
  <2>3. ~(n = m /\ ~Head(calls).security)
    <3>1. CASE n = m /\ ~Head(calls).security /\ router[m] = Shell!NoRouter
      BY <1>1, <1>5, <2>1, <2>2, <3>1 DEF Shell!NoRouter
    <3>2. CASE n = m /\ ~Head(calls).security /\ router[m] # Shell!NoRouter
      BY <1>1, <1>5, <2>1, <3>2 DEF ViewsAre
    <3> QED BY <3>1, <3>2
  <2>4. SessionDue(calls, n) \/ RouterDue(calls, n)
    BY <1>1, <1>5, <2>1, <2>2 DEF RouterInv
  <2> QED BY <1>4, <2>1, <2>3, <2>4
<1>6. \A n \in Shell!Mounted' :
        router'[n].client = client'[n] /\ router'[n] # Shell!Context(n)' =>
          SessionDue(calls, n)' \/ RouterDue(calls, n)'
  BY <1>5
<1> QED BY <1>1, <1>2, <1>3, <1>6 DEF ShellInv, RouterInv

\* Mounts that open and close, and routers that are replaced, outside of any pass.
LEMMA MountsKeepShell ==
  ASSUME ShellInv, NEW m \in Mounts,
         \/ Shell!MountOpens(m) \/ Shell!MountCloses(m)
         \/ Shell!RouterRenders(m) \/ Shell!RouterAttaches(m)
  PROVE  ShellInv'
<1>1. /\ calls = <<>> /\ calls' = calls /\ session' = session
      /\ UNCHANGED <<state, area, backend, confirmed, current, cache, painted, system>>
      /\ StateType /\ SessionInv /\ RouterInv /\ ViewsAre
  BY DEF Shell!MountOpens, Shell!MountCloses, Shell!RouterRenders, Shell!RouterAttaches,
         Shell!Quiet, Shell!storage, Shell!theme, ShellInv, SessionInv
<1>2. StateType' /\ AreaInv' /\ PaintType' /\ ThemeInv'
  BY <1>1, MountsKeepTheme
<1>3. SUFFICES SessionInv' /\ RouterInv'
  BY <1>2 DEF ShellInv
<1>4. \A n \in Shell!Mounted : router[n].client = client[n] => router[n] = Shell!Context(n)
  <2>1. \A n \in Mounts : ~SessionDue(calls, n) /\ ~RouterDue(calls, n)
    BY <1>1, QuietIsDone
  <2> QED BY <1>1, <2>1 DEF RouterInv, Shell!Mounted
<1>5. ASSUME \A n \in Mounts : rendered'[n] = Shell!NoRouter,
             \A n \in Shell!Mounted' : router'[n].client = client'[n] => router'[n] = Shell!Context(n)'
      PROVE  RouterInv'
  BY <1>5 DEF RouterInv
<1>6. CASE Shell!MountOpens(m)
  <2>1. /\ client' = [client EXCEPT ![m] = session] /\ UNCHANGED <<rendered, router>>
        /\ m \notin Shell!Mounted /\ router[m] = Shell!NoRouter /\ session # 0
    BY <1>1, <1>6 DEF Shell!MountOpens, Shell!views, ViewsAre
  <2>2. ASSUME NEW n \in Shell!Mounted', router'[n].client = client'[n]
        PROVE  router'[n] = Shell!Context(n)'
    <3>1. n # m
      BY <1>1, <2>1, <2>2 DEF ViewsAre, Shell!NoRouter
    <3>2. n \in Mounts /\ client'[n] = client[n] /\ n \in Shell!Mounted
      BY <1>1, <2>1, <3>1 DEF ViewsAre, Shell!Mounted
    <3>3. Shell!Context(n)' = Shell!Context(n)
      BY <1>1, <3>2 DEF Shell!Context
    <3> QED BY <1>4, <2>1, <2>2, <3>2, <3>3
  <2>3. RouterInv'
    BY <1>1, <1>5, <2>1, <2>2 DEF RouterInv
  <2> QED BY <1>1, <1>6, <2>3, MountOpensKeeps
<1>7. CASE Shell!MountCloses(m)
  <2> DEFINE ms == {m} \cup Inside[m]
  <2>1. /\ client' = [n \in Mounts |-> IF n \in ms THEN 0 ELSE client[n]]
        /\ rendered' = [n \in Mounts |-> IF n \in ms THEN Shell!NoRouter ELSE rendered[n]]
        /\ router' = [n \in Mounts |-> IF n \in ms THEN Shell!NoRouter ELSE router[n]]
    BY <1>7 DEF Shell!MountCloses, Shell!Gone
  <2> HIDE DEF ms
  <2>2. ASSUME NEW n \in Shell!Mounted', router'[n].client = client'[n]
        PROVE  router'[n] = Shell!Context(n)'
    <3>1. n \in Mounts /\ client'[n] = client[n] /\ router'[n] = router[n] /\ n \in Shell!Mounted
      BY <2>1 DEF Shell!Mounted
    <3>2. Shell!Context(n)' = Shell!Context(n)
      BY <1>1, <3>1 DEF Shell!Context
    <3> QED BY <1>4, <2>2, <3>1, <3>2
  <2>3. RouterInv'
    BY <1>1, <1>5, <2>1, <2>2 DEF RouterInv
  <2> QED BY <1>1, <1>7, <2>3, MountClosesKeeps
<1>8. CASE Shell!RouterRenders(m)
  <2>1. /\ Shell!Quiet /\ Shell!Replaceable(m) /\ Shell!Attached(m, Shell!Context(m)) /\ client' = client
    BY <1>8 DEF Shell!RouterRenders
  <2>2. /\ router' = [router EXCEPT ![m] = Shell!Context(m)]
        /\ rendered' = [rendered EXCEPT ![m] = Shell!NoRouter]
    BY <2>1 DEF Shell!Attached
  <2>3. \A n \in Mounts : Shell!Context(n)' = Shell!Context(n)
    BY <1>1, <2>1 DEF Shell!Context
  <2>4. \A n \in Shell!Mounted' : router'[n].client = client'[n] => router'[n] = Shell!Context(n)'
    <3>1. Shell!Mounted' = Shell!Mounted /\ Shell!Mounted \subseteq Mounts
      BY <2>1 DEF Shell!Mounted
    <3> QED BY <1>1, <1>4, <2>1, <2>2, <2>3, <3>1 DEF ViewsAre
  <2>5. RouterInv'
    BY <1>1, <1>5, <2>2, <2>4 DEF RouterInv, ViewsAre
  <2>6. SessionInv'
    BY <1>1, <2>1, RouterRendersKeeps
  <2> QED BY <2>5, <2>6
<1>9. CASE Shell!RouterAttaches(m)
  BY <1>1, <1>9 DEF Shell!RouterAttaches, RouterInv
<1> QED BY <1>6, <1>7, <1>8, <1>9

LEMMA ShellKeeps == ShellInv /\ [Shell!Next]_(Shell!vars) => ShellInv'
<1> SUFFICES ASSUME ShellInv, [Shell!Next]_(Shell!vars) PROVE ShellInv'
  OBVIOUS
<1>1. CASE Shell!LoadSettles \/ Shell!LoadAgain \/ Shell!Save \/ Shell!SaveSettles
  BY <1>1, AreaEventsKeep
<1>2. CASE Shell!SystemChanges
  BY <1>2, SystemChangesKeeps
<1>3. CASE Shell!SetSession
  BY <1>3, SetSessionKeepsShell
<1>4. CASE Shell!SetTheme
  BY <1>4 DEF Shell!SetTheme
<1>5. CASE Shell!HostHears
  BY <1>5, HostHearsKeeps
<1>6. CASE Shell!Return
  BY <1>6, ReturnKeepsShell
<1>7. CASE \E m \in Mounts : Shell!SessionHears(m)
  BY <1>7, SessionHearsKeepsShell
<1>8. CASE \E m \in Mounts : Shell!RouterHears(m)
  BY <1>8, RouterHearsKeepsShell
<1>9. CASE \E m \in Mounts : \/ Shell!MountOpens(m) \/ Shell!MountCloses(m)
                             \/ Shell!RouterRenders(m) \/ Shell!RouterAttaches(m)
  BY <1>9, MountsKeepShell
<1>10. CASE UNCHANGED Shell!vars
  <2>1. /\ UNCHANGED <<state, calls, observers, session, client, rendered, router, area, backend,
                       confirmed, current, cache, painted, system>>
        /\ SessionInv /\ RouterInv
    BY <1>10 DEF Shell!vars, Shell!views, Shell!storage, Shell!theme, ShellInv
  <2>2. StateType' /\ AreaInv' /\ PaintType' /\ ThemeInv'
    BY <2>1, MountsKeepTheme
  <2>3. SessionInv'
    BY <2>1, OthersKeepSessions DEF SessionInv
  <2>4. RouterInv'
    BY <2>1 DEF RouterInv, Shell!Mounted, Shell!Context, SessionDue, RouterDue
  <2> QED BY <2>2, <2>3, <2>4 DEF ShellInv
<1> QED BY <1>1, <1>2, <1>3, <1>4, <1>5, <1>6, <1>7, <1>8, <1>9, <1>10 DEF Shell!Next

LEMMA ShellBegins == Shell!Init => ShellInv
<1> SUFFICES ASSUME Shell!Init PROVE ShellInv
  OBVIOUS
<1>1. /\ system = "light" /\ calls = <<>> /\ observers = <<Shell!Runtime>> /\ session = 1
      /\ client = [m \in Mounts |-> 0]
      /\ rendered = [m \in Mounts |-> Shell!NoRouter] /\ router = [m \in Mounts |-> Shell!NoRouter]
      /\ area = Shell!NoArea(state.user)
      /\ backend \in [Users -> {Shell!Unset, Shell!Invalid}] /\ confirmed = [u \in Users |-> {}]
      /\ current = "system" /\ cache = [u \in Users |-> Shell!Unset] /\ painted = "light"
  BY DEF Shell!Init
<1>2. StateType /\ state.theme = "light"
  BY DEF Shell!Init, StateType, Shell!Themes
<1>3. Shell!Mounted = {}
  BY <1>1 DEF Shell!Mounted
<1>4. ObserversAre
  <2>1. Shell!Runtime \in Observers
    BY ObserversDiffer
  <2>2. /\ <<Shell!Runtime>> \in Seq(Observers) /\ DOMAIN <<Shell!Runtime>> = {1}
        /\ <<Shell!Runtime>>[1] = Shell!Runtime
    BY <2>1, OneIs
  <2>3. \A i \in DOMAIN observers : i = 1 /\ observers[i] = Shell!Runtime
    BY <1>1, <2>2
  <2>4. In(Shell!Runtime, observers) /\ Distinct(observers)
    BY <1>1, <2>2, <2>3 DEF In, Distinct
  <2>5. \A m \in Mounts : ~In(Shell!Session(m), observers)
    BY <2>3, ObserversDiffer DEF In
  <2> QED BY <1>1, <1>3, <2>2, <2>4, <2>5 DEF ObserversAre
<1>5. ViewsAre
  <2>1. Shell!NoRouter \in Shell!Contexts /\ Shell!NoRouter.client = 0
    BY <1>1 DEF Shell!NoRouter, Shell!Contexts
  <2>2. session \in 1 .. MaxSessions
    BY <1>1, ShellAssumption DEF Shell!ShellStateAssumption
  <2> QED BY <1>1, <2>1, <2>2 DEF ViewsAre
<1>6. SessionInv
  BY <1>1, <1>3, <1>4, <1>5, QuietIsDone DEF SessionInv
<1>7. AreaInv
  <2>1. area \in Areas /\ area.of = state.user /\ area.row = Shell!Unset /\ area.pending = Shell!Unset
    BY <1>1, <1>2 DEF Shell!NoArea, Areas, StateType, Shell!Rows
  <2> QED BY <1>1, <2>1
          DEF AreaInv, StoresAre, HoldsConfirmed, Shell!CacheIsConfirmed, Shell!Rows,
              Shell!Preferences, Shell!Unset
<1>8. PaintType
  BY <1>1 DEF PaintType, Shell!Preferences, Shell!Themes
<1>9. ThemeInv
  <2>1. current = Shell!Selected(area, state.user)
    BY <1>1, <1>2 DEF Shell!Selected, Shell!NoArea, Shell!Cached, StateType
  <2>2. DOMAIN calls = {}
    BY <1>1, EmptySeq
  <2> QED BY <1>1, <1>2, <2>1, <2>2 DEF ThemeInv, Shell!Resolve
<1>10. RouterInv
  BY <1>1, <1>3 DEF RouterInv
<1> QED BY <1>2, <1>6, <1>7, <1>8, <1>9, <1>10 DEF ShellInv

\* A router is made for a session there was.
MadeInv == madeFor \in [Mounts -> 0 .. session]

\* What does not change it.
MadeStays == UNCHANGED madeFor /\ session' \in {session, session + 1}

LEMMA MadeKeeps ==
  ASSUME MadeInv, StateType, ViewsAre,
         \/ MadeStays
         \/ session' = session /\ \E ms \in SUBSET Mounts : Shell!Gone(ms)
         \/ session' = session /\ \E m \in Mounts, c \in Shell!Contexts : Shell!Attached(m, c)
  PROVE  MadeInv'
<1>1. session \in Nat
  BY DEF ViewsAre
<1>2. CASE MadeStays
  BY <1>1, <1>2 DEF MadeStays, MadeInv
<1>3. CASE session' = session /\ \E ms \in SUBSET Mounts : Shell!Gone(ms)
  BY <1>1, <1>3 DEF Shell!Gone, MadeInv
<1>4. CASE session' = session /\ \E m \in Mounts, c \in Shell!Contexts : Shell!Attached(m, c)
  <2>1. PICK m \in Mounts, c \in Shell!Contexts : madeFor' = [madeFor EXCEPT ![m] = c.client]
    BY <1>4 DEF Shell!Attached
  <2>2. c.client \in 0 .. session
    BY DEF Shell!Contexts
  <2> QED BY <1>4, <2>1, <2>2 DEF MadeInv
<1> QED BY <1>2, <1>3, <1>4

\* What mounts and their routers do.
LEMMA MountsKeepMade ==
  ASSUME MadeInv, StateType, ViewsAre, NEW m \in Mounts,
         \/ Shell!SessionHears(m) \/ Shell!RouterHears(m)
         \/ Shell!MountOpens(m) \/ Shell!MountCloses(m)
         \/ Shell!RouterRenders(m) \/ Bare!RouterRenders(m) \/ Shell!RouterAttaches(m)
  PROVE  MadeInv'
<1>1. Inside[m] \in SUBSET Mounts
  BY ShellAssumption DEF Shell!ShellStateAssumption
<1>2. Shell!Context(m) \in Shell!Contexts /\ rendered[m] \in Shell!Contexts
  BY ContextIs DEF ViewsAre
<1>3. CASE Shell!SessionHears(m)
  <2>1. session' = session /\ (madeFor' = madeFor \/ \E ms \in {{}, Inside[m]} : Shell!Gone(ms))
    BY <1>3 DEF Shell!SessionHears, Shell!views
  <2> QED BY <1>1, <2>1, MadeKeeps DEF MadeStays
<1>4. CASE Shell!RouterHears(m) \/ Shell!MountOpens(m)
  BY <1>4, MadeKeeps DEF MadeStays, Shell!RouterHears, Shell!MountOpens, Shell!views
<1>5. CASE Shell!MountCloses(m)
  <2>1. session' = session /\ Shell!Gone({m} \cup Inside[m])
    BY <1>5 DEF Shell!MountCloses
  <2> QED BY <1>1, <2>1, MadeKeeps
<1>6. CASE Shell!RouterRenders(m)
  <2>1. session' = session /\ (madeFor' = madeFor \/ Shell!Attached(m, Shell!Context(m)))
    BY <1>6 DEF Shell!RouterRenders
  <2> QED BY <1>2, <2>1, MadeKeeps DEF MadeStays
<1>7. CASE Bare!RouterRenders(m)
  BY <1>7, MadeKeeps DEF MadeStays, Bare!RouterRenders
<1>8. CASE Shell!RouterAttaches(m)
  <2>1. session' = session /\ Shell!Attached(m, rendered[m])
    BY <1>8 DEF Shell!RouterAttaches
  <2> QED BY <1>2, <2>1, MadeKeeps
<1> QED BY <1>3, <1>4, <1>5, <1>6, <1>7, <1>8

\* Of either shell.
LEMMA PartsAreRight ==
  ASSUME StateType, SessionInv, AreaInv, PaintType, MadeInv
  PROVE  Shell!TypeOK /\ Shell!SessionsAreCurrent /\ Shell!CacheIsConfirmed
<1>1. Shell!TypeOK
  BY DEF Shell!TypeOK, StateType, SessionInv, ViewsAre, AreaInv, Areas, StoresAre, PaintType, MadeInv
<1>2. Shell!SessionsAreCurrent
  <2>1. Shell!Quiet => \A m \in Shell!Mounted : client[m] = session
    BY SessionsAreKnown
  <2>2. \A m \in Shell!Mounted : In(Shell!Session(m), observers)
    BY DEF SessionInv, ObserversAre, Shell!Mounted
  <2> QED BY <2>1, <2>2 DEF Shell!SessionsAreCurrent, In
<1> QED BY <1>1, <1>2 DEF AreaInv

LEMMA ShellIsCurrent == ShellInv /\ MadeInv => Shell!PageIsCurrent
<1> SUFFICES ASSUME ShellInv, MadeInv PROVE Shell!PageIsCurrent
  OBVIOUS
<1>1. Shell!TypeOK /\ Shell!SessionsAreCurrent /\ Shell!CacheIsConfirmed
  BY PartsAreRight DEF ShellInv
<1>2. Shell!ThemeIsTheUsers
  <2> SUFFICES ASSUME Shell!Quiet
               PROVE  /\ area.of = state.user /\ painted = state.theme
                      /\ state.theme = Shell!Resolve(Shell!Selected(area, state.user))
    BY DEF Shell!ThemeIsTheUsers
  <2>1. area.of = state.user
    BY AreasAre DEF ShellInv
  <2> QED BY <2>1 DEF ShellInv, ThemeInv, Shell!Quiet
<1>3. Shell!CallbacksSeeCurrent
  <2> SUFFICES ASSUME Shell!Quiet, NEW m \in Shell!Mounted, router[m].client = client[m]
               PROVE  router[m] = Shell!Context(m)
    BY DEF Shell!CallbacksSeeCurrent
  <2>1. ~SessionDue(calls, m) /\ ~RouterDue(calls, m)
    BY QuietIsDone DEF Shell!Quiet, Shell!Mounted
  <2> QED BY <2>1 DEF ShellInv, RouterInv
<1> QED BY <1>1, <1>2, <1>3 DEF Shell!PageIsCurrent, Shell!Consistent

-----------------------------------------------------------------------------
(* A shell that sets the theme itself, and late effects *)

BareInv == StateType /\ SessionInv /\ AreaInv /\ PaintType

\* What does not depend on the theme is the same.
LEMMA SameActions ==
  /\ Bare!Init => Shell!Init
  /\ Bare!Return => Shell!Return
  /\ \A m \in Mounts :
       /\ Bare!SessionHears(m) => Shell!SessionHears(m)
       /\ Bare!RouterHears(m) => Shell!RouterHears(m)
       /\ Bare!MountOpens(m) => Shell!MountOpens(m)
       /\ Bare!MountCloses(m) => Shell!MountCloses(m)
       /\ Bare!RouterAttaches(m) => Shell!RouterAttaches(m)
<1> USE DEF Bare!NoRouter, Shell!NoRouter, Bare!Unset, Shell!Unset, Bare!Runtime, Shell!Runtime,
            Bare!Session, Shell!Session, Bare!Router, Shell!Router, Bare!Quiet, Shell!Quiet,
            Bare!Mounted, Shell!Mounted, Bare!views, Shell!views, Bare!storage, Shell!storage,
            Bare!theme, Shell!theme, Bare!Hears, Shell!Hears, Bare!Heard, Shell!Heard
<1>1. Bare!Init => Shell!Init
  BY DEF Bare!Init, Shell!Init, Bare!NoArea, Shell!NoArea, Bare!Invalid, Shell!Invalid
<1>2. Bare!Return => Shell!Return
  BY DEF Bare!Return, Shell!Return
<1>3. \A out : Bare!Without(out) = Shell!Without(out)
  BY DEF Bare!Without, Shell!Without, Bare!FlattenSeq, Shell!FlattenSeq
<1>4. \A ms : Bare!Gone(ms) => Shell!Gone(ms)
  BY <1>3 DEF Bare!Gone, Shell!Gone
<1>5. \A m \in Mounts : Bare!SessionHears(m) => Shell!SessionHears(m)
  BY <1>4 DEF Bare!SessionHears, Shell!SessionHears
<1>6. \A m \in Mounts : Bare!RouterHears(m) => Shell!RouterHears(m)
  BY DEF Bare!RouterHears, Shell!RouterHears, Bare!Context, Shell!Context
<1>7. \A m \in Mounts : Bare!MountOpens(m) => Shell!MountOpens(m)
  BY DEF Bare!MountOpens, Shell!MountOpens
<1>8. \A m \in Mounts : Bare!MountCloses(m) => Shell!MountCloses(m)
  BY <1>4 DEF Bare!MountCloses, Shell!MountCloses
<1>9. \A m \in Mounts : Bare!RouterAttaches(m) => Shell!RouterAttaches(m)
  BY <1>3 DEF Bare!RouterAttaches, Shell!RouterAttaches, Bare!Attached, Shell!Attached
<1> QED BY <1>1, <1>2, <1>5, <1>6, <1>7, <1>8, <1>9

\* Every step of either shell.
LEMMA StepsKeepMade ==
  ASSUME MadeInv, StateType, ViewsAre, [Shell!Next]_(Shell!vars) \/ [Bare!Next]_(Bare!vars)
  PROVE  MadeInv'
<1>1. CASE \/ Shell!SystemChanges \/ Shell!LoadSettles \/ Shell!LoadAgain \/ Shell!Save
           \/ Shell!SaveSettles \/ Shell!SetSession \/ Shell!SetTheme \/ Shell!HostHears
           \/ Shell!Return
  BY <1>1, MadeKeeps
     DEF MadeStays, Shell!SystemChanges, Shell!LoadSettles, Shell!LoadAgain, Shell!Save,
         Shell!SaveSettles, Shell!SetSession, Shell!SetTheme, Shell!HostHears, Shell!Return, Shell!views
<1>2. CASE \/ Bare!SystemChanges \/ Bare!LoadSettles \/ Bare!LoadAgain \/ Bare!Save
           \/ Bare!SaveSettles \/ Bare!SetSession \/ Bare!SetTheme \/ Bare!HostHears
           \/ Bare!Return
  BY <1>2, MadeKeeps
     DEF MadeStays, Bare!SystemChanges, Bare!LoadSettles, Bare!LoadAgain, Bare!Save,
         Bare!SaveSettles, Bare!SetSession, Bare!SetTheme, Bare!HostHears, Bare!Return, Bare!views
<1>3. CASE \E m \in Mounts :
             \/ Shell!SessionHears(m) \/ Shell!RouterHears(m) \/ Shell!MountOpens(m)
             \/ Shell!MountCloses(m) \/ Shell!RouterRenders(m) \/ Shell!RouterAttaches(m)
  BY <1>3, MountsKeepMade
<1>4. CASE \E m \in Mounts :
             \/ Bare!SessionHears(m) \/ Bare!RouterHears(m) \/ Bare!MountOpens(m)
             \/ Bare!MountCloses(m) \/ Bare!RouterRenders(m) \/ Bare!RouterAttaches(m)
  BY <1>4, SameActions, MountsKeepMade
<1>5. CASE UNCHANGED Shell!vars \/ UNCHANGED Bare!vars
  BY <1>5, MadeKeeps DEF MadeStays, Shell!vars, Shell!views, Bare!vars, Bare!views
<1> QED BY <1>1, <1>2, <1>3, <1>4, <1>5 DEF Shell!Next, Bare!Next

LEMMA BareReadKeeps ==
  ASSUME BareInv, NEW a \in Areas, a.of = state.user, NEW passes,
         \/ passes = calls /\ Shell!Quiet
         \/ passes = Shell!Heard /\ Shell!Hears(Shell!Runtime) /\ Head(calls).identity,
         Bare!Read(a, passes), Stores, HoldsConfirmed(area)',
         UNCHANGED <<observers, session, client, rendered, router, system>>
  PROVE  BareInv'
<1>1. area' = a /\ calls' = passes /\ UNCHANGED <<state, current, cache, painted>>
  BY DEF Bare!Read, Bare!theme
<1>2. /\ StackIs(calls') /\ ~HostDue(calls')
      /\ \A m \in Mounts : SessionDue(calls', m) <=> SessionDue(calls, m)
  BY <1>1, ReadCalls DEF BareInv, SessionInv
<1>3. StateType' /\ PaintType'
  BY <1>1 DEF BareInv, StateType, PaintType
<1>4. SessionInv'
  BY <1>2, OthersKeepSessions DEF BareInv
<1>5. AreaInv'
  BY <1>1, <1>2, ReadKeepsArea DEF BareInv
<1> QED BY <1>3, <1>4, <1>5 DEF BareInv

LEMMA BareAreaKeeps ==
  ASSUME BareInv, Bare!LoadSettles \/ Bare!LoadAgain \/ Bare!SaveSettles
  PROVE  BareInv'
<1> USE DEF Bare!Unset, Shell!Unset, Bare!Quiet, Shell!Quiet
<1>1. /\ StateType /\ AreaInv /\ area \in Areas /\ HoldsConfirmed(area) /\ Shell!Quiet
      /\ UNCHANGED <<observers, session, client, rendered, router, system>>
  BY DEF BareInv, AreaInv, Bare!LoadSettles, Bare!LoadAgain, Bare!SaveSettles, Bare!views
<1>2. /\ Shell!NoArea(state.user) \in Areas /\ Shell!NoArea(state.user).of = state.user
      /\ area.of = state.user
      /\ Shell!Held(area.of) \in Shell!Rows
      /\ Shell!Held(area.of) \in Shell!Preferences =>
           area.of \in Users /\ Shell!Held(area.of) \in confirmed[area.of]
  BY <1>1, AreasAre
<1>3. ASSUME NEW a \in Areas, a.of = state.user, Bare!Read(a, calls), Stores,
             a.row \in Shell!Preferences => a.of \in Users /\ a.row \in confirmed'[a.of],
             a.pending # Shell!Unset => a.of \in Users
      PROVE  BareInv'
  <2>1. area' = a
    BY <1>3 DEF Bare!Read
  <2>2. HoldsConfirmed(area)'
    BY <1>3, <2>1 DEF HoldsConfirmed
  <2> QED BY <1>1, <1>3, <2>2, BareReadKeeps
<1>4. CASE Bare!LoadSettles
  <2>1. Stores /\ confirmed' = confirmed
    BY <1>4 DEF Bare!LoadSettles, Stores
  <2>2. CASE Bare!Read([area EXCEPT !.phase = "ready", !.row = Bare!Held(area.of)], calls)
    <3> DEFINE a == [area EXCEPT !.phase = "ready", !.row = Shell!Held(area.of)]
    <3>1. /\ a \in Areas /\ a.of = area.of /\ a.row = Shell!Held(area.of) /\ a.pending = area.pending
      BY <1>1, <1>2 DEF Areas
    <3>2. Bare!Read(a, calls)
      BY <2>2 DEF Bare!Held, Shell!Held
    <3> HIDE DEF a
    <3> QED BY <1>1, <1>2, <1>3, <2>1, <3>1, <3>2 DEF HoldsConfirmed
  <2>3. CASE Bare!Read([area EXCEPT !.phase = "error"], calls)
    <3> DEFINE a == [area EXCEPT !.phase = "error"]
    <3>1. a \in Areas /\ a.of = area.of /\ a.row = area.row /\ a.pending = area.pending
      BY <1>1 DEF Areas
    <3>2. Bare!Read(a, calls)
      BY <2>3
    <3> HIDE DEF a
    <3> QED BY <1>1, <1>2, <1>3, <2>1, <3>1, <3>2 DEF HoldsConfirmed
  <2> QED BY <1>4, <2>2, <2>3 DEF Bare!LoadSettles
<1>5. CASE Bare!LoadAgain
  <2>1. Stores /\ confirmed' = confirmed /\ Bare!Read(Shell!NoArea(state.user), calls)
    BY <1>2, <1>5 DEF Bare!LoadAgain, Stores, Bare!NoArea, Shell!NoArea
  <2>2. Shell!NoArea(state.user).row = Shell!Unset /\ Shell!NoArea(state.user).pending = Shell!Unset
    BY DEF Shell!NoArea
  <2>3. Shell!Unset \notin Shell!Preferences
    BY DEF Shell!Unset, Shell!Preferences
  <2> QED BY <1>2, <1>3, <2>1, <2>2, <2>3
<1>6. CASE Bare!SaveSettles
  <2>1. area.pending # Shell!Unset /\ area.of \in Users /\ area.pending \in Shell!Preferences
    BY <1>1, <1>6 DEF Bare!SaveSettles, HoldsConfirmed, Areas
  <2>2. CASE /\ Bare!Read([area EXCEPT !.row = area.pending, !.pending = Bare!Unset], calls)
             /\ Bare!Store(area.of, area.pending)
    <3> DEFINE a == [area EXCEPT !.row = area.pending, !.pending = Shell!Unset]
    <3>1. a \in Areas /\ a.of = area.of /\ a.row = area.pending /\ a.pending = Shell!Unset
      BY <1>1, <2>1 DEF Areas, Shell!Rows
    <3>2. Stores
      BY <2>1, <2>2 DEF Stores, Bare!Store, Shell!Store
    <3>3. area.pending \in confirmed'[area.of]
      BY <1>1, <2>1, <2>2 DEF Bare!Store, AreaInv, StoresAre
    <3>4. Bare!Read(a, calls)
      BY <2>2
    <3> HIDE DEF a
    <3> QED BY <1>2, <1>3, <2>1, <3>1, <3>2, <3>3, <3>4
  <2>3. CASE /\ Bare!Read([area EXCEPT !.pending = Bare!Unset, !.failed = TRUE], calls)
             /\ UNCHANGED <<backend, confirmed>>
    <3> DEFINE a == [area EXCEPT !.pending = Shell!Unset, !.failed = TRUE]
    <3>1. a \in Areas /\ a.of = area.of /\ a.row = area.row /\ a.pending = Shell!Unset
      BY <1>1 DEF Areas
    <3>2. Stores /\ confirmed' = confirmed
      BY <2>3 DEF Stores
    <3>3. Bare!Read(a, calls)
      BY <2>3
    <3> HIDE DEF a
    <3> QED BY <1>1, <1>2, <1>3, <3>1, <3>2, <3>3 DEF HoldsConfirmed
  <2> QED BY <1>6, <2>2, <2>3 DEF Bare!SaveSettles
<1> QED BY <1>4, <1>5, <1>6

LEMMA BareChangesKeep ==
  ASSUME BareInv, Bare!SetSession \/ Bare!SetTheme
  PROVE  BareInv'
<1> USE DEF Bare!Unset, Shell!Unset, Bare!Quiet, Shell!Quiet
<1>1. /\ Shell!Quiet /\ StateType /\ SessionInv /\ AreaInv /\ PaintType
      /\ UNCHANGED <<observers, client, rendered, router, area, current, cache, painted, system>>
  BY DEF Bare!SetSession, Bare!SetTheme, Bare!views, Bare!theme, Bare!storage, BareInv
<1>2. PaintType' /\ ~HostDue(calls)
  BY <1>1, QuietIsDone DEF PaintType
<1>3. CASE Bare!SetSession
  <2>1. PICK u \in Users \cup {Nobody}, g \in Groups, t \in Shell!Themes :
          /\ state' = [user |-> u, groups |-> g, theme |-> t]
          /\ calls' = <<Shell!Pass(u # state.user, TRUE, Shell!Unset)>>
          /\ \/ UNCHANGED <<backend, confirmed>>
             \/ area.pending # Shell!Unset /\ u # state.user /\ Shell!Store(area.of, area.pending)
    BY <1>3 DEF Bare!SetSession, Bare!Pass, Shell!Pass, Bare!Store, Shell!Store, Bare!Themes, Shell!Themes
  <2>2. StateType' /\ state'.user = u
    BY <2>1 DEF StateType
  <2>3. session < MaxSessions /\ session' = session + 1 /\ (u # state.user) \in BOOLEAN
    BY <1>3 DEF Bare!SetSession
  <2>4. SessionInv' /\ (u # state.user => HostDue(calls'))
    BY <1>1, <2>1, <2>3, SetSessionKeeps
  <2>5. AreaInv'
    <3>1. Stores
      BY <2>1 DEF Stores
    <3> QED BY <1>1, <1>2, <2>2, <2>4, <3>1, OthersKeepArea
  <2> QED BY <1>2, <2>2, <2>4, <2>5 DEF BareInv
<1>4. CASE Bare!SetTheme
  <2>1. PICK t \in Shell!Themes : state' = [state EXCEPT !.theme = t]
    BY <1>4 DEF Bare!SetTheme, Bare!Themes, Shell!Themes
  <2>2. /\ calls' = <<Shell!Pass(FALSE, FALSE, Shell!Unset)>>
        /\ UNCHANGED <<session, backend, confirmed>>
    BY <1>4 DEF Bare!SetTheme, Bare!Pass, Shell!Pass, Bare!storage
  <2>3. StateType' /\ state'.user = state.user
    BY <1>1, <2>1 DEF StateType
  <2>4. calls' = <<Shell!Pass(FALSE, FALSE, Shell!Unset)>> \o calls
    <3>1. Shell!Pass(FALSE, FALSE, Shell!Unset) \in Passes
      BY <1>1 DEF Shell!Pass, Passes, SessionInv, ObserversAre
    <3>2. <<Shell!Pass(FALSE, FALSE, Shell!Unset)>> \in Seq(Passes)
      BY <3>1, OneIs
    <3> QED BY <1>1, <2>2, <3>2, ConcatEmptySeq
  <2>5. /\ StackIs(calls')
        /\ \A m \in Mounts : SessionDue(calls', m) <=> SessionDue(calls, m)
    BY <1>1, <2>4, ReadCalls DEF SessionInv
  <2>6. SessionInv'
    BY <1>1, <2>2, <2>5, OthersKeepSessions
  <2>7. AreaInv'
    BY <1>1, <1>2, <2>2, <2>3, OthersKeepArea DEF Stores
  <2> QED BY <1>2, <2>3, <2>6, <2>7 DEF BareInv
<1> QED BY <1>3, <1>4

LEMMA BareHostKeeps ==
  ASSUME BareInv, Bare!HostHears
  PROVE  BareInv'
<1> USE DEF Bare!Unset, Shell!Unset, Bare!Quiet, Shell!Quiet, Bare!Runtime, Shell!Runtime
<1>1. /\ Shell!Hears(Shell!Runtime)
      /\ UNCHANGED <<observers, session, client, rendered, router, backend, confirmed, system>>
      /\ StateType /\ SessionInv /\ AreaInv /\ PaintType /\ Stores
  BY DEF Bare!HostHears, Bare!Hears, Shell!Hears, Bare!views, BareInv, Stores
<1>2. CASE Head(calls).identity
  <2>1. /\ Bare!Read(Shell!NoArea(state.user), Shell!Heard)
        /\ Shell!NoArea(state.user) \in Areas /\ Shell!NoArea(state.user).of = state.user
    BY <1>1, <1>2, AreasAre DEF Bare!HostHears, Bare!NoArea, Shell!NoArea, Bare!Heard, Shell!Heard
  <2>2. HoldsConfirmed(area)'
    BY <2>1 DEF Bare!Read, Shell!NoArea, HoldsConfirmed, Shell!Preferences, Shell!Unset
  <2> QED BY <1>1, <1>2, <2>1, <2>2, BareReadKeeps
<1>3. CASE ~Head(calls).identity
  <2>1. calls' = Shell!Heard /\ UNCHANGED <<state, area, current, cache, painted>>
    BY <1>3 DEF Bare!HostHears, Bare!theme, Bare!Heard, Shell!Heard
  <2>2. /\ StackIs(calls')
        /\ HostDue(calls') <=> HostDue(calls)
        /\ \A m \in Mounts : SessionDue(calls', m) <=> SessionDue(calls, m)
    BY <1>1, <1>3, <2>1, HeardKeeps, HeardIs, ObserversDiffer DEF SessionInv
  <2>3. StateType' /\ PaintType'
    BY <1>1, <2>1 DEF StateType, PaintType
  <2>4. SessionInv'
    BY <1>1, <2>2, OthersKeepSessions
  <2>5. AreaInv'
    BY <1>1, <2>1, <2>2, OthersKeepArea
  <2> QED BY <2>3, <2>4, <2>5 DEF BareInv
<1> QED BY <1>2, <1>3

\* Mounts and routers do not touch the values.
LEMMA BareMountsKeep ==
  ASSUME BareInv, NEW m \in Mounts,
         \/ Shell!SessionHears(m) \/ Shell!RouterHears(m)
         \/ Shell!MountOpens(m) \/ Shell!MountCloses(m) \/ Shell!RouterAttaches(m)
         \/ Bare!RouterRenders(m)
  PROVE  BareInv'
<1>1. /\ UNCHANGED <<state, area, backend, confirmed, current, cache, painted, system>>
      /\ StateType /\ SessionInv /\ AreaInv /\ PaintType /\ Stores
  BY DEF Shell!SessionHears, Shell!RouterHears, Shell!MountOpens, Shell!MountCloses,
         Shell!RouterAttaches, Bare!RouterRenders, Shell!storage, Shell!theme, Bare!storage,
         Bare!theme, BareInv, Stores
<1>2. StateType' /\ PaintType'
  BY <1>1 DEF StateType, PaintType
<1>3. HostDue(calls) => HostDue(calls')
  <2>1. CASE Shell!SessionHears(m)
    BY <1>1, <2>1, HeardIs, ObserversDiffer DEF Shell!SessionHears, SessionInv
  <2>2. CASE Shell!RouterHears(m)
    BY <1>1, <2>2, HeardIs, ObserversDiffer DEF Shell!RouterHears, SessionInv
  <2>3. CASE calls' = calls
    BY <2>3
  <2> QED BY <2>1, <2>2, <2>3
          DEF Shell!MountOpens, Shell!MountCloses, Shell!RouterAttaches, Bare!RouterRenders
<1>4. AreaInv'
  BY <1>1, <1>2, <1>3, OthersKeepArea
<1>5. SessionInv'
  <2>1. CASE Bare!RouterRenders(m)
    <3>1. Shell!Quiet /\ Shell!Replaceable(m) /\ UNCHANGED <<calls, session, client>>
      BY <2>1 DEF Bare!RouterRenders, Bare!Quiet, Shell!Quiet, Bare!Replaceable, Shell!Replaceable,
                  Bare!Mounted, Shell!Mounted
    <3>2. rendered' = [rendered EXCEPT ![m] = Shell!Context(m)] /\ UNCHANGED <<observers, router>>
      BY <2>1 DEF Bare!RouterRenders, Bare!Context, Shell!Context
    <3> QED BY <1>1, <3>1, <3>2, RouterRendersKeeps
  <2>2. CASE ~Bare!RouterRenders(m)
    BY <1>1, <2>2, SessionHearsKeeps, RouterHearsKeeps, MountOpensKeeps, MountClosesKeeps,
       RouterAttachesKeeps
  <2> QED BY <2>1, <2>2
<1> QED BY <1>2, <1>4, <1>5 DEF BareInv

LEMMA BareReturnKeeps ==
  ASSUME BareInv, Shell!Return
  PROVE  BareInv'
<1>1. /\ UNCHANGED <<state, area, backend, confirmed, current, cache, system>>
      /\ StateType /\ SessionInv /\ AreaInv /\ PaintType
      /\ calls # <<>> /\ Head(calls).todo = <<>> /\ calls' = Tail(calls) /\ StackIs(calls)
  BY DEF Shell!Return, Shell!Quiet, Shell!storage, BareInv, SessionInv
<1>2. HostDue(calls') <=> HostDue(calls)
  BY <1>1, PopKeeps
<1>3. PaintType'
  <2>1. Head(calls).paint \in Shell!Themes \cup {Shell!Unset}
    BY <1>1, StackSplits DEF Passes
  <2> QED BY <1>1, <2>1 DEF Shell!Return, PaintType
<1>4. StateType' /\ AreaInv'
  BY <1>1, <1>2, OthersKeepArea DEF StateType, Stores
<1>5. SessionInv'
  BY <1>1, ReturnKeeps
<1> QED BY <1>3, <1>4, <1>5 DEF BareInv

LEMMA BareKeeps == BareInv /\ [Bare!Next]_(Bare!vars) => BareInv'
<1> SUFFICES ASSUME BareInv, [Bare!Next]_(Bare!vars) PROVE BareInv'
  OBVIOUS
<1>1. CASE Bare!LoadSettles \/ Bare!LoadAgain \/ Bare!SaveSettles
  BY <1>1, BareAreaKeeps
<1>2. CASE Bare!SetSession \/ Bare!SetTheme
  BY <1>2, BareChangesKeep
<1>3. CASE Bare!HostHears
  BY <1>3, BareHostKeeps
<1>4. CASE Bare!Save \/ Bare!SystemChanges
  BY <1>4 DEF Bare!Save, Bare!SystemChanges
<1>5. CASE Bare!Return
  BY <1>5, SameActions, BareReturnKeeps
<1>6. CASE \E m \in Mounts :
             \/ Bare!SessionHears(m) \/ Bare!RouterHears(m) \/ Bare!MountOpens(m)
             \/ Bare!MountCloses(m) \/ Bare!RouterRenders(m) \/ Bare!RouterAttaches(m)
  BY <1>6, SameActions, BareMountsKeep
<1>7. CASE UNCHANGED Bare!vars
  <2>1. /\ UNCHANGED <<state, calls, observers, session, client, rendered, router, area, backend,
                       confirmed, current, cache, painted, system>>
        /\ StateType /\ SessionInv /\ AreaInv /\ PaintType
    BY <1>7 DEF Bare!vars, Bare!views, Bare!storage, Bare!theme, BareInv
  <2>2. StateType' /\ PaintType'
    BY <2>1 DEF StateType, PaintType
  <2>3. AreaInv'
    BY <2>1, OthersKeepArea DEF Stores
  <2>4. SessionInv'
    BY <2>1, OthersKeepSessions DEF SessionInv
  <2> QED BY <2>2, <2>3, <2>4 DEF BareInv
<1> QED BY <1>1, <1>2, <1>3, <1>4, <1>5, <1>6, <1>7 DEF Bare!Next

LEMMA BareIsCurrent == BareInv /\ MadeInv => Bare!PageIsCurrent
<1> SUFFICES ASSUME BareInv, MadeInv PROVE Bare!PageIsCurrent
  OBVIOUS
<1>1. Shell!TypeOK /\ Shell!SessionsAreCurrent /\ Shell!CacheIsConfirmed
  BY PartsAreRight DEF BareInv
<1>2. Bare!TypeOK
  BY <1>1 DEF Shell!TypeOK, Bare!TypeOK, Shell!Contexts, Bare!Contexts, Shell!Themes, Bare!Themes,
              Shell!Preferences, Bare!Preferences, Shell!Unset, Bare!Unset, Shell!Rows, Bare!Rows,
              Shell!Invalid, Bare!Invalid
<1>3. Bare!SessionsAreCurrent
  BY <1>1 DEF Shell!SessionsAreCurrent, Bare!SessionsAreCurrent, Shell!Quiet, Bare!Quiet,
              Shell!Mounted, Bare!Mounted, Shell!Session, Bare!Session
<1>4. Bare!CacheIsConfirmed
  BY <1>1 DEF Shell!CacheIsConfirmed, Bare!CacheIsConfirmed, Shell!Unset, Bare!Unset
<1>5. Bare!ThemeIsTheUsers
  BY DEF Bare!ThemeIsTheUsers
<1> QED BY <1>2, <1>3, <1>4, <1>5 DEF Bare!PageIsCurrent, Bare!Consistent

\* Whatever happens while observers are told of a change, and however sessions, themes, loads and
\* saves interleave: outside of a pass, every part of the page goes by the present session, the page
\* shows the present user's theme, and only what the backend confirmed is cached (apply,
\* attachStoredTheme, withQueryClient, useShellStateSync).
THEOREM ThePageIsCurrent == ChromeSpec => []PageIsCurrent
<1> DEFINE Inv == /\ about = "shell" => ShellInv /\ MadeInv
                  /\ about = "bare shell" => BareInv /\ MadeInv
<1>1. ChromeInit => Inv
  <2>1. Shell!Init => MadeInv
    BY DEF Shell!Init, MadeInv
  <2> QED BY <2>1, ShellBegins, SameActions DEF ChromeInit, ShellInv, BareInv
<1>2. Inv /\ [ChromeNext]_<<vars, shell, about>> => Inv'
  <2> SUFFICES ASSUME Inv, [ChromeNext]_<<vars, shell, about>> PROVE Inv'
    OBVIOUS
  <2>1. about' = about
    BY DEF ChromeNext
  <2>2. CASE about = "shell"
    <3>1. [Shell!Next]_(Shell!vars)
      BY <2>2 DEF ChromeNext, shell, Shell!vars, Shell!views, Shell!storage, Shell!theme
    <3>2. MadeInv'
      BY <2>2, <3>1, StepsKeepMade DEF ShellInv, SessionInv
    <3> QED BY <2>1, <2>2, <3>1, <3>2, ShellKeeps
  <2>3. CASE about = "bare shell"
    <3>1. [Bare!Next]_(Bare!vars)
      BY <2>3 DEF ChromeNext, shell, Bare!vars, Bare!views, Bare!storage, Bare!theme
    <3>2. MadeInv'
      BY <2>3, <3>1, StepsKeepMade DEF BareInv, SessionInv
    <3> QED BY <2>1, <2>3, <3>1, <3>2, BareKeeps
  <2> QED BY <2>1, <2>2, <2>3
<1>3. Inv => PageIsCurrent
  BY ShellIsCurrent, BareIsCurrent DEF PageIsCurrent
<1> QED BY <1>1, <1>2, <1>3, PTL DEF ChromeSpec
=============================================================================
