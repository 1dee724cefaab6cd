----------------------------- MODULE ActionRegistry -----------------------------
(***************************************************************************)
(* The action registry of a page: who is registered under which name and    *)
(* id, what the palette is shown, and which action a key press runs         *)
(* (actions/action-registry.ts, shortcut.ts, shortcut-scope.ts).  What a    *)
(* run then does is module Actions.                                         *)
(*                                                                          *)
(* Every call is synchronous.  The hazards are what the registry keeps      *)
(* between calls: ids once given, the shortcuts that may fire, the entries  *)
(* last shown, and the keys typed so far.                                   *)
(*                                                                          *)
(* A name is a word with the numbers at its end: "save-2" is                *)
(* <<"save", <<2>>>>, and an id the same under a definition's id.           *)
(* A slot is one component's registration; nothing registers for a mount    *)
(* that is gone.  `recent` and `fired` are history; the reports of refused   *)
(* and colliding shortcuts are left out.                                    *)
(***************************************************************************)
EXTENDS Integers, FiniteSets, SequencesExt

CONSTANTS
  Slots,           \* the components that register actions
  Scopes, Host,    \* the mounts, and the host page
  ScopeOf,         \* by slot: its mount, or the host page
  DefinitionOf,    \* by scope: its definition
  Widgets,         \* the mounts that are Widgets; the others are Apps
  Places,          \* for every place the page can be: the Apps whose boundary it is in
  NamesOf,         \* by slot: the names its component may give
  Shortcuts,       \* sequences of chords
  Plain,           \* the chords that hold no modifier
  DecisionsOf,     \* by slot: what its canExecute() may say
  MaxTyped         \* bound: chords of the past that are kept, as many as the longest shortcut has

ASSUME ActionRegistryAssumption ==
  /\ Host \in Scopes \ Widgets /\ Widgets \subseteq Scopes
  /\ IsFiniteSet(Slots) /\ \A s \in Slots : ScopeOf[s] \in Scopes
  /\ \A s \in Slots : \A n \in NamesOf[s] : n[2] \in Seq(Nat)
  /\ Places \subseteq SUBSET (Scopes \ (Widgets \cup {Host}))
  /\ Shortcuts \subseteq Seq(UNION {ToSet(k) : k \in Shortcuts}) \ {<<>>}
  /\ \A s \in Slots : DecisionsOf[s] \subseteq BOOLEAN
  /\ MaxTyped \in Nat /\ \A k \in Shortcuts : Len(k) <= MaxTyped

NoShortcut == <<>>
Chords     == UNION {ToSet(k) : k \in Shortcuts}
Hosts      == {s \in Slots : ScopeOf[s] = Host}

VARIABLES
  action,          \* by slot: its registration and what the registry made of it
  gone,            \* the mounts that are disposed
  enabled,         \* by slot: what its canExecute() would say
  published,       \* the snapshot: the entries the palette shows
  inside,          \* the Apps whose boundary the page is in
  pressed, fresh,  \* the chords of a sequence so far; less than its timeout ago
  recent,          \* the chords typed since the last pause, or text in a field
  fired            \* what the last call did, if it was a key press

keys == <<pressed, fresh, recent>>
vars == <<action, gone, enabled, published, inside, keys, fired>>

Absent == [status |-> "absent", name |-> <<>>, id |-> <<>>, declared |-> NoShortcut,
           usable |-> NoShortcut, entry |-> [id |-> <<>>, shortcut |-> NoShortcut, enabled |-> TRUE]]
Nothing == [kind |-> "none", targets |-> {}, inField |-> FALSE]

\* The actions in the registry.
Live(rr) == {s \in Slots : rr[s].status = "live"}

-----------------------------------------------------------------------------
(* Ids *)

Numbered(d, n, k) == <<d, n[1], IF k = 1 THEN n[2] ELSE Append(n[2], k)>>

\* Fault: the number is how many actions have the name.
CountedId(d, n) ==
  Numbered(d, n, 1 + Cardinality({s \in Live(action) : DefinitionOf[ScopeOf[s]] = d /\ action[s].name = n}))

\* The first id no action holds.  A renamed action still holds its old one.
FreeId(d, n) ==
  LET taken == {action[s].id : s \in Live(action)}
      k == CHOOSE k \in 1 .. Cardinality(Slots) + 1 :
             /\ Numbered(d, n, k) \notin taken
             /\ \A j \in 1 .. k - 1 : Numbered(d, n, j) \in taken
  IN  Numbered(d, n, k)

NameIsFree(s, n) ==
  \A t \in Live(action) \ {s} : ScopeOf[t] = ScopeOf[s] => action[t].name # n

-----------------------------------------------------------------------------
(* Shortcuts and entries *)

\* One is the other, or begins it.
Overlap(a, b) == IsPrefix(a, b) \/ IsPrefix(b, a)

HostShortcuts(rr) == {rr[h].declared : h \in Hosts \cap Live(rr)} \ {NoShortcut}

\* A Widget has no keys, and an App none of the host page's.
Refused(s, d, rr) ==
  \/ ScopeOf[s] \in Widgets
  \/ ScopeOf[s] # Host /\ \E h \in HostShortcuts(rr) : Overlap(d, h)

UsableOf(s, d, rr) == IF d = NoShortcut \/ Refused(s, d, rr) THEN NoShortcut ELSE d

EntryOf(s, r) == [id |-> r.id, shortcut |-> r.usable, enabled |-> enabled[s]]

Refresh(s, r) == [r EXCEPT !.entry = EntryOf(s, r)]

\* The host page's shortcuts changed: a container's may be claimed or freed.
RefreshContainers(rr) ==
  [s \in Slots |-> IF s \in Live(rr) \ Hosts /\ rr[s].declared # NoShortcut
                   THEN Refresh(s, [rr[s] EXCEPT !.usable = UsableOf(s, rr[s].declared, rr)])
                   ELSE rr[s]]

AfterHostChange(s, rr) == IF s \in Hosts THEN RefreshContainers(rr) ELSE rr

Publish == published' = {action'[s].entry : s \in Live(action')}

-----------------------------------------------------------------------------
(* What an owner calls *)

\* register() or registerHost().  A name its mount has already is refused.
Register(s, n, d) ==
  /\ action[s].status \in {"absent", "removed"} /\ ScopeOf[s] \notin gone
  /\ NameIsFree(s, n)
  /\ LET made == [status |-> "live", name |-> n, id |-> FreeId(DefinitionOf[ScopeOf[s]], n),
                  declared |-> d, usable |-> UsableOf(s, d, action), entry |-> Absent.entry]
         rr   == [action EXCEPT ![s] = Refresh(s, made)]
     IN  action' = IF d = NoShortcut THEN rr ELSE AfterHostChange(s, rr)
  /\ Publish
  /\ fired' = Nothing
  /\ UNCHANGED <<gone, enabled, inside, keys>>

\* Only a shortcut that changed is looked at again.
Updated(s, n, d) ==
  [action[s] EXCEPT !.name = n,
                    !.id = IF n = action[s].name THEN @ ELSE FreeId(DefinitionOf[ScopeOf[s]], n),
                    !.declared = d,
                    !.usable = IF d = action[s].declared THEN @ ELSE UsableOf(s, d, action)]

\* Fault: an update shows what every action decides by now.
UpdateEvaluating(s, n, d) ==
  /\ s \in Live(action) /\ NameIsFree(s, n)
  /\ LET rr == [action EXCEPT ![s] = Updated(s, n, d)]
     IN  action' = [t \in Slots |-> IF t \in Live(rr) THEN Refresh(t, rr[t]) ELSE rr[t]]
  /\ Publish
  /\ fired' = Nothing
  /\ UNCHANGED <<gone, enabled, inside, keys>>

\* The handle's update(), after a commit.
Update(s, n, d) ==
  /\ s \in Live(action) /\ NameIsFree(s, n)
  /\ LET rr == [action EXCEPT ![s] = Refresh(s, Updated(s, n, d))]
     IN  action' = IF d = action[s].declared THEN rr ELSE AfterHostChange(s, rr)
  /\ Publish
  /\ fired' = Nothing
  /\ UNCHANGED <<gone, enabled, inside, keys>>

\* Fault: the keys of a host action that goes stay claimed.
UnregisterQuietly(s) ==
  /\ action[s].status \in {"live", "orphaned"}
  /\ action' = [action EXCEPT ![s] = [Absent EXCEPT !.status = "removed"]]
  /\ Publish
  /\ fired' = Nothing
  /\ UNCHANGED <<gone, enabled, inside, keys>>

\* The handle's remove(), once.  It may come after removeMount().
Unregister(s) ==
  /\ action[s].status \in {"live", "orphaned"}
  /\ LET rr == [action EXCEPT ![s] = [Absent EXCEPT !.status = "removed"]]
     IN  action' = IF action[s].declared = NoShortcut THEN rr ELSE AfterHostChange(s, rr)
  /\ Publish
  /\ fired' = Nothing
  /\ UNCHANGED <<gone, enabled, inside, keys>>

\* A mount is disposed: its actions go, before their owners' cleanup runs.
RemoveMount(m) ==
  /\ m \in Scopes \ (gone \cup {Host})
  /\ gone' = gone \cup {m}
  /\ LET theirs == {s \in Live(action) : ScopeOf[s] = m}
     IN  /\ action' = [s \in Slots |-> IF s \in theirs
                                       THEN [Absent EXCEPT !.status = "orphaned"] ELSE action[s]]
         /\ Publish
  /\ fired' = Nothing
  /\ UNCHANGED <<enabled, inside, keys>>

-----------------------------------------------------------------------------
(* What a palette is shown *)

\* What the author's canExecute() reads changes.
Decide(s, e) ==
  /\ enabled[s] # e
  /\ enabled' = [enabled EXCEPT ![s] = e]
  /\ fired' = Nothing
  /\ UNCHANGED <<action, gone, published, inside, keys>>

\* The palette opens.
EvaluateAll ==
  /\ action' = [s \in Slots |-> IF s \in Live(action) THEN Refresh(s, action[s]) ELSE action[s]]
  /\ Publish
  /\ fired' = Nothing
  /\ UNCHANGED <<gone, enabled, inside, keys>>

\* A run is denied: its entry shows the state the notice describes.
Deny(s) ==
  /\ s \in Live(action) /\ ~enabled[s]
  /\ action' = [action EXCEPT ![s] = Refresh(s, @)]
  /\ Publish
  /\ fired' = Nothing
  /\ UNCHANGED <<gone, enabled, inside, keys>>

-----------------------------------------------------------------------------
(* Keys *)

FiresInField(k) == ToSet(k) \cap Plain = {}

\* Whose shortcuts can fire: the host page's, and those of the Apps the page is in.
Candidates(inField) ==
  {s \in Live(action) : /\ action[s].usable # NoShortcut
                        /\ inField => FiresInField(action[s].usable)
                        /\ ScopeOf[s] \in inside \cup {Host}}

Matching(typed, inField)   == {s \in Candidates(inField) : IsPrefix(typed, action[s].usable)}
Completing(typed, inField) == {s \in Candidates(inField) : action[s].usable = typed}

\* Fault: whatever completes runs, also where another could still go on.
MatchFirst(typed, inField) ==
  LET whole == Completing(typed, inField)
  IN  CASE whole # {}                -> [kind |-> "complete", targets |-> {CHOOSE s \in whole : TRUE}, inField |-> inField]
        [] Matching(typed, inField) # {} -> [Nothing EXCEPT !.kind = "pending"]
        [] OTHER                     -> Nothing

\* More than one claims the keys: none of them runs.
MatchSequence(typed, inField) ==
  LET all   == Matching(typed, inField)
      whole == Completing(typed, inField)
  IN  CASE whole # {} /\ Cardinality(all) = 1 -> [kind |-> "complete", targets |-> whole, inField |-> inField]
        [] whole # {} /\ Cardinality(all) > 1 -> [kind |-> "ambiguous", targets |-> all, inField |-> inField]
        [] whole = {} /\ all # {}             -> [Nothing EXCEPT !.kind = "pending"]
        [] OTHER                              -> Nothing

\* A letter typed into a field is text, and ends a sequence.
Type(c) ==
  /\ c \in Plain
  /\ pressed' = <<>> /\ recent' = <<>>
  /\ fired' = Nothing
  /\ UNCHANGED <<action, gone, enabled, published, inside, fresh>>

\* A key that continues nothing may still begin something.  A key that is held, or that somebody
\* has dealt with, leaves all as it is.
KeyDown(c, inField) ==
  /\ inField => c \notin Plain
  /\ LET earlier == IF fresh THEN pressed ELSE <<>>
         longer  == MatchSequence(Append(earlier, c), inField)
         alone   == longer = Nothing
     IN  /\ fired' = IF alone THEN MatchSequence(<<c>>, inField) ELSE longer
         /\ pressed' = IF fired'.kind # "pending" THEN <<>>
                       ELSE IF alone THEN <<c>> ELSE Append(earlier, c)
  /\ LET typed == Append(IF fresh THEN recent ELSE <<>>, c)
     IN  recent' = IF Len(typed) > MaxTyped THEN Tail(typed) ELSE typed
  /\ fresh' = TRUE
  /\ UNCHANGED <<action, gone, enabled, published, inside>>

\* A second goes by without a key.
Pause ==
  /\ fresh /\ fresh' = FALSE
  /\ recent' = <<>>
  /\ fired' = Nothing
  /\ UNCHANGED <<action, gone, enabled, published, inside, pressed>>

PageMoves(p) ==
  /\ p # inside /\ inside' = p
  /\ fired' = Nothing
  /\ UNCHANGED <<action, gone, enabled, published, keys>>

-----------------------------------------------------------------------------

Init ==
  /\ action = [s \in Slots |-> Absent] /\ gone = {}
  /\ enabled \in {e \in [Slots -> BOOLEAN] : \A s \in Slots : e[s] \in DecisionsOf[s]}
  /\ published = {} /\ inside \in Places
  /\ pressed = <<>> /\ fresh = FALSE /\ recent = <<>>
  /\ fired = Nothing

Next ==
  \/ \E s \in Slots :
       \/ \E n \in NamesOf[s], d \in Shortcuts \cup {NoShortcut} : Register(s, n, d) \/ Update(s, n, d)
       \/ Unregister(s) \/ Deny(s)
       \/ \E e \in DecisionsOf[s] : Decide(s, e)
  \/ \E m \in Scopes : RemoveMount(m)
  \/ EvaluateAll \/ Pause
  \/ \E c \in Chords : Type(c) \/ \E f \in BOOLEAN : KeyDown(c, f)
  \/ \E p \in Places : PageMoves(p)

Spec == Init /\ [][Next]_vars

-----------------------------------------------------------------------------
(* Properties *)

\* Every variable has its type.
TypeOK ==
  /\ \A s \in Slots :
       /\ action[s].status \in {"absent", "live", "orphaned", "removed"}
       /\ {action[s].declared, action[s].usable} \subseteq Shortcuts \cup {NoShortcut}
  /\ gone \subseteq Scopes \ {Host} /\ enabled \in [Slots -> BOOLEAN]
  /\ inside \in Places /\ pressed \in Seq(Chords) /\ fresh \in BOOLEAN
  /\ fired.kind \in {"none", "pending", "ambiguous", "complete"}

\* An id names one action, whatever the names, numbers and renames before (freeId).
IdsAreUnique ==
  \A s, t \in Live(action) : s # t => action[s].id # action[t].id

\* A shortcut may fire if and only if the host page's shortcuts of this moment leave it alone, and
\* the palette shows exactly the live actions, under their present ids and with those shortcuts
\* (usableShortcut, refreshContainerShortcuts, publish).
PaletteIsCurrent ==
  /\ published = {action[s].entry : s \in Live(action)}
  /\ \A s \in Live(action) :
       /\ action[s].usable = UsableOf(s, action[s].declared, action)
       /\ action[s].entry.id = action[s].id /\ action[s].entry.shortcut = action[s].usable
       /\ ScopeOf[s] \notin gone

Consistent == TypeOK /\ PaletteIsCurrent

\* A key press runs an action only if the keys just typed are its own, it is registered and its
\* App is where the page is, no other action that could be pressed for there claims them, and the
\* host page does not (handleKeyDown).
KeysHaveOneOwner ==
  fired.kind = "complete" =>
    \E s \in Live(action) :
      /\ fired.targets = {s}
      /\ IsSuffix(action[s].declared, recent)
      /\ ScopeOf[s] \in inside \cup {Host}
      /\ \A t \in Candidates(fired.inField) \ {s} : ~IsPrefix(action[s].declared, action[t].declared)
      /\ s \notin Hosts => \A h \in HostShortcuts(action) : ~Overlap(action[s].declared, h)

\* An action keeps its id for as long as it keeps its name, and another's going changes nothing
\* for it (freeId).
IdsStay ==
  [][\A s \in Live(action) : s \in Live(action') /\ action'[s].name = action[s].name =>
       action'[s].id = action[s].id]_vars

\* Registering, updating or removing an action evaluates no other, whatever the others would say by
\* now, unless a shortcut of the host page changes with it (#update, evaluateAll's comment).
Registration(r) == <<r.status, r.name, r.declared>>
HostShortcutsStay == \A h \in Hosts : action'[h].declared = action[h].declared
OthersAreNotEvaluated ==
  [][\A s, t \in Slots :
       s # t /\ Registration(action'[t]) # Registration(action[t])
         /\ s \in Live(action) \cap Live(action') /\ HostShortcutsStay =>
       action'[s].entry.enabled = action[s].entry.enabled]_vars

\* What happens to one action leaves the others' entries as they were.
EntriesStay == IdsStay /\ OthersAreNotEvaluated
=============================================================================
