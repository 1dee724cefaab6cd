---------------------------- MODULE BrowserStorage ----------------------------
(***************************************************************************)
(* One stored key of browser storage, in the tabs of one browser            *)
(* (MfeStorageStore and the browser half of StorageService).                *)
(*                                                                          *)
(* The tabs share the stored record.  A tab holds an entry for the key      *)
(* while a consumer is bound to it: the record it last read and the         *)
(* snapshot made of it.  What one tab writes reaches the others as storage  *)
(* events, in order but late.  A value is the set of the functional updates *)
(* it contains: an explicit write starts it afresh, an update adds itself.  *)
(***************************************************************************)
EXTENDS Naturals, Sequences, FiniteSets

CONSTANTS
  Tabs,
  Consumers,       \* the components of one tab that may show the key
  Build,           \* the schema version each tab's build declares
  Records,         \* what may be stored when the tabs open
  NoRecord, NoEntry, Nobody,
  Cleared,         \* the storage event of a store-wide clear
  MaxUpdates,      \* bound: functional updates that take place
  MaxEvents        \* bound: storage events on their way to a tab

Shapes == {Build[t] : t \in Tabs} \cup {r.v : r \in Records \ {NoRecord}}
Updates  == 1..MaxUpdates
Record   == [v : Shapes, d : SUBSET Updates] \cup {NoRecord}

VARIABLES
  disk, room,        \* the record; whether the store is "ok", "full" (no writes) or "blocked"
  writer, updates,   \* the tab that changed the record last; the updates that took place
  events,            \* storage events on their way, per tab
  entry,             \* the tab's KeyEntry: raw, whether it is known, the snapshot
  failed,            \* the write its write error is about, sent again by retry()
  mounted, shown     \* the consumers bound and subscribed, what each renders

store == <<disk, writer, events>>
vars  == <<store, room, updates, entry, failed, mounted, shown>>

NoWrite == "none"
Writes  == {"set", "update", "reset"}

Snapshot(status, value) == [status |-> status, value |-> value]
Default    == Snapshot("default", {})
Error(why) == Snapshot(why, {})          \* the default is shown, with the error
Snapshots  == {Default} \cup {Snapshot("value", d) : d \in SUBSET Updates}
                        \cup {Error(why) : why \in {"unreadable", "newer", "unmigrated"}}
Unread(s)  == s.status \in {"unreadable", "newer", "unmigrated"}
Entries    == [known : BOOLEAN, raw : Record, snapshot : Snapshots]

\* What may be stored are records of some version, and what stands for none, or for a clear, is none.
BrowserStorageAssumption ==
  /\ Build \in [Tabs -> Nat] /\ Nobody \notin Tabs
  /\ MaxUpdates \in Nat /\ MaxEvents \in Nat
  /\ Records \subseteq {NoRecord} \cup [v : Nat, d : SUBSET Updates]
  /\ {NoRecord, Cleared} \cap [v : Nat, d : SUBSET Updates] = {} /\ Cleared # NoRecord
  /\ NoEntry \notin Entries

-----------------------------------------------------------------------------
(* The store.  An operation takes and returns what it may change: s.disk, s.writer, s.events and *)
(* the entry s.entry of the tab it runs in.                                                       *)

Now(t) == [disk |-> disk, writer |-> writer, events |-> events, entry |-> entry[t]]

\* The browser tells the other tabs of a change, and of nothing else.
Stored(s, t, record) ==
  IF record = s.disk THEN s
  ELSE [s EXCEPT !.disk = record, !.writer = t,
                 !.events = [u \in Tabs |-> IF u = t THEN @[u] ELSE Append(@[u], record)]]

Holding(s, raw, snapshot) == [s EXCEPT !.entry = [known |-> TRUE, raw |-> raw, snapshot |-> snapshot]]

\* Convert and write back at once; a store that refuses leaves the old record and an error.
Migrated(s, t, raw) ==
  IF room = "ok"
  THEN LET now == [raw EXCEPT !.v = Build[t]]
       IN Holding(Stored(s, t, now), now, Snapshot("value", now.d))
  ELSE Holding(s, raw, Error("unmigrated"))

\* readEnvelope
Parsed(s, t, raw) ==
  IF raw = NoRecord THEN Holding(s, raw, Default)
  ELSE CASE raw.v = Build[t] -> Holding(s, raw, Snapshot("value", raw.d))
         [] raw.v > Build[t] -> Holding(s, raw, Error("newer"))
         [] raw.v < Build[t] -> Migrated(s, t, raw)

\* #applyRaw
Applied(s, t, raw) ==
  IF s.entry.known /\ s.entry.raw = raw THEN s ELSE Parsed(s, t, raw)

\* #invalidateCache, with the error of the read that threw.
Invalidated(s) ==
  [s EXCEPT !.entry = [known |-> FALSE, raw |-> NoRecord, snapshot |-> Error("unreadable")]]

\* #refresh
Refreshed(s, t) == IF room = "blocked" THEN Invalidated(s) ELSE Applied(s, t, s.disk)

\* #acquireEntry
Acquired(s, t) ==
  IF s.entry # NoEntry THEN s
  ELSE Refreshed([s EXCEPT !.entry = [known |-> FALSE, raw |-> NoRecord, snapshot |-> Default]], t)

\* Fault: an update is applied to what this tab last read.
BaseAsRead(s, t) == s

\* What a functional update is applied to.
Base(s, t) == Refreshed(s, t)

Put(s, t, d) ==
  LET record == [v |-> Build[t], d |-> d]
  IN Holding(Stored(s, t, record), record, Snapshot("value", d))

Outcome(s, ok) == [s |-> s, ok |-> ok]

\* #setValue and #removeValue; one that fails may have refreshed the entry.
Attempt(s, t, write) ==
  CASE write = "set" ->
         IF room = "ok" THEN Outcome(Put(s, t, {}), TRUE) ELSE Outcome(s, FALSE)
    [] write = "update" ->
         LET base == Base(s, t) IN
         IF Unread(base.entry.snapshot) \/ room # "ok" THEN Outcome(base, FALSE)
         ELSE Outcome(Put(base, t, base.entry.snapshot.value \cup {updates + 1}), TRUE)
    [] write = "reset" ->
         IF room = "blocked" THEN Outcome(s, FALSE)
         ELSE Outcome(Holding(Stored(s, t, NoRecord), NoRecord, Default), TRUE)

-----------------------------------------------------------------------------
(* The service: what a consumer is shown, and when it is told *)

\* getSnapshot of a binding
View(e, write) ==
  [value  |-> e.snapshot.value,
   status |-> IF Unread(e.snapshot) THEN e.snapshot.status
              ELSE IF write # NoWrite THEN "unsaved" ELSE "ready"]

NotShown == [value |-> {}, status |-> "unmounted"]

\* #assertUpdatable
Updatable(e) == ~Unread(e.snapshot)

\* #publish and #setWriteError
Told(t, e, write) == e.snapshot # entry[t].snapshot \/ write # failed[t]

\* The binding of an imperative caller is released when the call returns; nobody else's being
\* left, the entry and the write error go with it.
Kept(t, s, write) ==
  /\ entry' = [entry EXCEPT ![t] = IF mounted[t] = {} THEN NoEntry ELSE s.entry]
  /\ failed' = [failed EXCEPT ![t] = IF mounted[t] = {} THEN NoWrite ELSE write]

\* What tab t did takes effect, and its consumers are told.
Commit(t, s, write) ==
  /\ \A u \in Tabs : Len(s.events[u]) <= MaxEvents
  /\ disk' = s.disk /\ writer' = s.writer /\ events' = s.events
  /\ Kept(t, s, write)
  /\ shown' = IF mounted[t] # {} /\ Told(t, s.entry, write)
              THEN [shown EXCEPT ![t] = [c \in Consumers |->
                      IF c \in mounted[t] THEN View(s.entry, write) ELSE @[c]]]
              ELSE shown
  /\ UNCHANGED <<room, mounted>>

\* set(), update() and reset(), through a consumer's binding or one of the caller's own.
Write(t, write) ==
  LET s == Acquired(Now(t), t) IN
  /\ write = "update" => Updatable(s.entry) /\ updates < MaxUpdates
  /\ LET done == Attempt(s, t, write) IN
     /\ Commit(t, done.s, IF done.ok THEN NoWrite ELSE write)
     /\ updates' = IF done.ok /\ write = "update" THEN updates + 1 ELSE updates

\* retry() sends the write that failed again, however it would be answered now.
Retry(t) ==
  /\ failed[t] # NoWrite
  /\ failed[t] = "update" => updates < MaxUpdates
  /\ LET done == Attempt(Now(t), t, failed[t]) IN
     /\ Commit(t, done.s, IF done.ok THEN NoWrite ELSE failed[t])
     /\ updates' = IF done.ok /\ failed[t] = "update" THEN updates + 1 ELSE updates

\* peek() and get() of an imperative caller.
Peek(t) ==
  /\ Commit(t, Acquired(Now(t), t), failed[t])
  /\ UNCHANGED updates

\* A component subscribes: it binds, and renders what it reads.
Mount(t, c) ==
  LET s == Acquired(Now(t), t) IN
  /\ c \notin mounted[t]
  /\ \A u \in Tabs : Len(s.events[u]) <= MaxEvents
  /\ disk' = s.disk /\ writer' = s.writer /\ events' = s.events
  /\ entry' = [entry EXCEPT ![t] = s.entry]
  /\ mounted' = [mounted EXCEPT ![t] = @ \cup {c}]
  /\ shown' = [shown EXCEPT ![t][c] = View(s.entry, failed[t])]
  /\ UNCHANGED <<room, updates, failed>>

\* It unsubscribes and releases: the last one takes the entry and the write error with it.
Unmount(t, c) ==
  /\ c \in mounted[t]
  /\ mounted' = [mounted EXCEPT ![t] = @ \ {c}]
  /\ shown' = [shown EXCEPT ![t][c] = NotShown]
  /\ entry' = [entry EXCEPT ![t] = IF mounted[t] = {c} THEN NoEntry ELSE @]
  /\ failed' = [failed EXCEPT ![t] = IF mounted[t] = {c} THEN NoWrite ELSE @]
  /\ UNCHANGED <<store, room, updates>>

\* Fault: the removal of the key is not heard.
HeardUnlessRemoved(s, t, event) ==
  IF s.entry = NoEntry \/ event = NoRecord THEN s
  ELSE IF event = Cleared THEN Refreshed(s, t) ELSE Applied(s, t, event)

\* handleStorageEvent: an event of the key is taken for what it says, a store-wide one looked up.
Heard(s, t, event) ==
  IF s.entry = NoEntry THEN s
  ELSE IF event = Cleared THEN Refreshed(s, t) ELSE Applied(s, t, event)

HearEvent(t) ==
  /\ events[t] # <<>>
  /\ Commit(t, Heard([Now(t) EXCEPT !.events[t] = Tail(@)], t, Head(events[t])), failed[t])
  /\ UNCHANGED updates

-----------------------------------------------------------------------------
(* The browser *)

\* A page of the same origin clears the store.
ClearStore ==
  /\ disk # NoRecord /\ \A t \in Tabs : Len(events[t]) < MaxEvents
  /\ disk' = NoRecord /\ writer' = Nobody
  /\ events' = [t \in Tabs |-> Append(events[t], Cleared)]
  /\ UNCHANGED <<room, updates, entry, failed, mounted, shown>>

\* The quota is reached or freed, storage is blocked or allowed.
RoomChanges ==
  /\ room' \in {"ok", "full", "blocked"} \ {room}
  /\ UNCHANGED <<store, updates, entry, failed, mounted, shown>>

Init ==
  /\ disk \in Records /\ room = "ok" /\ writer = Nobody /\ updates = 0
  /\ events = [t \in Tabs |-> <<>>]
  /\ entry = [t \in Tabs |-> NoEntry] /\ failed = [t \in Tabs |-> NoWrite]
  /\ mounted = [t \in Tabs |-> {}]
  /\ shown = [t \in Tabs |-> [c \in Consumers |-> NotShown]]

Next ==
  \/ \E t \in Tabs : Retry(t) \/ Peek(t) \/ HearEvent(t)
  \/ \E t \in Tabs, write \in Writes : Write(t, write)
  \/ \E t \in Tabs, c \in Consumers : Mount(t, c) \/ Unmount(t, c)
  \/ ClearStore \/ RoomChanges

Spec == Init /\ [][Next]_vars

-----------------------------------------------------------------------------
(* Properties *)

\* Every variable has its type; a tab has an entry exactly while something is bound to it, and its
\* snapshot is what the record it holds says.
TypeOK ==
  /\ disk \in Record /\ writer \in Tabs \cup {Nobody} /\ updates \in 0..MaxUpdates
  /\ room \in {"ok", "full", "blocked"}
  /\ \A t \in Tabs :
       /\ \A i \in DOMAIN events[t] : events[t][i] \in Record \cup {Cleared}
       /\ mounted[t] \subseteq Consumers /\ failed[t] \in Writes \cup {NoWrite}
       /\ (entry[t] = NoEntry) <=> (mounted[t] = {})
       /\ entry[t] # NoEntry =>
            /\ entry[t].raw \in Record /\ entry[t].snapshot \in Snapshots
            /\ ~entry[t].known <=> entry[t].snapshot = Error("unreadable")

\* What a mounted component renders is what its tab holds now, the error of a failed write
\* included: every change of either is told to it (#publish, #setWriteError).
ConsumersAreCurrent ==
  \A t \in Tabs : \A c \in mounted[t] : shown[t][c] = View(entry[t], failed[t])

\* A write error is about a write that somebody still bound to the key can send again: it goes with
\* the last binding (release).
WriteErrorsAreOwned == \A t \in Tabs : failed[t] # NoWrite => mounted[t] # {}

\* A tab that has heard every event and still holds another record than the stored one has
\* changed the store itself, last of all tabs (handleStorageEvent, #applyRaw, #refresh).
StaleOnlyByOwnWrite ==
  \A t \in Tabs :
    (mounted[t] # {} /\ events[t] = <<>> /\ entry[t].known /\ entry[t].raw # disk) => writer = t

\* What a tab shows of the stored value, and what it says of its own writes.
Consistent == TypeOK /\ ConsumersAreCurrent /\ WriteErrorsAreOwned /\ StaleOnlyByOwnWrite

\* No functional update is lost to another: a changed record holds every update the record before
\* it held, unless it was written afresh or removed (#setValue, bindBrowser's set).
UpdatesAreKept ==
  [][(disk # NoRecord /\ disk' # NoRecord /\ disk'.d # {}) => disk.d \subseteq disk'.d]_vars

=============================================================================
