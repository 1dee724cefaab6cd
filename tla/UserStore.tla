------------------------------ MODULE UserStore ------------------------------
(***************************************************************************)
(* The `user` storage area of one tab: UserStorageStore, the adapter calls  *)
(* it has in the air and the backend behind the adapter.                    *)
(*                                                                          *)
(* Everything the signed-in user has stored is loaded once, then changed by *)
(* this tab's saves (one in flight per key, at most one waiting behind it)  *)
(* and by whole states the adapter's sync passes to replace().  reset()     *)
(* starts over for the next user while the previous user's calls are still  *)
(* out: the store tells them apart by a generation number.                  *)
(*                                                                          *)
(* A generation is also the signed-in user here, the worst case for a late  *)
(* answer.  Every save() call has a number, in call order; `asked` and      *)
(* `outcome` are what its caller passed and what its promise came to.       *)
(* `stored` is history: the calls whose value, or a later one that replaced *)
(* it in the queue, has reached the backend.                                *)
(***************************************************************************)
EXTENDS Integers, Sequences

CONSTANTS
  Keys,            \* owner and key together, as slotKey() joins them
  Values,          \* what can be stored under a key
  Removal,         \* save(..., null)
  None,            \* no such field in the slot
  Awaiters,        \* callers of whenLoaded(): what resolves a definition waits on it
  Versions,        \* schema versions a row can be written at
  MaxSaves,        \* bound: save() calls over a run
  MaxRevision,     \* bound: other tabs stop writing a key at this revision
  MaxResets,       \* bound: user changes
  MaxPolls,        \* bound: sync states read and not yet delivered
  PollsInOrder     \* does the adapter deliver the states in the order it read them?

ASSUME ConstantsAssumption ==
  /\ Removal \notin Values
  /\ None \notin Values \cup Keys \cup {Removal}
  /\ Versions # {} /\ Versions \subseteq Nat \ {0}
  /\ MaxSaves \in Nat /\ MaxRevision \in Nat /\ MaxResets \in Nat /\ MaxPolls \in Nat
  /\ PollsInOrder \in BOOLEAN

Users   == 0 .. MaxResets + 1         \* generations; the last one is after dispose()
Calls   == 1 .. MaxSaves
Content == Values \cup {Removal}

\* A StoredRow.  The absent row has revision -1, as `row?.revision ?? -1` reads it.
Row   == [user : Users, revision : Nat \cup {-1}, version : Nat, value : Content]
NoRow == [user |-> 0, revision |-> -1, version |-> 0, value |-> Removal]

\* The queued save: its value and the calls waiting on it.
Queue   == [value : Content \cup {None}, waiters : SUBSET Calls]
NoQueue == [value |-> None, waiters |-> {}]

\* What a save() call was made with.
Request   == [user : Users, key : Keys \cup {None}, value : Content \cup {None}]
NoRequest == [user |-> 0, key |-> None, value |-> None]

\* One adapter.save() call that has not settled.
Flight == [user : Users, key : Keys, value : Content, replacing : Nat \cup {-1},
           waiters : SUBSET Calls, arrived : BOOLEAN, row : Row]

\* A state read for sync.  `predates`: the adapter has resolved a save since.
Poll == [user : Users, rows : [Keys -> Row], predates : BOOLEAN]

VARIABLES
  phase, generation, disposed,            \* #phase, #generation, #disposed
  row, seen, sending, queued, failed,     \* the fields of each key's Slot
  gate,                                   \* where each caller of whenLoaded() is
  flights, load, polls,                   \* the adapter's calls in the air
  server, top,                            \* the backend: rows and highest revisions
  issued, asked, outcome, stored          \* the save() calls

slots    == <<row, seen, sending, queued, failed>>
store    == <<phase, generation, disposed>>
adapter  == <<flights, load, polls>>
backend  == <<server, top>>
callers  == <<issued, asked, outcome, stored>>
vars     == <<store, slots, gate, adapter, backend, callers>>

LargerOf(a, b) == IF a > b THEN a ELSE b

\* Fault: an answer is checked against dispose() only.
CurrentIgnoringUser(user) == ~disposed

\* The guard every answer of the adapter meets before it may touch the store.
Current(user) == ~disposed /\ user = generation

\* read(): the value of a save in flight or queued.
Pending(k) == IF queued[k].waiters # {} THEN queued[k].value ELSE sending[k]

-----------------------------------------------------------------------------
(* Saving *)

Settle(W, result) == outcome' = [n \in Calls |-> IF n \in W THEN result ELSE outcome[n]]

NewFlight(k, value, W, replaced) ==
  [user |-> generation, key |-> k, value |-> value, replacing |-> replaced.revision,
   waiters |-> W, arrived |-> FALSE, row |-> NoRow]

Call(k, value, result) ==
  /\ issued < MaxSaves
  /\ issued' = issued + 1
  /\ asked' = [asked EXCEPT ![issued + 1] = [user |-> generation, key |-> k, value |-> value]]
  /\ Settle({issued + 1}, result)
  /\ UNCHANGED stored

\* save() on a disposed store or before the load succeeded: rejected, nothing else.
RefuseSave(k, value) ==
  /\ disposed \/ phase # "ready"
  /\ Call(k, value, "rejected")
  /\ UNCHANGED <<store, slots, gate, adapter, backend>>

\* Fault: a save goes out though another of its key is in the air.
SendAtOnce(k, value) ==
  /\ sending' = [sending EXCEPT ![k] = value]
  /\ flights' = flights \cup {NewFlight(k, value, {issued + 1}, row[k])}
  /\ UNCHANGED queued

SendNow(k, value) ==
  /\ sending[k] = None
  /\ sending' = [sending EXCEPT ![k] = value]
  /\ flights' = flights \cup {NewFlight(k, value, {issued + 1}, row[k])}
  /\ UNCHANGED queued

SendNext(k, value) ==
  /\ sending[k] # None
  /\ queued' = [queued EXCEPT ![k] =
       [value |-> value, waiters |-> queued[k].waiters \cup {issued + 1}]]
  /\ UNCHANGED <<sending, flights>>

Save(k, value) ==
  /\ ~disposed /\ phase = "ready"
  /\ Call(k, value, "waiting")
  /\ failed' = [failed EXCEPT ![k] = None]
  /\ SendNow(k, value) \/ SendNext(k, value)
  /\ UNCHANGED <<store, row, seen, gate, load, polls, backend>>

\* retry() of a key whose save failed.
Retry(k) == failed[k] # None /\ Save(k, failed[k])

\* #finish() of a current save: what was queued behind it goes out.  `failure` is what
\* the settled save leaves in slot.failed, `replaced` the row the next one replaces.
Finish(f, failure, replaced) ==
  LET k == f.key
      next == queued[k]
  IN /\ queued' = [queued EXCEPT ![k] = NoQueue]
     /\ IF next.waiters = {}
        THEN /\ sending' = [sending EXCEPT ![k] = None]
             /\ failed' = [failed EXCEPT ![k] = failure]
             /\ flights' = flights \ {f}
        ELSE /\ sending' = [sending EXCEPT ![k] = next.value]
             /\ failed' = [failed EXCEPT ![k] = None]
             /\ flights' = (flights \ {f})
                             \cup {NewFlight(k, next.value, next.waiters, replaced)}

\* Faults: a removal, or any answer, replaces whatever the slot holds by now.
AcceptedRemoval(f) ==
  LET held == row[f.key]
  IN IF f.value = Removal THEN NoRow
     ELSE IF held.revision > f.row.revision THEN held ELSE f.row

AcceptedAnswer(f) == f.row

\* The row the slot holds once save() resolved: a newer row another tab wrote while this
\* save was in flight stays.
Accepted(f) ==
  LET held == row[f.key]
  IN IF f.value = Removal
     THEN IF held.revision > f.replacing THEN held ELSE NoRow
     ELSE IF held.revision > f.row.revision THEN held ELSE f.row

\* The adapter drops a state it read before a save it has now resolved.
Predate(user) ==
  polls' = [i \in DOMAIN polls |->
             [polls[i] EXCEPT !.predates = @ \/ polls[i].user = user]]

SaveResolved(f) ==
  /\ f.arrived /\ Current(f.user)
  /\ row' = [row EXCEPT ![f.key] = Accepted(f)]
  /\ seen' = [seen EXCEPT ![f.key] = LargerOf(@, Accepted(f).revision)]
  /\ Finish(f, failed[f.key], Accepted(f))
  /\ Settle(f.waiters, "resolved")
  /\ Predate(f.user)
  /\ UNCHANGED <<store, gate, load, backend, issued, asked, stored>>

SaveRejected(f) ==
  /\ Current(f.user)
  /\ Finish(f, f.value, row[f.key])
  /\ Settle(f.waiters, "rejected")
  /\ UNCHANGED <<store, row, seen, gate, load, polls, backend, issued, asked, stored>>

\* Fault: an aborted save resolves.
SaveForgiven(f) ==
  /\ ~Current(f.user)
  /\ flights' = flights \ {f}
  /\ Settle(f.waiters, "resolved")
  /\ UNCHANGED <<store, slots, gate, load, polls, backend, issued, asked, stored>>

\* The abort of reset() or dispose() settles the save, whatever the adapter answers.
SaveAbandoned(f) ==
  /\ ~Current(f.user)
  /\ flights' = flights \ {f}
  /\ Settle(f.waiters, "rejected")
  /\ UNCHANGED <<store, slots, gate, load, polls, backend, issued, asked, stored>>

-----------------------------------------------------------------------------
(* Loading and syncing *)

\* replace(): a row at a revision already seen is ignored, unless it is the row held
\* rewritten at another version; a key with no row is removed, unless it is being saved.
Replaced(rows, k) ==
  LET new == rows[k]
      rewritten == row[k].revision = new.revision /\ row[k].version # new.version
      saving == sending[k] # None \/ queued[k].waiters # {}
  IN IF new.revision = -1
     THEN IF saving THEN row[k] ELSE NoRow
     ELSE IF new.revision > seen[k] \/ rewritten THEN new ELSE row[k]

Replace(rows) ==
  /\ row' = [k \in Keys |-> Replaced(rows, k)]
  /\ seen' = [k \in Keys |-> LargerOf(seen[k], Replaced(rows, k).revision)]
  /\ UNCHANGED <<sending, queued, failed>>

NoLoad == [at |-> "idle", rows |-> [k \in Keys |-> NoRow]]

\* #load() of a user: the promise whenLoaded() was waiting on is no longer #loaded.
StartLoad(user) ==
  /\ phase' = "loading"
  /\ load' = [load EXCEPT ![user].at = "asked"]
  /\ gate' = [w \in Awaiters |-> IF gate[w] = "current" THEN "replaced" ELSE gate[w]]

LoadResolved(user) ==
  /\ load[user].at = "read"
  /\ load' = [load EXCEPT ![user] = NoLoad]
  /\ IF Current(user)
     THEN phase' = "ready" /\ Replace(load[user].rows)
     ELSE UNCHANGED <<phase, slots>>
  /\ UNCHANGED <<generation, disposed, gate, flights, polls, backend, callers>>

LoadRejected(user) ==
  /\ load[user].at # "idle"
  /\ load' = [load EXCEPT ![user] = NoLoad]
  /\ phase' = IF Current(user) THEN "error" ELSE phase
  /\ UNCHANGED <<generation, disposed, slots, gate, flights, polls, backend, callers>>

\* retryLoad(), and retry() after a failed load.
RetryLoad ==
  /\ phase = "error"
  /\ StartLoad(generation)
  /\ UNCHANGED <<generation, disposed, slots, flights, polls, backend, callers>>

WithoutPoll(i) == SubSeq(polls, 1, i - 1) \o SubSeq(polls, i + 1, Len(polls))

\* handle.replace(), which sync got from #startSync with the generation it closes over.
DeliverPoll(i) ==
  /\ i \in DOMAIN polls
  /\ ~polls[i].predates
  /\ PollsInOrder => i = 1
  /\ polls' = WithoutPoll(i)
  /\ IF Current(polls[i].user) THEN Replace(polls[i].rows) ELSE UNCHANGED slots
  /\ UNCHANGED <<store, gate, flights, load, backend, callers>>

-----------------------------------------------------------------------------
(* whenLoaded(): follows a load that was replaced to the one that replaced it *)

Pass(w, from, to) ==
  /\ gate[w] = from
  /\ gate' = [gate EXCEPT ![w] = to]
  /\ UNCHANGED <<store, slots, adapter, backend, callers>>

EnterWhenLoaded(w) == Pass(w, "out", "current")

\* Fault: an aborted load has to settle first.
FollowSettled(w) ==
  /\ \A user \in Users : user < generation => load[user].at = "idle"
  /\ Pass(w, "replaced", "current")

\* A replaced load never holds its waiter: it was aborted, or had already settled.
FollowLoad(w) == Pass(w, "replaced", "current")

LeaveWhenLoaded(w) == load[generation].at = "idle" /\ Pass(w, "current", "out")

-----------------------------------------------------------------------------
(* reset() and dispose() *)

NewSlots ==
  /\ row' = [k \in Keys |-> NoRow]
  /\ seen' = [k \in Keys |-> -1]
  /\ sending' = [k \in Keys |-> None]
  /\ queued' = [k \in Keys |-> NoQueue]
  /\ failed' = [k \in Keys |-> None]

\* #closeGeneration(): the queued saves are rejected here, those in flight by their abort.
CloseGeneration ==
  /\ generation' = generation + 1
  /\ Settle(UNION {queued[k].waiters : k \in Keys}, "rejected")

Reset ==
  /\ ~disposed
  /\ generation < MaxResets
  /\ CloseGeneration
  /\ NewSlots
  /\ StartLoad(generation + 1)
  /\ UNCHANGED <<disposed, flights, polls, backend, issued, asked, stored>>

Dispose ==
  /\ ~disposed
  /\ disposed' = TRUE
  /\ CloseGeneration
  /\ NewSlots
  /\ UNCHANGED <<phase, gate, adapter, backend, issued, asked, stored>>

-----------------------------------------------------------------------------
(* The adapter and its backend, external: what UserStorageAdapter's contract lets them do *)

NextRow(user, k, value, version) ==
  IF value = Removal THEN NoRow
  ELSE [user |-> user, revision |-> top[user][k] + 1, version |-> version, value |-> value]

\* The backend raises the key's revision on every save, a removal included.
Write(user, k, value, version) ==
  /\ server' = [server EXCEPT ![user][k] = NextRow(user, k, value, version)]
  /\ top' = [top EXCEPT ![user][k] = @ + 1]

\* This tab's save reaches the backend; its answer is still to come, or to be lost.
SaveArrives(f) ==
  /\ ~f.arrived
  /\ \E version \in Versions :
       /\ Write(f.user, f.key, f.value, version)
       /\ flights' = (flights \ {f}) \cup
            {[f EXCEPT !.arrived = TRUE, !.row = NextRow(f.user, f.key, f.value, version)]}
  /\ stored' = stored \cup f.waiters
  /\ UNCHANGED <<store, slots, gate, load, polls, issued, asked, outcome>>

OtherTabSaves(k, value, version) ==
  /\ top[generation][k] < MaxRevision
  /\ value = Removal => server[generation][k] # NoRow
  /\ Write(generation, k, value, version)
  /\ UNCHANGED <<store, slots, gate, adapter, callers>>

\* The backend rewrites a row at a newer schema version, at the same revision.
BackendRewrites(k, version) ==
  /\ server[generation][k] # NoRow
  /\ server[generation][k].version < version
  /\ server' = [server EXCEPT ![generation][k].version = version]
  /\ UNCHANGED <<store, slots, gate, adapter, top, callers>>

LoadReads(user) ==
  /\ load[user].at = "asked"
  /\ load' = [load EXCEPT ![user] = [at |-> "read", rows |-> server[user]]]
  /\ UNCHANGED <<store, slots, gate, flights, polls, backend, callers>>

\* sync starts after a successful load and is aborted with its generation.
PollReads ==
  /\ ~disposed /\ phase = "ready"
  /\ Len(polls) < MaxPolls
  /\ polls' = Append(polls, [user |-> generation, rows |-> server[generation],
                             predates |-> FALSE])
  /\ UNCHANGED <<store, slots, gate, flights, load, backend, callers>>

\* The adapter must drop a state that predates a resolved save; any other may be lost.
DropPoll(i) ==
  /\ i \in DOMAIN polls
  /\ polls' = WithoutPoll(i)
  /\ UNCHANGED <<store, slots, gate, flights, load, backend, callers>>

-----------------------------------------------------------------------------
Init ==
  /\ phase = "loading" /\ generation = 0 /\ disposed = FALSE
  /\ row = [k \in Keys |-> NoRow] /\ seen = [k \in Keys |-> -1]
  /\ sending = [k \in Keys |-> None] /\ queued = [k \in Keys |-> NoQueue]
  /\ failed = [k \in Keys |-> None]
  /\ gate = [w \in Awaiters |-> "out"]
  /\ flights = {} /\ polls = <<>>
  /\ load = [u \in Users |-> IF u = 0 THEN [NoLoad EXCEPT !.at = "asked"] ELSE NoLoad]
  /\ server = [u \in Users |-> [k \in Keys |-> NoRow]]
  /\ top = [u \in Users |-> [k \in Keys |-> 0]]
  /\ issued = 0 /\ stored = {}
  /\ asked = [n \in Calls |-> NoRequest] /\ outcome = [n \in Calls |-> "none"]

Store ==
  \/ \E k \in Keys, value \in Content : Save(k, value) \/ RefuseSave(k, value)
  \/ \E k \in Keys : Retry(k)
  \/ \E f \in flights : SaveResolved(f) \/ SaveRejected(f) \/ SaveAbandoned(f)
  \/ \E user \in Users : LoadResolved(user) \/ LoadRejected(user)
  \/ RetryLoad
  \/ \E i \in 1 .. MaxPolls : DeliverPoll(i)
  \/ \E w \in Awaiters : EnterWhenLoaded(w) \/ FollowLoad(w) \/ LeaveWhenLoaded(w)
  \/ Reset \/ Dispose

Environment ==
  \/ \E f \in flights : SaveArrives(f)
  \/ \E k \in Keys, value \in Content, version \in Versions : OtherTabSaves(k, value, version)
  \/ \E k \in Keys, version \in Versions : BackendRewrites(k, version)
  \/ \E user \in Users : LoadReads(user)
  \/ PollReads
  \/ \E i \in 1 .. MaxPolls : DropPoll(i)

Next == Store \/ Environment

Spec == Init /\ [][Next]_vars

(***************************************************************************)
(* What the code's scheduling and the adapter promise.  The continuation of *)
(* a settled promise is a microtask: it runs before any later task, so a    *)
(* settled load opens the gate before a retry can start another one (SF),   *)
(* and an abort settles the save it gives up.  The adapter answers every    *)
(* call whose signal has not been aborted; an aborted one may never settle. *)
(***************************************************************************)
Fairness ==
  /\ \A n \in Calls :
       /\ WF_vars(\E f \in flights : n \in f.waiters /\ (SaveResolved(f) \/ SaveRejected(f)))
       /\ WF_vars(\E f \in flights : n \in f.waiters /\ SaveAbandoned(f))
  /\ \A user \in Users :
       WF_vars(user = generation /\ (LoadResolved(user) \/ LoadRejected(user)))
  /\ \A w \in Awaiters : WF_vars(FollowLoad(w)) /\ SF_vars(LeaveWhenLoaded(w))

FairSpec == Spec /\ Fairness

-----------------------------------------------------------------------------
StoreType ==
  /\ phase \in {"loading", "ready", "error"}
  /\ generation \in Users /\ disposed \in BOOLEAN

SlotsType ==
  /\ row \in [Keys -> Row] /\ seen \in [Keys -> Nat \cup {-1}]
  /\ sending \in [Keys -> Content \cup {None}]
  /\ queued \in [Keys -> Queue]
  /\ failed \in [Keys -> Content \cup {None}]

GateType == gate \in [Awaiters -> {"out", "current", "replaced"}]

AdapterType ==
  /\ flights \subseteq Flight
  /\ load \in [Users -> [at : {"idle", "asked", "read"}, rows : [Keys -> Row]]]
  /\ polls \in Seq(Poll)

BackendType == server \in [Users -> [Keys -> Row]] /\ top \in [Users -> [Keys -> Nat]]

CallersType ==
  /\ issued \in 0 .. MaxSaves
  /\ asked \in [Calls -> Request]
  /\ outcome \in [Calls -> {"none", "waiting", "resolved", "rejected"}]
  /\ stored \subseteq Calls

(* Type invariant: the store, the calls in the air and the backend hold what their types say. *)
TypeOK ==
  StoreType /\ SlotsType /\ GateType /\ AdapterType /\ BackendType /\ CallersType

\* The saves of a key of this generation that have not settled.
InAir(k) == {f \in flights : f.key = k /\ Current(f.user)}

(* Saves of one key go out one at a time (#send, #finish): the key says it is sending      *)
(* exactly while one save of this generation is in the air, with that save's value; only   *)
(* then is one queued, and a key whose last save failed has nothing in flight.             *)
OneFlightPerKey ==
  \A k \in Keys :
    /\ \A f, g \in InAir(k) : f = g
    /\ sending[k] # None <=> InAir(k) # {}
    /\ \A f \in InAir(k) : f.value = sending[k]
    /\ sending[k] = None => queued[k] = NoQueue
    /\ failed[k] # None => sending[k] = None

(* No promise of save() is dropped or settled twice: a call that waits is held by exactly  *)
(* one save in the air or by one queue, and what holds a call is waiting (the hand-over in *)
(* #finish, the rejections of #closeGeneration and the abort).                             *)
WaitersHeld ==
  /\ \A n \in Calls :
       outcome[n] = "waiting" <=> \/ \E f \in flights : n \in f.waiters
                                  \/ \E k \in Keys : n \in queued[k].waiters
  /\ \A f, g \in flights : f # g => f.waiters \cap g.waiters = {}
  /\ \A f \in flights, k \in Keys : f.waiters \cap queued[k].waiters = {}
  /\ \A j, k \in Keys : j # k => queued[j].waiters \cap queued[k].waiters = {}

(* Nothing of a previous user reaches the next one: every row the store holds belongs to   *)
(* the signed-in user, though the previous user's loads, saves and syncs settle late.      *)
CurrentUserOnly ==
  \A k \in Keys : row[k] # NoRow => row[k].user = generation /\ ~disposed

(* A save() that resolved has reached the backend, itself or through the later value that  *)
(* replaced it in the queue; the calls it passed over on the way were not lost with it.    *)
ResolvedMeansStored == \A n \in Calls : outcome[n] = "resolved" => n \in stored

PromisesAreKept == WaitersHeld /\ ResolvedMeansStored

(* The saves in the air and the rows the store holds are the present user's, one save a key. *)
Consistent == TypeOK /\ OneFlightPerKey /\ CurrentUserOnly

(* Last write wins in what the tab shows: while a key is being saved, read() gives the     *)
(* value of its latest waiting call.                                                       *)
LatestCallShown ==
  \A n \in Calls :
    LET k == asked[n].key IN
    (/\ outcome[n] = "waiting" /\ Current(asked[n].user)
     /\ \A m \in Calls : asked[m].key = k /\ outcome[m] = "waiting" => m <= n)
      => Pending(k) = asked[n].value

(* A caller is told what became of its value, and sees it until then.                      *)
CallsAreHonoured == PromisesAreKept /\ LatestCallShown

(* Last write wins at the backend: the saves of one key reach it in the order their calls  *)
(* were made, so an earlier value never overwrites a later one of the same tab.            *)
StoredInCallOrder ==
  [][\A n \in stored' \ stored, m \in stored :
       asked[n].key = asked[m].key /\ asked[n].user = asked[m].user => m < n]_vars

(* "A late poll never moves a value back": within a generation, a row that replaces what   *)
(* the key holds is at no lower a revision than any row it ever held, removed ones too.    *)
RowNeverGoesBack ==
  [][generation' = generation =>
       \A k \in Keys :
         /\ seen'[k] >= seen[k] /\ seen'[k] >= row'[k].revision
         /\ row'[k] \notin {row[k], NoRow} => row'[k].revision >= seen[k]]_vars

(* A value leaves the tab only once the backend has gone past it: replace() and a removal  *)
(* of this tab drop the row they hold only when the backend has removed or replaced it.    *)
OnlyRemovedRowsGo ==
  [][generation' = generation =>
       \A k \in Keys : row[k] # NoRow /\ row'[k] = NoRow
                         => top[generation][k] > row[k].revision]_vars

(* A sync state that is still what the backend holds leaves every key that is not being    *)
(* saved exactly as the backend has it, whatever the tab saw before.                       *)
FreshStateConverges ==
  [][\A i \in DOMAIN polls :
       (/\ DeliverPoll(i) /\ Current(polls[i].user)
        /\ polls[i].rows = server[generation])
       => \A k \in Keys : sending[k] = None => row'[k] = server[generation][k]]_vars

(* What a sync state takes away, the backend has let go of, and a fresh one is taken over. *)
SyncIsSound == OnlyRemovedRowsGo /\ FreshStateConverges

(* whenLoaded() never lets a mount through between two users: a caller leaves only when    *)
(* the load of the user signed in then has settled, or the store is disposed.              *)
GateHolds ==
  [][\A w \in Awaiters : gate[w] # "out" /\ gate'[w] = "out"
                            => phase # "loading" \/ disposed]_vars

(* Every save() settles: resolved or rejected, even when its user has gone and the adapter *)
(* never answers.                                                                          *)
EverySaveSettles == \A n \in Calls : outcome[n] = "waiting" ~> outcome[n] # "waiting"

(* whenLoaded() returns, however often the user changes while it waits and though an       *)
(* aborted load may never settle.                                                          *)
GateOpens == \A w \in Awaiters : gate[w] # "out" ~> gate[w] = "out"

(* Nobody waits on the store for ever, and none is let through before its time.            *)
EveryoneIsAnswered == EverySaveSettles /\ GateHolds /\ GateOpens
=============================================================================
