--------------------------- MODULE UserStoreProofs ---------------------------
(* Proofs about UserStore, for every set of keys and values and every bound. *)
EXTENDS UserStore, SequenceTheorems, TLAPS

\* The generation number stays a user: only dispose() reaches the last one.
GenerationBound == ~disposed => generation <= MaxResets

\* What is queued has a value, so the save #finish sends next is well formed.
QueuedHasValue == \A k \in Keys : queued[k].waiters # {} => queued[k].value \in Content

TypeInv == TypeOK /\ GenerationBound /\ QueuedHasValue

LEMMA NoRowType == NoRow \in Row
BY ConstantsAssumption DEF NoRow, Row, Users, Content

LEMMA NewFlightType ==
  ASSUME TypeOK, NEW k \in Keys, NEW v \in Content, NEW W \in SUBSET Calls, NEW r \in Row
  PROVE  NewFlight(k, v, W, r) \in Flight
BY NoRowType DEF NewFlight, Flight, TypeOK, StoreType, Row

LEMMA SettleType ==
  ASSUME TypeOK, NEW W, NEW result \in {"waiting", "resolved", "rejected"}, Settle(W, result)
  PROVE  outcome' \in [Calls -> {"none", "waiting", "resolved", "rejected"}]
BY DEF Settle, TypeOK, CallersType

LEMMA WithoutPollType ==
  ASSUME TypeOK, NEW i \in DOMAIN polls
  PROVE  WithoutPoll(i) \in Seq(Poll)
<1>1. polls \in Seq(Poll) /\ i \in 1 .. Len(polls)
  BY DEF TypeOK, AdapterType
<1>2. SubSeq(polls, 1, i - 1) \in Seq(Poll) /\ SubSeq(polls, i + 1, Len(polls)) \in Seq(Poll)
  BY <1>1
<1>. QED  BY <1>2 DEF WithoutPoll

LEMMA InitTypeInv == Init => TypeInv
<1>. SUFFICES ASSUME Init PROVE TypeInv
  OBVIOUS
<1>1. NoLoad \in [at : {"idle", "asked", "read"}, rows : [Keys -> Row]]
  BY NoRowType DEF NoLoad
<1>2. load \in [Users -> [at : {"idle", "asked", "read"}, rows : [Keys -> Row]]]
  BY <1>1 DEF Init, NoLoad
<1>3. NoRequest \in Request /\ NoQueue \in Queue /\ 0 \in Users
  BY ConstantsAssumption DEF NoRequest, Request, NoQueue, Queue, Users
<1>4. polls \in Seq(Poll) /\ flights \subseteq Flight /\ stored \subseteq Calls
  BY DEF Init
<1>5. /\ phase \in {"loading", "ready", "error"} /\ generation \in Users /\ disposed \in BOOLEAN
      /\ seen \in [Keys -> Nat \cup {-1}] /\ sending \in [Keys -> Content \cup {None}]
      /\ failed \in [Keys -> Content \cup {None}]
  BY <1>3 DEF Init
<1>10. top \in [Users -> [Keys -> Nat]] /\ issued \in 0 .. MaxSaves
  BY ConstantsAssumption DEF Init
<1>6. /\ gate \in [Awaiters -> {"out", "current", "replaced"}]
      /\ outcome \in [Calls -> {"none", "waiting", "resolved", "rejected"}]
  BY DEF Init
<1>7. row \in [Keys -> Row] /\ server \in [Users -> [Keys -> Row]]
  BY NoRowType DEF Init
<1>8. asked \in [Calls -> Request] /\ queued \in [Keys -> Queue]
  BY <1>3 DEF Init
<1>9. GenerationBound /\ QueuedHasValue
  BY ConstantsAssumption DEF Init, GenerationBound, QueuedHasValue, NoQueue
<1>. QED
  BY <1>2, <1>4, <1>5, <1>6, <1>7, <1>8, <1>9, <1>10, Zenon
     DEF TypeInv, TypeOK, StoreType, SlotsType, GateType, AdapterType, BackendType, CallersType

-----------------------------------------------------------------------------
(* What the operators of the actions return *)

LEMMA CallType ==
  ASSUME TypeOK, NEW k \in Keys, NEW value \in Content,
         NEW result \in {"waiting", "resolved", "rejected"}, Call(k, value, result)
  PROVE  CallersType'
<1>1. issued' \in 0 .. MaxSaves /\ stored' \subseteq Calls
  BY ConstantsAssumption DEF Call, TypeOK, CallersType
<1>2. [user |-> generation, key |-> k, value |-> value] \in Request
  BY DEF Request, TypeOK, StoreType
<1>3. asked' \in [Calls -> Request]
  BY <1>2 DEF Call, TypeOK, CallersType
<1>4. outcome' \in [Calls -> {"none", "waiting", "resolved", "rejected"}]
  BY SettleType DEF Call
<1>. QED  BY <1>1, <1>3, <1>4 DEF CallersType

LEMMA SettleCallersType ==
  ASSUME TypeOK, NEW W, NEW result \in {"waiting", "resolved", "rejected"}, Settle(W, result),
         UNCHANGED <<issued, asked, stored>>
  PROVE  CallersType'
BY SettleType DEF TypeOK, CallersType

LEMMA FlightFields ==
  ASSUME TypeOK, NEW f \in flights
  PROVE  /\ f.user \in Users /\ f.key \in Keys /\ f.value \in Content
         /\ f.replacing \in Nat \cup {-1} /\ f.waiters \subseteq Calls
         /\ f.arrived \in BOOLEAN /\ f.row \in Row
BY DEF TypeOK, AdapterType, Flight

LEMMA QueueFields ==
  ASSUME TypeOK, NEW k \in Keys
  PROVE  queued[k].value \in Content \cup {None} /\ queued[k].waiters \subseteq Calls
BY DEF TypeOK, SlotsType, Queue

LEMMA AcceptedType ==
  ASSUME TypeOK, NEW f \in flights
  PROVE  Accepted(f) \in Row
<1>1. row[f.key] \in Row /\ f.row \in Row
  BY FlightFields DEF TypeOK, SlotsType
<1>. QED  BY <1>1, NoRowType DEF Accepted

LEMMA FinishType ==
  ASSUME TypeOK, QueuedHasValue, NEW f \in flights, NEW failure \in Content \cup {None},
         NEW replaced \in Row, Finish(f, failure, replaced)
  PROVE  /\ sending' \in [Keys -> Content \cup {None}]
         /\ queued' \in [Keys -> Queue]
         /\ failed' \in [Keys -> Content \cup {None}]
         /\ flights' \subseteq Flight
<1>. DEFINE k == f.key
            next == queued[k]
<1>1. k \in Keys /\ flights \subseteq Flight
  BY FlightFields DEF TypeOK, AdapterType
<1>2. NoQueue \in Queue
  BY DEF NoQueue, Queue
<1>3. queued' \in [Keys -> Queue]
  BY <1>1, <1>2 DEF Finish, TypeOK, SlotsType
<1>4. next.waiters # {} => NewFlight(k, next.value, next.waiters, replaced) \in Flight
  BY <1>1, QueueFields, NewFlightType DEF QueuedHasValue
<1>5. flights' \subseteq Flight
  BY <1>1, <1>4 DEF Finish
<1>6. next.waiters # {} => next.value \in Content
  BY <1>1 DEF QueuedHasValue
<1>7. sending' \in [Keys -> Content \cup {None}] /\ failed' \in [Keys -> Content \cup {None}]
  BY <1>1, <1>6 DEF Finish, TypeOK, SlotsType
<1>. QED  BY <1>3, <1>5, <1>7

LEMMA ReplacedType ==
  ASSUME TypeOK, NEW rows \in [Keys -> Row], NEW k \in Keys
  PROVE  /\ Replaced(rows, k) \in Row
         /\ LargerOf(seen[k], Replaced(rows, k).revision) \in Nat \cup {-1}
<1>1. rows[k] \in Row /\ row[k] \in Row /\ seen[k] \in Nat \cup {-1}
  BY DEF TypeOK, SlotsType
<1>2. Replaced(rows, k) \in Row
  BY <1>1, NoRowType DEF Replaced
<1>3. Replaced(rows, k).revision \in Nat \cup {-1}
  BY <1>2 DEF Row
<1>. QED  BY <1>1, <1>2, <1>3 DEF LargerOf

LEMMA ReplaceType ==
  ASSUME TypeOK, NEW rows \in [Keys -> Row], Replace(rows)
  PROVE  SlotsType'
<1>1. row' \in [Keys -> Row] /\ seen' \in [Keys -> Nat \cup {-1}]
  BY ReplacedType DEF Replace
<1>. QED  BY <1>1 DEF Replace, TypeOK, SlotsType

LEMMA NewSlotsType ==
  ASSUME NewSlots
  PROVE  SlotsType'
<1>1. NoQueue \in Queue
  BY DEF NoQueue, Queue
<1>. QED  BY <1>1, NoRowType DEF NewSlots, SlotsType

LEMMA CloseGenerationType ==
  ASSUME TypeOK, CloseGeneration, UNCHANGED <<issued, asked, stored>>
  PROVE  CallersType'
BY SettleCallersType DEF CloseGeneration

LEMMA NextRowType ==
  ASSUME TypeOK, NEW user \in Users, NEW k \in Keys, NEW value \in Content,
         NEW version \in Versions
  PROVE  NextRow(user, k, value, version) \in Row /\ top[user][k] + 1 \in Nat
<1>1. top[user][k] \in Nat
  BY DEF TypeOK, BackendType
<1>. QED  BY <1>1, NoRowType, ConstantsAssumption DEF NextRow, Row

LEMMA WriteType ==
  ASSUME TypeOK, NEW user \in Users, NEW k \in Keys, NEW value \in Content,
         NEW version \in Versions, Write(user, k, value, version)
  PROVE  BackendType'
<1>1. server' \in [Users -> [Keys -> Row]]
  BY NextRowType DEF Write, TypeOK, BackendType
<1>2. top' \in [Users -> [Keys -> Nat]]
  BY NextRowType DEF Write, TypeOK, BackendType
<1>. QED  BY <1>1, <1>2 DEF BackendType

LEMMA PredateType ==
  ASSUME TypeOK, NEW user, Predate(user)
  PROVE  polls' \in Seq(Poll)
<1>1. polls \in Seq(Poll) /\ DOMAIN polls = 1 .. Len(polls) /\ Len(polls) \in Nat
  BY DEF TypeOK, AdapterType
<1>2. ASSUME NEW i \in 1 .. Len(polls)
      PROVE  [polls[i] EXCEPT !.predates = @ \/ polls[i].user = user] \in Poll
  <2>1. polls[i] \in Poll
    BY <1>1
  <2>2. (polls[i].predates \/ polls[i].user = user) \in BOOLEAN
    OBVIOUS
  <2>. QED  BY <2>1, <2>2, Zenon DEF Poll
<1>3. polls' \in [1 .. Len(polls) -> Poll]
  BY <1>1, <1>2 DEF Predate
<1>. QED  BY <1>1, <1>3, SeqDef

-----------------------------------------------------------------------------
(* Every action preserves the type invariant *)

LEMMA SaveTypeInv ==
  ASSUME TypeInv, NEW k \in Keys, NEW value \in Content, Save(k, value)
  PROVE  TypeInv'
<1>. USE DEF TypeInv
<1>1. CallersType'
  BY CallType DEF Save
<1>2. issued + 1 \in Calls
  BY ConstantsAssumption DEF Save, Call, TypeOK, CallersType, Calls
<1>3. [value |-> value, waiters |-> queued[k].waiters \cup {issued + 1}] \in Queue
  BY <1>2, QueueFields DEF Queue
<1>4. NewFlight(k, value, {issued + 1}, row[k]) \in Flight
  BY <1>2, NewFlightType DEF TypeOK, SlotsType
<1>5. /\ sending' \in [Keys -> Content \cup {None}]
      /\ failed' \in [Keys -> Content \cup {None}]
  BY DEF Save, SendNow, SendNext, TypeOK, SlotsType
<1>6. queued' \in [Keys -> Queue]
  BY <1>3 DEF Save, SendNow, SendNext, TypeOK, SlotsType
<1>7. flights' \subseteq Flight
  BY <1>4 DEF Save, SendNow, SendNext, TypeOK, AdapterType
<1>8. SlotsType'
  BY <1>5, <1>6 DEF Save, TypeOK, SlotsType
<1>9. AdapterType'
  BY <1>7 DEF Save, TypeOK, AdapterType
<1>10. QueuedHasValue'
  BY DEF Save, SendNow, SendNext, QueuedHasValue, TypeOK, SlotsType
<1>11. StoreType' /\ GateType' /\ BackendType' /\ GenerationBound'
  BY DEF Save, TypeOK, StoreType, GateType, BackendType, GenerationBound, store, backend
<1>. QED  BY <1>1, <1>8, <1>9, <1>10, <1>11 DEF TypeOK

LEMMA RefuseSaveTypeInv ==
  ASSUME TypeInv, NEW k \in Keys, NEW value \in Content, RefuseSave(k, value)
  PROVE  TypeInv'
<1>1. CallersType'
  BY CallType DEF RefuseSave, TypeInv
<1>. QED
  BY <1>1 DEF TypeInv, RefuseSave, TypeOK, StoreType, SlotsType, GateType, AdapterType,
              BackendType, GenerationBound, QueuedHasValue, store, slots, adapter, backend

LEMMA SaveResolvedTypeInv ==
  ASSUME TypeInv, NEW f \in flights, SaveResolved(f)
  PROVE  TypeInv'
<1>. USE DEF TypeInv
<1>1. f.key \in Keys /\ Accepted(f) \in Row /\ failed[f.key] \in Content \cup {None}
  BY FlightFields, AcceptedType DEF TypeOK, SlotsType
<1>2. /\ sending' \in [Keys -> Content \cup {None}] /\ queued' \in [Keys -> Queue]
      /\ failed' \in [Keys -> Content \cup {None}] /\ flights' \subseteq Flight
  BY <1>1, FinishType DEF SaveResolved
<1>3. row' \in [Keys -> Row]
  BY <1>1 DEF SaveResolved, TypeOK, SlotsType
<1>4. LargerOf(seen[f.key], Accepted(f).revision) \in Nat \cup {-1}
  BY <1>1 DEF LargerOf, TypeOK, SlotsType, Row
<1>5. seen' \in [Keys -> Nat \cup {-1}]
  BY <1>1, <1>4 DEF SaveResolved, TypeOK, SlotsType
<1>6. CallersType' /\ polls' \in Seq(Poll)
  BY SettleCallersType, PredateType DEF SaveResolved
<1>7. QueuedHasValue'
  BY <1>1 DEF SaveResolved, Finish, QueuedHasValue, TypeOK, SlotsType, NoQueue
<1>8. SlotsType' /\ AdapterType'
  BY <1>2, <1>3, <1>5, <1>6 DEF SaveResolved, TypeOK, SlotsType, AdapterType
<1>9. StoreType' /\ GateType' /\ BackendType' /\ GenerationBound'
  BY DEF SaveResolved, TypeOK, StoreType, GateType, BackendType, GenerationBound, store, backend
<1>. QED  BY <1>6, <1>7, <1>8, <1>9 DEF TypeOK

LEMMA SaveRejectedTypeInv ==
  ASSUME TypeInv, NEW f \in flights, SaveRejected(f)
  PROVE  TypeInv'
<1>. USE DEF TypeInv
<1>1. f.key \in Keys /\ row[f.key] \in Row /\ f.value \in Content \cup {None}
  BY FlightFields DEF TypeOK, SlotsType
<1>2. /\ sending' \in [Keys -> Content \cup {None}] /\ queued' \in [Keys -> Queue]
      /\ failed' \in [Keys -> Content \cup {None}] /\ flights' \subseteq Flight
  BY <1>1, FinishType DEF SaveRejected
<1>3. CallersType'
  BY SettleCallersType DEF SaveRejected
<1>4. QueuedHasValue'
  BY <1>1 DEF SaveRejected, Finish, QueuedHasValue, TypeOK, SlotsType, NoQueue
<1>5. SlotsType' /\ AdapterType'
  BY <1>2 DEF SaveRejected, TypeOK, SlotsType, AdapterType
<1>6. StoreType' /\ GateType' /\ BackendType' /\ GenerationBound'
  BY DEF SaveRejected, TypeOK, StoreType, GateType, BackendType, GenerationBound, store, backend
<1>. QED  BY <1>3, <1>4, <1>5, <1>6 DEF TypeOK

LEMMA SaveAbandonedTypeInv ==
  ASSUME TypeInv, NEW f \in flights, SaveAbandoned(f)
  PROVE  TypeInv'
<1>1. CallersType'
  BY SettleCallersType DEF SaveAbandoned, TypeInv
<1>2. AdapterType'
  BY DEF SaveAbandoned, AdapterType, TypeInv, TypeOK
<1>. QED
  BY <1>1, <1>2 DEF TypeInv, SaveAbandoned, TypeOK, StoreType, SlotsType, GateType,
                    BackendType, GenerationBound, QueuedHasValue, store, slots, backend

LEMMA LoadType ==
  ASSUME TypeOK, NEW user \in Users, NEW rows \in [Keys -> Row],
         NEW at \in {"idle", "asked", "read"},
         load' = [load EXCEPT ![user] = [at |-> at, rows |-> rows]], UNCHANGED <<flights, polls>>
  PROVE  AdapterType'
<1>1. [at |-> at, rows |-> rows] \in [at : {"idle", "asked", "read"}, rows : [Keys -> Row]]
  OBVIOUS
<1>. QED  BY <1>1 DEF TypeOK, AdapterType

LEMMA LoadResolvedTypeInv ==
  ASSUME TypeInv, NEW user \in Users, LoadResolved(user)
  PROVE  TypeInv'
<1>. USE DEF TypeInv
<1>1. load[user].rows \in [Keys -> Row]
  BY DEF TypeOK, AdapterType
<1>2. SlotsType' /\ QueuedHasValue'
  <2>1. CASE Current(user)
    BY <1>1, <2>1, ReplaceType DEF LoadResolved, Replace, QueuedHasValue
  <2>2. CASE ~Current(user)
    BY <2>2 DEF LoadResolved, TypeOK, SlotsType, QueuedHasValue, slots
  <2>. QED  BY <2>1, <2>2
<1>3. AdapterType'
  BY LoadType, NoRowType DEF LoadResolved, NoLoad
<1>4. StoreType' /\ GateType' /\ BackendType' /\ CallersType' /\ GenerationBound'
  BY DEF LoadResolved, TypeOK, StoreType, GateType, BackendType, CallersType, GenerationBound,
         backend, callers
<1>. QED  BY <1>2, <1>3, <1>4 DEF TypeOK

LEMMA LoadRejectedTypeInv ==
  ASSUME TypeInv, NEW user \in Users, LoadRejected(user)
  PROVE  TypeInv'
<1>. USE DEF TypeInv
<1>1. AdapterType'
  BY LoadType, NoRowType DEF LoadRejected, NoLoad
<1>2. StoreType' /\ SlotsType' /\ GenerationBound' /\ QueuedHasValue'
  BY DEF LoadRejected, TypeOK, StoreType, SlotsType, GenerationBound, QueuedHasValue, slots
<1>3. GateType' /\ BackendType' /\ CallersType'
  BY DEF LoadRejected, TypeOK, GateType, BackendType, CallersType, backend, callers
<1>. QED  BY <1>1, <1>2, <1>3 DEF TypeOK

LEMMA StartLoadType ==
  ASSUME TypeOK, NEW user \in Users, StartLoad(user), UNCHANGED <<flights, polls>>
  PROVE  AdapterType' /\ GateType' /\ phase' \in {"loading", "ready", "error"}
<1>1. [load[user] EXCEPT !.at = "asked"]
        \in [at : {"idle", "asked", "read"}, rows : [Keys -> Row]]
  BY DEF TypeOK, AdapterType
<1>2. AdapterType'
  BY <1>1 DEF StartLoad, TypeOK, AdapterType
<1>3. GateType'
  BY DEF StartLoad, TypeOK, GateType
<1>. QED  BY <1>2, <1>3 DEF StartLoad

LEMMA RetryLoadTypeInv ==
  ASSUME TypeInv, RetryLoad
  PROVE  TypeInv'
<1>. USE DEF TypeInv
<1>1. AdapterType' /\ GateType' /\ phase' \in {"loading", "ready", "error"}
  BY StartLoadType DEF RetryLoad, TypeOK, StoreType
<1>2. StoreType' /\ SlotsType' /\ GenerationBound' /\ QueuedHasValue'
  BY <1>1 DEF RetryLoad, TypeOK, StoreType, SlotsType, GenerationBound, QueuedHasValue, slots
<1>3. BackendType' /\ CallersType'
  BY DEF RetryLoad, TypeOK, BackendType, CallersType, backend, callers
<1>. QED  BY <1>1, <1>2, <1>3 DEF TypeOK

LEMMA DeliverPollTypeInv ==
  ASSUME TypeInv, NEW i \in 1 .. MaxPolls, DeliverPoll(i)
  PROVE  TypeInv'
<1>. USE DEF TypeInv
<1>1. i \in DOMAIN polls /\ polls[i] \in Poll
  BY DEF DeliverPoll, TypeOK, AdapterType
<1>2. SlotsType' /\ QueuedHasValue'
  <2>1. CASE Current(polls[i].user)
    BY <1>1, <2>1, ReplaceType DEF DeliverPoll, Replace, QueuedHasValue, Poll
  <2>2. CASE ~Current(polls[i].user)
    BY <2>2 DEF DeliverPoll, TypeOK, SlotsType, QueuedHasValue, slots
  <2>. QED  BY <2>1, <2>2
<1>3. AdapterType'
  BY <1>1, WithoutPollType DEF DeliverPoll, TypeOK, AdapterType
<1>4. StoreType' /\ GateType' /\ BackendType' /\ CallersType' /\ GenerationBound'
  BY DEF DeliverPoll, TypeOK, StoreType, GateType, BackendType, CallersType, GenerationBound,
         store, backend, callers
<1>. QED  BY <1>2, <1>3, <1>4 DEF TypeOK

LEMMA PassTypeInv ==
  ASSUME TypeInv, NEW w \in Awaiters, NEW from, NEW to \in {"out", "current", "replaced"},
         Pass(w, from, to)
  PROVE  TypeInv'
<1>. USE DEF TypeInv
<1>1. GateType'
  BY DEF Pass, TypeOK, GateType
<1>2. StoreType' /\ SlotsType' /\ AdapterType' /\ GenerationBound' /\ QueuedHasValue'
  BY DEF Pass, TypeOK, StoreType, SlotsType, AdapterType, GenerationBound, QueuedHasValue,
         store, slots, adapter
<1>3. BackendType' /\ CallersType'
  BY DEF Pass, TypeOK, BackendType, CallersType, backend, callers
<1>. QED  BY <1>1, <1>2, <1>3 DEF TypeOK

LEMMA ResetTypeInv ==
  ASSUME TypeInv, Reset
  PROVE  TypeInv'
<1>. USE DEF TypeInv
<1>1. generation + 1 \in Users /\ generation + 1 <= MaxResets
  BY ConstantsAssumption DEF Reset, TypeOK, StoreType, Users
<1>2. AdapterType' /\ GateType' /\ phase' \in {"loading", "ready", "error"}
  BY <1>1, StartLoadType DEF Reset
<1>3. StoreType' /\ GenerationBound'
  BY <1>1, <1>2 DEF Reset, CloseGeneration, TypeOK, StoreType, GenerationBound
<1>4. SlotsType' /\ QueuedHasValue'
  BY NewSlotsType DEF Reset, NewSlots, QueuedHasValue, NoQueue
<1>5. CallersType' /\ BackendType'
  BY CloseGenerationType DEF Reset, TypeOK, BackendType, backend
<1>. QED  BY <1>2, <1>3, <1>4, <1>5 DEF TypeOK

LEMMA DisposeTypeInv ==
  ASSUME TypeInv, Dispose
  PROVE  TypeInv'
<1>. USE DEF TypeInv
<1>1. generation + 1 \in Users
  BY ConstantsAssumption DEF Dispose, GenerationBound, TypeOK, StoreType, Users
<1>2. StoreType' /\ GenerationBound'
  BY <1>1 DEF Dispose, CloseGeneration, TypeOK, StoreType, GenerationBound
<1>3. SlotsType' /\ QueuedHasValue'
  BY NewSlotsType DEF Dispose, NewSlots, QueuedHasValue, NoQueue
<1>4. CallersType' /\ BackendType'
  BY CloseGenerationType DEF Dispose, TypeOK, BackendType, backend
<1>5. GateType' /\ AdapterType'
  BY DEF Dispose, TypeOK, GateType, AdapterType, adapter
<1>. QED  BY <1>2, <1>3, <1>4, <1>5 DEF TypeOK

LEMMA SaveArrivesTypeInv ==
  ASSUME TypeInv, NEW f \in flights, SaveArrives(f)
  PROVE  TypeInv'
<1>. USE DEF TypeInv
<1>1. PICK version \in Versions :
        /\ Write(f.user, f.key, f.value, version)
        /\ flights' = (flights \ {f}) \cup
             {[f EXCEPT !.arrived = TRUE, !.row = NextRow(f.user, f.key, f.value, version)]}
  BY DEF SaveArrives
<1>2. f \in Flight /\ f.user \in Users /\ f.key \in Keys /\ f.value \in Content
  BY FlightFields DEF TypeOK, AdapterType
<1>3. BackendType'
  BY <1>1, <1>2, WriteType
<1>4. NextRow(f.user, f.key, f.value, version) \in Row
  BY <1>2, NextRowType
<1>5. [f EXCEPT !.arrived = TRUE, !.row = NextRow(f.user, f.key, f.value, version)] \in Flight
  BY <1>2, <1>4 DEF Flight
<1>6. AdapterType'
  BY <1>1, <1>5 DEF SaveArrives, TypeOK, AdapterType
<1>7. CallersType'
  BY FlightFields DEF SaveArrives, TypeOK, CallersType
<1>8. StoreType' /\ SlotsType' /\ GateType' /\ GenerationBound' /\ QueuedHasValue'
  BY DEF SaveArrives, TypeOK, StoreType, SlotsType, GateType, GenerationBound, QueuedHasValue,
         store, slots
<1>. QED  BY <1>3, <1>6, <1>7, <1>8 DEF TypeOK

LEMMA BackendStepTypeInv ==
  ASSUME TypeInv, BackendType', UNCHANGED <<store, slots, gate, adapter, callers>>
  PROVE  TypeInv'
<1>1. StoreType' /\ SlotsType' /\ GateType' /\ GenerationBound' /\ QueuedHasValue'
  BY DEF TypeInv, TypeOK, StoreType, SlotsType, GateType, GenerationBound, QueuedHasValue,
         store, slots
<1>2. AdapterType' /\ CallersType'
  BY DEF TypeInv, TypeOK, AdapterType, CallersType, adapter, callers
<1>. QED  BY <1>1, <1>2 DEF TypeInv, TypeOK

LEMMA OtherTabSavesTypeInv ==
  ASSUME TypeInv, NEW k \in Keys, NEW value \in Content, NEW version \in Versions,
         OtherTabSaves(k, value, version)
  PROVE  TypeInv'
<1>1. BackendType'
  BY WriteType DEF OtherTabSaves, TypeInv, TypeOK, StoreType
<1>. QED  BY <1>1, BackendStepTypeInv DEF OtherTabSaves

LEMMA BackendRewritesTypeInv ==
  ASSUME TypeInv, NEW k \in Keys, NEW version \in Versions, BackendRewrites(k, version)
  PROVE  TypeInv'
<1>1. server[generation][k] \in Row /\ version \in Nat /\ generation \in Users
  BY ConstantsAssumption DEF TypeInv, TypeOK, StoreType, BackendType
<1>2. [server[generation][k] EXCEPT !.version = version] \in Row
  BY <1>1 DEF Row
<1>3. BackendType'
  BY <1>1, <1>2 DEF BackendRewrites, TypeInv, TypeOK, BackendType
<1>. QED  BY <1>3, BackendStepTypeInv DEF BackendRewrites

LEMMA AdapterStepTypeInv ==
  ASSUME TypeInv, AdapterType', UNCHANGED <<store, slots, gate, backend, callers>>
  PROVE  TypeInv'
<1>1. StoreType' /\ SlotsType' /\ GateType' /\ GenerationBound' /\ QueuedHasValue'
  BY DEF TypeInv, TypeOK, StoreType, SlotsType, GateType, GenerationBound, QueuedHasValue,
         store, slots
<1>2. BackendType' /\ CallersType'
  BY DEF TypeInv, TypeOK, BackendType, CallersType, backend, callers
<1>. QED  BY <1>1, <1>2 DEF TypeInv, TypeOK

LEMMA LoadReadsTypeInv ==
  ASSUME TypeInv, NEW user \in Users, LoadReads(user)
  PROVE  TypeInv'
<1>1. server[user] \in [Keys -> Row]
  BY DEF TypeInv, TypeOK, BackendType
<1>2. AdapterType'
  BY <1>1, LoadType DEF LoadReads, TypeInv
<1>. QED  BY <1>2, AdapterStepTypeInv DEF LoadReads

LEMMA PollReadsTypeInv ==
  ASSUME TypeInv, PollReads
  PROVE  TypeInv'
<1>1. [user |-> generation, rows |-> server[generation], predates |-> FALSE] \in Poll
  BY DEF TypeInv, TypeOK, StoreType, BackendType, Poll
<1>2. AdapterType'
  BY <1>1 DEF PollReads, TypeInv, TypeOK, AdapterType
<1>. QED  BY <1>2, AdapterStepTypeInv DEF PollReads

LEMMA DropPollTypeInv ==
  ASSUME TypeInv, NEW i \in 1 .. MaxPolls, DropPoll(i)
  PROVE  TypeInv'
<1>1. AdapterType'
  BY WithoutPollType DEF DropPoll, TypeInv, TypeOK, AdapterType
<1>. QED  BY <1>1, AdapterStepTypeInv DEF DropPoll

LEMMA NextTypeInv == TypeInv /\ [Next]_vars => TypeInv'
<1>. SUFFICES ASSUME TypeInv, [Next]_vars PROVE TypeInv'
  OBVIOUS
<1>1. ASSUME NEW k \in Keys, Retry(k) PROVE TypeInv'
  <2>1. failed[k] \in Content
    BY <1>1 DEF Retry, TypeInv, TypeOK, SlotsType
  <2>. QED  BY <1>1, <2>1, SaveTypeInv DEF Retry
<1>2. CASE Store
  BY <1>1, <1>2, SaveTypeInv, RefuseSaveTypeInv, SaveResolvedTypeInv, SaveRejectedTypeInv,
     SaveAbandonedTypeInv, LoadResolvedTypeInv, LoadRejectedTypeInv, RetryLoadTypeInv,
     DeliverPollTypeInv, PassTypeInv, ResetTypeInv, DisposeTypeInv
     DEF Store, EnterWhenLoaded, FollowLoad, LeaveWhenLoaded
<1>3. CASE Environment
  BY <1>3, SaveArrivesTypeInv, OtherTabSavesTypeInv, BackendRewritesTypeInv, LoadReadsTypeInv,
     PollReadsTypeInv, DropPollTypeInv DEF Environment
<1>4. CASE UNCHANGED vars
  <2>1. UNCHANGED <<store, slots, gate, backend, callers>> /\ UNCHANGED adapter
    BY <1>4 DEF vars
  <2>2. AdapterType'
    BY <2>1 DEF adapter, TypeInv, TypeOK, AdapterType
  <2>. QED  BY <2>1, <2>2, AdapterStepTypeInv
<1>. QED  BY <1>2, <1>3, <1>4 DEF Next

(* Type correctness: every reachable state of the store, its adapter calls and its backend  *)
(* is well formed, for any keys, values and bounds.                                         *)
THEOREM TypeCorrect == Spec => []TypeOK
<1>1. Init => TypeInv
  BY InitTypeInv
<1>2. TypeInv /\ [Next]_vars => TypeInv'
  BY NextTypeInv
<1>3. TypeInv => TypeOK
  BY DEF TypeInv
<1>. QED  BY <1>1, <1>2, <1>3, PTL DEF Spec
-----------------------------------------------------------------------------
(* One save of a key in the air *)

\* No save belongs to a generation still to come, so a new one starts with none in the air.
NoFutureFlight == \A f \in flights : f.user <= generation

FlightInv == TypeInv /\ NoFutureFlight /\ OneFlightPerKey

LEMMA InitFlightInv == Init => FlightInv
BY InitTypeInv DEF Init, FlightInv, NoFutureFlight, OneFlightPerKey, InAir

\* What a step that leaves the saves and the generation alone preserves.
LEMMA SameFlights ==
  ASSUME FlightInv, UNCHANGED <<generation, disposed, flights, sending, queued, failed>>
  PROVE  NoFutureFlight' /\ OneFlightPerKey'
<1>1. \A k \in Keys : InAir(k)' = InAir(k)
  BY DEF InAir, Current
<1>. QED  BY <1>1 DEF FlightInv, NoFutureFlight, OneFlightPerKey

LEMMA SaveFlights ==
  ASSUME FlightInv, NEW k \in Keys, NEW value \in Content, Save(k, value)
  PROVE  NoFutureFlight' /\ OneFlightPerKey'
<1>. USE DEF FlightInv, TypeInv
<1>. DEFINE g == NewFlight(k, value, {issued + 1}, row[k])
<1>1. /\ generation \in Nat /\ UNCHANGED <<generation, disposed>> /\ ~disposed
      /\ value # None /\ failed' = [failed EXCEPT ![k] = None]
  BY ConstantsAssumption DEF Save, TypeOK, StoreType, Users, store, Content
<1>2. g.user = generation /\ g.key = k /\ g.value = value
  BY DEF NewFlight
<1>3. CASE SendNow(k, value)
  <2>1. NoFutureFlight'
    BY <1>1, <1>2, <1>3 DEF SendNow, NoFutureFlight
  <2>2. InAir(k) = {} /\ queued[k] = NoQueue
    BY <1>3 DEF SendNow, OneFlightPerKey
  <2>3. InAir(k)' = {g}
    BY <1>1, <1>2, <1>3, <2>2 DEF SendNow, InAir, Current
  <2>4. \A j \in Keys \ {k} : InAir(j)' = InAir(j)
    BY <1>1, <1>2, <1>3 DEF SendNow, InAir, Current
  <2>5. /\ sending' = [sending EXCEPT ![k] = value]
        /\ failed' = [failed EXCEPT ![k] = None] /\ queued' = queued
    BY <1>1, <1>3 DEF SendNow
  <2>6. OneFlightPerKey'
    <3>1. ASSUME NEW j \in Keys \ {k}
          PROVE  sending'[j] = sending[j] /\ failed'[j] = failed[j] /\ InAir(j)' = InAir(j)
      BY <2>4, <2>5 DEF TypeOK, SlotsType
    <3>2. sending'[k] = value /\ failed'[k] = None
      BY <2>5 DEF TypeOK, SlotsType
    <3>3. g.value = value
      BY <1>2
    <3>. HIDE DEF g
    <3>. QED  BY <1>1, <2>3, <2>5, <3>1, <3>2, <3>3 DEF OneFlightPerKey
  <2>. QED  BY <2>1, <2>6
<1>4. CASE SendNext(k, value)
  <2>1. \A j \in Keys : InAir(j)' = InAir(j)
    BY <1>1, <1>4 DEF SendNext, InAir, Current
  <2>2. OneFlightPerKey'
    BY <1>1, <1>4, <2>1 DEF SendNext, OneFlightPerKey, TypeOK, SlotsType
  <2>. QED  BY <1>1, <1>4, <2>2 DEF SendNext, NoFutureFlight
<1>. QED  BY <1>3, <1>4 DEF Save

LEMMA FinishFlights ==
  ASSUME FlightInv, NEW f \in flights, Current(f.user), NEW failure, NEW replaced,
         Finish(f, failure, replaced), UNCHANGED <<generation, disposed>>
  PROVE  NoFutureFlight' /\ OneFlightPerKey'
<1>. USE DEF FlightInv, TypeInv
<1>. DEFINE k == f.key
            next == queued[k]
            g == NewFlight(k, next.value, next.waiters, replaced)
<1>1. k \in Keys /\ generation \in Nat
  BY FlightFields, ConstantsAssumption DEF TypeOK, StoreType, Users
<1>2. g.user = generation /\ g.key = k /\ g.value = next.value
  BY DEF NewFlight
<1>3. InAir(k) = {f}
  BY <1>1 DEF OneFlightPerKey, InAir
<1>4. CASE next.waiters = {}
  <2>1. flights' = flights \ {f} /\ sending' = [sending EXCEPT ![k] = None]
    BY <1>4 DEF Finish
  <2>2. InAir(k)' = {}
    BY <1>3, <2>1 DEF InAir, Current
  <2>3. \A j \in Keys \ {k} : InAir(j)' = InAir(j)
    BY <2>1 DEF InAir, Current
  <2>4. OneFlightPerKey'
    BY <1>1, <1>4, <2>1, <2>2, <2>3 DEF Finish, OneFlightPerKey, TypeOK, SlotsType
  <2>. QED  BY <2>1, <2>4 DEF NoFutureFlight
<1>5. CASE next.waiters # {}
  <2>1. flights' = (flights \ {f}) \cup {g} /\ sending' = [sending EXCEPT ![k] = next.value]
    BY <1>5 DEF Finish
  <2>2. InAir(k)' = {g}
    BY <1>2, <1>3, <2>1 DEF InAir, Current
  <2>3. \A j \in Keys \ {k} : InAir(j)' = InAir(j)
    BY <1>2, <2>1 DEF InAir, Current
  <2>4. next.value # None
    BY <1>1, <1>5, ConstantsAssumption DEF QueuedHasValue, Content
  <2>5. failed' = [failed EXCEPT ![k] = None] /\ queued' = [queued EXCEPT ![k] = NoQueue]
    BY <1>5 DEF Finish
  <2>6. OneFlightPerKey'
    BY <1>1, <1>2, <2>1, <2>2, <2>3, <2>4, <2>5 DEF OneFlightPerKey, TypeOK, SlotsType
  <2>7. NoFutureFlight'
    BY <1>1, <1>2, <2>1 DEF NoFutureFlight
  <2>. QED  BY <2>6, <2>7
<1>. QED  BY <1>4, <1>5

LEMMA SaveAbandonedFlights ==
  ASSUME FlightInv, NEW f \in flights, SaveAbandoned(f)
  PROVE  NoFutureFlight' /\ OneFlightPerKey'
<1>1. /\ UNCHANGED <<generation, disposed, sending, queued, failed>>
      /\ flights' = flights \ {f} /\ ~Current(f.user)
  BY DEF SaveAbandoned, store, slots
<1>2. \A k \in Keys : InAir(k)' = InAir(k)
  BY <1>1 DEF InAir, Current
<1>. QED  BY <1>1, <1>2 DEF FlightInv, NoFutureFlight, OneFlightPerKey

LEMMA SaveArrivesFlights ==
  ASSUME FlightInv, NEW f \in flights, SaveArrives(f)
  PROVE  NoFutureFlight' /\ OneFlightPerKey'
<1>. USE DEF FlightInv, TypeInv
<1>1. PICK version \in Versions :
        flights' = (flights \ {f}) \cup
          {[f EXCEPT !.arrived = TRUE, !.row = NextRow(f.user, f.key, f.value, version)]}
  BY DEF SaveArrives
<1>. DEFINE g == [f EXCEPT !.arrived = TRUE, !.row = NextRow(f.user, f.key, f.value, version)]
<1>2. f \in Flight
  BY DEF TypeOK, AdapterType
<1>3. g.user = f.user /\ g.key = f.key /\ g.value = f.value
  BY <1>2 DEF Flight
<1>4. UNCHANGED <<generation, disposed, sending, queued, failed>>
  BY DEF SaveArrives, store, slots
<1>5. ASSUME NEW k \in Keys
      PROVE  InAir(k)' = IF f \in InAir(k) THEN (InAir(k) \ {f}) \cup {g} ELSE InAir(k)
  BY <1>1, <1>3, <1>4 DEF InAir, Current
<1>6. ASSUME NEW k \in Keys
      PROVE  \/ InAir(k)' = InAir(k)
             \/ InAir(k) = {f} /\ InAir(k)' = {g}
  <2>1. CASE f \in InAir(k)
    <3>1. InAir(k) = {f}
      BY <2>1 DEF OneFlightPerKey
    <3>. QED  BY <1>5, <2>1, <3>1
  <2>2. CASE f \notin InAir(k)
    BY <1>5, <2>2
  <2>. QED  BY <2>1, <2>2
<1>7. OneFlightPerKey'
  <2>1. g.value = f.value
    BY <1>3
  <2>. HIDE DEF g
  <2>. QED  BY <1>4, <1>6, <2>1 DEF OneFlightPerKey
<1>. QED  BY <1>1, <1>3, <1>4, <1>7 DEF NoFutureFlight

LEMMA CloseGenerationFlights ==
  ASSUME FlightInv, generation' = generation + 1, UNCHANGED flights, NewSlots
  PROVE  NoFutureFlight' /\ OneFlightPerKey'
<1>. USE DEF FlightInv, TypeInv
<1>1. generation \in Nat /\ \A f \in flights : f.user \in Nat /\ f.user <= generation
  BY FlightFields, ConstantsAssumption DEF TypeOK, StoreType, Users, NoFutureFlight
<1>2. \A k \in Keys : InAir(k)' = {}
  BY <1>1 DEF InAir, Current
<1>3. NoFutureFlight'
  BY <1>1 DEF NoFutureFlight
<1>4. OneFlightPerKey'
  BY <1>2 DEF OneFlightPerKey, NewSlots
<1>. QED  BY <1>3, <1>4

LEMMA NextFlightInv == FlightInv /\ [Next]_vars => FlightInv'
<1>. SUFFICES ASSUME FlightInv, [Next]_vars PROVE NoFutureFlight' /\ OneFlightPerKey'
  BY NextTypeInv DEF FlightInv
<1>. USE DEF store, slots, adapter, vars
<1>1. ASSUME NEW k \in Keys, NEW value \in Content, Save(k, value) \/ RefuseSave(k, value)
      PROVE  NoFutureFlight' /\ OneFlightPerKey'
  BY <1>1, SaveFlights, SameFlights DEF RefuseSave
<1>2. ASSUME NEW k \in Keys, Retry(k)
      PROVE  NoFutureFlight' /\ OneFlightPerKey'
  <2>1. failed[k] \in Content
    BY <1>2 DEF Retry, FlightInv, TypeInv, TypeOK, SlotsType
  <2>. QED  BY <1>2, <2>1, SaveFlights DEF Retry
<1>3. ASSUME NEW f \in flights, SaveResolved(f) \/ SaveRejected(f) \/ SaveAbandoned(f)
      PROVE  NoFutureFlight' /\ OneFlightPerKey'
  BY <1>3, FinishFlights, SaveAbandonedFlights DEF SaveResolved, SaveRejected
<1>4. ASSUME NEW user \in Users, LoadResolved(user) \/ LoadRejected(user) \/ LoadReads(user)
      PROVE  NoFutureFlight' /\ OneFlightPerKey'
  BY <1>4, SameFlights DEF LoadResolved, LoadRejected, LoadReads, Replace
<1>5. ASSUME NEW i, DeliverPoll(i) \/ DropPoll(i)
      PROVE  NoFutureFlight' /\ OneFlightPerKey'
  BY <1>5, SameFlights DEF DeliverPoll, DropPoll, Replace
<1>6. CASE Reset \/ Dispose
  BY <1>6, CloseGenerationFlights DEF Reset, Dispose, CloseGeneration
<1>7. CASE \E f \in flights : SaveArrives(f)
  BY <1>7, SaveArrivesFlights
<1>8. CASE \/ RetryLoad \/ PollReads \/ UNCHANGED vars
           \/ \E w \in Awaiters : EnterWhenLoaded(w) \/ FollowLoad(w) \/ LeaveWhenLoaded(w)
           \/ \E k \in Keys, value \in Content, version \in Versions :
                OtherTabSaves(k, value, version)
  BY <1>8, SameFlights DEF RetryLoad, PollReads, EnterWhenLoaded, FollowLoad, LeaveWhenLoaded,
                           Pass, OtherTabSaves, BackendRewrites
<1>9. CASE \E k \in Keys, version \in Versions : BackendRewrites(k, version)
  BY <1>9, SameFlights DEF BackendRewrites
<1>. QED
  BY <1>1, <1>2, <1>3, <1>4, <1>5, <1>6, <1>7, <1>8, <1>9 DEF Next, Store, Environment

(* Saves of one key go out one at a time: the key is marked as sending exactly while one    *)
(* save of the signed-in user is in the air, and only then is another one queued.           *)
THEOREM SavesGoOneAtATime == Spec => []OneFlightPerKey
<1>1. FlightInv => OneFlightPerKey
  BY DEF FlightInv
<1>. QED  BY <1>1, InitFlightInv, NextFlightInv, PTL DEF Spec

-----------------------------------------------------------------------------
(* Whose rows the store holds, and that it only moves forward *)

\* A row that the backend has held for the user, at a revision it has reached.
Known(r, user, highest) == r = NoRow \/ (r.user = user /\ r.revision \in 0 .. highest)

\* Every row on its way to the store is one the backend of its user has held.
RowsKnown ==
  /\ \A u \in Users, k \in Keys :
       Known(server[u][k], u, top[u][k]) /\ Known(load[u].rows[k], u, top[u][k])
  /\ \A f \in flights : Known(f.row, f.user, top[f.user][f.key])
  /\ \A i \in DOMAIN polls, k \in Keys :
       Known(polls[i].rows[k], polls[i].user, top[polls[i].user][k])

\* The row held is the newest the key has had, and is the signed-in user's.
HeldIsNewest ==
  \A k \in Keys :
    /\ Known(row[k], generation, top[generation][k])
    /\ disposed => row[k] = NoRow
    /\ row[k] # NoRow => row[k].revision = seen[k]
    /\ seen[k] <= top[generation][k]

\* Of an answer that replaces no row, #finish takes nothing older than what was removed.
AnswerIsNewer ==
  \A f \in flights :
    f.arrived /\ Current(f.user) /\ f.value # Removal
      => /\ f.row # NoRow
         /\ row[f.key] # NoRow \/ f.row.revision > seen[f.key]

KnownInv == FlightInv /\ RowsKnown /\ HeldIsNewest /\ AnswerIsNewer

\* What RowNeverGoesBack says of a step.
NeverBack ==
  generation' = generation =>
    \A k \in Keys :
      /\ seen'[k] >= seen[k] /\ seen'[k] >= row'[k].revision
      /\ row'[k] \notin {row[k], NoRow} => row'[k].revision >= seen[k]

LEMMA InitKnownInv == Init => KnownInv
<1>. SUFFICES ASSUME Init PROVE KnownInv
  OBVIOUS
<1>1. FlightInv
  BY InitFlightInv
<1>2. \A u \in Users, k \in Keys : server[u][k] = NoRow /\ load[u].rows[k] = NoRow
  BY DEF Init, NoLoad
<1>3. RowsKnown
  BY <1>2 DEF Init, RowsKnown, Known
<1>4. generation \in Users
  BY <1>1 DEF FlightInv, TypeInv, TypeOK, StoreType
<1>5. HeldIsNewest /\ AnswerIsNewer
  BY <1>4 DEF Init, HeldIsNewest, AnswerIsNewer, Known
<1>. QED  BY <1>1, <1>3, <1>5 DEF KnownInv

LEMMA KnownGrows ==
  ASSUME NEW r, NEW user, NEW low \in Nat, NEW high \in Nat, low <= high, Known(r, user, low)
  PROVE  Known(r, user, high)
BY DEF Known

LEMMA TopType ==
  ASSUME TypeOK
  PROVE  \A u \in Users, k \in Keys : top[u][k] \in Nat
BY DEF TypeOK, BackendType

LEMMA NextRowKnown ==
  ASSUME TypeOK, NEW user \in Users, NEW k \in Keys, NEW value, NEW version
  PROVE  Known(NextRow(user, k, value, version), user, top[user][k] + 1)
BY TopType DEF NextRow, Known

\* A step that leaves the slots, the generation and the saves in the air alone.
LEMMA SameHeld ==
  ASSUME KnownInv, FlightInv', UNCHANGED <<generation, disposed, row, seen, flights>>,
         \A u \in Users, k \in Keys : top'[u][k] >= top[u][k]
  PROVE  HeldIsNewest' /\ AnswerIsNewer' /\ NeverBack
<1>. USE DEF KnownInv, FlightInv, TypeInv
<1>1. generation \in Users /\ \A k \in Keys : top[generation][k] \in Nat
                                           /\ top'[generation][k] \in Nat
                                           /\ seen[k] \in Nat \cup {-1} /\ row[k] \in Row
  BY DEF TypeOK, StoreType, SlotsType, BackendType
<1>2. HeldIsNewest'
  BY <1>1, KnownGrows DEF HeldIsNewest
<1>3. AnswerIsNewer'
  BY DEF AnswerIsNewer, Current
<1>4. NeverBack
  BY <1>1 DEF NeverBack, HeldIsNewest, NoRow
<1>. QED  BY <1>2, <1>3, <1>4

LEMMA ReplaceHeld ==
  ASSUME KnownInv, FlightInv', NEW rows \in [Keys -> Row], Replace(rows), ~disposed,
         \A k \in Keys : Known(rows[k], generation, top[generation][k]),
         UNCHANGED <<generation, disposed, flights, top>>
  PROVE  HeldIsNewest' /\ AnswerIsNewer' /\ NeverBack
<1>. USE DEF KnownInv, FlightInv, TypeInv
<1>1. ASSUME NEW k \in Keys
      PROVE  /\ Known(row'[k], generation, top[generation][k])
             /\ row'[k] # NoRow => row'[k].revision = seen'[k]
             /\ seen'[k] <= top[generation][k]
             /\ seen'[k] >= seen[k] /\ seen'[k] >= row'[k].revision
             /\ row'[k] \notin {row[k], NoRow} => row'[k].revision >= seen[k]
             /\ sending[k] # None =>
                  \/ row'[k] # NoRow
                  \/ row'[k] = row[k] /\ seen'[k] = seen[k]
  <2>1. row'[k] = Replaced(rows, k) /\ seen'[k] = LargerOf(seen[k], Replaced(rows, k).revision)
    BY DEF Replace
  <2>2. /\ rows[k] \in Row /\ row[k] \in Row /\ seen[k] \in Nat \cup {-1}
        /\ top[generation][k] \in Nat /\ rows[k].revision \in Nat \cup {-1}
        /\ row[k].revision \in Nat \cup {-1}
    BY TopType DEF TypeOK, StoreType, SlotsType, Row
  <2>3. /\ Known(row[k], generation, top[generation][k])
        /\ row[k] # NoRow => row[k].revision = seen[k]
        /\ seen[k] <= top[generation][k]
    BY DEF HeldIsNewest
  <2>4. CASE Replaced(rows, k) = row[k]
    BY <2>1, <2>2, <2>3, <2>4 DEF LargerOf, NoRow
  <2>5. CASE Replaced(rows, k) = NoRow /\ sending[k] = None
    BY <2>1, <2>2, <2>3, <2>5 DEF LargerOf, NoRow, Known
  <2>6. CASE /\ Replaced(rows, k) = rows[k] /\ rows[k].revision # -1
             /\ \/ rows[k].revision > seen[k]
                \/ row[k].revision = rows[k].revision
    <3>1. rows[k] # NoRow
      BY <2>6 DEF NoRow
    <3>2. rows[k].revision <= top[generation][k] /\ rows[k].revision >= seen[k]
      BY <2>2, <2>3, <2>6, <3>1 DEF Known, NoRow
    <3>3. seen'[k] = rows[k].revision
      BY <2>1, <2>2, <2>6, <3>2 DEF LargerOf
    <3>. QED  BY <2>1, <2>2, <2>6, <3>1, <3>2, <3>3
  <2>. QED  BY <2>2, <2>4, <2>5, <2>6 DEF Replaced
<1>2. HeldIsNewest'
  BY <1>1 DEF HeldIsNewest
<1>3. NeverBack
  BY <1>1 DEF NeverBack
<1>4. ASSUME NEW f \in flights', (f.arrived /\ Current(f.user) /\ f.value # Removal)'
      PROVE  f.row # NoRow /\ (row'[f.key] # NoRow \/ f.row.revision > seen'[f.key])
  <2>1. f \in flights /\ f.key \in Keys /\ Current(f.user)
    BY <1>4, FlightFields DEF Current
  <2>2. sending[f.key] # None
    BY <2>1 DEF OneFlightPerKey, InAir
  <2>. QED  BY <1>1, <1>4, <2>1, <2>2 DEF AnswerIsNewer
<1>. QED  BY <1>2, <1>3, <1>4 DEF AnswerIsNewer

LEMMA SendHeld ==
  ASSUME KnownInv, FlightInv', UNCHANGED <<generation, disposed, row, seen, top>>,
         \A f \in flights' : f \in flights \/ ~f.arrived
  PROVE  HeldIsNewest' /\ AnswerIsNewer' /\ NeverBack
<1>. USE DEF KnownInv, FlightInv, TypeInv
<1>1. \A k \in Keys : seen[k] \in Nat \cup {-1} /\ row[k] \in Row
  BY DEF TypeOK, SlotsType
<1>2. HeldIsNewest'
  BY DEF HeldIsNewest
<1>3. AnswerIsNewer'
  BY DEF AnswerIsNewer, Current
<1>4. NeverBack
  BY <1>1 DEF NeverBack, HeldIsNewest, NoRow
<1>. QED  BY <1>2, <1>3, <1>4

LEMMA SaveResolvedHeld ==
  ASSUME KnownInv, FlightInv', NEW f \in flights, SaveResolved(f)
  PROVE  HeldIsNewest' /\ AnswerIsNewer' /\ NeverBack
<1>. USE DEF KnownInv, FlightInv, TypeInv
<1>. DEFINE k == f.key
            held == row[k]
<1>1. /\ k \in Keys /\ f.row \in Row /\ held \in Row /\ Accepted(f) \in Row
      /\ seen[k] \in Nat \cup {-1} /\ generation \in Users /\ top[generation][k] \in Nat
      /\ f.user = generation /\ ~disposed /\ f.arrived /\ Current(f.user)
      /\ f.replacing \in Nat \cup {-1}
  BY FlightFields, AcceptedType, TopType DEF SaveResolved, Current, TypeOK, StoreType, SlotsType
<1>2. /\ row' = [row EXCEPT ![k] = Accepted(f)]
      /\ seen' = [seen EXCEPT ![k] = LargerOf(@, Accepted(f).revision)]
      /\ UNCHANGED <<generation, disposed, top>>
  BY DEF SaveResolved, store, backend
<1>3. /\ Known(held, generation, top[generation][k]) /\ seen[k] <= top[generation][k]
      /\ held # NoRow => held.revision = seen[k]
      /\ Known(f.row, generation, top[generation][k])
  BY <1>1 DEF HeldIsNewest, RowsKnown
<1>4. /\ f.row.revision \in Nat \cup {-1} /\ held.revision \in Nat \cup {-1}
  BY <1>1 DEF Row
<1>5. /\ Known(Accepted(f), generation, top[generation][k])
      /\ Accepted(f) # NoRow => Accepted(f).revision = LargerOf(seen[k], Accepted(f).revision)
      /\ Accepted(f) \notin {held, NoRow} => Accepted(f).revision >= seen[k]
  <2>1. CASE Accepted(f) = held
    BY <1>1, <1>3, <1>4, <2>1 DEF LargerOf
  <2>2. CASE Accepted(f) = NoRow
    BY <2>2 DEF Known
  <2>3. CASE /\ Accepted(f) = f.row /\ f.value # Removal /\ ~(held.revision > f.row.revision)
    <3>1. f.row # NoRow /\ (held # NoRow \/ f.row.revision > seen[k])
      BY <1>1, <2>3 DEF AnswerIsNewer
    <3>2. f.row.revision >= seen[k]
      BY <1>1, <1>3, <1>4, <2>3, <3>1
    <3>. QED  BY <1>1, <1>3, <1>4, <2>3, <3>1, <3>2 DEF LargerOf
  <2>. QED  BY <2>1, <2>2, <2>3 DEF Accepted
<1>6. /\ Accepted(f).revision \in Nat \cup {-1}
      /\ Accepted(f).revision <= top[generation][k]
  BY <1>1, <1>5 DEF Known, NoRow, Row
<1>7. /\ row'[k] = Accepted(f) /\ seen'[k] = LargerOf(seen[k], Accepted(f).revision)
      /\ \A j \in Keys \ {k} : row'[j] = row[j] /\ seen'[j] = seen[j]
  BY <1>1, <1>2 DEF TypeOK, SlotsType
<1>8. /\ seen'[k] >= seen[k] /\ seen'[k] <= top[generation][k]
      /\ seen'[k] >= Accepted(f).revision
  BY <1>1, <1>3, <1>6, <1>7 DEF LargerOf
<1>9. HeldIsNewest'
  BY <1>1, <1>2, <1>5, <1>7, <1>8 DEF HeldIsNewest
<1>10. NeverBack
  <2>1. ASSUME NEW j \in Keys \ {k}
        PROVE  seen[j] \in Nat \cup {-1} /\ seen[j] >= row[j].revision
    BY DEF HeldIsNewest, NoRow, TypeOK, SlotsType
  <2>. QED  BY <1>5, <1>7, <1>8, <2>1 DEF NeverBack
<1>11. ASSUME NEW g \in flights', g.arrived, Current(g.user)
       PROVE  g \in flights /\ g.key \in Keys \ {k}
  <2>1. g \in flights \ {f}
    BY <1>11 DEF SaveResolved, Finish, NewFlight
  <2>2. g.key # k
    BY <1>1, <1>11, <2>1 DEF OneFlightPerKey, InAir
  <2>. QED  BY <2>1, <2>2, FlightFields
<1>12. AnswerIsNewer'
  BY <1>2, <1>7, <1>11 DEF AnswerIsNewer, Current
<1>. QED  BY <1>9, <1>10, <1>12

LEMMA SaveArrivesHeld ==
  ASSUME KnownInv, FlightInv', NEW f \in flights, SaveArrives(f)
  PROVE  HeldIsNewest' /\ AnswerIsNewer' /\ NeverBack
<1>. USE DEF KnownInv, FlightInv, TypeInv
<1>1. PICK version \in Versions :
        /\ Write(f.user, f.key, f.value, version)
        /\ flights' = (flights \ {f}) \cup
             {[f EXCEPT !.arrived = TRUE, !.row = NextRow(f.user, f.key, f.value, version)]}
  BY DEF SaveArrives
<1>2. /\ UNCHANGED <<generation, disposed, row, seen>> /\ f \in Flight
      /\ f.user \in Users /\ f.key \in Keys /\ generation \in Users
  BY FlightFields DEF SaveArrives, store, slots, TypeOK, StoreType, AdapterType
<1>3. \A u \in Users, k \in Keys : top[u][k] \in Nat /\ top'[u][k] \in Nat
                                  /\ top'[u][k] >= top[u][k]
  BY <1>1, <1>2 DEF Write, TypeOK, BackendType
<1>4. \A k \in Keys : seen[k] \in Nat \cup {-1} /\ row[k] \in Row
  BY DEF TypeOK, SlotsType
<1>5. HeldIsNewest'
  BY <1>2, <1>3, <1>4, KnownGrows DEF HeldIsNewest
<1>6. NeverBack
  BY <1>2, <1>4 DEF NeverBack, HeldIsNewest, NoRow
<1>7. ASSUME NEW g \in flights', g.arrived, Current(g.user), g.value # Removal
      PROVE  g.row # NoRow /\ (row[g.key] # NoRow \/ g.row.revision > seen[g.key])
  <2>1. CASE g \in flights
    BY <1>7, <2>1 DEF AnswerIsNewer
  <2>2. CASE g = [f EXCEPT !.arrived = TRUE, !.row = NextRow(f.user, f.key, f.value, version)]
    <3>1. /\ g.user = f.user /\ g.key = f.key /\ g.value = f.value
          /\ g.row = NextRow(f.user, f.key, f.value, version)
      BY <1>2, <2>2 DEF Flight
    <3>2. g.row.revision = top[generation][f.key] + 1
      BY <1>7, <3>1 DEF NextRow, Current
    <3>3. seen[f.key] <= top[generation][f.key]
      BY <1>2 DEF HeldIsNewest
    <3>. QED  BY <1>2, <1>3, <1>4, <3>1, <3>2, <3>3 DEF NoRow
  <2>. QED  BY <1>1, <2>1, <2>2
<1>8. AnswerIsNewer'
  BY <1>2, <1>7 DEF AnswerIsNewer, Current
<1>. QED  BY <1>5, <1>6, <1>8

LEMMA CloseGenerationHeld ==
  ASSUME KnownInv, FlightInv', CloseGeneration, NewSlots, UNCHANGED <<flights, top>>,
         generation' \in Users
  PROVE  HeldIsNewest' /\ AnswerIsNewer' /\ NeverBack
<1>. USE DEF KnownInv, FlightInv, TypeInv
<1>1. generation' = generation + 1 /\ generation \in Nat
  BY ConstantsAssumption DEF CloseGeneration, TypeOK, StoreType, Users
<1>2. \A k \in Keys : row'[k] = NoRow /\ seen'[k] = -1 /\ top'[generation'][k] \in Nat
  BY DEF NewSlots, TypeOK, BackendType
<1>3. HeldIsNewest'
  BY <1>2 DEF HeldIsNewest, Known
<1>4. \A f \in flights' : ~Current(f.user)'
  BY <1>1, FlightFields, ConstantsAssumption DEF NoFutureFlight, Current, Users
<1>5. AnswerIsNewer'
  BY <1>4 DEF AnswerIsNewer
<1>6. NeverBack
  BY <1>1 DEF NeverBack
<1>. QED  BY <1>3, <1>5, <1>6

\* One key of one user moves on; the rows of all others stay known.
LEMMA WriteKnown ==
  ASSUME TypeOK, NEW user \in Users, NEW k \in Keys, NEW value, NEW version,
         Write(user, k, value, version), RowsKnown
  PROVE  /\ \A u \in Users, j \in Keys :
              /\ top'[u][j] \in Nat /\ top'[u][j] >= top[u][j]
              /\ Known(server'[u][j], u, top'[u][j])
         /\ Known(NextRow(user, k, value, version), user, top'[user][k])
<1>1. \A u \in Users, j \in Keys :
        /\ top[u][j] \in Nat /\ top'[u][j] \in Nat
        /\ top'[u][j] = IF u = user /\ j = k THEN top[u][j] + 1 ELSE top[u][j]
        /\ server'[u][j] = IF u = user /\ j = k
                            THEN NextRow(user, k, value, version) ELSE server[u][j]
  BY DEF Write, TypeOK, BackendType
<1>2. Known(NextRow(user, k, value, version), user, top'[user][k])
  BY <1>1, NextRowKnown
<1>. QED  BY <1>1, <1>2 DEF RowsKnown

LEMMA GrowKnown ==
  ASSUME TypeOK, RowsKnown, UNCHANGED <<load, polls>>,
         \A u \in Users, k \in Keys :
           /\ top'[u][k] \in Nat /\ top'[u][k] >= top[u][k]
           /\ Known(server'[u][k], u, top'[u][k]),
         \A f \in flights' \ flights :
           f.user \in Users /\ f.key \in Keys /\ Known(f.row, f.user, top'[f.user][f.key])
  PROVE  RowsKnown'
<1>1. \A u \in Users, k \in Keys : top[u][k] \in Nat
  BY TopType
<1>2. \A u \in Users, k \in Keys : Known(load[u].rows[k], u, top'[u][k])
  BY <1>1, KnownGrows DEF RowsKnown
<1>3. ASSUME NEW f \in flights' PROVE Known(f.row, f.user, top'[f.user][f.key])
  BY <1>1, FlightFields, KnownGrows DEF RowsKnown
<1>4. ASSUME NEW i \in DOMAIN polls, NEW k \in Keys
      PROVE  Known(polls[i].rows[k], polls[i].user, top'[polls[i].user][k])
  <2>1. polls[i] \in Poll
    BY DEF TypeOK, AdapterType
  <2>2. polls[i].user \in Users
    BY <2>1 DEF Poll
  <2>. QED  BY <1>1, <2>2, KnownGrows DEF RowsKnown
<1>. QED  BY <1>2, <1>3, <1>4 DEF RowsKnown

\* Steps after which only rows already on their way are, or rows read at the backend.
LEMMA SameKnown ==
  ASSUME TypeOK, RowsKnown, UNCHANGED <<server, top>>,
         \A f \in flights' \ flights : f.row = NoRow,
         \A u \in Users : load'[u].rows \in {load[u].rows, NoLoad.rows, server[u]},
         \A i \in DOMAIN polls' :
           \/ \E j \in DOMAIN polls : polls'[i].user = polls[j].user
                                      /\ polls'[i].rows = polls[j].rows
           \/ polls'[i].user \in Users /\ polls'[i].rows = server[polls'[i].user]
  PROVE  RowsKnown'
<1>1. ASSUME NEW u \in Users, NEW k \in Keys
      PROVE  Known(server'[u][k], u, top'[u][k]) /\ Known(load'[u].rows[k], u, top'[u][k])
  BY DEF RowsKnown, Known, NoLoad
<1>2. \A f \in flights' : Known(f.row, f.user, top'[f.user][f.key])
  BY DEF RowsKnown, Known
<1>3. ASSUME NEW i \in DOMAIN polls', NEW k \in Keys
      PROVE  Known(polls'[i].rows[k], polls'[i].user, top'[polls'[i].user][k])
  BY DEF RowsKnown
<1>. QED  BY <1>1, <1>2, <1>3 DEF RowsKnown

\* The states that are left keep their order.
LEMMA WithoutPollIs ==
  ASSUME TypeOK, NEW i \in DOMAIN polls, polls' = WithoutPoll(i)
  PROVE  \A n \in DOMAIN polls' :
           /\ n \in Nat /\ n >= 1 /\ i \in Nat /\ i >= 1
           /\ IF n < i THEN n \in DOMAIN polls /\ polls'[n] = polls[n]
                       ELSE n + 1 \in DOMAIN polls /\ polls'[n] = polls[n + 1]
<1>1. polls \in Seq(Poll) /\ i \in 1 .. Len(polls) /\ Len(polls) \in Nat
  BY DEF TypeOK, AdapterType
<1>. DEFINE a == SubSeq(polls, 1, i - 1)
            b == SubSeq(polls, i + 1, Len(polls))
<1>2. a \in Seq(Poll) /\ b \in Seq(Poll) /\ Len(a) = i - 1 /\ Len(b) = Len(polls) - i
  BY <1>1
<1>3. ASSUME NEW n \in 1 .. Len(a) PROVE a[n] = polls[n] /\ n \in 1 .. Len(polls)
  BY <1>1, <1>2
<1>4. ASSUME NEW n \in 1 .. Len(b) PROVE b[n] = polls[n + i] /\ n + i \in 1 .. Len(polls)
  BY <1>1, <1>2
<1>5. polls' = a \o b /\ Len(a) \in Nat /\ Len(b) \in Nat
  BY <1>1, <1>2 DEF WithoutPoll
<1>. HIDE DEF a, b
<1>6. /\ DOMAIN polls' = 1 .. Len(a) + Len(b)
      /\ \A n \in DOMAIN polls' : polls'[n] = IF n <= Len(a) THEN a[n] ELSE b[n - Len(a)]
  BY <1>2, <1>5
<1>7. ASSUME NEW n \in DOMAIN polls'
      PROVE  /\ n \in Nat /\ n >= 1
             /\ IF n < i THEN n \in 1 .. Len(polls) /\ polls'[n] = polls[n]
                         ELSE n + 1 \in 1 .. Len(polls) /\ polls'[n] = polls[n + 1]
  <2>1. n \in Nat /\ n >= 1 /\ n <= Len(a) + Len(b)
    BY <1>5, <1>6
  <2>2. CASE n < i
    BY <1>1, <1>2, <1>3, <1>6, <2>1, <2>2
  <2>3. CASE ~(n < i)
    <3>0. i \in Nat /\ Len(a) = i - 1
      BY <1>1, <1>2
    <3>1. n - Len(a) \in 1 .. Len(b) /\ (n - Len(a)) + i = n + 1 /\ ~(n <= Len(a))
      BY <3>0, <1>5, <2>1, <2>3
    <3>2. polls'[n] = b[n - Len(a)]
      BY <1>6, <3>1
    <3>3. n + 1 \in 1 .. Len(polls) /\ b[n - Len(a)] = polls[n + 1]
      <4>1. PICK m \in 1 .. Len(b) : m = n - Len(a)
        BY <3>1
      <4>. QED  BY <1>4, <3>1, <4>1
    <3>. QED  BY <2>1, <2>3, <3>2, <3>3
  <2>. QED  BY <2>2, <2>3
<1>. QED  BY <1>1, <1>7

LEMMA WithoutPollKnown ==
  ASSUME TypeOK, NEW i \in DOMAIN polls, polls' = WithoutPoll(i)
  PROVE  \A n \in DOMAIN polls' : \E j \in DOMAIN polls : polls'[n] = polls[j]
BY WithoutPollIs

LEMMA StoreKnownInv ==
  ASSUME KnownInv, FlightInv', Store
  PROVE  RowsKnown' /\ HeldIsNewest' /\ AnswerIsNewer' /\ NeverBack
<1>. USE DEF KnownInv, FlightInv, TypeInv, store, slots, adapter, backend
<1>. DEFINE Goal == RowsKnown' /\ HeldIsNewest' /\ AnswerIsNewer' /\ NeverBack
<1>0. \A u \in Users, k \in Keys : top[u][k] \in Nat
  BY TopType
<1>1. ASSUME NEW k \in Keys, NEW value, Save(k, value)
      PROVE  Goal
  <2>1. \A f \in flights' : f \in flights \/ (~f.arrived /\ f.row = NoRow)
    BY <1>1 DEF Save, SendNow, SendNext, NewFlight
  <2>2. UNCHANGED <<generation, disposed, row, seen, server, top, load, polls>>
    BY <1>1 DEF Save
  <2>3. RowsKnown'
    BY <2>1, <2>2, SameKnown
  <2>. QED  BY <2>1, <2>2, <2>3, SendHeld
<1>2. ASSUME NEW k \in Keys, NEW value, RefuseSave(k, value)
      PROVE  Goal
  BY <1>0, <1>2, SameHeld, SameKnown DEF RefuseSave
<1>3. ASSUME NEW f \in flights, SaveResolved(f)
      PROVE  Goal
  <2>1. UNCHANGED <<server, top, load>> /\ \A g \in flights' \ flights : g.row = NoRow
    BY <1>3 DEF SaveResolved, Finish, NewFlight
  <2>2. \A i \in DOMAIN polls : polls[i] \in Poll
    BY DEF TypeOK, AdapterType
  <2>3. \A i \in DOMAIN polls' : i \in DOMAIN polls /\ polls'[i].user = polls[i].user
                                                   /\ polls'[i].rows = polls[i].rows
    BY <1>3, <2>2 DEF SaveResolved, Predate, Poll
  <2>4. RowsKnown'
    BY <2>1, <2>3, SameKnown
  <2>. QED  BY <1>3, <2>4, SaveResolvedHeld
<1>4. ASSUME NEW f \in flights, SaveRejected(f)
      PROVE  Goal
  <2>1. \A g \in flights' : g \in flights \/ (~g.arrived /\ g.row = NoRow)
    BY <1>4 DEF SaveRejected, Finish, NewFlight
  <2>2. UNCHANGED <<generation, disposed, row, seen, server, top, load, polls>>
    BY <1>4 DEF SaveRejected
  <2>3. RowsKnown'
    BY <2>1, <2>2, SameKnown
  <2>. QED  BY <2>1, <2>2, <2>3, SendHeld
<1>5. ASSUME NEW f \in flights, SaveAbandoned(f)
      PROVE  Goal
  BY <1>5, SendHeld, SameKnown DEF SaveAbandoned
<1>6. ASSUME NEW user \in Users, LoadResolved(user)
      PROVE  Goal
  <2>1. load[user].rows \in [Keys -> Row]
    BY DEF TypeOK, AdapterType
  <2>2. \A u \in Users : load'[u] \in {load[u], NoLoad}
    BY <1>6 DEF LoadResolved, TypeOK, AdapterType
  <2>3. RowsKnown'
    BY <1>6, <2>2, SameKnown DEF LoadResolved
  <2>4. CASE Current(user)
    BY <1>6, <2>1, <2>3, <2>4, ReplaceHeld DEF LoadResolved, Current, RowsKnown
  <2>5. CASE ~Current(user)
    BY <1>0, <1>6, <2>3, <2>5, SameHeld DEF LoadResolved
  <2>. QED  BY <2>4, <2>5
<1>7. ASSUME NEW user \in Users, LoadRejected(user)
      PROVE  Goal
  <2>1. \A u \in Users : load'[u] \in {load[u], NoLoad}
    BY <1>7 DEF LoadRejected, TypeOK, AdapterType
  <2>2. RowsKnown'
    BY <1>7, <2>1, SameKnown DEF LoadRejected
  <2>. QED  BY <1>0, <1>7, <2>2, SameHeld DEF LoadRejected
<1>8. ASSUME RetryLoad
      PROVE  Goal
  <2>1. \A u \in Users : load'[u].rows = load[u].rows
    BY <1>8 DEF RetryLoad, StartLoad, TypeOK, AdapterType
  <2>2. RowsKnown'
    BY <1>8, <2>1, SameKnown DEF RetryLoad
  <2>. QED  BY <1>0, <1>8, <2>2, SameHeld DEF RetryLoad
<1>9. ASSUME NEW i, DeliverPoll(i)
      PROVE  Goal
  <2>1. i \in DOMAIN polls /\ polls[i] \in Poll /\ polls' = WithoutPoll(i)
    BY <1>9 DEF DeliverPoll, TypeOK, AdapterType
  <2>2. \A n \in DOMAIN polls' : \E j \in DOMAIN polls : polls'[n] = polls[j]
    BY <2>1, WithoutPollKnown
  <2>3. RowsKnown'
    BY <1>9, <2>2, SameKnown DEF DeliverPoll
  <2>4. CASE Current(polls[i].user)
    BY <1>9, <2>1, <2>3, <2>4, ReplaceHeld DEF DeliverPoll, Current, RowsKnown, Poll
  <2>5. CASE ~Current(polls[i].user)
    BY <1>0, <1>9, <2>3, <2>5, SameHeld DEF DeliverPoll
  <2>. QED  BY <2>4, <2>5
<1>10. ASSUME NEW w, NEW from, NEW to, Pass(w, from, to)
       PROVE  Goal
  BY <1>0, <1>10, SameHeld, SameKnown DEF Pass
<1>11. ASSUME Reset
       PROVE  Goal
  <2>1. /\ generation' = generation + 1 /\ generation' \in Users
        /\ \A u \in Users : load'[u].rows = load[u].rows
    BY <1>11, ConstantsAssumption
       DEF Reset, CloseGeneration, StartLoad, TypeOK, StoreType, AdapterType, Users
  <2>2. RowsKnown'
    BY <1>11, <2>1, SameKnown DEF Reset
  <2>. QED  BY <1>11, <2>1, <2>2, CloseGenerationHeld DEF Reset
<1>12. ASSUME Dispose
       PROVE  Goal
  <2>1. generation' \in Users
    BY DEF TypeOK, StoreType
  <2>2. RowsKnown'
    BY <1>12, SameKnown DEF Dispose
  <2>. QED  BY <1>12, <2>1, <2>2, CloseGenerationHeld DEF Dispose
<1>. HIDE DEF Goal, KnownInv, FlightInv, TypeInv, store, slots, adapter, backend
<1>13. ASSUME NEW k \in Keys, Retry(k)
       PROVE  Goal
  BY <1>1, <1>13 DEF Retry
<1>14. Goal
  BY <1>1, <1>2, <1>3, <1>4, <1>5, <1>6, <1>7, <1>8, <1>9, <1>10, <1>11, <1>12, <1>13
     DEF Store, EnterWhenLoaded, FollowLoad, LeaveWhenLoaded
<1>. QED  BY <1>14 DEF Goal

LEMMA EnvironmentKnownInv ==
  ASSUME KnownInv, FlightInv', Environment
  PROVE  RowsKnown' /\ HeldIsNewest' /\ AnswerIsNewer' /\ NeverBack
<1>. USE DEF KnownInv, FlightInv, TypeInv, store, slots, adapter, backend
<1>. DEFINE Goal == RowsKnown' /\ HeldIsNewest' /\ AnswerIsNewer' /\ NeverBack
<1>0. \A u \in Users, k \in Keys : top[u][k] \in Nat
  BY TopType
<1>1. ASSUME NEW f \in flights, SaveArrives(f)
      PROVE  Goal
  <2>1. PICK version \in Versions :
          /\ Write(f.user, f.key, f.value, version)
          /\ flights' = (flights \ {f}) \cup
               {[f EXCEPT !.arrived = TRUE, !.row = NextRow(f.user, f.key, f.value, version)]}
    BY <1>1 DEF SaveArrives
  <2>2. f \in Flight /\ f.user \in Users /\ f.key \in Keys
    BY FlightFields DEF TypeOK, AdapterType
  <2>3. \A g \in flights' \ flights :
          g.user = f.user /\ g.key = f.key /\ g.row = NextRow(f.user, f.key, f.value, version)
    BY <2>1, <2>2 DEF Flight
  <2>4. UNCHANGED <<load, polls>>
    BY <1>1 DEF SaveArrives
  <2>5. RowsKnown'
    BY <2>1, <2>2, <2>3, <2>4, WriteKnown, GrowKnown
  <2>. QED  BY <1>1, <2>5, SaveArrivesHeld
<1>2. ASSUME NEW k \in Keys, NEW value, NEW version, OtherTabSaves(k, value, version)
      PROVE  Goal
  <2>1. generation \in Users /\ Write(generation, k, value, version)
    BY <1>2 DEF OtherTabSaves, TypeOK, StoreType
  <2>2. UNCHANGED <<load, polls, flights, generation, disposed, row, seen>>
    BY <1>2 DEF OtherTabSaves
  <2>3. \A u \in Users, j \in Keys :
          /\ top'[u][j] \in Nat /\ top'[u][j] >= top[u][j]
          /\ Known(server'[u][j], u, top'[u][j])
    BY <2>1, WriteKnown
  <2>4. RowsKnown'
    BY <2>2, <2>3, GrowKnown
  <2>. QED  BY <2>2, <2>3, <2>4, SameHeld
<1>3. ASSUME NEW k \in Keys, NEW version \in Versions, BackendRewrites(k, version)
      PROVE  Goal
  <2>1. /\ UNCHANGED <<load, polls, flights, generation, disposed, row, seen, top>>
        /\ server[generation][k] # NoRow /\ generation \in Users
        /\ server' = [server EXCEPT ![generation][k].version = version]
    BY <1>3 DEF BackendRewrites, TypeOK, StoreType
  <2>2. server[generation][k] \in Row /\ Known(server[generation][k], generation, top[generation][k])
    BY <2>1 DEF RowsKnown, TypeOK, BackendType
  <2>3. Known([server[generation][k] EXCEPT !.version = version], generation, top[generation][k])
    BY <2>1, <2>2 DEF Known, Row
  <2>4. \A u \in Users, j \in Keys :
          server'[u][j] = IF u = generation /\ j = k
                          THEN [server[u][j] EXCEPT !.version = version] ELSE server[u][j]
    BY <2>1 DEF TypeOK, BackendType
  <2>5. \A u \in Users, j \in Keys :
          /\ top'[u][j] \in Nat /\ top'[u][j] >= top[u][j]
          /\ Known(server'[u][j], u, top'[u][j])
    BY <1>0, <2>1, <2>3, <2>4 DEF RowsKnown
  <2>6. RowsKnown'
    BY <2>1, <2>5, GrowKnown
  <2>. QED  BY <1>0, <2>1, <2>6, SameHeld
<1>4. ASSUME NEW user \in Users, LoadReads(user)
      PROVE  Goal
  <2>1. \A u \in Users : load'[u].rows \in {load[u].rows, server[u]}
    BY <1>4 DEF LoadReads, TypeOK, AdapterType
  <2>2. RowsKnown'
    BY <1>4, <2>1, SameKnown DEF LoadReads
  <2>. QED  BY <1>0, <1>4, <2>2, SameHeld DEF LoadReads
<1>5. ASSUME PollReads
      PROVE  Goal
  <2>1. polls \in Seq(Poll) /\ generation \in Users
    BY DEF TypeOK, AdapterType, StoreType
  <2>2. \A i \in DOMAIN polls' :
          \/ i \in DOMAIN polls /\ polls'[i] = polls[i]
          \/ polls'[i].user = generation /\ polls'[i].rows = server[generation]
    BY <1>5, <2>1 DEF PollReads
  <2>3. RowsKnown'
    BY <1>5, <2>1, <2>2, SameKnown DEF PollReads
  <2>. QED  BY <1>0, <1>5, <2>3, SameHeld DEF PollReads
<1>6. ASSUME NEW i, DropPoll(i)
      PROVE  Goal
  <2>1. \A n \in DOMAIN polls' : \E j \in DOMAIN polls : polls'[n] = polls[j]
    BY <1>6, WithoutPollKnown DEF DropPoll
  <2>2. RowsKnown'
    BY <1>6, <2>1, SameKnown DEF DropPoll
  <2>. QED  BY <1>0, <1>6, <2>2, SameHeld DEF DropPoll
<1>. HIDE DEF Goal, KnownInv, FlightInv, TypeInv, store, slots, adapter, backend
<1>7. Goal
  BY <1>1, <1>2, <1>3, <1>4, <1>5, <1>6 DEF Environment
<1>. QED  BY <1>7 DEF Goal

LEMMA NextKnownInv == KnownInv /\ [Next]_vars => KnownInv' /\ [NeverBack]_vars
<1>. SUFFICES ASSUME KnownInv, [Next]_vars PROVE KnownInv' /\ [NeverBack]_vars
  OBVIOUS
<1>1. FlightInv'
  BY NextFlightInv DEF KnownInv
<1>2. CASE Next
  BY <1>1, <1>2, StoreKnownInv, EnvironmentKnownInv DEF Next, KnownInv
<1>3. CASE UNCHANGED vars
  BY <1>1, <1>3 DEF vars, store, slots, adapter, backend, KnownInv, RowsKnown, HeldIsNewest,
                    AnswerIsNewer, Current
<1>. QED  BY <1>2, <1>3

(* Nothing of a previous user reaches the next one: whatever settles late, every row the    *)
(* store holds belongs to the user signed in now, and a disposed store holds none.          *)
THEOREM OnlyTheCurrentUsersRows == Spec => []CurrentUserOnly
<1>1. KnownInv => CurrentUserOnly
  BY DEF KnownInv, HeldIsNewest, CurrentUserOnly, Known
<1>. QED  BY <1>1, InitKnownInv, NextKnownInv, PTL DEF Spec

(* "A late poll never moves a value back", nor does the answer to a save: within a          *)
(* generation a key never takes a row older than one it has held, in whatever order states  *)
(* and answers arrive.                                                                      *)
THEOREM RowsNeverGoBack == Spec => RowNeverGoesBack
<1>1. KnownInv /\ [Next]_vars => [NeverBack]_vars
  BY NextKnownInv
<1>2. Spec => [][NeverBack]_vars
  BY <1>1, InitKnownInv, NextKnownInv, PTL DEF Spec
<1>. QED  BY <1>2 DEF RowNeverGoesBack, NeverBack

(* Each key has at most one save in the air, for the user signed in now, and no row of     *)
(* another user is held, whatever answers late (#send, #finish, reset()).                  *)
THEOREM StoreIsConsistent == Spec => []Consistent
BY TypeCorrect, SavesGoOneAtATime, OnlyTheCurrentUsersRows, PTL DEF Consistent

-----------------------------------------------------------------------------
(* What becomes of the calls *)

\* Calls are numbered in call order; only those that were made are asked for or stored.
CallsNumbered ==
  /\ \A n \in Calls : outcome[n] = "none" <=> n > issued
  /\ stored \subseteq 1 .. issued

SameSlot(m, n) == asked[m].user = asked[n].user /\ asked[m].key = asked[n].key

\* A save in the air is of its waiters' key and user, and carries the latest one's value.
FlightsOfCalls ==
  \A f \in flights :
    /\ f.arrived => f.waiters \subseteq stored
    /\ \A n \in f.waiters :
         /\ asked[n].user = f.user /\ asked[n].key = f.key
         /\ (\A m \in f.waiters : m <= n) => f.value = asked[n].value

\* So does what is queued.
QueuesOfCalls ==
  \A k \in Keys : \A n \in queued[k].waiters :
    /\ asked[n].user = generation /\ asked[n].key = k
    /\ (\A m \in queued[k].waiters : m <= n) => queued[k].value = asked[n].value

\* One save of a key is in the air for any user, the earlier ones included.
OneFlightPerUser ==
  \A f, g \in flights : f.user = g.user /\ f.key = g.key => f = g

\* What is queued was called after what is in the air, and what is still to reach the backend
\* after what has reached it.
CallsInOrder ==
  /\ \A f \in flights : f.user = generation =>
       \A m \in f.waiters, n \in queued[f.key].waiters : m < n
  /\ \A m \in stored :
       /\ \A f \in flights : ~f.arrived => \A n \in f.waiters : SameSlot(m, n) => m < n
       /\ \A k \in Keys : \A n \in queued[k].waiters : SameSlot(m, n) => m < n

CallInv ==
  /\ WaitersHeld /\ ResolvedMeansStored /\ CallsNumbered /\ FlightsOfCalls /\ QueuesOfCalls
  /\ OneFlightPerUser /\ CallsInOrder

LEMMA CallNumbers ==
  ASSUME TypeOK
  PROVE  Calls \subseteq Nat /\ issued \in Nat /\ stored \subseteq Calls
         /\ \A f \in flights : f.waiters \subseteq Calls
         /\ \A k \in Keys : queued[k].waiters \subseteq Calls
BY ConstantsAssumption, FlightFields, QueueFields DEF TypeOK, CallersType, Calls

LEMMA HeldAreCalls ==
  ASSUME TypeOK
  PROVE  /\ \A f \in flights : \A n \in f.waiters : n \in Calls
         /\ \A k \in Keys : \A n \in queued[k].waiters : n \in Calls
         /\ \A n \in stored : n \in Calls
<1>1. ASSUME NEW f \in flights, NEW n \in f.waiters PROVE n \in Calls
  BY FlightFields
<1>2. ASSUME NEW k \in Keys, NEW n \in queued[k].waiters PROVE n \in Calls
  BY QueueFields
<1>3. ASSUME NEW n \in stored PROVE n \in Calls
  BY CallNumbers
<1>. QED  BY <1>1, <1>2, <1>3

\* Who is held waits, and was called for.
LEMMA HeldWaits ==
  ASSUME TypeOK, WaitersHeld, CallsNumbered
  PROVE  /\ \A f \in flights : \A n \in f.waiters :
              n \in Calls /\ outcome[n] = "waiting" /\ n <= issued
         /\ \A k \in Keys : \A n \in queued[k].waiters :
              n \in Calls /\ outcome[n] = "waiting" /\ n <= issued
<1>1. \A n \in Calls : outcome[n] = "waiting" => n <= issued
  BY CallNumbers DEF CallsNumbered
<1>2. \A f \in flights : \A n \in f.waiters : n \in Calls /\ outcome[n] = "waiting"
  BY HeldAreCalls DEF WaitersHeld
<1>3. \A k \in Keys : \A n \in queued[k].waiters : n \in Calls /\ outcome[n] = "waiting"
  BY HeldAreCalls DEF WaitersHeld
<1>. QED  BY <1>1, <1>2, <1>3

LEMMA InitCallInv == Init => CallInv
<1>. SUFFICES ASSUME Init PROVE CallInv
  OBVIOUS
<1>1. \A k \in Keys : queued[k].waiters = {}
  BY DEF Init, NoQueue
<1>2. CallsNumbered
  BY ConstantsAssumption DEF Init, CallsNumbered, Calls
<1>3. flights = {} /\ stored = {} /\ \A n \in Calls : outcome[n] = "none"
  BY DEF Init
<1>4. WaitersHeld /\ ResolvedMeansStored
  BY <1>1, <1>3 DEF WaitersHeld, ResolvedMeansStored
<1>5. FlightsOfCalls /\ QueuesOfCalls /\ OneFlightPerUser /\ CallsInOrder
  BY <1>1, <1>3 DEF FlightsOfCalls, QueuesOfCalls, OneFlightPerUser, CallsInOrder
<1>. QED  BY <1>2, <1>4, <1>5 DEF CallInv

\* A step that leaves the calls and what holds them alone.
LEMMA SameCalls ==
  ASSUME CallInv, UNCHANGED <<generation, queued, flights, issued, asked, outcome, stored>>
  PROVE  CallInv'
BY DEF CallInv, WaitersHeld, ResolvedMeansStored, CallsNumbered, FlightsOfCalls, QueuesOfCalls,
       OneFlightPerUser, CallsInOrder, SameSlot

\* A new call: everybody else is where they were.
LEMMA CallIs ==
  ASSUME TypeOK, NEW k, NEW value, NEW result \in {"waiting", "rejected"}, Call(k, value, result)
  PROVE  /\ issued + 1 \in Calls /\ issued' = issued + 1 /\ stored' = stored
         /\ asked'[issued + 1] = [user |-> generation, key |-> k, value |-> value]
         /\ outcome'[issued + 1] = result
         /\ \A n \in Calls : n # issued + 1 => asked'[n] = asked[n] /\ outcome'[n] = outcome[n]
<1>1. issued + 1 \in Calls /\ issued' = issued + 1 /\ stored' = stored
  BY ConstantsAssumption DEF Call, Calls, TypeOK, CallersType
<1>2. /\ asked' = [asked EXCEPT ![issued + 1] = [user |-> generation, key |-> k, value |-> value]]
      /\ outcome' = [n \in Calls |-> IF n \in {issued + 1} THEN result ELSE outcome[n]]
      /\ asked \in [Calls -> Request]
  BY DEF Call, Settle, TypeOK, CallersType
<1>. QED  BY <1>1, <1>2

LEMMA CallIsNew ==
  ASSUME TypeOK, CallInv, NEW k, NEW value, NEW result \in {"waiting", "rejected"},
         Call(k, value, result)
  PROVE  /\ CallsNumbered' /\ ResolvedMeansStored'
         /\ issued + 1 \notin stored
         /\ \A f \in flights : issued + 1 \notin f.waiters
         /\ \A j \in Keys : issued + 1 \notin queued[j].waiters
         /\ \A n \in Calls : n <= issued => n # issued + 1
<1>1. issued \in Nat /\ Calls \subseteq Nat
  BY CallNumbers
<1>0. /\ issued + 1 \in Calls /\ issued' = issued + 1 /\ stored' = stored
      /\ outcome'[issued + 1] = result
      /\ \A n \in Calls : n # issued + 1 => outcome'[n] = outcome[n]
  BY CallIs
<1>2. CallsNumbered'
  <2>1. ASSUME NEW n \in Calls PROVE outcome'[n] = "none" <=> n > issued + 1
    <3>1. outcome[n] = "none" <=> n > issued
      BY DEF CallInv, CallsNumbered
    <3>. QED  BY <1>0, <1>1, <3>1
  <2>2. stored' \subseteq 1 .. issued'
    BY <1>0, <1>1 DEF CallInv, CallsNumbered
  <2>. QED  BY <1>0, <2>1, <2>2 DEF CallsNumbered
<1>3. ResolvedMeansStored'
  BY <1>0 DEF CallInv, ResolvedMeansStored
<1>4. issued + 1 \notin stored
  BY <1>1 DEF CallInv, CallsNumbered
<1>. QED  BY <1>1, <1>2, <1>3, <1>4, HeldWaits DEF CallInv

LEMMA RefuseSaveCalls ==
  ASSUME FlightInv, CallInv, NEW k \in Keys, NEW value \in Content, RefuseSave(k, value)
  PROVE  CallInv'
<1>. USE DEF FlightInv, TypeInv
<1>1. Call(k, value, "rejected") /\ UNCHANGED <<generation, queued, flights>>
  BY DEF RefuseSave, store, slots, adapter
<1>2. /\ CallsNumbered' /\ ResolvedMeansStored' /\ stored' = stored /\ issued + 1 \notin stored
      /\ outcome'[issued + 1] = "rejected"
      /\ \A n \in Calls : n # issued + 1 => asked'[n] = asked[n] /\ outcome'[n] = outcome[n]
      /\ \A f \in flights : issued + 1 \notin f.waiters
      /\ \A j \in Keys : issued + 1 \notin queued[j].waiters
  BY <1>1, CallIs, CallIsNew
<1>3. WaitersHeld'
  BY <1>1, <1>2 DEF CallInv, WaitersHeld
<1>4. /\ \A f \in flights : \A n \in f.waiters : asked'[n] = asked[n]
      /\ \A j \in Keys : \A n \in queued[j].waiters : asked'[n] = asked[n]
      /\ \A n \in stored : asked'[n] = asked[n]
  <2>1. /\ \A f \in flights : \A n \in f.waiters : n \in Calls
        /\ \A j \in Keys : \A n \in queued[j].waiters : n \in Calls
        /\ \A n \in stored : n \in Calls
    BY HeldAreCalls
  <2>. QED  BY <1>2, <2>1
<1>5. FlightsOfCalls'
  BY <1>1, <1>2, <1>4 DEF CallInv, FlightsOfCalls
<1>6. QueuesOfCalls'
  BY <1>1, <1>4 DEF CallInv, QueuesOfCalls
<1>7. OneFlightPerUser'
  BY <1>1 DEF CallInv, OneFlightPerUser
<1>8. CallsInOrder'
  BY <1>1, <1>2, <1>4 DEF CallInv, CallsInOrder, SameSlot
<1>. QED  BY <1>2, <1>3, <1>5, <1>6, <1>7, <1>8 DEF CallInv

\* A save that goes out at once holds the new call alone.
LEMMA SendNowCalls ==
  ASSUME FlightInv, CallInv, NEW k \in Keys, NEW value \in Content, Save(k, value), SendNow(k, value)
  PROVE  CallInv'
<1>. USE DEF FlightInv, TypeInv
<1>. DEFINE g == NewFlight(k, value, {issued + 1}, row[k])
            m == issued + 1
<1>1. /\ Call(k, value, "waiting") /\ ~disposed /\ UNCHANGED <<generation, queued>>
      /\ sending[k] = None /\ flights' = flights \cup {g}
  BY DEF Save, SendNow, store
<1>2. /\ CallsNumbered' /\ ResolvedMeansStored' /\ stored' = stored /\ m \notin stored /\ m \in Calls
      /\ outcome'[m] = "waiting" /\ asked'[m] = [user |-> generation, key |-> k, value |-> value]
      /\ \A n \in Calls : n # m => asked'[n] = asked[n] /\ outcome'[n] = outcome[n]
      /\ \A f \in flights : m \notin f.waiters
      /\ \A j \in Keys : m \notin queued[j].waiters
  BY <1>1, CallIs, CallIsNew
<1>3. /\ g.user = generation /\ g.key = k /\ g.value = value /\ g.waiters = {m} /\ ~g.arrived
  BY DEF NewFlight
<1>4. /\ \A f \in flights : \A n \in f.waiters : asked'[n] = asked[n]
      /\ \A j \in Keys : \A n \in queued[j].waiters : asked'[n] = asked[n]
      /\ \A n \in stored : asked'[n] = asked[n] /\ n < m
  <2>1. /\ \A f \in flights : \A n \in f.waiters : n \in Calls
        /\ \A j \in Keys : \A n \in queued[j].waiters : n \in Calls
        /\ \A n \in stored : n \in Calls /\ n <= issued /\ n \in Nat
    BY HeldAreCalls, CallNumbers DEF CallInv, CallsNumbered
  <2>. QED  BY <1>2, <2>1, CallNumbers
<1>5. queued[k].waiters = {}
  BY <1>1 DEF OneFlightPerKey, NoQueue
<1>6. \A f \in flights : ~ (f.user = generation /\ f.key = k)
  BY <1>1 DEF OneFlightPerKey, InAir, Current
<1>. HIDE DEF g, m
<1>7. WaitersHeld'
  <2>1. \A n \in Calls : outcome'[n] = "waiting" <=> \/ \E f \in flights' : n \in f.waiters
                                                     \/ \E j \in Keys : n \in queued[j].waiters
    <3>. TAKE n \in Calls
    <3>1. CASE n = m
      BY <1>1, <1>2, <1>3, <3>1
    <3>2. CASE n # m
      BY <1>1, <1>2, <1>3, <3>2 DEF CallInv, WaitersHeld
    <3>. QED  BY <3>1, <3>2
  <2>2. \A f, h \in flights' : f # h => f.waiters \cap h.waiters = {}
    BY <1>1, <1>2, <1>3 DEF CallInv, WaitersHeld
  <2>3. \A f \in flights', j \in Keys : f.waiters \cap queued[j].waiters = {}
    BY <1>1, <1>2, <1>3 DEF CallInv, WaitersHeld
  <2>. QED  BY <1>1, <2>1, <2>2, <2>3 DEF CallInv, WaitersHeld
<1>8. FlightsOfCalls'
  <2>1. \A n \in g.waiters : asked'[n].user = g.user /\ asked'[n].key = g.key /\ g.value = asked'[n].value
    BY <1>2, <1>3
  <2>. QED  BY <1>1, <1>2, <1>3, <1>4, <2>1 DEF CallInv, FlightsOfCalls
<1>9. QueuesOfCalls'
  BY <1>1, <1>4 DEF CallInv, QueuesOfCalls
<1>10. OneFlightPerUser'
  BY <1>1, <1>3, <1>6 DEF CallInv, OneFlightPerUser
<1>11. CallsInOrder'
  <2>1. \A f \in flights' : f.user = generation =>
          \A i \in f.waiters, n \in queued[f.key].waiters : i < n
    BY <1>1, <1>3, <1>5 DEF CallInv, CallsInOrder
  <2>2. \A i \in stored, f \in flights' : ~f.arrived =>
          \A n \in f.waiters : SameSlot(i, n)' => i < n
    <3>. TAKE i \in stored, f \in flights'
    <3>1. CASE f = g
      BY <1>3, <1>4, <3>1
    <3>2. CASE f \in flights
      BY <1>4, <3>2 DEF CallInv, CallsInOrder, SameSlot
    <3>. QED  BY <1>1, <3>1, <3>2
  <2>3. \A i \in stored, j \in Keys : \A n \in queued[j].waiters : SameSlot(i, n)' => i < n
    BY <1>4 DEF CallInv, CallsInOrder, SameSlot
  <2>. QED  BY <1>1, <1>2, <2>1, <2>2, <2>3 DEF CallsInOrder
<1>. QED  BY <1>2, <1>7, <1>8, <1>9, <1>10, <1>11 DEF CallInv

\* A save that is queued takes over the calls that wait there.
LEMMA SendNextCalls ==
  ASSUME FlightInv, CallInv, NEW k \in Keys, NEW value \in Content, Save(k, value), SendNext(k, value)
  PROVE  CallInv'
<1>. USE DEF FlightInv, TypeInv
<1>. DEFINE m == issued + 1
<1>1. /\ Call(k, value, "waiting") /\ ~disposed /\ UNCHANGED <<generation, flights>>
      /\ queued' = [queued EXCEPT ![k] = [value |-> value, waiters |-> queued[k].waiters \cup {m}]]
  BY DEF Save, SendNext, store
<1>2. /\ CallsNumbered' /\ ResolvedMeansStored' /\ stored' = stored /\ m \notin stored /\ m \in Calls
      /\ outcome'[m] = "waiting" /\ asked'[m] = [user |-> generation, key |-> k, value |-> value]
      /\ \A n \in Calls : n # m => asked'[n] = asked[n] /\ outcome'[n] = outcome[n]
      /\ \A f \in flights : m \notin f.waiters
      /\ \A j \in Keys : m \notin queued[j].waiters
  BY <1>1, CallIs, CallIsNew
<1>3. /\ queued'[k].value = value /\ queued'[k].waiters = queued[k].waiters \cup {m}
      /\ \A j \in Keys : j # k => queued'[j] = queued[j]
  BY <1>1 DEF TypeOK, SlotsType
<1>4. /\ \A f \in flights : \A n \in f.waiters : asked'[n] = asked[n] /\ n < m /\ n \in Nat
      /\ \A j \in Keys : \A n \in queued[j].waiters : asked'[n] = asked[n] /\ n < m /\ n \in Nat
      /\ \A n \in stored : asked'[n] = asked[n] /\ n < m /\ n \in Nat
  <2>1. issued \in Nat /\ m = issued + 1
    BY CallNumbers
  <2>2. /\ \A f \in flights : \A n \in f.waiters : n \in Calls /\ n <= issued
        /\ \A j \in Keys : \A n \in queued[j].waiters : n \in Calls /\ n <= issued
        /\ \A n \in stored : n \in Calls /\ n <= issued
    BY HeldWaits, CallNumbers DEF CallInv, CallsNumbered
  <2>3. \A n \in Calls : n <= issued => n < m /\ n \in Nat /\ n # m
    BY <2>1, CallNumbers
  <2>. QED  BY <1>2, <2>2, <2>3
<1>5. m \in Nat
  BY CallNumbers
<1>. HIDE DEF m
<1>6. WaitersHeld'
  <2>1. \A n \in Calls : outcome'[n] = "waiting" <=> \/ \E f \in flights : n \in f.waiters
                                                     \/ \E j \in Keys : n \in queued'[j].waiters
    <3>. TAKE n \in Calls
    <3>1. CASE n = m
      BY <1>2, <1>3, <3>1
    <3>2. CASE n # m
      <4>1. \A j \in Keys : n \in queued'[j].waiters <=> n \in queued[j].waiters
        BY <1>3, <3>2
      <4>. QED  BY <1>2, <3>2, <4>1 DEF CallInv, WaitersHeld
    <3>. QED  BY <3>1, <3>2
  <2>2. \A f \in flights, j \in Keys : f.waiters \cap queued'[j].waiters = {}
    BY <1>2, <1>3 DEF CallInv, WaitersHeld
  <2>3. \A i, j \in Keys : i # j => queued'[i].waiters \cap queued'[j].waiters = {}
    BY <1>2, <1>3 DEF CallInv, WaitersHeld
  <2>. QED  BY <1>1, <2>1, <2>2, <2>3 DEF CallInv, WaitersHeld
<1>7. FlightsOfCalls'
  BY <1>1, <1>2, <1>4 DEF CallInv, FlightsOfCalls
<1>8. QueuesOfCalls'
  <2>. SUFFICES ASSUME NEW j \in Keys, NEW n \in queued'[j].waiters
                PROVE  /\ asked'[n].user = generation /\ asked'[n].key = j
                       /\ (\A i \in queued'[j].waiters : i <= n) => queued'[j].value = asked'[n].value
    BY <1>1 DEF QueuesOfCalls
  <2>1. CASE j # k
    BY <1>3, <1>4, <2>1 DEF CallInv, QueuesOfCalls
  <2>2. CASE j = k /\ n = m
    BY <1>2, <1>3, <2>2
  <2>3. CASE j = k /\ n # m
    <3>1. n \in queued[k].waiters /\ m \in queued'[k].waiters /\ ~ m <= n
      BY <1>3, <1>4, <1>5, <2>3
    <3>. QED  BY <1>4, <2>3, <3>1 DEF CallInv, QueuesOfCalls
  <2>. QED  BY <2>1, <2>2, <2>3
<1>9. OneFlightPerUser'
  BY <1>1 DEF CallInv, OneFlightPerUser
<1>10. CallsInOrder'
  <2>1. \A f \in flights : f.user = generation =>
          \A i \in f.waiters, n \in queued'[f.key].waiters : i < n
    BY <1>3, <1>4, FlightFields DEF CallInv, CallsInOrder
  <2>2. \A i \in stored, f \in flights : ~f.arrived => \A n \in f.waiters : SameSlot(i, n)' => i < n
    BY <1>4 DEF CallInv, CallsInOrder, SameSlot
  <2>3. \A i \in stored, j \in Keys : \A n \in queued'[j].waiters : SameSlot(i, n)' => i < n
    <3>. TAKE i \in stored, j \in Keys
    <3>. TAKE n \in queued'[j].waiters
    <3>1. n = m \/ n \in queued[j].waiters
      BY <1>3
    <3>. QED  BY <1>4, <3>1 DEF CallInv, CallsInOrder, SameSlot
  <2>. QED  BY <1>1, <1>2, <2>1, <2>2, <2>3 DEF CallsInOrder
<1>. QED  BY <1>2, <1>6, <1>7, <1>8, <1>9, <1>10 DEF CallInv

\* The save in the air is settled, and what was queued goes out with those who wait for it.
LEMMA FinishCalls ==
  ASSUME FlightInv, CallInv, NEW f \in flights, Current(f.user), NEW failure, NEW replaced,
         Finish(f, failure, replaced), NEW result \in {"resolved", "rejected"},
         result = "resolved" => f.arrived, Settle(f.waiters, result),
         UNCHANGED <<generation, issued, asked, stored>>
  PROVE  CallInv'
<1>. USE DEF FlightInv, TypeInv
<1>. DEFINE k == f.key
            W == queued[k].waiters
            g == NewFlight(k, queued[k].value, W, replaced)
<1>1. k \in Keys /\ f.user = generation /\ ~disposed /\ f.waiters \subseteq Calls /\ W \subseteq Calls
  BY FlightFields, CallNumbers DEF Current
<1>2. /\ queued' = [queued EXCEPT ![k] = NoQueue]
      /\ flights' = IF W = {} THEN flights \ {f} ELSE (flights \ {f}) \cup {g}
  BY DEF Finish
<1>3. /\ queued'[k].waiters = {}
      /\ \A j \in Keys : j # k => queued'[j] = queued[j]
  BY <1>1, <1>2 DEF TypeOK, SlotsType, NoQueue
<1>4. /\ g.user = generation /\ g.key = k /\ g.value = queued[k].value /\ g.waiters = W /\ ~g.arrived
  BY DEF NewFlight
<1>5. \A n \in Calls : outcome'[n] = IF n \in f.waiters THEN result ELSE outcome[n]
  BY DEF Settle
<1>6. \A h \in flights : h # f => ~ (h.user = generation /\ h.key = k)
  BY <1>1 DEF CallInv, OneFlightPerUser
<1>7. \A h \in flights' : (h \in flights /\ h # f) \/ (h = g /\ W # {})
  BY <1>2
<1>8. /\ \A h \in flights : h # f => h \in flights' /\ h.waiters \cap f.waiters = {}
      /\ W # {} => g \in flights'
      /\ \A h \in flights, j \in Keys : h.waiters \cap queued[j].waiters = {}
      /\ \A i, j \in Keys : i # j => queued[i].waiters \cap queued[j].waiters = {}
  BY <1>2 DEF CallInv, WaitersHeld
<1>. HIDE DEF g, W, k
<1>9. WaitersHeld'
  <2>1. \A n \in Calls : outcome'[n] = "waiting" <=> \/ \E h \in flights' : n \in h.waiters
                                                     \/ \E j \in Keys : n \in queued'[j].waiters
    <3>. TAKE n \in Calls
    <3>1. CASE n \in f.waiters
      <4>1. outcome'[n] # "waiting"
        BY <1>5, <3>1
      <4>2. \A j \in Keys : n \notin queued[j].waiters
        BY <1>8, <3>1
      <4>3. \A h \in flights' : n \notin h.waiters
        BY <1>1, <1>4, <1>7, <1>8, <3>1, <4>2 DEF W
      <4>4. \A j \in Keys : n \notin queued'[j].waiters
        BY <1>3, <4>2
      <4>. QED  BY <4>1, <4>3, <4>4
    <3>2. CASE n \in W
      <4>1. outcome[n] = "waiting" /\ n \notin f.waiters
        BY <1>1, <1>8, <3>2 DEF W, CallInv, WaitersHeld
      <4>. QED  BY <1>4, <1>5, <1>8, <3>2, <4>1
    <3>3. CASE n \notin f.waiters /\ n \notin W
      <4>1. (\E h \in flights' : n \in h.waiters) <=> (\E h \in flights : n \in h.waiters)
        BY <1>4, <1>7, <1>8, <3>3
      <4>2. (\E j \in Keys : n \in queued'[j].waiters) <=> (\E j \in Keys : n \in queued[j].waiters)
        BY <1>3, <3>3 DEF W
      <4>. QED  BY <1>5, <3>3, <4>1, <4>2 DEF CallInv, WaitersHeld
    <3>. QED  BY <3>1, <3>2, <3>3
  <2>2. \A h, i \in flights' : h # i => h.waiters \cap i.waiters = {}
    BY <1>1, <1>4, <1>7, <1>8 DEF CallInv, WaitersHeld, W
  <2>3. \A h \in flights', j \in Keys : h.waiters \cap queued'[j].waiters = {}
    <3>. TAKE h \in flights', j \in Keys
    <3>1. CASE j = k
      BY <1>3, <3>1
    <3>2. CASE j # k /\ h = g
      BY <1>1, <1>3, <1>4, <1>8, <3>2 DEF W
    <3>3. CASE j # k /\ h \in flights
      BY <1>3, <1>8, <3>3
    <3>. QED  BY <1>7, <3>1, <3>2, <3>3
  <2>4. \A i, j \in Keys : i # j => queued'[i].waiters \cap queued'[j].waiters = {}
    BY <1>3, <1>8
  <2>. QED  BY <2>1, <2>2, <2>3, <2>4 DEF WaitersHeld
<1>10. ResolvedMeansStored'
  <2>. SUFFICES ASSUME NEW n \in Calls, outcome'[n] = "resolved" PROVE n \in stored
    BY DEF ResolvedMeansStored
  <2>1. CASE n \in f.waiters
    BY <1>5, <2>1 DEF CallInv, FlightsOfCalls
  <2>2. CASE n \notin f.waiters
    BY <1>5, <2>2 DEF CallInv, ResolvedMeansStored
  <2>. QED  BY <2>1, <2>2
<1>11. CallsNumbered'
  <2>1. \A n \in f.waiters : outcome[n] = "waiting"
    BY HeldWaits DEF CallInv
  <2>. QED  BY <1>5, <2>1 DEF CallInv, CallsNumbered
<1>12. FlightsOfCalls'
  <2>1. \A n \in W : /\ asked[n].user = generation /\ asked[n].key = k
                     /\ (\A m \in W : m <= n) => queued[k].value = asked[n].value
    BY <1>1 DEF CallInv, QueuesOfCalls, W
  <2>. SUFFICES ASSUME NEW h \in flights'
                PROVE  /\ h.arrived => h.waiters \subseteq stored
                       /\ \A n \in h.waiters :
                            /\ asked[n].user = h.user /\ asked[n].key = h.key
                            /\ (\A m \in h.waiters : m <= n) => h.value = asked[n].value
    BY DEF FlightsOfCalls
  <2>2. CASE h = g
    BY <1>4, <2>1, <2>2
  <2>3. CASE h \in flights
    BY <2>3 DEF CallInv, FlightsOfCalls
  <2>. QED  BY <1>7, <2>2, <2>3
<1>13. QueuesOfCalls'
  BY <1>3 DEF CallInv, QueuesOfCalls
<1>14. OneFlightPerUser'
  BY <1>4, <1>6, <1>7 DEF CallInv, OneFlightPerUser
<1>15. CallsInOrder'
  <2>1. \A h \in flights' : h.user = generation =>
          \A m \in h.waiters, n \in queued'[h.key].waiters : m < n
    <3>. TAKE h \in flights'
    <3>1. CASE h = g
      BY <1>3, <1>4, <3>1
    <3>2. CASE h \in flights /\ h # f /\ h.user = generation
      BY <1>3, <1>6, <3>2, FlightFields DEF CallInv, CallsInOrder
    <3>. QED  BY <1>7, <3>1, <3>2
  <2>2. \A m \in stored, h \in flights' : ~h.arrived => \A n \in h.waiters : SameSlot(m, n) => m < n
    <3>. TAKE m \in stored, h \in flights'
    <3>1. CASE h = g
      BY <1>1, <1>4, <3>1 DEF CallInv, CallsInOrder, W
    <3>2. CASE h \in flights
      BY <3>2 DEF CallInv, CallsInOrder
    <3>. QED  BY <1>7, <3>1, <3>2
  <2>3. \A m \in stored, j \in Keys : \A n \in queued'[j].waiters : SameSlot(m, n) => m < n
    BY <1>3 DEF CallInv, CallsInOrder
  <2>. QED  BY <2>1, <2>2, <2>3 DEF CallsInOrder, SameSlot
<1>. QED  BY <1>9, <1>10, <1>11, <1>12, <1>13, <1>14, <1>15 DEF CallInv

LEMMA SaveAbandonedCalls ==
  ASSUME FlightInv, CallInv, NEW f \in flights, SaveAbandoned(f)
  PROVE  CallInv'
<1>. USE DEF FlightInv, TypeInv
<1>1. /\ flights' = flights \ {f}
      /\ UNCHANGED <<generation, queued, issued, asked, stored>>
      /\ \A n \in Calls : outcome'[n] = IF n \in f.waiters THEN "rejected" ELSE outcome[n]
  BY DEF SaveAbandoned, Settle, store, slots
<1>2. WaitersHeld'
  <2>1. \A n \in Calls : outcome'[n] = "waiting" <=> \/ \E h \in flights' : n \in h.waiters
                                                     \/ \E j \in Keys : n \in queued[j].waiters
    <3>. TAKE n \in Calls
    <3>1. CASE n \in f.waiters
      BY <1>1, <3>1 DEF CallInv, WaitersHeld
    <3>2. CASE n \notin f.waiters
      BY <1>1, <3>2 DEF CallInv, WaitersHeld
    <3>. QED  BY <3>1, <3>2
  <2>. QED  BY <1>1, <2>1 DEF CallInv, WaitersHeld
<1>3. CallsNumbered'
  <2>1. \A n \in f.waiters : outcome[n] = "waiting"
    BY HeldWaits DEF CallInv
  <2>. QED  BY <1>1, <2>1 DEF CallInv, CallsNumbered
<1>4. ResolvedMeansStored' /\ FlightsOfCalls' /\ QueuesOfCalls' /\ OneFlightPerUser'
  BY <1>1 DEF CallInv, ResolvedMeansStored, FlightsOfCalls, QueuesOfCalls, OneFlightPerUser
<1>5. CallsInOrder'
  BY <1>1 DEF CallInv, CallsInOrder, SameSlot
<1>. QED  BY <1>2, <1>3, <1>4, <1>5 DEF CallInv

\* A save reaches the backend.  Another of the same slot comes after it, if there is one.
LEMMA SaveArrivesCalls ==
  ASSUME FlightInv, CallInv, NEW f \in flights, SaveArrives(f)
  PROVE  CallInv'
<1>. USE DEF FlightInv, TypeInv
<1>1. PICK version \in Versions :
        flights' = (flights \ {f}) \cup
          {[f EXCEPT !.arrived = TRUE, !.row = NextRow(f.user, f.key, f.value, version)]}
  BY DEF SaveArrives
<1>. DEFINE g == [f EXCEPT !.arrived = TRUE, !.row = NextRow(f.user, f.key, f.value, version)]
<1>2. f \in Flight
  BY DEF TypeOK, AdapterType
<1>3. /\ g.user = f.user /\ g.key = f.key /\ g.value = f.value /\ g.waiters = f.waiters /\ g.arrived
  BY <1>2 DEF Flight
<1>4. /\ UNCHANGED <<generation, queued, issued, asked, outcome>>
      /\ stored' = stored \cup f.waiters /\ ~f.arrived
  BY DEF SaveArrives, store, slots
<1>5. \A h \in flights' : h = g \/ (h \in flights /\ h # f)
  BY <1>1
<1>6. g \in flights' /\ \A h \in flights : h # f => h \in flights'
  BY <1>1
<1>7. \A n : (\E h \in flights' : n \in h.waiters) <=> (\E h \in flights : n \in h.waiters)
  BY <1>3, <1>5, <1>6
<1>. HIDE DEF g
<1>8. WaitersHeld'
  <2>1. \A h, i \in flights' : h # i => h.waiters \cap i.waiters = {}
    BY <1>3, <1>5 DEF CallInv, WaitersHeld
  <2>2. \A h \in flights', j \in Keys : h.waiters \cap queued[j].waiters = {}
    BY <1>3, <1>5 DEF CallInv, WaitersHeld
  <2>. QED  BY <1>4, <1>7, <2>1, <2>2 DEF CallInv, WaitersHeld
<1>9. ResolvedMeansStored'
  BY <1>4 DEF CallInv, ResolvedMeansStored
<1>10. CallsNumbered'
  <2>1. \A n \in f.waiters : n \in 1 .. issued
    BY HeldWaits, CallNumbers DEF CallInv, Calls
  <2>. QED  BY <1>4, <2>1 DEF CallInv, CallsNumbered
<1>11. FlightsOfCalls'
  BY <1>3, <1>4, <1>5 DEF CallInv, FlightsOfCalls
<1>12. QueuesOfCalls'
  BY <1>4 DEF CallInv, QueuesOfCalls
<1>13. OneFlightPerUser'
  BY <1>3, <1>5 DEF CallInv, OneFlightPerUser
<1>14. CallsInOrder'
  <2>1. \A h \in flights' : h.user = generation =>
          \A m \in h.waiters, n \in queued[h.key].waiters : m < n
    BY <1>3, <1>5 DEF CallInv, CallsInOrder
  <2>2. \A m \in stored', h \in flights' : ~h.arrived => \A n \in h.waiters : SameSlot(m, n) => m < n
    <3>. TAKE m \in stored', h \in flights'
    <3>. SUFFICES ASSUME ~h.arrived, NEW n \in h.waiters, SameSlot(m, n) PROVE m < n
      OBVIOUS
    <3>1. h \in flights /\ h # f
      BY <1>3, <1>5
    <3>2. m \notin f.waiters
      BY <3>1 DEF CallInv, FlightsOfCalls, OneFlightPerUser, SameSlot
    <3>. QED  BY <1>4, <3>1, <3>2 DEF CallInv, CallsInOrder
  <2>3. \A m \in stored', j \in Keys : \A n \in queued[j].waiters : SameSlot(m, n) => m < n
    <3>. TAKE m \in stored', j \in Keys
    <3>. SUFFICES ASSUME NEW n \in queued[j].waiters, SameSlot(m, n) PROVE m < n
      OBVIOUS
    <3>1. CASE m \in f.waiters
      <4>1. f.user = generation /\ f.key = j
        BY <3>1 DEF CallInv, FlightsOfCalls, QueuesOfCalls, SameSlot
      <4>. QED  BY <3>1, <4>1 DEF CallInv, CallsInOrder
    <3>2. CASE m \in stored
      BY <3>2 DEF CallInv, CallsInOrder
    <3>. QED  BY <1>4, <3>1, <3>2
  <2>. QED  BY <1>4, <2>1, <2>2, <2>3 DEF CallsInOrder, SameSlot
<1>. QED  BY <1>8, <1>9, <1>10, <1>11, <1>12, <1>13, <1>14 DEF CallInv

\* reset() or dispose() rejects what is queued.
LEMMA CloseGenerationCalls ==
  ASSUME FlightInv, CallInv, CloseGeneration, NewSlots, UNCHANGED <<flights, issued, asked, stored>>
  PROVE  CallInv'
<1>. USE DEF FlightInv, TypeInv
<1>1. /\ \A k \in Keys : queued'[k].waiters = {}
      /\ generation' = generation + 1
      /\ \A n \in Calls : outcome'[n] = IF \E k \in Keys : n \in queued[k].waiters
                                        THEN "rejected" ELSE outcome[n]
  BY DEF CloseGeneration, NewSlots, NoQueue, Settle
<1>2. WaitersHeld'
  <2>1. \A n \in Calls : outcome'[n] = "waiting" <=> \E h \in flights : n \in h.waiters
    <3>. TAKE n \in Calls
    <3>1. CASE \E k \in Keys : n \in queued[k].waiters
      BY <1>1, <3>1 DEF CallInv, WaitersHeld
    <3>2. CASE ~ \E k \in Keys : n \in queued[k].waiters
      BY <1>1, <3>2 DEF CallInv, WaitersHeld
    <3>. QED  BY <3>1, <3>2
  <2>. QED  BY <1>1, <2>1 DEF CallInv, WaitersHeld
<1>3. CallsNumbered'
  <2>1. \A k \in Keys : \A n \in queued[k].waiters : outcome[n] = "waiting"
    BY HeldWaits DEF CallInv
  <2>. QED  BY <1>1, <2>1 DEF CallInv, CallsNumbered
<1>4. ResolvedMeansStored'
  BY <1>1 DEF CallInv, ResolvedMeansStored
<1>5. FlightsOfCalls' /\ QueuesOfCalls' /\ OneFlightPerUser'
  BY <1>1 DEF CallInv, FlightsOfCalls, QueuesOfCalls, OneFlightPerUser
<1>6. \A f \in flights : f.key \in Keys
  BY FlightFields
<1>7. CallsInOrder'
  BY <1>1, <1>6 DEF CallInv, CallsInOrder, SameSlot
<1>. QED  BY <1>2, <1>3, <1>4, <1>5, <1>7 DEF CallInv

LEMMA NextCallInv == FlightInv /\ CallInv /\ [Next]_vars => CallInv'
<1>. SUFFICES ASSUME FlightInv, CallInv, [Next]_vars PROVE CallInv'
  OBVIOUS
<1>. USE DEF store, slots, adapter, callers, vars
<1>1. ASSUME NEW k \in Keys, NEW value \in Content, Save(k, value) \/ RefuseSave(k, value)
      PROVE  CallInv'
  BY <1>1, SendNowCalls, SendNextCalls, RefuseSaveCalls DEF Save
<1>2. ASSUME NEW k \in Keys, Retry(k) PROVE CallInv'
  <2>1. failed[k] \in Content
    BY <1>2 DEF Retry, FlightInv, TypeInv, TypeOK, SlotsType
  <2>. QED  BY <1>1, <1>2, <2>1 DEF Retry
<1>3. ASSUME NEW f \in flights, SaveResolved(f) PROVE CallInv'
  <2>1. UNCHANGED <<generation, issued, asked, stored>> /\ f.arrived /\ Current(f.user)
        /\ Settle(f.waiters, "resolved")
    BY <1>3 DEF SaveResolved
  <2>. QED  BY <1>3, <2>1, FinishCalls DEF SaveResolved
<1>4. ASSUME NEW f \in flights, SaveRejected(f) PROVE CallInv'
  <2>1. UNCHANGED <<generation, issued, asked, stored>> /\ Current(f.user)
        /\ Settle(f.waiters, "rejected")
    BY <1>4 DEF SaveRejected
  <2>. QED  BY <1>4, <2>1, FinishCalls DEF SaveRejected
<1>5. ASSUME NEW f \in flights, SaveAbandoned(f) \/ SaveArrives(f) PROVE CallInv'
  BY <1>5, SaveAbandonedCalls, SaveArrivesCalls
<1>6. CASE Reset \/ Dispose
  BY <1>6, CloseGenerationCalls DEF Reset, Dispose
<1>7. ASSUME NEW user \in Users, LoadResolved(user) \/ LoadRejected(user) \/ LoadReads(user)
      PROVE  CallInv'
  BY <1>7, SameCalls DEF LoadResolved, LoadRejected, LoadReads, Replace
<1>8. ASSUME NEW i, DeliverPoll(i) \/ DropPoll(i) PROVE CallInv'
  BY <1>8, SameCalls DEF DeliverPoll, DropPoll, Replace
<1>9. CASE \/ RetryLoad \/ PollReads \/ UNCHANGED vars
           \/ \E w \in Awaiters : EnterWhenLoaded(w) \/ FollowLoad(w) \/ LeaveWhenLoaded(w)
  BY <1>9, SameCalls DEF RetryLoad, PollReads, EnterWhenLoaded, FollowLoad, LeaveWhenLoaded, Pass
<1>10. CASE \/ \E k \in Keys, value \in Content, version \in Versions :
                 OtherTabSaves(k, value, version)
            \/ \E k \in Keys, version \in Versions : BackendRewrites(k, version)
  BY <1>10, SameCalls DEF OtherTabSaves, BackendRewrites
<1>. QED
  BY <1>1, <1>2, <1>3, <1>4, <1>5, <1>6, <1>7, <1>8, <1>9, <1>10 DEF Next, Store, Environment

LEMMA SpecCallInv == Spec => [](FlightInv /\ CallInv)
BY InitFlightInv, NextFlightInv, InitCallInv, NextCallInv, PTL DEF Spec

\* What is shown while a key is being saved is the value of its latest waiting call.
LEMMA LatestIsShown ==
  ASSUME FlightInv, CallInv
  PROVE  LatestCallShown
<1>. USE DEF FlightInv, TypeInv
<1>. SUFFICES ASSUME NEW n \in Calls, outcome[n] = "waiting", Current(asked[n].user),
                     \A m \in Calls : asked[m].key = asked[n].key /\ outcome[m] = "waiting" => m <= n
              PROVE  Pending(asked[n].key) = asked[n].value
  BY DEF LatestCallShown
<1>1. CASE \E k \in Keys : n \in queued[k].waiters
  <2>1. PICK k \in Keys : n \in queued[k].waiters
    BY <1>1
  <2>2. asked[n].key = k
    BY <2>1 DEF CallInv, QueuesOfCalls
  <2>3. \A m \in queued[k].waiters : m <= n
    BY <2>1, <2>2, HeldWaits DEF CallInv, QueuesOfCalls
  <2>4. queued[k].value = asked[n].value
    BY <2>1, <2>3 DEF CallInv, QueuesOfCalls
  <2>. QED  BY <2>1, <2>2, <2>4 DEF Pending
<1>2. CASE \E f \in flights : n \in f.waiters
  <2>1. PICK f \in flights : n \in f.waiters
    BY <1>2
  <2>2. asked[n].key = f.key /\ asked[n].user = f.user /\ f.key \in Keys
    BY <2>1, FlightFields DEF CallInv, FlightsOfCalls
  <2>3. f \in InAir(f.key) /\ f.user = generation
    BY <2>2 DEF InAir, Current
  <2>4. \A m \in f.waiters : m <= n
    BY <2>1, <2>2, HeldWaits DEF CallInv, FlightsOfCalls
  <2>5. sending[f.key] = asked[n].value
    BY <2>1, <2>2, <2>3, <2>4 DEF CallInv, FlightsOfCalls, OneFlightPerKey
  <2>6. ASSUME NEW m \in queued[f.key].waiters PROVE FALSE
    <3>1. n < m /\ m \in Calls /\ outcome[m] = "waiting" /\ asked[m].key = f.key
      BY <2>1, <2>2, <2>3, HeldWaits DEF CallInv, CallsInOrder, QueuesOfCalls
    <3>. QED  BY <2>2, <3>1, CallNumbers
  <2>. QED  BY <2>2, <2>5, <2>6 DEF Pending
<1>. QED  BY <1>1, <1>2 DEF CallInv, WaitersHeld

(* A caller of save() is told what became of its value, and sees it until then.             *)
THEOREM CallersAreTold == Spec => []CallsAreHonoured
<1>1. FlightInv /\ CallInv => CallsAreHonoured
  BY LatestIsShown DEF CallInv, CallsAreHonoured, PromisesAreKept
<1>. QED  BY <1>1, SpecCallInv, PTL

\* The saves of one slot reach the backend in the order of their calls.
LEMMA StoresGoForward ==
  ASSUME FlightInv, CallInv, [Next]_vars, NEW n \in stored' \ stored, NEW m \in stored,
         asked[n].key = asked[m].key, asked[n].user = asked[m].user
  PROVE  m < n
<1>1. PICK f \in flights : SaveArrives(f)
  BY DEF Next, Store, Environment, Save, RefuseSave, Retry, Call, SaveResolved, SaveRejected,
         SaveAbandoned, LoadResolved, LoadRejected, RetryLoad, DeliverPoll, EnterWhenLoaded,
         FollowLoad, LeaveWhenLoaded, Pass, Reset, Dispose, OtherTabSaves, BackendRewrites,
         LoadReads, PollReads, DropPoll, vars, callers
<1>2. n \in f.waiters /\ ~f.arrived
  BY <1>1 DEF SaveArrives
<1>. QED  BY <1>2 DEF CallInv, CallsInOrder, SameSlot

(* Last write wins at the backend: no value overtakes a later one of the same tab.          *)
THEOREM SavesArriveInOrder == Spec => StoredInCallOrder
<1>1. FlightInv /\ CallInv /\ [Next]_vars =>
        [\A n \in stored' \ stored, m \in stored :
           asked[n].key = asked[m].key /\ asked[n].user = asked[m].user => m < n]_vars
  BY StoresGoForward
<1>. QED  BY <1>1, SpecCallInv, PTL DEF Spec, StoredInCallOrder

-----------------------------------------------------------------------------
(* What a sync state takes away, for an adapter that delivers the states in order *)

\* A row as new as the backend's last write is what the backend has, `s` at revision `t`.
Fits(r, s, t) == r # NoRow /\ r.revision = t => s # NoRow /\ r.value = s.value

ServerIsLatest ==
  \A u \in Users, k \in Keys : server[u][k] # NoRow => server[u][k].revision = top[u][k]

\* A row anywhere is the backend's as long as nothing was written after it.
RowsFit ==
  /\ \A u \in Users, k \in Keys : Fits(load[u].rows[k], server[u][k], top[u][k])
  /\ \A k \in Keys : Fits(row[k], server[generation][k], top[generation][k])
  /\ \A f \in flights : Fits(f.row, server[f.user][f.key], top[f.user][f.key])
  /\ \A i \in DOMAIN polls, k \in Keys :
       Fits(polls[i].rows[k], server[polls[i].user][k], top[polls[i].user][k])

\* A save goes past the row it replaces when it reaches the backend.
SavesGoPast ==
  \A f \in flights :
    /\ f.replacing <= top[f.user][f.key]
    /\ f.arrived => f.replacing < top[f.user][f.key]

\* A user's saves and sync start when everything the user has stored is loaded, and it is
\* loaded once.
LoadedFirst ==
  /\ \A i \in DOMAIN polls : polls[i].user <= generation
  /\ \A u \in Users : u > generation => load[u].at = "idle"
  /\ ~disposed /\ phase # "ready" =>
       /\ \A k \in Keys : row[k] = NoRow /\ seen[k] = -1
       /\ \A i \in DOMAIN polls : polls[i].user # generation
       /\ \A f \in flights : f.user # generation
  /\ ~disposed /\ load[generation].at # "idle" => phase = "loading"

\* A key that lost its row lost it at the backend too,
LostIsGone == \A k \in Keys : ~disposed /\ row[k] = NoRow => seen[k] < top[generation][k]

\* so did one that a state has no row for and an earlier state has,
PollsGoForward ==
  \A i, j \in DOMAIN polls, k \in Keys :
    i < j /\ polls[i].user = polls[j].user
    /\ polls[i].rows[k] # NoRow /\ polls[j].rows[k] = NoRow
    => polls[i].rows[k].revision < top[polls[i].user][k]

\* or the store has, unless the state was read before a save that has resolved.
PollsAreLater ==
  \A i \in DOMAIN polls, k \in Keys :
    polls[i].user = generation /\ ~polls[i].predates
    /\ row[k] # NoRow /\ polls[i].rows[k] = NoRow
    => row[k].revision < top[generation][k]

RemovedIsGone == LostIsGone /\ PollsGoForward /\ PollsAreLater

SyncInv == ServerIsLatest /\ RowsFit /\ SavesGoPast /\ LoadedFirst /\ RemovedIsGone

LEMMA InitSyncInv == Init => SyncInv
<1>. SUFFICES ASSUME Init PROVE SyncInv
  OBVIOUS
<1>1. generation = 0 /\ 0 \in Users
  BY ConstantsAssumption DEF Init, Users
<1>2. \A u \in Users, k \in Keys :
        /\ server[u][k] = NoRow /\ load[u].rows[k] = NoRow /\ top[u][k] = 0
        /\ u # 0 => load[u].at = "idle"
  BY DEF Init, NoLoad
<1>3. polls = <<>> /\ flights = {} /\ \A k \in Keys : row[k] = NoRow /\ seen[k] = -1
  BY DEF Init
<1>4. ServerIsLatest /\ RowsFit /\ SavesGoPast
  BY <1>1, <1>2, <1>3 DEF ServerIsLatest, RowsFit, Fits, SavesGoPast
<1>5. \A u \in Users : u # 0 => load[u].at = "idle"
  BY DEF Init, NoLoad
<1>6. LoadedFirst
  BY <1>1, <1>3, <1>5 DEF LoadedFirst, Init
<1>7. RemovedIsGone
  BY <1>1, <1>2, <1>3 DEF RemovedIsGone, LostIsGone, PollsGoForward, PollsAreLater
<1>. QED  BY <1>4, <1>6, <1>7 DEF SyncInv

\* What a step does to a key at the backend: it moves on, or has the same value as before.
Moves(u, k) ==
  /\ top'[u][k] \in Nat /\ top'[u][k] >= top[u][k]
  /\ \/ top'[u][k] > top[u][k]
     \/ server[u][k] = server'[u][k]
     \/ /\ server[u][k] # NoRow /\ server'[u][k] # NoRow
        /\ server[u][k].value = server'[u][k].value

Moving == ServerIsLatest' /\ \A u \in Users, k \in Keys : Moves(u, k)

LEMMA MovingFits ==
  ASSUME TypeOK, NEW u \in Users, NEW k \in Keys, Moves(u, k), NEW r,
         Known(r, u, top[u][k]), Fits(r, server[u][k], top[u][k])
  PROVE  Fits(r, server'[u][k], top'[u][k])
BY TopType DEF Moves, Known, Fits

LEMMA WriteMoves ==
  ASSUME TypeOK, ServerIsLatest, NEW user \in Users, NEW k \in Keys, NEW value \in Content,
         NEW version, Write(user, k, value, version)
  PROVE  /\ Moving
         /\ server'[user][k] = NextRow(user, k, value, version)
         /\ top'[user][k] = top[user][k] + 1
<1>1. \A u \in Users, j \in Keys :
        /\ top[u][j] \in Nat
        /\ top'[u][j] = IF u = user /\ j = k THEN top[u][j] + 1 ELSE top[u][j]
        /\ server'[u][j] = IF u = user /\ j = k
                            THEN NextRow(user, k, value, version) ELSE server[u][j]
  BY DEF Write, TypeOK, BackendType
<1>2. NextRow(user, k, value, version) # NoRow =>
        NextRow(user, k, value, version).revision = top[user][k] + 1
  BY DEF NextRow
<1>. QED  BY <1>1, <1>2 DEF ServerIsLatest, Moving, Moves

LEMMA RewriteMoves ==
  ASSUME TypeOK, ServerIsLatest, NEW k \in Keys, NEW version \in Versions,
         BackendRewrites(k, version)
  PROVE  Moving
<1>1. /\ UNCHANGED top
      /\ server[generation][k] # NoRow /\ generation \in Users
      /\ server' = [server EXCEPT ![generation][k].version = version]
  BY DEF BackendRewrites, TypeOK, StoreType
<1>. DEFINE new == [server[generation][k] EXCEPT !.version = version]
<1>2. server[generation][k] \in Row /\ version \in Nat /\ version # 0
  BY <1>1, ConstantsAssumption DEF TypeOK, BackendType
<1>3. \A u \in Users, j \in Keys :
        server'[u][j] = IF u = generation /\ j = k THEN new ELSE server[u][j]
  BY <1>1 DEF TypeOK, BackendType
<1>4. /\ new.value = server[generation][k].value
      /\ new.revision = server[generation][k].revision
      /\ new.version = version
  BY <1>2 DEF Row
<1>. HIDE DEF new
<1>5. new # NoRow
  BY <1>2, <1>4 DEF NoRow
<1>. QED  BY <1>1, <1>3, <1>4, <1>5, TopType DEF ServerIsLatest, Moving, Moves

LEMMA SameMoves ==
  ASSUME TypeOK, ServerIsLatest, UNCHANGED backend
  PROVE  Moving
BY TopType DEF backend, ServerIsLatest, Moving, Moves

LEMMA PollFields ==
  ASSUME TypeOK, NEW i \in DOMAIN polls
  PROVE  /\ polls[i].user \in Users
         /\ \A k \in Keys : polls[i].rows[k] \in Row
                           /\ polls[i].rows[k].revision \in Nat \cup {-1}
<1>1. polls[i] \in Poll
  BY DEF TypeOK, AdapterType
<1>2. polls[i].user \in Users /\ polls[i].rows \in [Keys -> Row]
  BY <1>1 DEF Poll
<1>. QED  BY <1>2 DEF Row

LEMMA RowsStayFit ==
  ASSUME KnownInv, RowsFit, Moving,
         \A u \in Users : load'[u].rows \in {load[u].rows, NoLoad.rows, server'[u]},
         \A f \in flights' \ flights : f.row \in {NoRow, server'[f.user][f.key]},
         \A i \in DOMAIN polls' :
           \/ \E j \in DOMAIN polls : polls'[i].user = polls[j].user
                                      /\ polls'[i].rows = polls[j].rows
           \/ polls'[i].rows = server'[polls'[i].user],
         \A k \in Keys :
           \/ row'[k] = NoRow
           \/ /\ generation' = generation
              /\ Known(row'[k], generation, top[generation][k])
              /\ Fits(row'[k], server[generation][k], top[generation][k])
  PROVE  RowsFit'
<1>. USE DEF KnownInv, FlightInv, TypeInv, Moving
<1>1. \A u \in Users, k \in Keys : \A r :
        Known(r, u, top[u][k]) /\ Fits(r, server[u][k], top[u][k])
          => Fits(r, server'[u][k], top'[u][k])
  BY MovingFits
<1>2. \A s, n : Fits(NoRow, s, n) /\ Fits(s, s, n)
  BY DEF Fits
<1>3. ASSUME NEW u \in Users, NEW k \in Keys
      PROVE  Fits(load'[u].rows[k], server'[u][k], top'[u][k])
  BY <1>1, <1>2 DEF RowsKnown, RowsFit, NoLoad
<1>4. generation \in Users
  BY DEF TypeOK, StoreType
<1>5. ASSUME NEW k \in Keys
      PROVE  Fits(row'[k], server'[generation'][k], top'[generation'][k])
  BY <1>1, <1>2, <1>4
<1>6. ASSUME NEW f \in flights'
      PROVE  Fits(f.row, server'[f.user][f.key], top'[f.user][f.key])
  <2>1. CASE f \in flights
    BY <1>1, <2>1, FlightFields DEF RowsKnown, RowsFit
  <2>2. CASE f \notin flights
    BY <1>2, <2>2
  <2>. QED  BY <2>1, <2>2
<1>7. ASSUME NEW i \in DOMAIN polls', NEW k \in Keys
      PROVE  Fits(polls'[i].rows[k], server'[polls'[i].user][k], top'[polls'[i].user][k])
  <2>1. CASE polls'[i].rows = server'[polls'[i].user]
    BY <1>2, <2>1
  <2>2. ASSUME NEW j \in DOMAIN polls, polls'[i].user = polls[j].user,
               polls'[i].rows = polls[j].rows
        PROVE  Fits(polls'[i].rows[k], server'[polls'[i].user][k], top'[polls'[i].user][k])
    <3>. QED  BY <1>1, <2>2, PollFields DEF RowsKnown, RowsFit
  <2>. QED  BY <2>1, <2>2
<1>. QED  BY <1>3, <1>5, <1>6, <1>7 DEF RowsFit

LEMMA SavesStayPast ==
  ASSUME KnownInv, SavesGoPast, Moving,
         \A f \in flights' \ flights :
           /\ f.replacing <= top'[f.user][f.key]
           /\ f.arrived => f.replacing < top'[f.user][f.key]
  PROVE  SavesGoPast'
<1>. USE DEF KnownInv, FlightInv, TypeInv
<1>1. ASSUME NEW f \in flights
      PROVE  /\ f.replacing \in Nat \cup {-1} /\ top[f.user][f.key] \in Nat
             /\ top'[f.user][f.key] \in Nat /\ top'[f.user][f.key] >= top[f.user][f.key]
  BY FlightFields, TopType DEF Moving, Moves
<1>. QED  BY <1>1 DEF SavesGoPast

\* Steps of the saves in the air and of the backend.
LEMMA SameSlotsSync ==
  ASSUME KnownInv, SyncInv, Moving,
         UNCHANGED <<phase, generation, disposed, row, seen, load, polls>>,
         \/ disposed \/ phase = "ready"
         \/ \A g \in flights' : \E f \in flights : f.user = g.user,
         \A f \in flights' \ flights :
           /\ f.row \in {NoRow, server'[f.user][f.key]}
           /\ f.replacing <= top'[f.user][f.key]
           /\ f.arrived => f.replacing < top'[f.user][f.key]
  PROVE  SyncInv'
<1>. USE DEF KnownInv, FlightInv, TypeInv
<1>1. generation \in Users /\ \A i \in DOMAIN polls : polls[i].user \in Users
  BY PollFields DEF TypeOK, StoreType
<1>2. \A u \in Users, k \in Keys : /\ top[u][k] \in Nat /\ top'[u][k] \in Nat
                                  /\ top'[u][k] >= top[u][k]
  BY TopType DEF Moving, Moves
<1>3. \A k \in Keys : Known(row[k], generation, top[generation][k])
                      /\ Fits(row[k], server[generation][k], top[generation][k])
  BY DEF HeldIsNewest, SyncInv, RowsFit
<1>4. RowsFit' /\ SavesGoPast'
  BY <1>3, RowsStayFit, SavesStayPast DEF SyncInv
<1>5. LoadedFirst'
  BY DEF SyncInv, LoadedFirst
<1>6. \A k \in Keys : seen[k] \in Nat \cup {-1} /\ row[k].revision \in Nat \cup {-1}
  BY DEF TypeOK, SlotsType, Row
<1>7. \A i \in DOMAIN polls, k \in Keys : polls[i].rows[k].revision \in Nat \cup {-1}
  BY PollFields
<1>8. LostIsGone' /\ PollsAreLater'
  BY <1>1, <1>2, <1>6 DEF SyncInv, RemovedIsGone, LostIsGone, PollsAreLater
<1>9. PollsGoForward'
  BY <1>1, <1>2, <1>7 DEF SyncInv, RemovedIsGone, PollsGoForward
<1>. QED  BY <1>4, <1>5, <1>8, <1>9 DEF SyncInv, RemovedIsGone, Moving

\* Steps of the loads that take no row over.
LEMMA SameRowsSync ==
  ASSUME KnownInv, SyncInv, LoadedFirst',
         UNCHANGED <<generation, disposed, row, seen, flights, polls, backend>>,
         \A u \in Users : load'[u].rows \in {load[u].rows, NoLoad.rows, server[u]}
  PROVE  SyncInv'
<1>. USE DEF KnownInv, FlightInv, TypeInv
<1>1. Moving
  BY SameMoves DEF SyncInv
<1>2. \A k \in Keys : Known(row[k], generation, top[generation][k])
                      /\ Fits(row[k], server[generation][k], top[generation][k])
  BY DEF HeldIsNewest, SyncInv, RowsFit
<1>3. RowsFit' /\ SavesGoPast'
  BY <1>1, <1>2, RowsStayFit, SavesStayPast DEF SyncInv, backend
<1>4. RemovedIsGone'
  BY DEF SyncInv, RemovedIsGone, LostIsGone, PollsGoForward, PollsAreLater, backend
<1>. QED  BY <1>1, <1>3, <1>4 DEF SyncInv, Moving

LEMMA LoadStepSync ==
  ASSUME KnownInv, SyncInv, NEW user \in Users,
         \/ LoadReads(user) \/ LoadRejected(user) \/ RetryLoad
         \/ LoadResolved(user) /\ ~Current(user)
  PROVE  SyncInv'
<1>. USE DEF KnownInv, FlightInv, TypeInv
<1>1. generation \in Users
  BY DEF TypeOK, StoreType
<1>2. UNCHANGED <<generation, disposed, row, seen, flights, polls, backend>>
  BY DEF LoadReads, LoadRejected, RetryLoad, LoadResolved, store, slots, backend
<1>3. PICK moved, entry :
        /\ moved \in Users
        /\ load' = [load EXCEPT ![moved] = entry]
        /\ entry.rows \in {load[moved].rows, NoLoad.rows, server[moved]}
        /\ \/ entry.at = "read" /\ load[moved].at = "asked" /\ phase' = phase
           \/ /\ entry.at = "idle" /\ load[moved].at # "idle"
              /\ phase' = IF Current(moved) THEN "error" ELSE phase
           \/ entry.at = "idle" /\ phase' = phase /\ ~Current(moved)
           \/ entry.at = "asked" /\ moved = generation /\ phase = "error" /\ phase' = "loading"
  <2>1. CASE LoadReads(user)
    <3>1. PICK e : e = [at |-> "read", rows |-> server[user]]
      OBVIOUS
    <3>2. e.at = "read" /\ e.rows = server[user]
      BY <3>1
    <3>3. load' = [load EXCEPT ![user] = e] /\ load[user].at = "asked" /\ phase' = phase
      BY <2>1, <3>1 DEF LoadReads, store
    <3>. QED  BY <3>2, <3>3
  <2>2. CASE LoadRejected(user)
    <3>1. PICK e : e = NoLoad
      OBVIOUS
    <3>2. e.at = "idle" /\ e.rows = NoLoad.rows
      BY <3>1 DEF NoLoad
    <3>3. /\ load' = [load EXCEPT ![user] = e] /\ load[user].at # "idle"
          /\ phase' = IF Current(user) THEN "error" ELSE phase
      BY <2>2, <3>1 DEF LoadRejected
    <3>. QED  BY <3>2, <3>3
  <2>3. CASE LoadResolved(user) /\ ~Current(user)
    <3>1. PICK e : e = NoLoad
      OBVIOUS
    <3>2. e.at = "idle" /\ e.rows = NoLoad.rows
      BY <3>1 DEF NoLoad
    <3>3. load' = [load EXCEPT ![user] = e] /\ phase' = phase /\ ~Current(user)
      BY <2>3, <3>1 DEF LoadResolved
    <3>. QED  BY <3>2, <3>3
  <2>4. CASE RetryLoad
    <3>1. PICK e : e = [load[generation] EXCEPT !.at = "asked"]
      OBVIOUS
    <3>2. load[generation] \in [at : {"idle", "asked", "read"}, rows : [Keys -> Row]]
      BY <1>1 DEF TypeOK, AdapterType
    <3>3. e.at = "asked" /\ e.rows = load[generation].rows
      BY <3>1, <3>2
    <3>4. /\ load' = [load EXCEPT ![generation].at = "asked"]
          /\ phase = "error" /\ phase' = "loading"
      BY <2>4 DEF RetryLoad, StartLoad
    <3>5. load' = [load EXCEPT ![generation] = e]
      BY <3>1, <3>4
    <3>. QED  BY <1>1, <3>3, <3>4, <3>5
  <2>. QED  BY <2>1, <2>2, <2>3, <2>4
<1>4. \A u \in Users : load'[u] = IF u = moved THEN entry ELSE load[u]
  BY <1>3 DEF TypeOK, AdapterType
<1>5. \A u \in Users : load'[u].rows \in {load[u].rows, NoLoad.rows, server[u]}
  BY <1>3, <1>4
<1>6. \A u \in Users : u > generation => load'[u].at = "idle"
  BY <1>1, <1>3, <1>4 DEF SyncInv, LoadedFirst, Users
<1>7. ~disposed /\ load[generation].at # "idle" => phase = "loading"
  BY DEF SyncInv, LoadedFirst
<1>8. ~disposed /\ load'[generation].at # "idle" => phase' = "loading"
  BY <1>1, <1>3, <1>4, <1>7 DEF Current
<1>9. ~disposed /\ phase' # "ready" => phase # "ready"
  BY <1>3, <1>7 DEF Current
<1>10. LoadedFirst'
  BY <1>2, <1>6, <1>8, <1>9 DEF SyncInv, LoadedFirst
<1>. QED  BY <1>2, <1>5, <1>10, SameRowsSync

LEMMA FinishSync ==
  ASSUME NEW f \in flights, Current(f.user), NEW failure, NEW replaced,
         Finish(f, failure, replaced)
  PROVE  /\ \A g \in flights' \ flights :
              /\ g.row = NoRow /\ g.arrived = FALSE /\ g.replacing = replaced.revision
              /\ g.user = f.user /\ g.key = f.key
         /\ \A g \in flights' : \E h \in flights : h.user = g.user
<1>1. PICK new : new = NewFlight(f.key, queued[f.key].value, queued[f.key].waiters, replaced)
  OBVIOUS
<1>2. /\ new.row = NoRow /\ new.arrived = FALSE /\ new.replacing = replaced.revision
      /\ new.user = f.user /\ new.key = f.key
  BY <1>1 DEF NewFlight, Current
<1>3. \A g \in flights' : g \in flights \/ g = new
  BY <1>1 DEF Finish
<1>. QED  BY <1>2, <1>3

\* The saves of the signed-in user are in the air only once everything is loaded.
LEMMA HeldIsReached ==
  ASSUME KnownInv, NEW k \in Keys
  PROVE  /\ row[k].revision \in Nat \cup {-1} /\ seen[k] \in Nat \cup {-1}
         /\ top[generation][k] \in Nat
         /\ row[k].revision <= top[generation][k]
         /\ seen[k] <= top[generation][k]
         /\ row[k] # NoRow => row[k].revision = seen[k] /\ row[k].revision # -1
<1>. USE DEF KnownInv, FlightInv, TypeInv
<1>1. row[k] \in Row /\ seen[k] \in Nat \cup {-1} /\ generation \in Users
  BY DEF TypeOK, SlotsType, StoreType
<1>2. row[k].revision \in Nat \cup {-1} /\ top[generation][k] \in Nat
  BY <1>1, TopType DEF Row
<1>. QED  BY <1>1, <1>2 DEF HeldIsNewest, Known, NoRow

LEMMA SaveSync ==
  ASSUME KnownInv, SyncInv, NEW k \in Keys, NEW value, Save(k, value)
  PROVE  SyncInv'
<1>. USE DEF KnownInv, FlightInv, TypeInv
<1>1. /\ UNCHANGED <<phase, generation, disposed, row, seen, load, polls, backend>>
      /\ phase = "ready"
  BY DEF Save, store
<1>2. Moving
  BY <1>1, SameMoves DEF SyncInv
<1>3. PICK new : new = NewFlight(k, value, {issued + 1}, row[k])
  OBVIOUS
<1>4. /\ new.row = NoRow /\ new.arrived = FALSE /\ new.replacing = row[k].revision
      /\ new.user = generation /\ new.key = k
  BY <1>3 DEF NewFlight
<1>5. \A g \in flights' : g \in flights \/ g = new
  BY <1>3 DEF Save, SendNow, SendNext
<1>6. new.replacing <= top'[new.user][new.key]
  BY <1>1, <1>4, HeldIsReached DEF backend
<1>. QED  BY <1>1, <1>2, <1>4, <1>5, <1>6, SameSlotsSync

LEMMA SaveEndsSync ==
  ASSUME KnownInv, SyncInv, NEW f \in flights, SaveRejected(f) \/ SaveAbandoned(f)
  PROVE  SyncInv'
<1>. USE DEF KnownInv, FlightInv, TypeInv
<1>1. UNCHANGED <<phase, generation, disposed, row, seen, load, polls, backend>>
  BY DEF SaveRejected, SaveAbandoned, store, slots
<1>2. Moving
  BY <1>1, SameMoves DEF SyncInv
<1>3. CASE SaveAbandoned(f)
  <2>1. flights' = flights \ {f}
    BY <1>3 DEF SaveAbandoned
  <2>. QED  BY <1>1, <1>2, <2>1, SameSlotsSync
<1>4. CASE SaveRejected(f)
  <2>1. Current(f.user) /\ f.user = generation /\ f.key \in Keys
    BY <1>4, FlightFields DEF SaveRejected, Current
  <2>2. PICK replaced : replaced = row[f.key]
    OBVIOUS
  <2>3. replaced.revision = row[f.key].revision
    BY <2>2
  <2>4. Finish(f, f.value, replaced)
    BY <1>4, <2>2 DEF SaveRejected
  <2>5. \A g \in flights' \ flights :
          /\ g.row = NoRow /\ g.arrived = FALSE /\ g.replacing = row[f.key].revision
          /\ g.user = generation /\ g.key = f.key
    BY <2>1, <2>3, <2>4, FinishSync
  <2>6. \A g \in flights' : \E h \in flights : h.user = g.user
    BY <2>1, <2>4, FinishSync
  <2>7. \A g \in flights' \ flights : g.replacing <= top'[g.user][g.key]
    BY <1>1, <2>1, <2>5, HeldIsReached DEF backend
  <2>. QED  BY <1>1, <1>2, <2>5, <2>6, <2>7, SameSlotsSync
<1>. QED  BY <1>3, <1>4

LEMMA SaveArrivesSync ==
  ASSUME KnownInv, SyncInv, NEW f \in flights, SaveArrives(f)
  PROVE  SyncInv'
<1>. USE DEF KnownInv, FlightInv, TypeInv
<1>1. PICK version \in Versions :
        /\ Write(f.user, f.key, f.value, version)
        /\ flights' = (flights \ {f}) \cup
             {[f EXCEPT !.arrived = TRUE, !.row = NextRow(f.user, f.key, f.value, version)]}
  BY DEF SaveArrives
<1>2. UNCHANGED <<phase, generation, disposed, row, seen, load, polls>>
  BY DEF SaveArrives, store, slots
<1>3. /\ f \in Flight /\ f.user \in Users /\ f.key \in Keys /\ f.value \in Content
      /\ f.replacing \in Nat \cup {-1} /\ top[f.user][f.key] \in Nat
  BY FlightFields, TopType DEF TypeOK, AdapterType
<1>4. PICK next : next = NextRow(f.user, f.key, f.value, version)
  OBVIOUS
<1>5. /\ Moving
      /\ server'[f.user][f.key] = next
      /\ top'[f.user][f.key] = top[f.user][f.key] + 1
  <2>1. ServerIsLatest
    BY DEF SyncInv
  <2>. QED  BY <1>1, <1>3, <1>4, <2>1, WriteMoves
<1>6. PICK sent : sent = [f EXCEPT !.arrived = TRUE, !.row = next]
  OBVIOUS
<1>7. /\ sent.user = f.user /\ sent.key = f.key /\ sent.row = next
      /\ sent.replacing = f.replacing
  BY <1>3, <1>6 DEF Flight
<1>8. \A g \in flights' : g \in flights \/ g = sent
  BY <1>1, <1>4, <1>6
<1>9. sent.replacing <= top'[sent.user][sent.key] /\ sent.replacing < top'[sent.user][sent.key]
  BY <1>3, <1>5, <1>7 DEF SyncInv, SavesGoPast
<1>. QED  BY <1>2, <1>5, <1>7, <1>8, <1>9, SameSlotsSync

LEMMA BackendSync ==
  ASSUME KnownInv, SyncInv, NEW k \in Keys, NEW value \in Content, NEW version \in Versions,
         OtherTabSaves(k, value, version) \/ BackendRewrites(k, version)
  PROVE  SyncInv'
<1>. USE DEF KnownInv, FlightInv, TypeInv
<1>1. UNCHANGED <<phase, generation, disposed, row, seen, flights, load, polls>>
  BY DEF OtherTabSaves, BackendRewrites, store, slots, adapter
<1>2. ServerIsLatest /\ generation \in Users
  BY DEF SyncInv, TypeOK, StoreType
<1>3. CASE OtherTabSaves(k, value, version)
  <2>1. Write(generation, k, value, version)
    BY <1>3 DEF OtherTabSaves
  <2>2. PICK u \in Users : u = generation
    BY <1>2
  <2>3. Write(u, k, value, version)
    BY <2>1, <2>2
  <2>4. Moving
    BY <1>2, <2>3, WriteMoves
  <2>. QED  BY <1>1, <2>4, SameSlotsSync
<1>4. CASE BackendRewrites(k, version)
  <2>1. Moving
    BY <1>2, <1>4, RewriteMoves
  <2>. QED  BY <1>1, <2>1, SameSlotsSync
<1>. QED  BY <1>3, <1>4

LEMMA SaveResolvedSync ==
  ASSUME KnownInv, KnownInv', SyncInv, NEW f \in flights, SaveResolved(f)
  PROVE  SyncInv'
<1>. USE DEF KnownInv, FlightInv, TypeInv
<1>1. /\ f.arrived /\ Current(f.user) /\ f.user = generation /\ ~disposed /\ f.key \in Keys
      /\ f.replacing \in Nat \cup {-1} /\ f.row \in Row /\ generation \in Users
  BY FlightFields DEF SaveResolved, Current, TypeOK, StoreType
<1>2. /\ UNCHANGED <<phase, generation, disposed, load, backend, server, top>>
      /\ row' = [row EXCEPT ![f.key] = Accepted(f)]
      /\ seen' = [seen EXCEPT ![f.key] = LargerOf(@, Accepted(f).revision)]
  BY DEF SaveResolved, store, backend
<1>3. Moving
  BY <1>2, SameMoves DEF SyncInv
<1>4. /\ row'[f.key] = Accepted(f) /\ seen'[f.key] = LargerOf(seen[f.key], Accepted(f).revision)
      /\ \A j \in Keys \ {f.key} : row'[j] = row[j] /\ seen'[j] = seen[j]
  BY <1>1, <1>2 DEF TypeOK, SlotsType
<1>5. /\ \A g \in flights' \ flights :
           /\ g.row = NoRow /\ g.arrived = FALSE /\ g.replacing = Accepted(f).revision
           /\ g.user = f.user /\ g.key = f.key
      /\ \A g \in flights' : \E h \in flights : h.user = g.user
  <2>1. PICK failure, replaced : failure = failed[f.key] /\ replaced = Accepted(f)
    <3>1. PICK failure : failure = failed[f.key]
      OBVIOUS
    <3>2. PICK replaced : replaced = Accepted(f)
      OBVIOUS
    <3>. QED  BY <3>1, <3>2
  <2>2. Finish(f, failure, replaced)
    BY <2>1 DEF SaveResolved
  <2>3. /\ \A g \in flights' \ flights :
             /\ g.row = NoRow /\ g.arrived = FALSE /\ g.replacing = replaced.revision
             /\ g.user = f.user /\ g.key = f.key
        /\ \A g \in flights' : \E h \in flights : h.user = g.user
    BY <1>1, <2>2, FinishSync
  <2>. QED  BY <2>1, <2>3
<1>6. /\ DOMAIN polls' = DOMAIN polls
      /\ \A i \in DOMAIN polls :
           /\ polls'[i].user = polls[i].user /\ polls'[i].rows = polls[i].rows
           /\ polls'[i].user = generation => polls'[i].predates
  <2>1. /\ DOMAIN polls' = DOMAIN polls
        /\ \A i \in DOMAIN polls :
             polls'[i] = [polls[i] EXCEPT !.predates = @ \/ polls[i].user = f.user]
    BY DEF SaveResolved, Predate
  <2>2. \A i \in DOMAIN polls : polls[i] \in Poll
    BY DEF TypeOK, AdapterType
  <2>. QED  BY <1>1, <2>1, <2>2 DEF Poll
<1>7. phase = "ready"
  BY <1>1 DEF SyncInv, LoadedFirst
<1>8. \A k \in Keys :
        Known(row[k], generation, top[generation][k])
        /\ Fits(row[k], server[generation][k], top[generation][k])
  BY DEF HeldIsNewest, SyncInv, RowsFit
<1>9. /\ Known(f.row, generation, top[generation][f.key])
      /\ Fits(f.row, server[generation][f.key], top[generation][f.key])
  BY <1>1 DEF RowsKnown, SyncInv, RowsFit
<1>10. \A k \in Keys :
         \/ row'[k] = NoRow
         \/ /\ Known(row'[k], generation, top[generation][k])
            /\ Fits(row'[k], server[generation][k], top[generation][k])
  BY <1>4, <1>8, <1>9 DEF Accepted
<1>11. RowsFit'
  BY <1>2, <1>3, <1>5, <1>6, <1>10, RowsStayFit DEF SyncInv
<1>12. row'[f.key].revision <= top'[generation'][f.key]
  BY <1>1, <1>2 DEF HeldIsNewest, Known, NoRow, TypeOK, BackendType
<1>13. SavesGoPast'
  BY <1>1, <1>2, <1>3, <1>4, <1>5, <1>12, SavesStayPast DEF SyncInv
<1>14. LoadedFirst'
  BY <1>2, <1>6, <1>7 DEF SyncInv, LoadedFirst
<1>15. ASSUME NEW k \in Keys, row'[k] = NoRow
       PROVE  seen'[k] < top[generation][k]
  <2>1. CASE k # f.key
    BY <1>1, <1>4, <1>15, <2>1 DEF SyncInv, RemovedIsGone, LostIsGone
  <2>2. CASE k = f.key /\ row[k] = NoRow
    <3>1. seen[k] < top[generation][k] /\ seen[k] \in Nat \cup {-1}
      BY <1>1, <2>2 DEF SyncInv, RemovedIsGone, LostIsGone, TypeOK, SlotsType
    <3>. QED  BY <1>4, <1>15, <2>2, <3>1 DEF LargerOf, NoRow
  <2>3. CASE k = f.key /\ row[k] # NoRow
    <3>1. f.value = Removal
      BY <1>1, <1>4, <1>15, <2>3 DEF Accepted, AnswerIsNewer
    <3>2. ~(row[k].revision > f.replacing)
      BY <1>4, <1>15, <2>3, <3>1 DEF Accepted
    <3>3. f.replacing < top[generation][k]
      BY <1>1, <2>3 DEF SyncInv, SavesGoPast
    <3>4. seen[k] < top[generation][k] /\ seen[k] \in Nat \cup {-1}
      BY <1>1, <2>3, <3>2, <3>3, HeldIsReached
    <3>. QED  BY <1>4, <1>15, <2>3, <3>4 DEF LargerOf, NoRow
  <2>. QED  BY <2>1, <2>2, <2>3
<1>16. LostIsGone' /\ PollsAreLater'
  BY <1>2, <1>6, <1>15 DEF LostIsGone, PollsAreLater
<1>17. PollsGoForward'
  BY <1>2, <1>6 DEF SyncInv, RemovedIsGone, PollsGoForward
<1>. QED  BY <1>3, <1>11, <1>13, <1>14, <1>16, <1>17 DEF SyncInv, RemovedIsGone, Moving

\* Steps of sync that only read or lose a state.
LEMMA SyncStepSync ==
  ASSUME KnownInv, SyncInv, UNCHANGED <<store, row, seen, flights, load, backend>>,
         \A n \in DOMAIN polls' :
           \/ \E j \in DOMAIN polls : polls'[n] = polls[j]
           \/ phase = "ready" /\ polls'[n].user = generation
              /\ polls'[n].rows = server[generation],
         PollsGoForward', PollsAreLater'
  PROVE  SyncInv'
<1>. USE DEF KnownInv, FlightInv, TypeInv
<1>1. UNCHANGED <<phase, generation, disposed, server, top>>
  BY DEF store, backend
<1>2. Moving
  BY SameMoves DEF SyncInv
<1>3. \A k \in Keys : Known(row[k], generation, top[generation][k])
                      /\ Fits(row[k], server[generation][k], top[generation][k])
  BY DEF HeldIsNewest, SyncInv, RowsFit
<1>4. RowsFit' /\ SavesGoPast'
  BY <1>1, <1>2, <1>3, RowsStayFit, SavesStayPast DEF SyncInv
<1>5. generation <= generation
  BY ConstantsAssumption DEF TypeOK, StoreType, Users
<1>6. LoadedFirst'
  BY <1>1, <1>5 DEF SyncInv, LoadedFirst
<1>7. LostIsGone'
  BY <1>1 DEF SyncInv, RemovedIsGone, LostIsGone
<1>. QED  BY <1>2, <1>4, <1>6, <1>7 DEF SyncInv, RemovedIsGone, Moving

LEMMA PollReadsSync ==
  ASSUME KnownInv, SyncInv, PollReads
  PROVE  SyncInv'
<1>. USE DEF KnownInv, FlightInv, TypeInv
<1>1. PICK new : new = [user |-> generation, rows |-> server[generation], predates |-> FALSE]
  OBVIOUS
<1>2. /\ new.user = generation /\ new.rows = server[generation]
      /\ generation \in Users /\ phase = "ready" /\ ~disposed
      /\ polls \in Seq(Poll) /\ polls' = Append(polls, new)
  BY <1>1 DEF PollReads, TypeOK, StoreType, AdapterType
<1>3. /\ DOMAIN polls = 1 .. Len(polls) /\ DOMAIN polls' = 1 .. Len(polls) + 1
      /\ Len(polls) \in Nat
      /\ \A n \in DOMAIN polls' : polls'[n] = IF n \in DOMAIN polls THEN polls[n] ELSE new
  BY <1>2
<1>4. UNCHANGED <<store, row, seen, flights, load, backend, generation, top>>
  BY DEF PollReads, slots, store, backend
<1>5. ASSUME NEW k \in Keys, NEW r, server[generation][k] = NoRow, r # NoRow,
             Known(r, generation, top[generation][k]),
             Fits(r, server[generation][k], top[generation][k])
      PROVE  r.revision < top[generation][k]
  BY <1>2, <1>5, TopType DEF Known, Fits
<1>6. PollsGoForward'
  <2>. SUFFICES ASSUME NEW i \in DOMAIN polls', NEW j \in DOMAIN polls', NEW k \in Keys,
                       i < j, polls'[i].user = polls'[j].user,
                       polls'[i].rows[k] # NoRow, polls'[j].rows[k] = NoRow
                PROVE  polls'[i].rows[k].revision < top[polls'[i].user][k]
    BY <1>4 DEF PollsGoForward
  <2>1. i \in DOMAIN polls /\ polls'[i] = polls[i]
    BY <1>3
  <2>2. CASE j \in DOMAIN polls
    BY <1>3, <2>1, <2>2 DEF SyncInv, RemovedIsGone, PollsGoForward
  <2>3. CASE j \notin DOMAIN polls
    <3>1. polls[i].user = generation /\ server[generation][k] = NoRow
      BY <1>2, <1>3, <2>1, <2>3
    <3>2. /\ Known(polls[i].rows[k], generation, top[generation][k])
          /\ Fits(polls[i].rows[k], server[generation][k], top[generation][k])
      BY <2>1, <3>1 DEF RowsKnown, SyncInv, RowsFit
    <3>. QED  BY <1>5, <2>1, <3>1, <3>2
  <2>. QED  BY <2>2, <2>3
<1>7. PollsAreLater'
  <2>. SUFFICES ASSUME NEW i \in DOMAIN polls', NEW k \in Keys,
                       polls'[i].user = generation, ~polls'[i].predates,
                       row[k] # NoRow, polls'[i].rows[k] = NoRow
                PROVE  row[k].revision < top[generation][k]
    BY <1>4 DEF PollsAreLater
  <2>1. CASE i \in DOMAIN polls
    BY <1>3, <2>1 DEF SyncInv, RemovedIsGone, PollsAreLater
  <2>2. CASE i \notin DOMAIN polls
    <3>1. server[generation][k] = NoRow
      BY <1>2, <1>3, <2>2
    <3>2. /\ Known(row[k], generation, top[generation][k])
          /\ Fits(row[k], server[generation][k], top[generation][k])
      BY DEF HeldIsNewest, SyncInv, RowsFit
    <3>. QED  BY <1>5, <3>1, <3>2
  <2>. QED  BY <2>1, <2>2
<1>. QED  BY <1>2, <1>3, <1>4, <1>6, <1>7, SyncStepSync

\* Of the states that are left, a later one is still a later one.
LEMMA FewerPolls ==
  ASSUME KnownInv, SyncInv, NEW i \in DOMAIN polls, polls' = WithoutPoll(i), UNCHANGED top
  PROVE  /\ PollsGoForward'
         /\ \A n \in DOMAIN polls' : \E j \in DOMAIN polls : polls'[n] = polls[j]
         /\ i = 1 => \A n \in DOMAIN polls' :
              \E j \in DOMAIN polls : i < j /\ polls'[n] = polls[j]
<1>. USE DEF KnownInv, FlightInv, TypeInv
<1>1. \A n \in DOMAIN polls' :
        /\ n \in Nat /\ n >= 1 /\ i \in Nat /\ i >= 1
        /\ IF n < i THEN n \in DOMAIN polls /\ polls'[n] = polls[n]
                    ELSE n + 1 \in DOMAIN polls /\ polls'[n] = polls[n + 1]
  BY WithoutPollIs
<1>2. ASSUME NEW m \in DOMAIN polls', NEW n \in DOMAIN polls', m < n
      PROVE  \E a, b \in DOMAIN polls : a < b /\ polls'[m] = polls[a] /\ polls'[n] = polls[b]
  <2>1. CASE n < i
    BY <1>1, <1>2, <2>1
  <2>2. CASE ~(n < i) /\ m < i
    <3>1. m < n + 1
      BY <1>1, <1>2
    <3>. QED  BY <1>1, <2>2, <3>1
  <2>3. CASE ~(n < i) /\ ~(m < i)
    <3>1. m + 1 < n + 1
      BY <1>1, <1>2
    <3>. QED  BY <1>1, <2>3, <3>1
  <2>. QED  BY <2>1, <2>2, <2>3
<1>3. PollsGoForward'
  BY <1>2 DEF SyncInv, RemovedIsGone, PollsGoForward
<1>4. ASSUME i = 1, NEW n \in DOMAIN polls'
      PROVE  i < n + 1 /\ n + 1 \in DOMAIN polls /\ polls'[n] = polls[n + 1]
  BY <1>1, <1>4
<1>. QED  BY <1>1, <1>3, <1>4

\* A state that the adapter drops, or that is of a user who has gone.
LEMMA PollGoesSync ==
  ASSUME KnownInv, SyncInv, NEW i \in DOMAIN polls, polls' = WithoutPoll(i),
         UNCHANGED <<store, slots, flights, load, backend>>
  PROVE  SyncInv'
<1>. USE DEF KnownInv, FlightInv, TypeInv
<1>1. UNCHANGED <<store, row, seen, flights, load, backend, generation, top>>
  BY DEF slots, store, backend
<1>2. PollsGoForward' /\ \A n \in DOMAIN polls' : \E j \in DOMAIN polls : polls'[n] = polls[j]
  BY <1>1, FewerPolls
<1>3. PollsAreLater'
  BY <1>1, <1>2 DEF SyncInv, RemovedIsGone, PollsAreLater
<1>. QED  BY <1>1, <1>2, <1>3, SyncStepSync

\* What replace() leaves of a key, for rows of the signed-in user.
LEMMA ReplacedIs ==
  ASSUME KnownInv, NEW rows, Replace(rows),
         \A k \in Keys : rows[k] \in Row /\ Known(rows[k], generation, top[generation][k]),
         NEW k \in Keys
  PROVE  /\ row'[k] \in {row[k], rows[k], NoRow}
         /\ row'[k] = NoRow /\ row[k] # NoRow => rows[k] = NoRow
         /\ row'[k] = NoRow => seen'[k] = seen[k]
<1>. USE DEF KnownInv, FlightInv, TypeInv
<1>1. row'[k] = Replaced(rows, k) /\ seen'[k] = LargerOf(seen[k], Replaced(rows, k).revision)
  BY DEF Replace
<1>2. seen[k] \in Nat \cup {-1} /\ NoRow.revision = -1
  BY DEF NoRow, TypeOK, SlotsType
<1>3. rows[k].revision = -1 <=> rows[k] = NoRow
  BY <1>2 DEF Known
<1>. QED  BY <1>1, <1>2, <1>3 DEF Replaced, LargerOf

\* A state of the signed-in user that replace() takes over, from a load or from sync.
LEMMA ReplaceSync ==
  ASSUME KnownInv, SyncInv, NEW rows, Replace(rows), ~disposed,
         \A k \in Keys :
           /\ rows[k] \in Row
           /\ Known(rows[k], generation, top[generation][k])
           /\ Fits(rows[k], server[generation][k], top[generation][k])
           /\ row[k] # NoRow /\ rows[k] = NoRow => row[k].revision < top[generation][k],
         UNCHANGED <<generation, disposed, flights, backend>>,
         \A u \in Users : load'[u].rows \in {load[u].rows, NoLoad.rows},
         \A n \in DOMAIN polls' : \E j \in DOMAIN polls : polls'[n] = polls[j]
  PROVE  /\ ServerIsLatest' /\ RowsFit' /\ SavesGoPast' /\ LostIsGone'
<1>. USE DEF KnownInv, FlightInv, TypeInv
<1>1. Moving /\ UNCHANGED <<server, top>>
  BY SameMoves DEF SyncInv, backend
<1>2. \A k \in Keys : Known(row[k], generation, top[generation][k])
                      /\ Fits(row[k], server[generation][k], top[generation][k])
  BY DEF HeldIsNewest, SyncInv, RowsFit
<1>3. \A k \in Keys :
        /\ row'[k] \in {row[k], rows[k], NoRow}
        /\ row'[k] = NoRow /\ row[k] # NoRow => rows[k] = NoRow
        /\ row'[k] = NoRow => seen'[k] = seen[k]
  BY ReplacedIs
<1>4. RowsFit' /\ SavesGoPast'
  BY <1>1, <1>2, <1>3, RowsStayFit, SavesStayPast DEF SyncInv
<1>5. ASSUME NEW k \in Keys, row'[k] = NoRow
      PROVE  seen'[k] < top[generation][k]
  <2>1. CASE row[k] = NoRow
    BY <1>3, <1>5, <2>1 DEF SyncInv, RemovedIsGone, LostIsGone
  <2>2. CASE row[k] # NoRow
    BY <1>3, <1>5, <2>2, HeldIsReached
  <2>. QED  BY <2>1, <2>2
<1>6. LostIsGone'
  BY <1>1, <1>5 DEF LostIsGone
<1>. QED  BY <1>1, <1>4, <1>6 DEF Moving

LEMMA LoadResolvedSync ==
  ASSUME KnownInv, SyncInv, NEW user \in Users, LoadResolved(user), Current(user)
  PROVE  SyncInv'
<1>. USE DEF KnownInv, FlightInv, TypeInv
<1>1. /\ user = generation /\ ~disposed /\ generation \in Users
      /\ load[generation].at = "read" /\ load' = [load EXCEPT ![generation] = NoLoad]
      /\ phase' = "ready"
  BY DEF LoadResolved, Current, TypeOK, StoreType
<1>2. PICK rows : rows = load[generation].rows
  OBVIOUS
<1>3. Replace(rows)
  BY <1>1, <1>2 DEF LoadResolved
<1>4. UNCHANGED <<generation, disposed, flights, polls, backend, top>>
  BY DEF LoadResolved, backend
<1>5. \A u \in Users : /\ load'[u].rows \in {load[u].rows, NoLoad.rows}
                      /\ load'[u].at \in {load[u].at, "idle"}
  BY <1>1 DEF TypeOK, AdapterType, NoLoad
<1>6. phase = "loading"
  BY <1>1 DEF SyncInv, LoadedFirst
<1>7. /\ \A k \in Keys : row[k] = NoRow
      /\ \A i \in DOMAIN polls : polls[i].user # generation
  BY <1>1, <1>6 DEF SyncInv, LoadedFirst
<1>8. \A k \in Keys :
        /\ rows[k] \in Row
        /\ Known(rows[k], generation, top[generation][k])
        /\ Fits(rows[k], server[generation][k], top[generation][k])
  BY <1>1, <1>2 DEF RowsKnown, SyncInv, RowsFit, TypeOK, AdapterType
<1>9. ServerIsLatest' /\ RowsFit' /\ SavesGoPast' /\ LostIsGone'
  BY <1>1, <1>3, <1>4, <1>5, <1>7, <1>8, ReplaceSync
<1>10. load'[generation].at = "idle"
  BY <1>1 DEF TypeOK, AdapterType, NoLoad
<1>11. LoadedFirst'
  BY <1>1, <1>4, <1>5, <1>10 DEF SyncInv, LoadedFirst
<1>12. PollsGoForward' /\ PollsAreLater'
  BY <1>4, <1>7 DEF SyncInv, RemovedIsGone, PollsGoForward, PollsAreLater
<1>. QED  BY <1>9, <1>11, <1>12 DEF SyncInv, RemovedIsGone

LEMMA DeliverPollSync ==
  ASSUME PollsInOrder, KnownInv, SyncInv, NEW i, DeliverPoll(i), Current(polls[i].user)
  PROVE  SyncInv'
<1>. USE DEF KnownInv, FlightInv, TypeInv
<1>1. /\ i \in DOMAIN polls /\ i = 1 /\ ~polls[i].predates
      /\ polls[i].user = generation /\ ~disposed /\ polls' = WithoutPoll(i)
      /\ UNCHANGED <<phase, generation, disposed, flights, load, backend, top>>
  BY DEF DeliverPoll, Current, store, backend
<1>2. PICK rows : rows = polls[i].rows
  OBVIOUS
<1>3. Replace(rows)
  BY <1>2 DEF DeliverPoll
<1>4. \A k \in Keys :
        /\ rows[k] \in Row
        /\ Known(rows[k], generation, top[generation][k])
        /\ Fits(rows[k], server[generation][k], top[generation][k])
        /\ row[k] # NoRow /\ rows[k] = NoRow => row[k].revision < top[generation][k]
  BY <1>1, <1>2, PollFields
     DEF RowsKnown, SyncInv, RowsFit, RemovedIsGone, PollsAreLater
<1>5. /\ PollsGoForward'
      /\ \A n \in DOMAIN polls' : \E j \in DOMAIN polls : i < j /\ polls'[n] = polls[j]
  BY <1>1, FewerPolls
<1>6. ServerIsLatest' /\ RowsFit' /\ SavesGoPast' /\ LostIsGone'
  BY <1>1, <1>3, <1>4, <1>5, ReplaceSync
<1>7. LoadedFirst'
  BY <1>1, <1>5 DEF SyncInv, LoadedFirst
<1>8. PollsAreLater'
  <2>. SUFFICES ASSUME NEW n \in DOMAIN polls', NEW k \in Keys,
                       polls'[n].user = generation, ~polls'[n].predates,
                       row'[k] # NoRow, polls'[n].rows[k] = NoRow
                PROVE  row'[k].revision < top[generation][k]
    BY <1>1 DEF PollsAreLater
  <2>1. PICK j \in DOMAIN polls : i < j /\ polls'[n] = polls[j]
    BY <1>5
  <2>2. CASE row'[k] = row[k]
    BY <2>1, <2>2 DEF SyncInv, RemovedIsGone, PollsAreLater
  <2>3. CASE row'[k] = polls[i].rows[k]
    BY <1>1, <2>1, <2>3 DEF SyncInv, RemovedIsGone, PollsGoForward
  <2>4. row'[k] \in {row[k], rows[k], NoRow}
    BY <1>3, <1>4, ReplacedIs
  <2>. QED  BY <1>2, <2>2, <2>3, <2>4
<1>. QED  BY <1>5, <1>6, <1>7, <1>8 DEF SyncInv, RemovedIsGone

LEMMA NewUserSync ==
  ASSUME KnownInv, KnownInv', SyncInv, Reset \/ Dispose
  PROVE  SyncInv'
<1>. USE DEF KnownInv, FlightInv, TypeInv
<1>1. /\ UNCHANGED <<flights, polls, backend, server, top>>
      /\ generation' = generation + 1 /\ generation \in Nat /\ ~disposed
      /\ generation' \in Users
      /\ \A k \in Keys : row'[k] = NoRow /\ seen'[k] = -1
  <2>1. CloseGeneration /\ NewSlots
    BY DEF Reset, Dispose
  <2>2. generation \in Nat /\ generation' \in Users
    BY ConstantsAssumption DEF TypeOK, StoreType, Users
  <2>. QED  BY <2>1, <2>2 DEF Reset, Dispose, CloseGeneration, NewSlots, adapter, backend
<1>2. /\ \A u \in Users : load'[u].rows = load[u].rows
      /\ \A u \in Users : u > generation' => load'[u].at = "idle"
      /\ disposed' \/ phase' = "loading"
  <2>1. \A u \in Users : load[u] \in [at : {"idle", "asked", "read"}, rows : [Keys -> Row]]
    BY DEF TypeOK, AdapterType
  <2>2. \A u \in Users : u \in Nat /\ (u > generation => load[u].at = "idle")
    BY ConstantsAssumption DEF SyncInv, LoadedFirst, Users
  <2>3. CASE Dispose
    BY <1>1, <2>2, <2>3 DEF Dispose, adapter
  <2>4. CASE Reset
    <3>1. phase' = "loading" /\ load' = [load EXCEPT ![generation + 1].at = "asked"]
      BY <2>4 DEF Reset, StartLoad
    <3>2. \A u \in Users : load'[u] = IF u = generation + 1
                                       THEN [load[u] EXCEPT !.at = "asked"] ELSE load[u]
      BY <3>1 DEF TypeOK, AdapterType
    <3>3. \A u \in Users : load'[u].rows = load[u].rows
      BY <2>1, <3>2
    <3>4. ASSUME NEW u \in Users, u > generation'
          PROVE  load'[u].at = "idle"
      <4>0. generation \in Nat /\ u \in Nat /\ u > generation + 1
        BY <1>1, <2>2, <3>4
      <4>1. u # generation + 1 /\ u > generation
        BY <4>0
      <4>. QED  BY <2>2, <3>2, <4>1
    <3>. QED  BY <3>1, <3>3, <3>4
  <2>. QED  BY <2>3, <2>4
<1>3. Moving
  BY <1>1, SameMoves DEF SyncInv
<1>4. RowsFit' /\ SavesGoPast'
  BY <1>1, <1>2, <1>3, RowsStayFit, SavesStayPast DEF SyncInv
<1>5. \A i \in DOMAIN polls : polls[i].user <= generation' /\ polls[i].user # generation'
  <2>1. \A i \in DOMAIN polls : polls[i].user <= generation /\ polls[i].user \in Nat
    BY PollFields, ConstantsAssumption DEF SyncInv, LoadedFirst, Users
  <2>. QED  BY <1>1, <2>1
<1>6. \A f \in flights : f.user # generation'
  BY <1>1, FlightFields, ConstantsAssumption DEF NoFutureFlight, Users
<1>7. LoadedFirst'
  BY <1>1, <1>2, <1>5, <1>6 DEF LoadedFirst
<1>8. \A k \in Keys : -1 < top[generation'][k]
  BY <1>1, TopType
<1>9. RemovedIsGone'
  BY <1>1, <1>5, <1>8 DEF SyncInv, RemovedIsGone, LostIsGone, PollsGoForward, PollsAreLater
<1>. QED  BY <1>3, <1>4, <1>7, <1>9 DEF SyncInv, Moving

LEMMA NextSyncInv ==
  ASSUME PollsInOrder, KnownInv, SyncInv, [Next]_vars
  PROVE  SyncInv'
<1>. USE DEF Next, Store, Environment
<1>1. KnownInv'
  BY NextKnownInv
<1>2. CASE \/ \E k \in Keys, value \in Content : RefuseSave(k, value)
           \/ \E w \in Awaiters : EnterWhenLoaded(w) \/ FollowLoad(w) \/ LeaveWhenLoaded(w)
           \/ UNCHANGED vars
  <2>1. /\ UNCHANGED <<phase, generation, disposed, row, seen, load, polls, backend>>
        /\ UNCHANGED flights
    BY <1>2 DEF RefuseSave, EnterWhenLoaded, FollowLoad, LeaveWhenLoaded, Pass, vars, store,
                slots, adapter
  <2>2. Moving
    BY <2>1, SameMoves DEF SyncInv, KnownInv, FlightInv, TypeInv
  <2>. QED  BY <2>1, <2>2, SameSlotsSync
<1>3. CASE \/ \E k \in Keys, value \in Content : Save(k, value)
           \/ \E k \in Keys : Retry(k)
  <2>1. PICK k, value : k \in Keys /\ Save(k, value)
    BY <1>3 DEF Retry
  <2>. QED  BY <2>1, SaveSync
<1>4. CASE \E f \in flights : SaveResolved(f) \/ SaveRejected(f) \/ SaveAbandoned(f)
                              \/ SaveArrives(f)
  BY <1>1, <1>4, SaveResolvedSync, SaveEndsSync, SaveArrivesSync
<1>5. CASE \/ \E user \in Users : LoadResolved(user) \/ LoadRejected(user) \/ LoadReads(user)
           \/ RetryLoad
  <2>1. PICK user \in Users : LoadResolved(user) \/ LoadRejected(user) \/ LoadReads(user)
                              \/ RetryLoad
    BY <1>5 DEF KnownInv, FlightInv, TypeInv, TypeOK, StoreType
  <2>. QED  BY <2>1, LoadStepSync, LoadResolvedSync
<1>6. CASE (\E i \in 1 .. MaxPolls : DeliverPoll(i) \/ DropPoll(i)) \/ PollReads
  <2>1. ASSUME NEW i, DropPoll(i) PROVE SyncInv'
    BY <2>1, PollGoesSync DEF DropPoll
  <2>2. ASSUME NEW i, DeliverPoll(i) PROVE SyncInv'
    <3>1. CASE Current(polls[i].user)
      BY <2>2, <3>1, DeliverPollSync
    <3>2. CASE ~Current(polls[i].user)
      BY <2>2, <3>2, PollGoesSync DEF DeliverPoll
    <3>. QED  BY <3>1, <3>2
  <2>. QED  BY <1>6, <2>1, <2>2, PollReadsSync
<1>7. CASE \/ \E k \in Keys, value \in Content, version \in Versions :
                OtherTabSaves(k, value, version)
           \/ \E k \in Keys, version \in Versions : BackendRewrites(k, version)
  <2>1. PICK k \in Keys, value \in Content, version \in Versions :
          OtherTabSaves(k, value, version) \/ BackendRewrites(k, version)
    BY <1>7 DEF Content
  <2>. QED  BY <2>1, BackendSync
<1>8. CASE Reset \/ Dispose
  BY <1>1, <1>8, NewUserSync
<1>. QED  BY <1>2, <1>3, <1>4, <1>5, <1>6, <1>7, <1>8

LEMMA SpecSyncInv == ASSUME PollsInOrder PROVE Spec => [](KnownInv /\ SyncInv)
<1>1. KnownInv /\ SyncInv /\ [Next]_vars => (KnownInv /\ SyncInv)'
  BY NextKnownInv, NextSyncInv
<1>. QED  BY <1>1, InitKnownInv, InitSyncInv, PTL DEF Spec

\* A key that loses its row has had it removed or replaced at the backend.
LEMMA RowsLeaveAfter ==
  ASSUME KnownInv, KnownInv', SyncInv', NeverBack, [Next]_vars, generation' = generation,
         NEW k \in Keys, row[k] # NoRow, row'[k] = NoRow
  PROVE  top[generation][k] > row[k].revision
<1>. USE DEF KnownInv, FlightInv, TypeInv
<1>1. UNCHANGED <<top, disposed>>
  <2>1. CASE Reset \/ Dispose
    <3>1. generation' = generation + 1 /\ generation \in Nat
      BY <2>1, ConstantsAssumption DEF Reset, Dispose, CloseGeneration, TypeOK, StoreType, Users
    <3>. QED  BY <3>1
  <2>2. CASE \/ \E f \in flights : SaveArrives(f)
             \/ \E j \in Keys, value \in Content, version \in Versions :
                  OtherTabSaves(j, value, version)
             \/ \E j \in Keys, version \in Versions : BackendRewrites(j, version)
    BY <2>2 DEF SaveArrives, OtherTabSaves, BackendRewrites, slots
  <2>3. CASE \/ \E j \in Keys, value \in Content : Save(j, value) \/ RefuseSave(j, value)
             \/ \E j \in Keys : Retry(j)
             \/ \E f \in flights : SaveResolved(f) \/ SaveRejected(f) \/ SaveAbandoned(f)
             \/ \E w \in Awaiters : EnterWhenLoaded(w) \/ FollowLoad(w) \/ LeaveWhenLoaded(w)
    BY <2>3 DEF Save, RefuseSave, Retry, SaveResolved, SaveRejected, SaveAbandoned,
                EnterWhenLoaded, FollowLoad, LeaveWhenLoaded, Pass, store, backend
  <2>4. CASE \/ \E user \in Users : LoadResolved(user) \/ LoadRejected(user) \/ LoadReads(user)
             \/ RetryLoad \/ PollReads
             \/ \E i \in 1 .. MaxPolls : DeliverPoll(i) \/ DropPoll(i)
    BY <2>4 DEF LoadResolved, LoadRejected, LoadReads, RetryLoad, PollReads, DeliverPoll,
                DropPoll, store, backend
  <2>5. CASE UNCHANGED vars
    BY <2>5 DEF vars, store, backend
  <2>. QED  BY <2>1, <2>2, <2>3, <2>4, <2>5 DEF Next, Store, Environment
<1>2. ~disposed
  BY DEF HeldIsNewest
<1>3. seen'[k] < top[generation][k]
  BY <1>1, <1>2 DEF SyncInv, RemovedIsGone, LostIsGone
<1>4. seen'[k] >= seen[k] /\ seen'[k] \in Nat \cup {-1}
  BY DEF NeverBack, TypeOK, SlotsType
<1>. QED  BY <1>3, <1>4, HeldIsReached

\* A state that is what the backend holds is taken over for a key that is not being saved.
LEMMA FreshIsTaken ==
  ASSUME KnownInv, SyncInv, NEW i, DeliverPoll(i), Current(polls[i].user),
         polls[i].rows = server[generation], NEW k \in Keys, sending[k] = None
  PROVE  row'[k] = server[generation][k]
<1>. USE DEF KnownInv, FlightInv, TypeInv
<1>. DEFINE new == server[generation][k]
<1>1. row'[k] = Replaced(server[generation], k) /\ ~disposed /\ generation \in Users
  BY DEF DeliverPoll, Replace, Current, TypeOK, StoreType
<1>2. queued[k].waiters = {}
  BY DEF OneFlightPerKey, NoQueue
<1>3. /\ new \in Row /\ row[k] \in Row /\ Known(new, generation, top[generation][k])
      /\ Known(row[k], generation, top[generation][k])
      /\ new # NoRow => new.revision = top[generation][k]
      /\ Fits(row[k], new, top[generation][k])
  BY <1>1 DEF RowsKnown, HeldIsNewest, SyncInv, ServerIsLatest, RowsFit, TypeOK, BackendType,
              SlotsType
<1>. HIDE DEF new
<1>4. CASE new = NoRow
  BY <1>1, <1>2, <1>4 DEF Replaced, NoRow, new
<1>5. CASE new # NoRow /\ seen[k] < top[generation][k]
  BY <1>1, <1>3, <1>5, HeldIsReached DEF Replaced, new
<1>6. CASE new # NoRow /\ ~(seen[k] < top[generation][k])
  <2>1. row[k] # NoRow
    BY <1>1, <1>6 DEF SyncInv, RemovedIsGone, LostIsGone
  <2>2. row[k].revision = new.revision /\ new.revision # -1
    BY <1>3, <1>6, <2>1, HeldIsReached
  <2>3. row[k].user = new.user /\ row[k].value = new.value
    BY <1>3, <1>6, <2>1, <2>2 DEF Known, Fits
  <2>4. row[k].version = new.version => row[k] = new
    BY <1>3, <2>2, <2>3 DEF Row
  <2>. QED  BY <1>1, <1>2, <2>2, <2>4 DEF Replaced, new
<1>. QED  BY <1>4, <1>5, <1>6 DEF new

(* What a sync state takes away, the backend has let go of, and one that is still what the  *)
(* backend holds is taken over for every key that is not being saved, whatever the tab saw  *)
(* before: for every adapter that delivers the states in the order it read them.            *)
THEOREM SyncTakesNothingTooMuch == ASSUME PollsInOrder PROVE Spec => SyncIsSound
<1>1. Spec => OnlyRemovedRowsGo
  <2>1. KnownInv /\ KnownInv' /\ SyncInv' /\ [NeverBack]_vars /\ [Next]_vars =>
          [generation' = generation =>
             \A k \in Keys : row[k] # NoRow /\ row'[k] = NoRow
                               => top[generation][k] > row[k].revision]_vars
    BY RowsLeaveAfter
  <2>2. KnownInv /\ [Next]_vars => [NeverBack]_vars
    BY NextKnownInv
  <2>. QED  BY <2>1, <2>2, SpecSyncInv, PTL DEF Spec, OnlyRemovedRowsGo
<1>2. Spec => FreshStateConverges
  <2>1. KnownInv /\ SyncInv /\ [Next]_vars =>
          [\A i \in DOMAIN polls :
             (/\ DeliverPoll(i) /\ Current(polls[i].user)
              /\ polls[i].rows = server[generation])
             => \A k \in Keys : sending[k] = None => row'[k] = server[generation][k]]_vars
    BY FreshIsTaken
  <2>. QED  BY <2>1, SpecSyncInv, PTL DEF Spec, FreshStateConverges
<1>. QED  BY <1>1, <1>2 DEF SyncIsSound
=============================================================================
