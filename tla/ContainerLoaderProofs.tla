------------------------- MODULE ContainerLoaderProofs -------------------------
(* Proofs about ContainerLoader, for any entries, any containers they are built into, and  *)
(* any number of callers and attempts.                                                      *)
EXTENDS ContainerLoader, TLAPS

Started == 1 .. attempts

\* An attempt is in the air, and is the one that callers of its entry join, until it is over.
InFlightIsOpen ==
  /\ \A a \in Attempts : stage[a] = "none" <=> a > attempts
  /\ \A a \in Attempts : remote[a] # "none" => a \in Started
  /\ \A a \in Started : stage[a] # "over" <=> inFlight[entry[a]] = a
  /\ \A e \in Entries : inFlight[e] # 0 => entry[inFlight[e]] = e

\* A load that is published came to something.
PublishedIsLoaded ==
  \A a \in Attempts :
    /\ stage[a] \in {"none", "loading"} => outcome[a] = "none"
    /\ stage[a] = "published" => outcome[a] = "loaded"

\* What is resolved was published, and is still what the entry has or was dropped since.
PublishedIsKept ==
  /\ \A e \in Entries : resolved[e] # 0 =>
       /\ entry[resolved[e]] = e /\ outcome[resolved[e]] = "loaded"
       /\ stage[resolved[e]] \in {"published", "over"}
  /\ \A a \in Started : stage[a] \in {"published", "over"} /\ outcome[a] = "loaded" =>
       a \in cleared \/ resolved[entry[a]] = a

\* An attempt starts when the earlier ones of its entry are over, and what they loaded is dropped.
EarlierAreGone ==
  \A a, b \in Started : a < b /\ entry[a] = entry[b] =>
    stage[a] = "over" /\ (outcome[a] = "loaded" => a \in cleared)

\* A caller waits for an attempt of its entry, and is given what an attempt of its entry loaded.
CallersAreMatched ==
  /\ \A c \in Callers : call[c] \in {"waiting", "served", "cached", "failed"} =>
       on[c] \in Started /\ entry[on[c]] = wants[c]
  /\ \A c \in Callers : call[c] \in {"served", "cached"} => outcome[on[c]] = "loaded"
  /\ \A c \in Callers : call[c] = "none" => wants[c] = NoEntry /\ on[c] = 0

\* The container of a load that was cut off is marked.
UnknownIsMarked ==
  \A b \in expired : b \in Started /\ ContainerOf[entry[b]] \in reloadRequired

LoaderInv ==
  /\ TypeOK /\ InFlightIsOpen /\ PublishedIsLoaded /\ PublishedIsKept /\ EarlierAreGone
  /\ CallersAreMatched /\ UnknownIsMarked

-----------------------------------------------------------------------------
(* The invariant *)

LEMMA InitInv == LoaderAssumption /\ Init => LoaderInv
<1>. SUFFICES ASSUME LoaderAssumption, Init PROVE LoaderInv
  OBVIOUS
<1>. USE DEF LoaderAssumption, Init, Attempts, Callers, Started
<1>1. TypeOK
  BY DEF TypeOK
<1>2. InFlightIsOpen /\ PublishedIsLoaded /\ PublishedIsKept /\ EarlierAreGone
  BY DEF InFlightIsOpen, PublishedIsLoaded, PublishedIsKept, EarlierAreGone
<1>3. CallersAreMatched /\ UnknownIsMarked
  BY DEF CallersAreMatched, UnknownIsMarked
<1>. QED  BY <1>1, <1>2, <1>3 DEF LoaderInv

\* A call that starts nothing.
LEMMA CallKeeps ==
  ASSUME LoaderAssumption, LoaderInv, NEW c \in Callers, NEW e \in Entries, call[c] = "none",
         CallAborted(c, e) \/ CallCached(c, e) \/ CallJoins(c, e), UNCHANGED history
  PROVE  LoaderInv'
<1>. USE DEF CallAborted, CallCached, CallJoins, Waits, cache, work, federation, history, LoaderInv
<1>1. TypeOK'
  BY DEF TypeOK
<1>2. InFlightIsOpen' /\ PublishedIsLoaded' /\ PublishedIsKept' /\ EarlierAreGone'
  BY DEF InFlightIsOpen, PublishedIsLoaded, PublishedIsKept, EarlierAreGone, Started
<1>3. CallersAreMatched'
  BY DEF CallersAreMatched, Started, TypeOK, PublishedIsKept, InFlightIsOpen
<1>4. UnknownIsMarked'
  BY DEF UnknownIsMarked, Started
<1>. QED  BY <1>1, <1>2, <1>3, <1>4

LEMMA StartKeeps ==
  ASSUME LoaderAssumption, LoaderInv, NEW c \in Callers, NEW e \in Entries, call[c] = "none",
         CallStarts(c, e), UNCHANGED history
  PROVE  LoaderInv'
<1>. USE DEF LoaderAssumption, LoaderInv, Started, Attempts
<1>. DEFINE a == attempts + 1
<1>1. /\ a \in Attempts /\ attempts' = a /\ attempts \in Nat
      /\ resolved[e] = 0 /\ inFlight[e] = 0
      /\ entry' = [entry EXCEPT ![a] = e] /\ inFlight' = [inFlight EXCEPT ![e] = a]
      /\ resolved' = resolved /\ reloadRequired' = reloadRequired
      /\ registered' \in {registered, registered \cup {ContainerOf[e]}}
      /\ Waits(c, e, a) /\ UNCHANGED history
  BY DEF CallStarts, Start, FederationLoad, Ask, Refuse, TypeOK
<1>2. \/ /\ stage' = [stage EXCEPT ![a] = "loading"] /\ remote' = [remote EXCEPT ![a] = "pending"]
         /\ outcome' = outcome
      \/ /\ stage' = [stage EXCEPT ![a] = "settled"] /\ remote' = remote
         /\ outcome' = [outcome EXCEPT ![a] = "failed"]
  BY DEF CallStarts, Start, FederationLoad, Ask, Refuse
<1>3. entry[a] = NoEntry /\ stage[a] = "none" /\ remote[a] = "none" /\ outcome[a] = "none"
  BY <1>1 DEF TypeOK, InFlightIsOpen, PublishedIsLoaded
<1>4. /\ entry \in [Attempts -> Entries \cup {NoEntry}]
      /\ inFlight \in [Entries -> 0 .. attempts] /\ resolved \in [Entries -> 0 .. attempts]
      /\ \A b \in Attempts : (entry[b] # NoEntry) = (b <= attempts)
  BY DEF TypeOK
<1>5. /\ entry'[a] = e /\ stage'[a] \in {"loading", "settled"}
      /\ stage'[a] = "loading" => outcome'[a] = "none"
      /\ \A b \in Attempts : b # a =>
           /\ entry'[b] = entry[b] /\ stage'[b] = stage[b] /\ outcome'[b] = outcome[b]
           /\ remote'[b] = remote[b]
  BY <1>1, <1>2, <1>3 DEF TypeOK
<1>6. inFlight'[e] = a /\ \A k \in Entries : k # e => inFlight'[k] = inFlight[k]
  BY <1>1, <1>4
<1>7. TypeOK'
  <2>1. /\ resolved' \in [Entries -> 0 .. a] /\ inFlight' \in [Entries -> 0 .. a]
        /\ entry' \in [Attempts -> Entries \cup {NoEntry}]
        /\ \A b \in Attempts : (entry'[b] # NoEntry) = (b <= a)
    BY <1>1, <1>4, <1>5
  <2>2. /\ stage' \in [Attempts -> {"none", "loading", "settled", "published", "over"}]
        /\ outcome' \in [Attempts -> {"none", "loaded", "failed"}]
        /\ remote' \in [Attempts -> {"none", "pending", "over"}]
    BY <1>2 DEF TypeOK
  <2>3. /\ on' \in [Callers -> 0 .. a] /\ wants' \in [Callers -> Entries \cup {NoEntry}]
        /\ call' \in [Callers -> {"none", "waiting", "cached", "served", "failed", "abandoned"}]
        /\ registered' \subseteq Containers
    BY <1>1 DEF TypeOK, Waits
  <2>. QED  BY <1>1, <2>1, <2>2, <2>3 DEF TypeOK, history
<1>. HIDE DEF a
<1>8. InFlightIsOpen'
  <2>1. \A b \in Attempts : (stage'[b] = "none" <=> b > a) /\ (remote'[b] # "none" => b \in 1 .. a)
    <3>. TAKE b \in Attempts
    <3>1. CASE b = a
      BY <1>1, <1>5, <3>1
    <3>2. CASE b # a
      BY <1>1, <1>5, <3>2 DEF InFlightIsOpen, a
    <3>. QED  BY <3>1, <3>2
  <2>2. \A b \in 1 .. a : stage'[b] # "over" <=> inFlight'[entry'[b]] = b
    <3>. TAKE b \in 1 .. a
    <3>1. CASE b = a
      BY <1>1, <1>5, <1>6, <3>1
    <3>2. ASSUME b # a PROVE stage'[b] # "over" <=> inFlight'[entry'[b]] = b
      <4>1. b \in 1 .. attempts /\ b \in Attempts
        BY <1>1, <3>2 DEF a
      <4>2. entry[b] = e => stage[b] = "over"
        BY <1>1, <4>1 DEF InFlightIsOpen
      <4>. QED  BY <1>4, <1>5, <1>6, <3>2, <4>1, <4>2 DEF InFlightIsOpen
    <3>. QED  BY <3>1, <3>2
  <2>3. \A k \in Entries : inFlight'[k] # 0 => entry'[inFlight'[k]] = k
    BY <1>1, <1>4, <1>5, <1>6 DEF InFlightIsOpen, a
  <2>. QED  BY <1>1, <2>1, <2>2, <2>3 DEF InFlightIsOpen
<1>9. PublishedIsLoaded'
  BY <1>5 DEF PublishedIsLoaded
<1>10. PublishedIsKept'
  <2>1. \A k \in Entries : resolved[k] # 0 => resolved[k] \in Attempts /\ resolved[k] # a
    BY <1>1, <1>4 DEF a
  <2>2. \A b \in 1 .. a : b # a => b \in Started /\ b \in Attempts
    BY <1>1 DEF a
  <2>. QED  BY <1>1, <1>5, <2>1, <2>2 DEF PublishedIsKept, history
<1>11. EarlierAreGone'
  <2>. SUFFICES ASSUME NEW b \in 1 .. a, NEW d \in 1 .. a, b < d, entry'[b] = entry'[d]
                PROVE  stage'[b] = "over" /\ (outcome'[b] = "loaded" => b \in cleared)
    BY <1>1 DEF EarlierAreGone, history
  <2>1. b \in Started /\ b # a /\ b \in Attempts
    BY <1>1 DEF a
  <2>2. CASE d = a
    <3>1. entry[b] = e /\ stage'[b] = stage[b] /\ outcome'[b] = outcome[b]
      BY <1>5, <2>1, <2>2
    <3>2. stage[b] = "over"
      BY <1>1, <2>1, <3>1 DEF InFlightIsOpen
    <3>. QED  BY <1>1, <2>1, <3>1, <3>2 DEF PublishedIsKept
  <2>3. CASE d # a
    BY <1>1, <1>5, <2>1, <2>3 DEF EarlierAreGone, a
  <2>. QED  BY <2>2, <2>3
<1>12. CallersAreMatched'
  <2>1. \A d \in Callers : on[d] \in Started => on[d] # a /\ on[d] \in Attempts /\ on[d] \in 1 .. a
    BY <1>1 DEF a
  <2>2. /\ wants'[c] = e /\ call'[c] = "waiting" /\ on'[c] = a
        /\ \A d \in Callers : d # c => wants'[d] = wants[d] /\ call'[d] = call[d] /\ on'[d] = on[d]
    BY <1>1 DEF Waits, TypeOK
  <2>3. a \in 1 .. a
    BY <1>1 DEF a
  <2>. QED  BY <1>1, <1>5, <2>1, <2>2, <2>3 DEF CallersAreMatched
<1>13. UnknownIsMarked'
  BY <1>1, <1>5 DEF UnknownIsMarked, a, history
<1>. QED  BY <1>7, <1>8, <1>9, <1>10, <1>11, <1>12, <1>13

\* The load of an attempt goes on, or comes to its end.
LEMMA LoadKeeps ==
  ASSUME LoaderAssumption, LoaderInv, NEW a \in Attempts,
         RemoteFails(a) \/ RemoteLoads(a) \/ AssetsArrive(a) \/ AssetsFail(a) \/ Expire(a)
  PROVE  LoaderInv'
<1>. USE DEF LoaderAssumption, LoaderInv, Started, Attempts, cache, callers, history
<1>1. /\ UNCHANGED <<cache, attempts, entry, registered, callers, clears, cleared>>
      /\ \/ UNCHANGED <<stage, outcome>>
         \/ \E o \in {"loaded", "failed"} :
              /\ stage[a] = "loading" /\ stage' = [stage EXCEPT ![a] = "settled"]
              /\ outcome' = [outcome EXCEPT ![a] = o]
      /\ remote' = remote \/ (remote[a] = "pending" /\ remote' = [remote EXCEPT ![a] = "over"])
      /\ a \in Started
  BY DEF RemoteFails, RemoteLoads, AssetsArrive, AssetsFail, Expire, Settle, federation,
         InFlightIsOpen, TypeOK
<1>2. /\ reloadRequired' \in {reloadRequired, reloadRequired \cup {ContainerOf[entry[a]]}}
      /\ expired' = expired \/
         (expired' = expired \cup {a} /\ ContainerOf[entry[a]] \in reloadRequired')
  BY DEF RemoteFails, RemoteLoads, AssetsArrive, AssetsFail, Expire, Settle, federation,
         RequireReload
<1>3. TypeOK'
  <2>1. /\ stage \in [Attempts -> {"none", "loading", "settled", "published", "over"}]
        /\ outcome \in [Attempts -> {"none", "loaded", "failed"}]
        /\ remote \in [Attempts -> {"none", "pending", "over"}]
    BY DEF TypeOK
  <2>2. /\ stage' \in [Attempts -> {"none", "loading", "settled", "published", "over"}]
        /\ outcome' \in [Attempts -> {"none", "loaded", "failed"}]
        /\ remote' \in [Attempts -> {"none", "pending", "over"}]
    <3>. HIDE DEF LoaderInv, LoaderAssumption, Attempts
    <3>1. stage' \in [Attempts -> {"none", "loading", "settled", "published", "over"}]
      BY <1>1, <2>1
    <3>2. outcome' \in [Attempts -> {"none", "loaded", "failed"}]
      BY <1>1, <2>1
    <3>3. remote' \in [Attempts -> {"none", "pending", "over"}]
      BY <1>1, <2>1
    <3>. QED  BY <3>1, <3>2, <3>3
  <2>3. ContainerOf[entry[a]] \in Containers
    BY <1>1 DEF TypeOK
  <2>4. reloadRequired' \subseteq Containers
    BY <1>2, <2>3 DEF TypeOK
  <2>5. expired' \subseteq Attempts
    BY <1>2 DEF TypeOK
  <2>. QED  BY <1>1, <2>2, <2>4, <2>5 DEF TypeOK
<1>4. InFlightIsOpen' /\ PublishedIsLoaded'
  BY <1>1 DEF InFlightIsOpen, PublishedIsLoaded, TypeOK
<1>5. PublishedIsKept' /\ EarlierAreGone'
  BY <1>1 DEF PublishedIsKept, EarlierAreGone, TypeOK
<1>6. CallersAreMatched'
  BY <1>1 DEF CallersAreMatched, PublishedIsLoaded, TypeOK
<1>7. UnknownIsMarked'
  <2>. SUFFICES ASSUME NEW b \in expired' PROVE b \in Started /\ ContainerOf[entry[b]] \in reloadRequired'
    BY <1>1 DEF UnknownIsMarked
  <2>1. CASE b \in expired
    BY <1>2, <2>1 DEF UnknownIsMarked
  <2>2. CASE b \notin expired
    BY <1>1, <1>2, <2>2
  <2>. QED  BY <2>1, <2>2
<1>. QED  BY <1>3, <1>4, <1>5, <1>6, <1>7

LEMMA PublishKeeps ==
  ASSUME LoaderAssumption, LoaderInv, NEW a \in Attempts, Publish(a)
  PROVE  LoaderInv'
<1>. USE DEF LoaderAssumption, LoaderInv, Started, Attempts, federation, callers, history
<1>1. /\ a \in Started /\ entry[a] \in Entries /\ inFlight[entry[a]] = a
      /\ stage[a] = "settled" /\ outcome[a] = "loaded"
      /\ stage' = [stage EXCEPT ![a] = "published"] /\ resolved' = [resolved EXCEPT ![entry[a]] = a]
      /\ UNCHANGED <<inFlight, attempts, entry, outcome, remote, federation, callers, history>>
  BY DEF Publish, InFlightIsOpen, TypeOK
<1>2. TypeOK'
  BY <1>1 DEF TypeOK
<1>3. InFlightIsOpen' /\ PublishedIsLoaded'
  BY <1>1 DEF InFlightIsOpen, PublishedIsLoaded, TypeOK
<1>4. PublishedIsKept'
  <2>1. ASSUME NEW b \in Started, b # a, stage[b] \in {"published", "over"}, outcome[b] = "loaded",
               entry[b] = entry[a], b \notin cleared
        PROVE  FALSE
    <3>1. a < b \/ b < a
      BY <2>1 DEF TypeOK
    <3>. QED  BY <1>1, <2>1, <3>1 DEF EarlierAreGone
  <2>. QED  BY <1>1, <2>1 DEF PublishedIsKept, TypeOK
<1>5. EarlierAreGone'
  BY <1>1 DEF EarlierAreGone, TypeOK
<1>6. CallersAreMatched' /\ UnknownIsMarked'
  BY <1>1 DEF CallersAreMatched, UnknownIsMarked
<1>. QED  BY <1>2, <1>3, <1>4, <1>5, <1>6

LEMMA ForgetKeeps ==
  ASSUME LoaderAssumption, LoaderInv, NEW a \in Attempts, Forget(a)
  PROVE  LoaderInv'
<1>. USE DEF LoaderAssumption, LoaderInv, Started, Attempts, federation, callers, history
<1>1. /\ a \in Started /\ entry[a] \in Entries /\ inFlight[entry[a]] = a
      /\ \/ stage[a] = "published"
         \/ stage[a] = "settled" /\ outcome[a] = "failed"
      /\ stage' = [stage EXCEPT ![a] = "over"] /\ inFlight' = [inFlight EXCEPT ![entry[a]] = 0]
      /\ UNCHANGED <<resolved, attempts, entry, outcome, remote, federation, callers, history>>
  BY DEF Forget, InFlightIsOpen, TypeOK
<1>2. TypeOK'
  BY <1>1 DEF TypeOK
<1>3. InFlightIsOpen' /\ PublishedIsLoaded'
  BY <1>1 DEF InFlightIsOpen, PublishedIsLoaded, TypeOK
<1>4. PublishedIsKept' /\ EarlierAreGone'
  BY <1>1 DEF PublishedIsKept, EarlierAreGone, TypeOK
<1>5. CallersAreMatched' /\ UnknownIsMarked'
  BY <1>1 DEF CallersAreMatched, UnknownIsMarked
<1>. QED  BY <1>2, <1>3, <1>4, <1>5

LEMMA CallerKeeps ==
  ASSUME LoaderAssumption, LoaderInv, NEW c \in Callers, Deliver(c) \/ Abandon(c)
  PROVE  LoaderInv'
<1>. USE DEF LoaderInv, Started, cache, work, federation, history
<1>1. /\ call[c] = "waiting" /\ UNCHANGED <<cache, work, federation, wants, on, history>>
      /\ \E to \in {"served", "failed", "abandoned"} :
           /\ call' = [call EXCEPT ![c] = to]
           /\ to = "served" => outcome[on[c]] = "loaded"
  BY DEF Deliver, Abandon
<1>2. TypeOK'
  BY <1>1 DEF TypeOK
<1>3. InFlightIsOpen' /\ PublishedIsLoaded' /\ PublishedIsKept' /\ EarlierAreGone'
  BY <1>1 DEF InFlightIsOpen, PublishedIsLoaded, PublishedIsKept, EarlierAreGone
<1>4. CallersAreMatched' /\ UnknownIsMarked'
  BY <1>1 DEF CallersAreMatched, UnknownIsMarked, TypeOK
<1>. QED  BY <1>2, <1>3, <1>4

LEMMA ClearKeeps ==
  ASSUME LoaderAssumption, LoaderInv, ClearCache
  PROVE  LoaderInv'
<1>. USE DEF LoaderAssumption, LoaderInv, ClearCache, Started, Attempts, work, federation, callers
<1>1. TypeOK'
  <2>1. \A k \in Entries : resolved[k] \in 0 .. MaxAttempts
    BY DEF TypeOK
  <2>2. cleared' \subseteq 0 .. MaxAttempts
    <3>1. cleared \subseteq 0 .. MaxAttempts /\ cleared' = cleared \cup {resolved[e] : e \in Entries}
      BY DEF TypeOK
    <3>. HIDE DEF ClearCache, LoaderInv
    <3>. QED  BY <2>1, <3>1
  <2>3. resolved' \in [Entries -> 0 .. attempts]
    BY DEF TypeOK
  <2>. QED  BY <2>2, <2>3 DEF TypeOK
<1>2. InFlightIsOpen' /\ PublishedIsLoaded'
  BY DEF InFlightIsOpen, PublishedIsLoaded
<1>3. PublishedIsKept'
  BY DEF PublishedIsKept, TypeOK
<1>4. EarlierAreGone' /\ CallersAreMatched' /\ UnknownIsMarked'
  BY DEF EarlierAreGone, CallersAreMatched, UnknownIsMarked
<1>. QED  BY <1>1, <1>2, <1>3, <1>4

LEMMA StutterKeeps == LoaderInv /\ UNCHANGED vars => LoaderInv'
BY DEF LoaderInv, TypeOK, InFlightIsOpen, PublishedIsLoaded, PublishedIsKept, EarlierAreGone,
       CallersAreMatched, UnknownIsMarked, Started, vars, cache, work, federation, callers, history

LEMMA NextInv == LoaderAssumption /\ LoaderInv /\ [Next]_vars => LoaderInv'
<1>. SUFFICES ASSUME LoaderAssumption, LoaderInv, [Next]_vars PROVE LoaderInv'
  OBVIOUS
<1>1. ASSUME NEW c \in Callers, NEW e \in Entries, Load(c, e) PROVE LoaderInv'
  BY <1>1, CallKeeps, StartKeeps DEF Load
<1>2. ASSUME NEW a \in Attempts, Proceeds(a) PROVE LoaderInv'
  BY <1>2, LoadKeeps, PublishKeeps, ForgetKeeps DEF Proceeds
<1>. QED  BY <1>1, <1>2, LoadKeeps, CallerKeeps, ClearKeeps, StutterKeeps DEF Next

LEMMA SpecInv == ASSUME LoaderAssumption PROVE Spec => []LoaderInv
BY InitInv, NextInv, PTL DEF Spec

\* Callers of one entry are given the same definition, as long as nobody clears the cache.
THEOREM CallersGetOneCopy == ASSUME LoaderAssumption PROVE Spec => []CallersAgree
<1>1. LoaderInv => CallersAgree
  BY DEF LoaderInv, TypeOK, EarlierAreGone, CallersAreMatched, CallersAgree, Started, Attempts
<1>. QED  BY <1>1, SpecInv, PTL

\* After a load that the deadline cut off, the runtime is not asked for that container again.
LEMMA AskedOverKnown ==
  ASSUME LoaderAssumption, LoaderInv, [Next]_vars, NEW a \in Attempts, NEW b \in expired,
         remote[a] = "none", remote'[a] # "none"
  PROVE  ContainerOf[entry'[a]] # ContainerOf[entry[b]]
<1>1. ContainerOf[entry[b]] \in reloadRequired
  BY DEF LoaderInv, UnknownIsMarked
<1>2. PICK c \in Callers, e \in Entries : CallStarts(c, e)
  BY DEF Next, Load, CallAborted, CallCached, CallJoins, Proceeds, RemoteFails, RemoteLoads,
         AssetsArrive, AssetsFail, Expire, Publish, Forget, Deliver, Abandon, ClearCache, work, vars,
         LoaderInv, TypeOK
<1>3. ContainerOf[e] \notin reloadRequired /\ a = attempts + 1 /\ entry'[a] = e
  BY <1>2 DEF CallStarts, Start, FederationLoad, Ask, Refuse, LoaderInv, TypeOK
<1>. QED  BY <1>1, <1>3

\* A page runs one copy of a module, and fetches none over an unfinished fetch.
THEOREM PagesRunOneCopy == ASSUME LoaderAssumption PROVE Spec => ModulesAreSafe
<1>1. LoaderInv => TypeOK
  BY DEF LoaderInv
<1>2. LoaderInv /\ [Next]_vars =>
        [\A a \in Attempts, b \in expired :
           remote[a] = "none" /\ remote'[a] # "none" =>
             ContainerOf[entry'[a]] # ContainerOf[entry[b]]]_vars
  BY AskedOverKnown
<1>. QED  BY <1>1, <1>2, SpecInv, CallersGetOneCopy, PTL
          DEF Spec, ModulesAreSafe, NothingLoadsOverTheUnknown

-----------------------------------------------------------------------------
(* The refinement *)

\* The mapping: who waits, who was told, and which attempts have landed.
Waited == [c \in Callers |-> IF call[c] = "waiting" THEN on[c] ELSE 0]
Told   == [c \in Callers |-> IF call[c] \in {"served", "failed"} THEN on[c] ELSE 0]
Landed == {a \in Attempts : stage[a] = "over"}

LEMMA CallIsShared ==
  ASSUME LoaderAssumption, LoaderInv, [Next]_vars, NEW c \in Callers, NEW e \in Entries, Load(c, e)
  PROVE  [Loading!Next]_Loading!shared
<1>1. call \in [Callers -> {"none", "waiting", "cached", "served", "failed", "abandoned"}]
      /\ on \in [Callers -> 0 .. attempts] /\ inFlight \in [Entries -> 0 .. attempts]
      /\ attempts \in Nat /\ stage \in [Attempts -> {"none", "loading", "settled", "published", "over"}]
  BY DEF LoaderInv, TypeOK
<1>2. call[c] = "none" /\ Waited[c] = 0
  BY DEF Load, Waited
<1>3. CASE CallAborted(c, e) \/ CallCached(c, e)
  <2>1. \A d \in Callers : d # c => call'[d] = call[d] /\ on'[d] = on[d]
    BY <1>1, <1>3 DEF CallAborted, CallCached
  <2>2. call'[c] \in {"abandoned", "cached"}
    BY <1>1, <1>3 DEF CallAborted, CallCached
  <2>3. Waited' = Waited /\ Told' = Told
    BY <1>2, <2>1, <2>2 DEF Waited, Told
  <2>4. UNCHANGED <<inFlight, Landed>>
    BY <1>3 DEF CallAborted, CallCached, cache, work, Landed
  <2>. QED  BY <2>3, <2>4 DEF Loading!shared, Waited, Told, Landed
<1>4. CASE CallJoins(c, e)
  <2>1. Waited' = [Waited EXCEPT ![c] = inFlight[e]] /\ Told' = Told
    BY <1>1, <1>2, <1>4 DEF CallJoins, Waits, Waited, Told
  <2>2. inFlight[e] # 0 /\ UNCHANGED <<inFlight, Landed>>
    BY <1>4 DEF CallJoins, cache, work, Landed
  <2>3. Loading!Join(c, e)
    BY <1>2, <2>1, <2>2 DEF Loading!Join, Waited, Told, Landed
  <2>. QED  BY <2>3 DEF Loading!Next
<1>5. CASE CallStarts(c, e)
  <2>. DEFINE a == attempts + 1
  <2>1. /\ a \in Attempts /\ inFlight[e] = 0 /\ inFlight' = [inFlight EXCEPT ![e] = a]
        /\ Waits(c, e, a)
        /\ stage' \in {[stage EXCEPT ![a] = "loading"], [stage EXCEPT ![a] = "settled"]}
    BY <1>1, <1>5 DEF CallStarts, Start, FederationLoad, Ask, Refuse, LoaderAssumption, Attempts
  <2>2. stage[a] = "none"
    BY <1>1, <2>1 DEF LoaderInv, InFlightIsOpen
  <2>3. a \notin Landed /\ a \notin {inFlight[j] : j \in Entries}
    BY <1>1, <2>2 DEF Landed
  <2>4. Landed' = Landed
    BY <1>1, <2>1, <2>2 DEF Landed
  <2>5. Waited' = [Waited EXCEPT ![c] = a] /\ Told' = Told
    BY <1>1, <1>2, <2>1 DEF Waits, Waited, Told
  <2>6. Loading!Launch(c, e)
    BY <1>2, <2>1, <2>3, <2>4, <2>5 DEF Loading!Launch, Waited, Told, Landed
  <2>. QED  BY <2>6 DEF Loading!Next
<1>. QED  BY <1>3, <1>4, <1>5 DEF Load

LEMMA AttemptIsShared ==
  ASSUME LoaderAssumption, LoaderInv, NEW a \in Attempts,
         RemoteFails(a) \/ RemoteLoads(a) \/ AssetsArrive(a) \/ AssetsFail(a) \/ Proceeds(a)
  PROVE  [Loading!Next]_Loading!shared
<1>1. stage \in [Attempts -> {"none", "loading", "settled", "published", "over"}]
  BY DEF LoaderInv, TypeOK
<1>2. CASE Forget(a)
  <2>1. PICK e \in Entries : e = entry[a]
    <3>1. a <= attempts
      BY <1>2 DEF Forget, LoaderInv, InFlightIsOpen, TypeOK, Attempts, LoaderAssumption
    <3>2. entry[a] \in Entries
      BY <3>1 DEF LoaderInv, TypeOK
    <3>. QED  BY <3>2
  <2>2. inFlight[e] = a /\ a # 0 /\ inFlight' = [inFlight EXCEPT ![e] = 0]
    BY <1>2, <2>1 DEF Forget, LoaderInv, InFlightIsOpen, TypeOK, Attempts, Started, LoaderAssumption
  <2>3. Landed' = Landed \cup {a}
    BY <1>1, <1>2 DEF Forget, Landed
  <2>4. UNCHANGED <<Waited, Told>>
    BY <1>2 DEF Forget, callers, Waited, Told
  <2>5. Loading!Land(e)
    BY <2>2, <2>3, <2>4 DEF Loading!Land, Waited, Told, Landed
  <2>. QED  BY <2>5 DEF Loading!Next
<1>3. CASE ~ Forget(a)
  <2>1. UNCHANGED <<inFlight, call, on>>
    BY <1>3 DEF RemoteFails, RemoteLoads, AssetsArrive, AssetsFail, Proceeds, Expire, Publish,
                cache, callers
  <2>2. stage' = stage \/
          \E to \in {"settled", "published"} :
            stage[a] \in {"loading", "settled"} /\ stage' = [stage EXCEPT ![a] = to]
    BY <1>3 DEF RemoteFails, RemoteLoads, AssetsArrive, AssetsFail, Proceeds, Expire, Publish, Settle
  <2>3. Landed' = Landed
    BY <1>1, <2>2 DEF Landed
  <2>. QED  BY <2>1, <2>3 DEF Loading!shared, Landed
<1>. QED  BY <1>2, <1>3

LEMMA CallerIsShared ==
  ASSUME LoaderAssumption, LoaderInv, NEW c \in Callers, Deliver(c) \/ Abandon(c)
  PROVE  [Loading!Next]_Loading!shared
<1>1. /\ call \in [Callers -> {"none", "waiting", "cached", "served", "failed", "abandoned"}]
      /\ call[c] = "waiting" /\ on[c] \in Attempts /\ on[c] # 0
      /\ UNCHANGED <<inFlight, stage, on>>
  BY DEF Deliver, Abandon, LoaderInv, TypeOK, CallersAreMatched, Started, Attempts, LoaderAssumption,
         cache, work
<1>2. Waited[c] = on[c] /\ Landed' = Landed
  BY <1>1 DEF Waited, Landed
<1>3. CASE Deliver(c)
  <2>1. call' = [call EXCEPT ![c] = "served"] \/ call' = [call EXCEPT ![c] = "failed"]
    BY <1>3 DEF Deliver
  <2>2. Waited' = [Waited EXCEPT ![c] = 0]
    BY <1>1, <2>1 DEF Waited
  <2>3. Told' = [Told EXCEPT ![c] = Waited[c]]
    BY <1>1, <1>2, <2>1 DEF Told
  <2>4. Waited[c] \in Landed
    BY <1>1, <1>2, <1>3 DEF Deliver, Landed
  <2>5. Loading!Answer(c)
    BY <1>1, <1>2, <2>2, <2>3, <2>4 DEF Loading!Answer, Waited, Told, Landed
  <2>. QED  BY <2>5 DEF Loading!Next
<1>4. CASE Abandon(c)
  <2>1. call' = [call EXCEPT ![c] = "abandoned"]
    BY <1>4 DEF Abandon
  <2>2. Waited' = [Waited EXCEPT ![c] = 0] /\ Told' = Told
    BY <1>1, <2>1 DEF Waited, Told
  <2>3. Loading!Leave(c)
    BY <1>1, <1>2, <2>2 DEF Loading!Leave, Waited, Told, Landed
  <2>. QED  BY <2>3 DEF Loading!Next
<1>. QED  BY <1>3, <1>4

LEMMA StepIsShared ==
  LoaderAssumption /\ LoaderInv /\ [Next]_vars => [Loading!Next]_Loading!shared
<1>. SUFFICES ASSUME LoaderAssumption, LoaderInv, [Next]_vars PROVE [Loading!Next]_Loading!shared
  OBVIOUS
<1>1. CASE ClearCache \/ UNCHANGED vars
  <2>1. UNCHANGED <<inFlight, stage, call, on>>
    BY <1>1 DEF ClearCache, vars, cache, work, callers
  <2>. QED  BY <2>1 DEF Loading!shared
<1>. QED  BY <1>1, CallIsShared, AttemptIsShared, CallerIsShared DEF Next

\* Callers that come while an attempt runs share it: the loader keeps the promise of SingleFlight.
THEOREM LoadsImplementSharing == ASSUME LoaderAssumption PROVE Spec => LoadsAreShared
<1>1. Init => Loading!Init
  <2>. SUFFICES ASSUME Init PROVE Loading!Init
    OBVIOUS
  <2>1. Landed = {} /\ inFlight = [e \in Entries |-> 0]
    BY DEF Init, Landed
  <2>2. Waited = [c \in Callers |-> 0] /\ Told = [c \in Callers |-> 0]
    BY DEF Init, Waited, Told
  <2>. QED  BY <2>1, <2>2 DEF Loading!Init, Landed, Waited, Told
<1>. QED  BY <1>1, StepIsShared, SpecInv, PTL DEF Spec, LoadsAreShared, Loading!Spec
=============================================================================
