----------------------------- MODULE SessionProofs -----------------------------
(* Proofs about Session, for any number of requests, renewals and tokens.                  *)
EXTENDS Session, TLAPS

Started == 1 .. renewals

\* One renewal is in the air at most, the latest one, and it is the one callers share.
OneInTheAir ==
  /\ \A r \in Renewals : stage[r] = "none" <=> r > renewals
  /\ \A r \in Renewals : shell[r] # "none" => r \in Started
  /\ \A r \in Started : stage[r] # "over" <=> inFlight = r
  /\ \A r \in Started : r < renewals => stage[r] = "over"

\* A request waits while it asks for a token, and then only.
WaitersAsk == \A q \in Requests : waits[q] # 0 <=> phase[q] \in {"asking", "renewing"}

Ended(r) == r \in Started /\ stage[r] # "running"

\* The session's token is what the last renewal that ended came to, nothing for a failed one.
TokenIsLast ==
  /\ stored = issued
  /\ renewals = 0 => token = 0
  /\ \A r \in Started : Ended(r) /\ r = renewals => token = result[r]
  /\ \A r \in Started : ~Ended(r) /\ r > 1 => token = result[r - 1]
  /\ \A r \in Started : ~Ended(r) /\ r = 1 => token = 0

\* A renewal is to get away from what the one before it gave, and later tokens are newer.
TokensGrow ==
  /\ \A r \in Started : r > 1 /\ result[r - 1] # 0 => seen[r] = result[r - 1]
  /\ \A r, s \in Started : r < s /\ Ended(s) /\ result[s] # 0 => result[r] <= result[s]
  /\ \A r \in refreshed : Ended(r) /\ result[r] > seen[r]


\* The parts of TypeOK: the renewals and what they leave, the requests, the world.
ServiceOK ==
  /\ token \in 0 .. issued /\ inFlight \in 0 .. renewals /\ renewals \in 0 .. MaxRenewals
  /\ seen \in [Renewals -> 0 .. issued] /\ result \in [Renewals -> 0 .. issued]
  /\ stage \in [Renewals -> {"none", "running", "settled", "over"}]
  /\ shell \in [Renewals -> {"none", "reading", "refreshing", "over"}]
  /\ refreshed \subseteq Started

RequestsOK ==
  /\ phase \in [Requests -> {"none", "asking", "sent", "renewing", "resent", "done"}]
  /\ waits \in [Requests -> 0 .. renewals] /\ replayable \in [Requests -> BOOLEAN]
  /\ first \in [Requests -> 0 .. issued] /\ carried \in [Requests -> 0 .. issued]
  /\ verdict \in [Requests -> {"none", "ok", "refused"}]
  /\ answeredBy \in [Requests -> 0 .. renewals]

WorldOK == issued \in Tokens /\ stored \in 1 .. issued /\ accepted \subseteq 1 .. issued

ServiceInv == ServiceOK /\ WorldOK /\ OneInTheAir /\ TokenIsLast /\ TokensGrow
RequestInv == RequestsOK /\ WaitersAsk
SessionInv == ServiceInv /\ RequestInv

LEMMA PartsMakeTypes == TypeOK <=> ServiceOK /\ RequestsOK /\ WorldOK
BY DEF TypeOK, ServiceOK, RequestsOK, WorldOK, Started

LEMMA NumbersAreNatural ==
  ServiceInv => /\ renewals \in Nat /\ issued \in Nat /\ token \in Nat /\ inFlight \in Nat
                /\ Started \subseteq Renewals /\ Renewals \subseteq Nat
                /\ \A r \in Renewals : result[r] \in Nat /\ seen[r] \in Nat
BY SessionAssumption DEF ServiceInv, ServiceOK, WorldOK, Started, Renewals, Tokens

-----------------------------------------------------------------------------
(* The invariant: the service *)

LEMMA InitInv == Init => SessionInv
<1>. SUFFICES ASSUME Init PROVE SessionInv
  OBVIOUS
<1>. USE SessionAssumption DEF Init, Renewals, Requests, Tokens, Started
<1>1. ServiceOK /\ WorldOK
  BY DEF ServiceOK, WorldOK
<1>2. OneInTheAir /\ TokenIsLast /\ TokensGrow
  BY DEF OneInTheAir, TokenIsLast, TokensGrow, Ended
<1>3. RequestInv
  BY DEF RequestInv, RequestsOK, WaitersAsk
<1>. QED  BY <1>1, <1>2, <1>3 DEF SessionInv, ServiceInv

\* A renewal starts.
LEMMA StartKeepsService ==
  ASSUME ServiceInv, inFlight = 0, NEW q, NEW rejected \in 0 .. issued, StartRenewal(q, rejected),
         UNCHANGED <<token, world, refreshed>>
  PROVE  ServiceInv'
<1>. DEFINE r == renewals + 1
<1>1. /\ r \in Renewals /\ renewals' = r /\ inFlight' = r /\ result' = result
      /\ seen' = [seen EXCEPT ![r] = IF token # 0 THEN token ELSE rejected]
      /\ stage' = [stage EXCEPT ![r] = "running"] /\ shell' = [shell EXCEPT ![r] = "reading"]
      /\ UNCHANGED <<token, stored, issued, accepted, refreshed>>
  BY SessionAssumption DEF StartRenewal, ServiceInv, ServiceOK, Renewals, world
<1>2. /\ \A s \in Renewals : s # r =>
           stage'[s] = stage[s] /\ seen'[s] = seen[s] /\ shell'[s] = shell[s]
      /\ stage'[r] = "running" /\ seen'[r] = IF token # 0 THEN token ELSE rejected
  BY <1>1 DEF ServiceInv, ServiceOK
<1>3. /\ \A s \in Started : s # r /\ s < r /\ s \in Renewals
      /\ Started' = Started \cup {r} /\ r \in Nat /\ r \in Started'
  BY <1>1, NumbersAreNatural DEF Started
<1>4. \A s \in Started : stage[s] = "over"
  BY NumbersAreNatural DEF ServiceInv, OneInTheAir, Started
<1>5. ServiceOK'
  <2>1. seen' \in [Renewals -> 0 .. issued'] /\ token' \in 0 .. issued'
    BY <1>1, NumbersAreNatural DEF ServiceInv, ServiceOK
  <2>2. /\ stage' \in [Renewals -> {"none", "running", "settled", "over"}]
        /\ shell' \in [Renewals -> {"none", "reading", "refreshing", "over"}]
    BY <1>1 DEF ServiceInv, ServiceOK
  <2>3. inFlight' \in 0 .. renewals' /\ renewals' \in 0 .. MaxRenewals
    BY <1>1, SessionAssumption DEF Renewals
  <2>. QED  BY <1>1, <1>3, <2>1, <2>2, <2>3 DEF ServiceInv, ServiceOK
<1>6. WorldOK'
  BY <1>1 DEF ServiceInv, WorldOK
<1>. HIDE DEF r
<1>7. OneInTheAir'
  <2>1. \A s \in Renewals : (stage'[s] = "none" <=> s > r) /\ (shell'[s] # "none" => s \in Started')
    <3>. TAKE s \in Renewals
    <3>1. s # r => (s > r <=> s > renewals)
      BY NumbersAreNatural DEF r
    <3>. QED  BY <1>1, <1>2, <1>3, <3>1, NumbersAreNatural DEF ServiceInv, OneInTheAir
  <2>2. \A s \in Started' : (stage'[s] # "over" <=> s = r) /\ (s < r => stage'[s] = "over")
    <3>. TAKE s \in Started'
    <3>1. CASE s = r
      BY <1>2, <1>3, <3>1
    <3>2. CASE s # r
      BY <1>2, <1>3, <1>4, <3>2
    <3>. QED  BY <3>1, <3>2
  <2>. QED  BY <1>1, <2>1, <2>2 DEF OneInTheAir
<1>8. TokenIsLast'
  <2>1. \A s \in Started : Ended(s)
    BY <1>4 DEF Ended
  <2>2. r > 1 => token = result[r - 1]
    BY <2>1, NumbersAreNatural DEF ServiceInv, TokenIsLast, Started, r
  <2>3. r = 1 => token = 0
    BY NumbersAreNatural DEF ServiceInv, TokenIsLast, r
  <2>4. \A s \in Started' : Ended(s)' <=> s # r
    BY <1>2, <1>3, <1>4 DEF Ended
  <2>5. r # 0 /\ stored' = issued'
    BY <1>1, NumbersAreNatural DEF ServiceInv, TokenIsLast, r
  <2>. QED  BY <1>1, <1>3, <2>2, <2>3, <2>4, <2>5 DEF TokenIsLast
<1>9. TokensGrow'
  <2>1. r > 1 => token = result[r - 1]
    BY <1>4, NumbersAreNatural DEF ServiceInv, TokenIsLast, Started, Ended, r
  <2>2. \A s \in Started' : Ended(s)' => s # r /\ s \in Started /\ Ended(s)
    BY <1>2, <1>3 DEF Ended
  <2>3. \A s \in Started : Ended(s)' <=> Ended(s)
    BY <1>2, <1>3 DEF Ended
  <2>4. \A s \in Started' : s > 1 /\ result[s - 1] # 0 => seen'[s] = result[s - 1]
    BY <1>2, <1>3, <2>1 DEF ServiceInv, TokensGrow
  <2>5. \A s, t \in Started' : s < t /\ Ended(t)' /\ result[t] # 0 => result[s] <= result[t]
    <3>. TAKE s, t \in Started'
    <3>1. t \in Started => ~ r < t
      BY <1>3, NumbersAreNatural DEF Started
    <3>. QED  BY <1>3, <2>2, <3>1 DEF ServiceInv, TokensGrow
  <2>6. \A s \in refreshed : Ended(s)' /\ result[s] > seen'[s]
    BY <1>2, <1>3, <2>3 DEF ServiceInv, TokensGrow, ServiceOK
  <2>. QED  BY <1>1, <2>4, <2>5, <2>6 DEF TokensGrow
<1>. QED  BY <1>5, <1>6, <1>7, <1>8, <1>9 DEF ServiceInv

\* The library is through with renewal r, which comes to token t if its deadline has not passed.
LEMMA SettleKeepsService ==
  ASSUME ServiceInv, NEW r \in Renewals, stage[r] # "none", NEW t \in {0, issued'}, Settle(r, t),
         \/ issued' = issued /\ stored' = stored /\ accepted' = accepted
         \/ issued' = issued + 1 /\ stored' = issued' /\ accepted' = accepted \cup {issued'}
            /\ issued' \in Tokens,
         \/ refreshed' = refreshed
         \/ stage[r] = "running" /\ issued' = issued + 1 /\ t = issued' /\ refreshed' = refreshed \cup {r},
         \E to \in {"refreshing", "over"} : shell' = [shell EXCEPT ![r] = to] \/ shell' = shell,
         UNCHANGED <<inFlight, renewals, seen>>
  PROVE  ServiceInv'
<1>1. r \in Started /\ Started' = Started
  <2>1. ~ r > renewals
    BY DEF ServiceInv, OneInTheAir
  <2>. QED  BY <2>1, NumbersAreNatural, SessionAssumption DEF Started, Renewals
<1>2. /\ issued' \in Nat /\ issued <= issued' /\ stored' = issued' /\ 0 .. issued \subseteq 0 .. issued'
      /\ t \in 0 .. issued' /\ WorldOK'
  <2>1. issued \in Nat /\ issued \in Tokens /\ stored = issued /\ accepted \subseteq 1 .. issued
    BY NumbersAreNatural DEF ServiceInv, WorldOK, TokenIsLast
  <2>2. issued' \in Tokens /\ issued' >= 1 /\ stored' = issued' /\ issued' \in {issued, issued + 1}
    BY <2>1, SessionAssumption DEF Tokens
  <2>3. accepted' \subseteq 1 .. issued'
    <3>1. accepted' \subseteq accepted \cup {issued'}
      OBVIOUS
    <3>. QED  BY <2>1, <2>2, <3>1
  <2>. QED  BY <2>1, <2>2, <2>3 DEF WorldOK
<1>3. /\ token' \in 0 .. issued' /\ result' \in [Renewals -> 0 .. issued']
      /\ stage' \in [Renewals -> {"none", "running", "settled", "over"}]
  BY <1>2 DEF Settle, ServiceInv, ServiceOK
<1>4. ServiceOK'
  BY <1>1, <1>2, <1>3 DEF ServiceInv, ServiceOK
<1>5. shell' \in [Renewals -> {"none", "reading", "refreshing", "over"}]
      /\ \A s \in Renewals : s # r => shell'[s] = shell[s]
  BY DEF ServiceInv, ServiceOK
<1>6. CASE stage[r] # "running"
  <2>1. UNCHANGED <<stage, result, token, refreshed>>
    BY <1>6 DEF Settle
  <2>2. OneInTheAir'
    BY <1>1, <1>5, <2>1 DEF ServiceInv, OneInTheAir
  <2>3. TokenIsLast' /\ TokensGrow'
    BY <1>1, <1>2, <2>1 DEF ServiceInv, TokenIsLast, TokensGrow, Ended
  <2>. QED  BY <1>2, <1>4, <2>2, <2>3 DEF ServiceInv
<1>7. CASE stage[r] = "running"
  <2>1. /\ stage' = [stage EXCEPT ![r] = "settled"] /\ result' = [result EXCEPT ![r] = t]
        /\ token' = t
    BY <1>7 DEF Settle
  <2>2. /\ stage'[r] = "settled" /\ result'[r] = t
        /\ \A s \in Renewals : s # r => stage'[s] = stage[s] /\ result'[s] = result[s]
    BY <2>1 DEF ServiceInv, ServiceOK
  <2>3. r = renewals /\ \A s \in Started : s # r => stage[s] = "over" /\ s < r
    BY <1>1, <1>7, NumbersAreNatural DEF ServiceInv, OneInTheAir, Started
  <2>4. \A s \in Started : Ended(s)' /\ (s # r => Ended(s))
    BY <1>1, <2>2, <2>3, NumbersAreNatural DEF Ended
  <2>5. OneInTheAir'
    <3>1. \A s \in Renewals : stage'[s] = "none" <=> stage[s] = "none"
      BY <1>7, <2>2
    <3>2. \A s \in Started : stage'[s] # "over" <=> stage[s] # "over"
      BY <1>7, <2>2, NumbersAreNatural
    <3>. QED  BY <1>1, <1>5, <3>1, <3>2 DEF ServiceInv, OneInTheAir
  <2>6. TokenIsLast'
    <3>1. r >= 1 /\ renewals # 0
      BY <1>1, <2>3 DEF Started
    <3>. QED  BY <3>1, <1>1, <1>2, <2>1, <2>2, <2>3, <2>4, NumbersAreNatural DEF TokenIsLast
  <2>7. TokensGrow'
    <3>1. \A s \in Started : s > 1 /\ result'[s - 1] # 0 => seen[s] = result'[s - 1]
      BY <2>2, <2>3, NumbersAreNatural DEF ServiceInv, TokensGrow, Started
    <3>2. \A s, u \in Started : s < u /\ result'[u] # 0 => result'[s] <= result'[u]
      <4>. TAKE s, u \in Started
      <4>1. CASE u = r
        BY <1>2, <2>2, <2>3, <4>1, NumbersAreNatural DEF ServiceInv, ServiceOK
      <4>2. CASE u # r
        BY <2>2, <2>3, <2>4, <4>2, NumbersAreNatural DEF ServiceInv, TokensGrow
      <4>. QED  BY <4>1, <4>2
    <3>3. \A s \in refreshed' : s \in Started /\ result'[s] > seen[s]
      <4>. TAKE s \in refreshed'
      <4>1. CASE s \in refreshed
        BY <1>7, <2>2, <4>1, NumbersAreNatural DEF ServiceInv, TokensGrow, ServiceOK, Ended
      <4>2. CASE s \notin refreshed
        BY <1>1, <1>2, <2>2, <4>2, NumbersAreNatural DEF ServiceInv, ServiceOK
      <4>. QED  BY <4>1, <4>2
    <3>. QED  BY <1>1, <2>4, <3>1, <3>2, <3>3 DEF TokensGrow
  <2>. QED  BY <1>2, <1>4, <2>5, <2>6, <2>7 DEF ServiceInv
<1>. QED  BY <1>6, <1>7

LEMMA RenewalKeepsService ==
  ASSUME ServiceInv, NEW r \in Renewals,
         TokenRead(r) \/ Refreshed(r) \/ ShellFails(r) \/ Expire(r)
  PROVE  ServiceInv'
<1>1. shell[r] # "none" \/ stage[r] = "running" => stage[r] # "none"
  BY NumbersAreNatural DEF ServiceInv, OneInTheAir, Started
<1>2. stored = issued
  BY DEF ServiceInv, TokenIsLast
<1>3. CASE TokenRead(r)
  <2>1. UNCHANGED <<inFlight, renewals, seen, world, refreshed>>
    BY <1>3 DEF TokenRead, history
  <2>2. CASE UNCHANGED <<stage, result, token>>
    BY <1>1, <1>3, <2>1, <2>2, NumbersAreNatural
       DEF TokenRead, ServiceInv, ServiceOK, WorldOK, OneInTheAir, TokenIsLast, TokensGrow, Ended,
           Started, world
  <2>3. CASE ~ UNCHANGED <<stage, result, token>>
    <3>1. \E t \in {0, issued} : Settle(r, t) /\ shell' = [shell EXCEPT ![r] = "over"]
      BY <1>2, <1>3, <2>3 DEF TokenRead
    <3>. QED  BY <1>1, <1>3, <2>1, <3>1, SettleKeepsService DEF TokenRead, world
  <2>. QED  BY <2>2, <2>3
<1>4. CASE Refreshed(r)
  <2>1. issued + 1 \in Tokens
    BY <1>4, SessionAssumption, NumbersAreNatural DEF Refreshed, Tokens
  <2>2. issued' = issued + 1 /\ Settle(r, issued')
    BY <1>4 DEF Refreshed
  <2>3. stage[r] # "none"
    BY <1>1, <1>4 DEF Refreshed
  <2>. QED  BY <1>4, <2>1, <2>2, <2>3, SettleKeepsService DEF Refreshed
<1>5. CASE ShellFails(r) \/ Expire(r)
  <2>1. stage[r] # "none"
    BY <1>1, <1>5 DEF ShellFails, Expire
  <2>. QED  BY <1>5, <2>1, SettleKeepsService DEF ShellFails, Expire, world, history
<1>. QED  BY <1>3, <1>4, <1>5

LEMMA OverKeepsService ==
  ASSUME ServiceInv, NEW r \in Renewals, Over(r)
  PROVE  ServiceInv'
<1>1. r \in Started /\ inFlight = r /\ r = renewals
  <2>1. ~ r > renewals /\ stage[r] = "settled"
    BY DEF Over, ServiceInv, OneInTheAir
  <2>2. r \in Started
    BY <2>1, NumbersAreNatural, SessionAssumption DEF Started, Renewals
  <2>. QED  BY <2>1, <2>2, NumbersAreNatural DEF ServiceInv, OneInTheAir
<1>2. /\ inFlight' = 0 /\ stage' = [stage EXCEPT ![r] = "over"] /\ stage[r] = "settled"
      /\ UNCHANGED <<token, renewals, seen, shell, result, world, refreshed>>
  BY <1>1 DEF Over, history
<1>3. stage'[r] = "over" /\ \A s \in Renewals : s # r => stage'[s] = stage[s]
  BY <1>2 DEF ServiceInv, ServiceOK
<1>4. ServiceOK' /\ WorldOK'
  BY <1>2, NumbersAreNatural DEF ServiceInv, ServiceOK, WorldOK, Started, world
<1>5. OneInTheAir'
  BY <1>1, <1>2, <1>3, NumbersAreNatural DEF ServiceInv, OneInTheAir, Started
<1>6. \A s \in Started : Ended(s)' <=> Ended(s)
  BY <1>2, <1>3, NumbersAreNatural DEF Ended, Started
<1>7. TokenIsLast' /\ TokensGrow'
  BY <1>2, <1>6 DEF ServiceInv, ServiceOK, TokenIsLast, TokensGrow, Started, world
<1>. QED  BY <1>4, <1>5, <1>7 DEF ServiceInv

\* A step of the world: a token dies, or another tab renews.
LEMMA WorldKeepsService ==
  ASSUME ServiceInv, (\E t \in Tokens : TokenDies(t)) \/ StoreMovesOn
  PROVE  ServiceInv'
<1>1. /\ UNCHANGED <<service, work, requests, history>>
      /\ issued' \in {issued, issued + 1} /\ issued' \in Tokens /\ stored' = issued'
      /\ accepted' \subseteq accepted \cup {issued'}
  BY SessionAssumption, NumbersAreNatural
     DEF TokenDies, StoreMovesOn, ServiceInv, WorldOK, TokenIsLast, Tokens
<1>2. 0 .. issued \subseteq 0 .. issued' /\ WorldOK'
  BY <1>1, SessionAssumption, NumbersAreNatural DEF ServiceInv, WorldOK, Tokens
<1>3. ServiceOK'
  BY <1>1, <1>2 DEF ServiceInv, ServiceOK, Started, service, work, history
<1>. QED  BY <1>1, <1>2, <1>3
          DEF ServiceInv, OneInTheAir, TokenIsLast, TokensGrow, Ended, Started, service, work, history
-----------------------------------------------------------------------------
(* The invariant: the requests *)

\* A step that leaves the requests alone.
LEMMA OthersKeepRequests ==
  ASSUME ServiceInv, RequestInv, UNCHANGED <<requests, answeredBy, renewals>>,
         issued' \in {issued, issued + 1}
  PROVE  RequestInv'
<1>1. 0 .. issued \subseteq 0 .. issued'
  BY NumbersAreNatural
<1>. QED  BY <1>1 DEF RequestInv, RequestsOK, WaitersAsk, requests

LEMMA AwaitIs ==
  ASSUME ServiceInv, RequestInv, NEW q \in Requests, NEW rejected, AwaitRenewal(q, rejected)
  PROVE  /\ renewals' \in {renewals, renewals + 1}
         /\ \E w \in 1 .. renewals' : waits' = [waits EXCEPT ![q] = w]
<1>1. CASE inFlight # 0 /\ JoinRenewal(q)
  <2>1. renewals' = renewals /\ waits' = [waits EXCEPT ![q] = inFlight]
    BY <1>1 DEF JoinRenewal, work
  <2>2. inFlight \in 1 .. renewals'
    BY <1>1, <2>1, NumbersAreNatural DEF ServiceInv, ServiceOK
  <2>. QED  BY <2>1, <2>2
<1>2. CASE StartRenewal(q, rejected)
  <2>1. renewals' = renewals + 1 /\ waits' = [waits EXCEPT ![q] = renewals + 1]
    BY <1>2 DEF StartRenewal
  <2>2. renewals + 1 \in 1 .. renewals'
    BY <2>1, NumbersAreNatural
  <2>. QED  BY <2>1, <2>2
<1>. QED  BY <1>1, <1>2 DEF AwaitRenewal

\* A request that is sent, sent again, or asks for a token, and that carries t if it is sent.
LEMMA RequestMoves ==
  ASSUME ServiceInv, RequestInv, NEW q \in Requests,
         NEW to \in {"asking", "sent", "renewing", "resent", "done"}, NEW t \in 0 .. issued,
         phase' = [phase EXCEPT ![q] = to],
         carried' = carried \/ carried' = [carried EXCEPT ![q] = t],
         verdict' = verdict \/ verdict' = [verdict EXCEPT ![q] = "none"],
         first' = first \/ first' = [first EXCEPT ![q] = carried[q]],
         replayable' = replayable \/ \E b \in BOOLEAN : replayable' = [replayable EXCEPT ![q] = b],
         answeredBy' = answeredBy \/ answeredBy' = [answeredBy EXCEPT ![q] = waits[q]],
         renewals' \in {renewals, renewals + 1}, issued' = issued,
         IF to \in {"asking", "renewing"}
         THEN \E w \in 1 .. renewals' : waits' = [waits EXCEPT ![q] = w]
         ELSE waits' = [waits EXCEPT ![q] = 0]
  PROVE  RequestInv'
<1>1. 0 .. renewals \subseteq 0 .. renewals' /\ renewals' \in Nat
  BY NumbersAreNatural
<1>2. /\ phase' \in [Requests -> {"none", "asking", "sent", "renewing", "resent", "done"}]
      /\ phase'[q] = to /\ \A p \in Requests : p # q => phase'[p] = phase[p]
  BY DEF RequestInv, RequestsOK
<1>3. /\ waits' \in [Requests -> 0 .. renewals']
      /\ waits'[q] # 0 <=> to \in {"asking", "renewing"}
      /\ \A p \in Requests : p # q => waits'[p] = waits[p]
  <2>1. PICK w \in 0 .. renewals' : /\ waits' = [waits EXCEPT ![q] = w]
                                    /\ w # 0 <=> to \in {"asking", "renewing"}
    BY <1>1
  <2>. QED  BY <1>1, <2>1 DEF RequestInv, RequestsOK
<1>4. /\ carried' \in [Requests -> 0 .. issued'] /\ first' \in [Requests -> 0 .. issued']
  BY DEF RequestInv, RequestsOK
<1>5. verdict' \in [Requests -> {"none", "ok", "refused"}] /\ replayable' \in [Requests -> BOOLEAN]
  BY DEF RequestInv, RequestsOK
<1>6. answeredBy' \in [Requests -> 0 .. renewals']
  BY <1>1 DEF RequestInv, RequestsOK
<1>7. RequestsOK'
  BY <1>2, <1>3, <1>4, <1>5, <1>6 DEF RequestsOK
<1>8. WaitersAsk'
  BY <1>2, <1>3 DEF RequestInv, WaitersAsk
<1>. QED  BY <1>7, <1>8 DEF RequestInv

LEMMA RequestKeeps ==
  ASSUME SessionInv, NEW q \in Requests,
         Request(q) \/ Serve(q) \/ Receive(q) \/ Wake(q) \/ Leave(q)
  PROVE  SessionInv'
<1>. USE DEF SessionInv
<1>1. /\ token \in 0 .. issued /\ 0 \in 0 .. issued /\ carried[q] \in 0 .. issued
      /\ waits[q] = 0 <=> phase[q] \notin {"asking", "renewing"}
      /\ waits[q] = 0 => waits = [waits EXCEPT ![q] = 0]
      /\ \A r \in Renewals : result[r] \in 0 .. issued
  BY NumbersAreNatural DEF ServiceInv, ServiceOK, RequestInv, RequestsOK, WaitersAsk
<1>2. CASE Serve(q)
  <2>1. ServiceInv'
    BY <1>2 DEF Serve, ServiceInv, ServiceOK, WorldOK, OneInTheAir, TokenIsLast, TokensGrow, Ended,
                Started, service, work, world, history
  <2>2. RequestInv'
    BY <1>2 DEF Serve, RequestInv, RequestsOK, WaitersAsk, work, world, history
  <2>. QED  BY <2>1, <2>2
<1>3. ASSUME UNCHANGED <<service, work, world, refreshed>>, Request(q) \/ Receive(q) \/ Wake(q) \/ Leave(q)
      PROVE  ServiceInv'
  BY <1>3 DEF ServiceInv, ServiceOK, WorldOK, OneInTheAir, TokenIsLast, TokensGrow, Ended,
              Started, service, work, world
<1>4. ASSUME NEW rejected \in 0 .. issued, AwaitRenewal(q, rejected),
             UNCHANGED <<token, world, refreshed>>
      PROVE  ServiceInv'
  <2>1. CASE JoinRenewal(q)
    BY <1>4, <2>1 DEF JoinRenewal, ServiceInv, ServiceOK, WorldOK, OneInTheAir, TokenIsLast,
                      TokensGrow, Ended, Started, work, world
  <2>. QED  BY <1>4, <2>1, StartKeepsService DEF AwaitRenewal
<1>5. CASE Request(q)
  <2>1. CASE Send(q, token, "sent") /\ UNCHANGED <<inFlight, work, waits>>
    <3>1. RequestInv'
      BY <1>1, <1>5, <2>1, RequestMoves DEF Request, Send, work, world, history
    <3>. QED  BY <1>3, <1>5, <2>1, <3>1 DEF Request, service, history
  <2>2. CASE AwaitRenewal(q, 0) /\ phase' = [phase EXCEPT ![q] = "asking"] /\ UNCHANGED <<carried, verdict>>
    <3>1. RequestInv'
      BY <1>1, <1>5, <2>2, AwaitIs, RequestMoves DEF Request, world, history
    <3>. QED  BY <1>1, <1>4, <1>5, <2>2, <3>1 DEF Request, history
  <2>. QED  BY <1>5, <2>1, <2>2 DEF Request
<1>6. CASE Receive(q)
  <2>1. CASE /\ End(q) \/ Send(q, token, "resent")
             /\ UNCHANGED <<inFlight, work, waits>>
             /\ first' = first \/ first' = [first EXCEPT ![q] = carried[q]]
    <3>1. RequestInv'
      BY <1>1, <1>6, <2>1, RequestMoves DEF Receive, End, Send, work, world, history
    <3>. QED  BY <1>3, <1>6, <2>1, <3>1 DEF Receive, service, history
  <2>2. CASE /\ AwaitRenewal(q, carried[q]) /\ phase' = [phase EXCEPT ![q] = "renewing"]
             /\ first' = [first EXCEPT ![q] = carried[q]] /\ UNCHANGED <<carried, verdict>>
    <3>1. RequestInv'
      BY <1>1, <1>6, <2>2, AwaitIs, RequestMoves DEF Receive, world, history
    <3>. QED  BY <1>1, <1>4, <1>6, <2>2, <3>1 DEF Receive, history
  <2>. QED  BY <1>6, <2>1, <2>2 DEF Receive
<1>7. CASE Wake(q)
  <2>1. waits[q] \in Renewals
    BY <1>7, NumbersAreNatural DEF Wake, RequestInv, RequestsOK, Started
  <2>2. /\ waits' = [waits EXCEPT ![q] = 0] /\ answeredBy' = [answeredBy EXCEPT ![q] = waits[q]]
        /\ End(q) \/ Send(q, result[waits[q]], "sent") \/ Send(q, result[waits[q]], "resent")
        /\ UNCHANGED <<service, work, replayable, first, world, refreshed>>
    BY <1>7 DEF Wake, Retry
  <2>3. RequestInv'
    BY <1>1, <2>1, <2>2, RequestMoves DEF End, Send, work, world
  <2>. QED  BY <1>3, <1>7, <2>2, <2>3
<1>8. CASE Leave(q)
  <2>1. RequestInv'
    BY <1>1, <1>8, RequestMoves DEF Leave, End, work, world, history
  <2>. QED  BY <1>3, <1>8, <2>1 DEF Leave, history
<1>. QED  BY <1>2, <1>5, <1>6, <1>7, <1>8

LEMMA NextInv == SessionInv /\ [Next]_vars => SessionInv'
<1>. SUFFICES ASSUME SessionInv, [Next]_vars PROVE SessionInv'
  OBVIOUS
<1>. USE DEF SessionInv
<1>1. ASSUME NEW r \in Renewals, TokenRead(r) \/ Refreshed(r) \/ ShellFails(r) \/ Expire(r)
      PROVE  SessionInv'
  <2>1. UNCHANGED <<requests, answeredBy, renewals>> /\ issued' \in {issued, issued + 1}
    BY <1>1 DEF TokenRead, Refreshed, ShellFails, Expire, world, history
  <2>. QED  BY <1>1, <2>1, RenewalKeepsService, OthersKeepRequests
<1>2. ASSUME NEW r \in Renewals, Over(r) PROVE SessionInv'
  BY <1>2, OverKeepsService, OthersKeepRequests DEF Over, world, history
<1>3. ASSUME (\E t \in Tokens : TokenDies(t)) \/ StoreMovesOn PROVE SessionInv'
  BY <1>3, WorldKeepsService, OthersKeepRequests DEF TokenDies, StoreMovesOn, work, history
<1>4. CASE UNCHANGED vars
  BY <1>4 DEF vars, service, work, requests, world, history, ServiceInv, RequestInv, ServiceOK,
              RequestsOK, WorldOK, OneInTheAir, WaitersAsk, TokenIsLast, TokensGrow, Ended, Started
<1>. QED  BY <1>1, <1>2, <1>3, <1>4, RequestKeeps DEF Next

LEMMA SpecInv == Spec => []SessionInv
BY InitInv, NextInv, PTL DEF Spec

-----------------------------------------------------------------------------
(* What it shows *)

\* Every variable has its type.
THEOREM TypeCorrect == Spec => []TypeOK
BY SpecInv, PartsMakeTypes, PTL DEF SessionInv, ServiceInv, RequestInv

\* A refusal of a token renewed by refreshToken finds the session on another one.
THEOREM RefreshesAreNotWasted == Spec => []RefreshedOncePerToken
<1>1. ASSUME SessionInv PROVE RefreshedOncePerToken
  <2>. SUFFICES ASSUME NEW r \in refreshed, NEW s \in refreshed, r < s, seen[r] = seen[s]
                PROVE  \E f \in Renewals : r < f /\ f < s /\ stage[f] # "running" /\ result[f] = 0
    BY DEF RefreshedOncePerToken
  <2>1. /\ r \in Started /\ s \in Started /\ r \in Nat /\ s \in Nat /\ s > 1 /\ s - 1 \in Started
        /\ s - 1 \in Renewals /\ r <= s - 1 /\ result[s - 1] \in Nat /\ result[r] \in Nat /\ seen[r] \in Nat
    BY <1>1, NumbersAreNatural DEF SessionInv, ServiceInv, ServiceOK, Started
  <2>2. result[r] > seen[r] /\ result[r] # 0
    BY <1>1, <2>1 DEF SessionInv, ServiceInv, TokensGrow
  <2>3. stage[s - 1] = "over"
    <3>1. s - 1 < renewals
      BY <2>1, NumbersAreNatural, <1>1 DEF Started, SessionInv
    <3>. QED  BY <1>1, <2>1, <3>1 DEF SessionInv, ServiceInv, OneInTheAir
  <2>4. CASE result[s - 1] = 0
    BY <2>1, <2>2, <2>3, <2>4
  <2>5. CASE result[s - 1] # 0
    <3>1. seen[s] = result[s - 1]
      BY <1>1, <2>1, <2>5 DEF SessionInv, ServiceInv, TokensGrow
    <3>2. result[r] <= result[s - 1]
      BY <1>1, <2>1, <2>3, <2>5 DEF SessionInv, ServiceInv, TokensGrow, Ended
    <3>. QED  BY <2>1, <2>2, <3>1, <3>2
  <2>. QED  BY <2>4, <2>5
<1>. QED  BY <1>1, SpecInv, PTL

\* The token changes when the renewal callers share gives another one, and at no other time.
LEMMA TokenComesFromTheRenewal ==
  ASSUME SessionInv, [Next]_vars, token' # token
  PROVE  \E r \in Renewals : r = inFlight /\ stage[r] = "running" /\ result'[r] = token'
<1>1. PICK r \in Renewals : TokenRead(r) \/ Refreshed(r) \/ ShellFails(r) \/ Expire(r)
  BY DEF Next, Request, Serve, Receive, Wake, Leave, Over, TokenDies, StoreMovesOn, vars, service
<1>2. PICK t : Settle(r, t)
  BY <1>1 DEF TokenRead, Refreshed, ShellFails, Expire
<1>3. stage[r] = "running" /\ result'[r] = token'
  BY <1>2 DEF Settle, SessionInv, ServiceInv, ServiceOK
<1>4. ~ r > renewals
  BY <1>3 DEF SessionInv, ServiceInv, OneInTheAir
<1>5. r \in Started
  BY <1>4, NumbersAreNatural, SessionAssumption DEF SessionInv, Started, Renewals
<1>. QED  BY <1>3, <1>5 DEF SessionInv, ServiceInv, OneInTheAir

\* The session's token is what its last renewal gave, and is not renewed twice for nothing.
THEOREM TheTokenIsKept == Spec => TokenIsKept
<1>1. SessionInv /\ [Next]_vars =>
        [token' # token => \E r \in Renewals :
           r = inFlight /\ stage[r] = "running" /\ result'[r] = token']_vars
  BY TokenComesFromTheRenewal
<1>. QED  BY <1>1, SpecInv, TypeCorrect, RefreshesAreNotWasted, PTL
          DEF Spec, TokenIsKept, LateAnswersChangeNothing

-----------------------------------------------------------------------------
(* The refinement *)

\* The mapping: the one key's flight, and the renewals that have landed.
Flight == [k \in {"session"} |-> inFlight]
Landed == {r \in Renewals : stage[r] = "over"}

\* A request that awaits a renewal: it joins the one in the air, or starts one.
LEMMA AwaitIsShared ==
  ASSUME SessionInv, NEW q \in Requests, NEW rejected, waits[q] = 0, AwaitRenewal(q, rejected),
         UNCHANGED answeredBy
  PROVE  Renewing!Next
<1>1. CASE inFlight # 0 /\ JoinRenewal(q)
  <2>1. /\ waits' = [waits EXCEPT ![q] = Flight["session"]] /\ Flight["session"] # 0
        /\ UNCHANGED <<Flight, Landed, answeredBy>>
    BY <1>1 DEF JoinRenewal, work, Flight, Landed
  <2>2. Renewing!Join(q, "session")
    BY <2>1 DEF Renewing!Join, Flight, Landed
  <2>. QED  BY <2>2 DEF Renewing!Next
<1>2. CASE inFlight = 0 /\ StartRenewal(q, rejected)
  <2>. DEFINE r == renewals + 1
  <2>1. /\ r \in Renewals /\ inFlight' = r /\ stage' = [stage EXCEPT ![r] = "running"]
        /\ waits' = [waits EXCEPT ![q] = r] /\ r # 0
    BY <1>2, SessionAssumption, NumbersAreNatural DEF StartRenewal, Renewals, SessionInv
  <2>2. stage[r] = "none"
    BY <2>1, NumbersAreNatural DEF SessionInv, ServiceInv, OneInTheAir
  <2>3. Landed' = Landed /\ r \notin Landed
    BY <2>1, <2>2 DEF Landed, SessionInv, ServiceInv, ServiceOK
  <2>4. /\ Flight["session"] = 0 /\ Flight' = [Flight EXCEPT !["session"] = r]
        /\ r \in Renewals \ (Landed \cup {Flight[j] : j \in {"session"}})
    BY <1>2, <2>1, <2>3 DEF Flight
  <2>5. Renewing!Launch(q, "session")
    BY <2>1, <2>3, <2>4 DEF Renewing!Launch, Flight, Landed
  <2>. QED  BY <2>5 DEF Renewing!Next
<1>. QED  BY <1>1, <1>2 DEF AwaitRenewal

LEMMA RequestIsShared ==
  ASSUME SessionInv, NEW q \in Requests,
         Request(q) \/ Serve(q) \/ Receive(q) \/ Wake(q) \/ Leave(q)
  PROVE  [Renewing!Next]_Renewing!shared
<1>1. CASE UNCHANGED <<inFlight, stage, waits, answeredBy>>
  BY <1>1 DEF Renewing!shared
<1>2. CASE Wake(q)
  <2>1. /\ waits[q] \in Landed /\ waits' = [waits EXCEPT ![q] = 0]
        /\ answeredBy' = [answeredBy EXCEPT ![q] = waits[q]] /\ UNCHANGED <<Flight, Landed>>
    BY <1>2, NumbersAreNatural
       DEF Wake, Flight, Landed, service, work, SessionInv, RequestInv, RequestsOK, Started
  <2>2. Renewing!Answer(q)
    BY <2>1 DEF Renewing!Answer, Flight, Landed
  <2>. QED  BY <2>2 DEF Renewing!Next
<1>3. CASE Leave(q) /\ waits[q] # 0
  <2>1. Renewing!Leave(q)
    BY <1>3 DEF Leave, Renewing!Leave, service, work, history
  <2>. QED  BY <2>1 DEF Renewing!Next
<1>4. CASE Leave(q) /\ waits[q] = 0
  <2>1. waits' = waits
    BY <1>4 DEF Leave, SessionInv, RequestInv, RequestsOK
  <2>. QED  BY <1>4, <2>1 DEF Leave, service, work, history, Renewing!shared
<1>5. CASE Request(q) \/ Receive(q)
  <2>1. waits[q] = 0 /\ UNCHANGED answeredBy
    BY <1>5 DEF Request, Receive, SessionInv, RequestInv, WaitersAsk, history
  <2>2. \/ UNCHANGED <<inFlight, stage, waits, answeredBy>>
        \/ AwaitRenewal(q, 0) \/ AwaitRenewal(q, carried[q])
    BY <1>5, <2>1 DEF Request, Receive, work
  <2>. QED  BY <1>1, <2>1, <2>2, AwaitIsShared
<1>6. CASE Serve(q)
  BY <1>1, <1>6 DEF Serve, service, work, history
<1>. QED  BY <1>2, <1>3, <1>4, <1>5, <1>6

LEMMA StepIsShared == SessionInv /\ [Next]_vars => [Renewing!Next]_Renewing!shared
<1>. SUFFICES ASSUME SessionInv, [Next]_vars PROVE [Renewing!Next]_Renewing!shared
  OBVIOUS
<1>1. ASSUME NEW r \in Renewals, Over(r) PROVE Renewing!Next
  <2>1. inFlight = r /\ r # 0
    <3>1. ~ r > renewals /\ stage[r] = "settled"
      BY <1>1 DEF Over, SessionInv, ServiceInv, OneInTheAir
    <3>2. r \in Started /\ r # 0
      BY <3>1, NumbersAreNatural, SessionAssumption DEF SessionInv, Started, Renewals
    <3>. QED  BY <3>1, <3>2 DEF SessionInv, ServiceInv, OneInTheAir
  <2>2. Landed' = Landed \cup {Flight["session"]}
    BY <1>1, <2>1 DEF Over, Landed, Flight, SessionInv, ServiceInv, ServiceOK
  <2>3. Flight' = [Flight EXCEPT !["session"] = 0] /\ UNCHANGED <<waits, answeredBy>>
    BY <1>1, <2>1 DEF Over, Flight, requests, history
  <2>4. Renewing!Land("session")
    BY <2>1, <2>2, <2>3 DEF Renewing!Land, Flight, Landed
  <2>. QED  BY <2>4 DEF Renewing!Next
<1>2. ASSUME NEW r \in Renewals, TokenRead(r) \/ Refreshed(r) \/ ShellFails(r) \/ Expire(r)
      PROVE  UNCHANGED Renewing!shared
  <2>1. UNCHANGED <<inFlight, waits, answeredBy>>
    BY <1>2 DEF TokenRead, Refreshed, ShellFails, Expire, requests, history
  <2>2. stage' = stage \/ (stage[r] = "running" /\ stage' = [stage EXCEPT ![r] = "settled"])
    BY <1>2 DEF TokenRead, Refreshed, ShellFails, Expire, Settle
  <2>3. Landed' = Landed
    BY <2>2 DEF Landed, SessionInv, ServiceInv, ServiceOK
  <2>. QED  BY <2>1, <2>3 DEF Renewing!shared, Landed
<1>3. CASE (\E t \in Tokens : TokenDies(t)) \/ StoreMovesOn \/ UNCHANGED vars
  <2>1. UNCHANGED <<inFlight, stage, waits, answeredBy>>
    BY <1>3 DEF TokenDies, StoreMovesOn, vars, service, work, requests, history
  <2>. QED  BY <2>1 DEF Renewing!shared
<1>. QED  BY <1>1, <1>2, <1>3, RequestIsShared DEF Next

\* Callers share the renewal in the air: the service keeps the promise of SingleFlight.
THEOREM RenewalsImplementSharing == Spec => RenewalsAreShared
<1>1. Init => Renewing!Init
  <2>. SUFFICES ASSUME Init PROVE Renewing!Init
    OBVIOUS
  <2>1. Landed = {} /\ Flight = [k \in {"session"} |-> 0]
    BY DEF Init, Landed, Flight
  <2>. QED  BY <2>1 DEF Init, Renewing!Init, Landed, Flight
<1>. QED  BY <1>1, StepIsShared, SpecInv, PTL DEF Spec, RenewalsAreShared, Renewing!Spec
=============================================================================
