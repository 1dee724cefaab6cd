-------------------------------- MODULE SignIn --------------------------------
(***************************************************************************)
(* How a tab of the shell comes by its session and keeps it: the gate       *)
(* (auth/gate.ts), the claim of the tab's session by a Web Lock (tab.ts),   *)
(* the token source over it, one renewal at a time (token-source.ts), and   *)
(* the way back to the identity provider (sign-in.ts).                      *)
(*                                                                          *)
(* Around them are the browser, which duplicates, reloads, closes and       *)
(* reopens tabs, copies sessionStorage with the one and keeps it over the   *)
(* others, and frees a page's locks when the page goes; and a provider that *)
(* rotates refresh tokens and ends a session when a retired one is shown.   *)
(*                                                                          *)
(* A session is the code that began it, its family, the serial of the       *)
(* tokens in it, and whether they are far from expiry; 0 is none.  `cut`    *)
(* and `foreign` are history: the families a renewal's answer did not reach *)
(* its page in, and the family each tab held when it was last found to be a *)
(* copy.                                                                    *)
(***************************************************************************)
EXTENDS Naturals, FiniteSets

CONSTANTS
  Tabs,            \* bound: tabs the browser has room for
  MaxFamilies,     \* bound: codes the provider hands out over a run
  MaxSerial,       \* bound: tokens of one family
  Callers,         \* who asks a page for access tokens
  HasLocks,        \* does the browser have Web Locks
  CopyRaces        \* may a page go while a copy of it is still to be told from it

SignInAssumption ==
  /\ IsFiniteSet(Tabs) /\ 0 \notin Tabs /\ MaxFamilies \in Nat /\ MaxSerial \in Nat \ {0}
  /\ {0, "gate"} \cap Callers = {} /\ HasLocks \in BOOLEAN /\ CopyRaces \in BOOLEAN

Families == 1 .. MaxFamilies
Ids      == 1 .. Cardinality(Tabs) + 1  \* one more than all tabs use: a free one is as good as a new one
NoTab    == 0
NoSession == [family |-> 0, serial |-> 0, fresh |-> FALSE]

VARIABLES
  page, url,                 \* each tab: where its page is, the code in its address (0: none)
  id, session,               \* its sessionStorage: the tab's id, and the session
  held,                      \* the id whose lock each page holds
  calls, rejected,           \* each caller of getAccessToken(), the token it was refused with
  inFlight, lost,            \* the token source
  posts,                     \* the renewals on their way to the provider and back
  codes, used, current, revoked, \* the provider
  cut, foreign

storage  == <<id, session>>
source   == <<calls, rejected, inFlight, lost>>
provider == <<codes, used, current, revoked>>
vars     == <<page, url, storage, held, source, posts, provider, cut, foreign>>

Going   == {"loading", "copy", "owner", "callback", "restoring", "leaving", "redirecting"}
Resting == {"in", "away", "stuck"}
Open(t) == page[t] \in Going \cup Resting

Post(t, by) ==
  [tab |-> t, by |-> by, family |-> session[t].family, serial |-> session[t].serial,
   answer |-> "none"]

-----------------------------------------------------------------------------
(* claimTab() *)

FreeIds == Ids \ ({id[t] : t \in Tabs} \cup {held[t] : t \in Tabs})
NewId   == CHOOSE i \in FreeIds : \A j \in FreeIds : i <= j

LockFree(i) == \A t \in Tabs : held[t] # i

Own(t, i) ==
  /\ id' = [id EXCEPT ![t] = i]
  /\ held' = [held EXCEPT ![t] = i]
  /\ page' = [page EXCEPT ![t] = IF url[t] # 0 THEN "callback" ELSE "owner"]
  /\ UNCHANGED foreign

\* Fault: a tab takes the session it finds.
ClaimBlindly(t) ==
  /\ page[t] = "loading"
  /\ IF id[t] # 0 /\ (~HasLocks \/ LockFree(id[t]))
     THEN Own(t, id[t])
     ELSE Own(t, NewId)
  /\ UNCHANGED <<url, session, source, posts, provider, cut>>

\* No id is a new tab, an id whose lock is free is this tab's own, and an id whose lock is held
\* belongs to the tab this one was copied from.  The new id is written before the session goes.
Claim(t) ==
  /\ page[t] = "loading"
  /\ \/ /\ HasLocks
        /\ \/ id[t] = 0 /\ Own(t, NewId)
           \/ id[t] # 0 /\ LockFree(id[t]) /\ Own(t, id[t])
           \/ /\ id[t] # 0 /\ ~LockFree(id[t])
              /\ id' = [id EXCEPT ![t] = NewId]
              /\ held' = [held EXCEPT ![t] = NewId]
              /\ foreign' = [foreign EXCEPT ![t] = session[t].family]
              /\ page' = [page EXCEPT ![t] = IF url[t] # 0 THEN "callback" ELSE "copy"]
     \/ /\ ~HasLocks
        /\ page' = [page EXCEPT ![t] = IF url[t] # 0 THEN "callback" ELSE "owner"]
        /\ UNCHANGED <<id, held, foreign>>
  /\ UNCHANGED <<url, session, source, posts, provider, cut>>

-----------------------------------------------------------------------------
(* authenticate(): restoreSession() and the callback *)

\* removeUser(), and what follows it: a page without a session goes to sign in.
RemoveUser(t) ==
  /\ session' = [session EXCEPT ![t] = NoSession]
  /\ page' = [page EXCEPT ![t] = "redirecting"]

DropCopy(t) ==
  /\ page[t] = "copy"
  /\ RemoveUser(t)
  /\ foreign' = [foreign EXCEPT ![t] = 0]
  /\ UNCHANGED <<url, id, held, source, posts, provider, cut>>

Restore(t) ==
  /\ page[t] = "owner"
  /\ \/ /\ session[t] = NoSession
        /\ page' = [page EXCEPT ![t] = "redirecting"]
        /\ UNCHANGED posts
     \/ /\ session[t].fresh
        /\ page' = [page EXCEPT ![t] = "in"]
        /\ UNCHANGED posts
     \/ /\ session[t] # NoSession /\ ~session[t].fresh
        /\ page' = [page EXCEPT ![t] = "restoring"]
        /\ posts' = posts \cup {Post(t, "gate")}
  /\ UNCHANGED <<url, storage, held, source, provider, cut, foreign>>

Renew(p) ==
  session' = [session EXCEPT ![p.tab] =
                [family |-> p.family, serial |-> p.serial + 1, fresh |-> TRUE]]

Restored(p) ==
  /\ p.by = "gate" /\ p.tab # NoTab /\ p.answer # "none"
  /\ posts' = posts \ {p}
  /\ \/ p.answer = "yes" /\ Renew(p) /\ page' = [page EXCEPT ![p.tab] = "in"]
     \/ p.answer = "no" /\ RemoveUser(p.tab)
  /\ UNCHANGED <<url, id, held, source, provider, cut, foreign>>

\* signinCallback(): a code is good once, and also the request may fail.  Either way it leaves the
\* address bar.
Redeem(t) ==
  /\ page[t] = "callback"
  /\ used' = used \cup {url[t]}
  /\ url' = [url EXCEPT ![t] = 0]
  /\ \/ /\ url[t] \notin used
        /\ session' = [session EXCEPT ![t] = [family |-> url[t], serial |-> 1, fresh |-> TRUE]]
        /\ page' = [page EXCEPT ![t] = "in"]
     \/ /\ page' = [page EXCEPT ![t] = "stuck"]
        /\ UNCHANGED session
  /\ UNCHANGED <<id, held, source, posts, codes, current, revoked, cut, foreign>>

-----------------------------------------------------------------------------
(* The token source *)

SetCall(t, c, state) == calls' = [calls EXCEPT ![t][c] = state]

\* getAccessToken(), with the token the caller was refused with or none.  A lost session is
\* answered at once.
Ask(t, c) ==
  /\ page[t] = "in" /\ calls[t][c] = "none" /\ ~lost[t]
  /\ SetCall(t, c, "reading")
  /\ \E n \in {0, session[t].serial} :
       /\ n = 0 \/ n < MaxSerial
       /\ rejected' = [rejected EXCEPT ![t][c] = n]
  /\ UNCHANGED <<page, url, storage, held, inFlight, lost, posts, provider, cut, foreign>>

Usable(t, c) == session[t].fresh /\ session[t].serial # rejected[t][c]

\* A caller that has left takes no part in the renewal, also when it started it.
Await(t, c) == SetCall(t, c, IF calls[t][c] = "leaving" THEN "none" ELSE "waiting")

\* A renewal once the session is gone has no refresh token to show.
RenewOnce(t, c) ==
  \/ inFlight[t] /\ Await(t, c) /\ UNCHANGED <<inFlight, lost, posts>>
  \/ /\ ~inFlight[t] /\ session[t] # NoSession
     /\ posts' = posts \cup {Post(t, c)}
     /\ inFlight' = [inFlight EXCEPT ![t] = TRUE]
     /\ Await(t, c)
     /\ UNCHANGED lost
  \/ ~inFlight[t] /\ session[t] = NoSession /\ SetCall(t, c, "none") /\ UNCHANGED <<inFlight, lost, posts>>

\* The stored session has been read: it serves, or is renewed, also for a caller that left meanwhile.
Read(t, c) ==
  /\ calls[t][c] \in {"reading", "leaving"}
  /\ \/ Usable(t, c) /\ SetCall(t, c, "none") /\ UNCHANGED <<inFlight, lost, posts>>
     \/ ~Usable(t, c) /\ RenewOnce(t, c)
  /\ rejected' = [rejected EXCEPT ![t][c] = 0]
  /\ UNCHANGED <<page, url, storage, held, provider, cut, foreign>>

\* The caller's signal aborts: one that waits leaves, and the renewal stays; the read of the session
\* goes on first.
Leave(t, c) ==
  /\ \/ calls[t][c] = "reading" /\ SetCall(t, c, "leaving")
     \/ calls[t][c] = "waiting" /\ SetCall(t, c, "none")
  /\ UNCHANGED <<page, url, storage, held, rejected, inFlight, lost, posts, provider, cut, foreign>>

\* Everyone who waits is answered, and the renewal cleared away, in the microtasks of its answer.
AnswerWaiting(t) ==
  calls' = [calls EXCEPT ![t] = [c \in Callers |-> IF @[c] = "waiting" THEN "none" ELSE @[c]]]

\* Fault: the callers of a renewal that failed are not answered.
RenewalFailsSilently(t) ==
  /\ lost' = [lost EXCEPT ![t] = TRUE]
  /\ UNCHANGED <<calls, page>>

\* A failed renewal ends the session, once: onSessionLost().
RenewalFails(t) ==
  /\ lost' = [lost EXCEPT ![t] = TRUE]
  /\ AnswerWaiting(t)
  /\ page' = [page EXCEPT ![t] = IF lost[t] THEN @ ELSE "leaving"]

Renewed(p) ==
  /\ p.by \in Callers /\ p.tab # NoTab /\ p.answer # "none"
  /\ posts' = posts \ {p}
  /\ inFlight' = [inFlight EXCEPT ![p.tab] = FALSE]
  /\ \/ p.answer = "yes" /\ Renew(p) /\ AnswerWaiting(p.tab) /\ UNCHANGED <<page, lost>>
     \/ p.answer = "no" /\ RenewalFails(p.tab) /\ UNCHANGED session
  /\ UNCHANGED <<url, id, held, rejected, provider, cut, foreign>>

-----------------------------------------------------------------------------
(* Leaving for the identity provider *)

RemoveLost(t) ==
  /\ page[t] = "leaving"
  /\ RemoveUser(t)
  /\ UNCHANGED <<url, id, held, source, posts, provider, cut, foreign>>

\* The page goes: its lock is free, its callers are no more, and nobody is there for the answer of
\* a renewal under way.
Unload(t) ==
  /\ held' = [held EXCEPT ![t] = 0]
  /\ calls' = [calls EXCEPT ![t] = [c \in Callers |-> "none"]]
  /\ rejected' = [rejected EXCEPT ![t] = [c \in Callers |-> 0]]
  /\ inFlight' = [inFlight EXCEPT ![t] = FALSE]
  /\ lost' = [lost EXCEPT ![t] = FALSE]
  /\ posts' = {p \in posts : p.tab # t} \cup
              {[p EXCEPT !.tab = NoTab] : p \in {q \in posts : q.tab = t /\ q.answer = "none"}}
  /\ cut' = cut \cup {p.family : p \in {q \in posts : q.tab = t}}

\* No other tab holds this one's id, and no session it was copied with is left in it.
Apart(t) == page[t] # "copy" /\ \A u \in Tabs \ {t} : id[t] # 0 => id[u] # id[t]

MayGo(t) == CopyRaces \/ Apart(t)

\* The provider cannot be reached, or the page is on its way.
Redirect(t) ==
  /\ page[t] = "redirecting"
  /\ \/ page' = [page EXCEPT ![t] = "stuck"] /\ UNCHANGED <<held, source, posts, cut>>
     \/ MayGo(t) /\ page' = [page EXCEPT ![t] = "away"] /\ Unload(t)
  /\ UNCHANGED <<url, storage, provider, foreign>>

\* The failure page's "Sign in again".
SignInAgain(t) ==
  /\ page[t] = "stuck"
  /\ page' = [page EXCEPT ![t] = "redirecting"]
  /\ UNCHANGED <<url, storage, held, source, posts, provider, cut, foreign>>

SignOut(t) ==
  /\ page[t] = "in" /\ MayGo(t)
  /\ session' = [session EXCEPT ![t] = NoSession]
  /\ page' = [page EXCEPT ![t] = "away"]
  /\ Unload(t)
  /\ UNCHANGED <<url, id, provider, foreign>>

-----------------------------------------------------------------------------
(* The provider and the network *)

\* A retired token ends its session, for everyone who holds one of its tokens.
Answer(p) ==
  /\ p \in posts /\ p.answer = "none"
  /\ LET good == p.family \notin revoked /\ p.serial = current[p.family]
         told == [p EXCEPT !.answer = IF good THEN "yes" ELSE "no"]
     IN /\ good => p.serial < MaxSerial
        /\ posts' = (posts \ {p}) \cup (IF p.tab = NoTab THEN {} ELSE {told})
        /\ current' = IF good THEN [current EXCEPT ![p.family] = @ + 1] ELSE current
        /\ revoked' = IF p.serial # current[p.family] THEN revoked \cup {p.family} ELSE revoked
  /\ UNCHANGED <<page, url, storage, held, source, codes, used, cut, foreign>>

\* The request, or its answer, is lost, or the provider has ended the session: the library rejects.
Break(p) ==
  /\ p \in posts /\ p.tab # NoTab /\ p.answer # "no"
  /\ posts' = (posts \ {p}) \cup {[p EXCEPT !.answer = "no"]}
  /\ cut' = cut \cup {p.family}
  /\ UNCHANGED <<page, url, storage, held, source, provider, foreign>>

\* The user comes back, signed in or not.
Return(t) ==
  /\ page[t] = "away"
  /\ page' = [page EXCEPT ![t] = "loading"]
  /\ \/ /\ codes < MaxFamilies
        /\ codes' = codes + 1
        /\ url' = [url EXCEPT ![t] = codes + 1]
     \/ UNCHANGED <<codes, url>>
  /\ UNCHANGED <<storage, held, source, posts, used, current, revoked, cut, foreign>>

-----------------------------------------------------------------------------
(* The browser and the user *)

Reload(t) ==
  /\ Open(t) /\ MayGo(t)
  /\ page' = [page EXCEPT ![t] = "loading"]
  /\ Unload(t)
  /\ UNCHANGED <<url, storage, provider, foreign>>

Close(t) ==
  /\ Open(t) /\ MayGo(t)
  /\ page' = [page EXCEPT ![t] = "closed"]
  /\ Unload(t)
  /\ UNCHANGED <<url, storage, provider, foreign>>

\* A closed tab comes back with its storage.
Reopen(t) ==
  /\ page[t] = "closed"
  /\ page' = [page EXCEPT ![t] = "loading"]
  /\ UNCHANGED <<url, storage, held, source, posts, provider, cut, foreign>>

\* A new tab, in the place of one nobody reopens.
OpenNew(t) ==
  /\ page[t] = "closed"
  /\ page' = [page EXCEPT ![t] = "loading"]
  /\ url' = [url EXCEPT ![t] = 0]
  /\ id' = [id EXCEPT ![t] = 0]
  /\ session' = [session EXCEPT ![t] = NoSession]
  /\ foreign' = [foreign EXCEPT ![t] = 0]
  /\ UNCHANGED <<held, source, posts, provider, cut>>

\* A copy of a tab that is at the provider is there as well.
Duplicate(t, u) ==
  /\ Open(t) /\ page[u] = "closed"
  /\ page[t] \in {"copy", "away"} \/ url[t] # 0 => CopyRaces
  /\ page' = [page EXCEPT ![u] = IF page[t] = "away" THEN "away" ELSE "loading"]
  /\ url' = [url EXCEPT ![u] = url[t]]
  /\ id' = [id EXCEPT ![u] = id[t]]
  /\ session' = [session EXCEPT ![u] = session[t]]
  /\ foreign' = [foreign EXCEPT ![u] = 0]
  /\ UNCHANGED <<held, source, posts, provider, cut>>

TimePasses(t) ==
  /\ session[t].fresh /\ session[t].serial < MaxSerial
  /\ session' = [session EXCEPT ![t].fresh = FALSE]
  /\ UNCHANGED <<page, url, id, held, source, posts, provider, cut, foreign>>

-----------------------------------------------------------------------------

Init ==
  /\ page = [t \in Tabs |-> "closed"] /\ url = [t \in Tabs |-> 0]
  /\ id = [t \in Tabs |-> 0] /\ session = [t \in Tabs |-> NoSession]
  /\ held = [t \in Tabs |-> 0]
  /\ calls = [t \in Tabs |-> [c \in Callers |-> "none"]]
  /\ rejected = [t \in Tabs |-> [c \in Callers |-> 0]]
  /\ inFlight = [t \in Tabs |-> FALSE] /\ lost = [t \in Tabs |-> FALSE]
  /\ posts = {}
  /\ codes = 0 /\ used = {} /\ current = [f \in Families |-> 1] /\ revoked = {}
  /\ cut = {} /\ foreign = [t \in Tabs |-> 0]

Boot(t) ==
  \/ Claim(t) \/ DropCopy(t) \/ Restore(t) \/ Redeem(t) \/ RemoveLost(t) \/ Redirect(t)

Settle(p) == Restored(p) \/ Renewed(p)

Next ==
  \/ \E t \in Tabs :
       \/ Boot(t) \/ SignInAgain(t) \/ SignOut(t) \/ Return(t)
       \/ Reload(t) \/ Close(t) \/ Reopen(t) \/ OpenNew(t) \/ TimePasses(t)
       \/ \E u \in Tabs : Duplicate(t, u)
       \/ \E c \in Callers : Ask(t, c) \/ Read(t, c) \/ Leave(t, c)
  \/ \E p \in posts : Settle(p) \/ Answer(p) \/ Break(p)

Spec == Init /\ [][Next]_vars

\* The browser grants or refuses a lock, promises run their continuations, and a request is
\* answered or fails.
FairSpec ==
  /\ Spec
  /\ \A t \in Tabs : WF_vars(Boot(t)) /\ \A c \in Callers : WF_vars(Read(t, c))
  /\ WF_vars(\E p \in posts : Settle(p)) /\ WF_vars(\E p \in posts : Answer(p) \/ Break(p))

-----------------------------------------------------------------------------
(* Properties *)

\* Every variable has its type.
TypeOK ==
  /\ page \in [Tabs -> Going \cup Resting \cup {"closed"}] /\ url \in [Tabs -> 0 .. codes]
  /\ id \in [Tabs -> {0} \cup Ids] /\ held \in [Tabs -> {0} \cup Ids]
  /\ session \in [Tabs -> {NoSession} \cup
                           [family : 1 .. codes, serial : 1 .. MaxSerial, fresh : BOOLEAN]]
  /\ calls \in [Tabs -> [Callers -> {"none", "reading", "leaving", "waiting"}]]
  /\ rejected \in [Tabs -> [Callers -> 0 .. MaxSerial]]
  /\ inFlight \in [Tabs -> BOOLEAN] /\ lost \in [Tabs -> BOOLEAN]
  /\ posts \subseteq [tab : {NoTab} \cup Tabs, by : Callers \cup {"gate"}, family : 1 .. codes,
                      serial : 1 .. MaxSerial, answer : {"none", "yes", "no"}]
  /\ \A p \in posts : p.tab = NoTab => p.answer = "none"
  /\ codes \in 0 .. MaxFamilies /\ used \subseteq 1 .. codes
  /\ current \in [Families -> 1 .. MaxSerial] /\ revoked \subseteq 1 .. codes
  /\ cut \subseteq 1 .. codes /\ foreign \in [Tabs -> 0 .. codes]

\* A page that uses the session in its tab's storage.
Uses(t, f) == page[t] \in {"restoring", "in"} /\ session[t].family = f /\ f # 0

\* With Web Locks, two open tabs never use one session, however they were duplicated, reloaded,
\* closed and reopened (claimTab).
SessionsAreNotShared ==
  HasLocks => \A t, u \in Tabs, f \in Families : Uses(t, f) /\ Uses(u, f) => t = u

\* A session only ends when the provider says so or the answer to a renewal got lost: no burst of
\* callers, and no other tab, presents a token that was already retired (renewOnce, claimTab).
NothingIsRetiredTwice == revoked \subseteq cut

Consistent == TypeOK /\ SessionsAreNotShared /\ NothingIsRetiredTwice

\* gate.ts:115: "A copied tab's session is never used."
CopiedSessionIsNeverUsed == \A t \in Tabs : foreign[t] # 0 => ~Uses(t, foreign[t])

\* Nobody waits for ever: a page that loads gets in, leaves to sign in or says why not, a session
\* that is lost is on its way to a new one, and a caller of getAccessToken() is answered.
EveryoneGetsOn ==
  \A t \in Tabs :
    /\ []<><<Reload(t)>>_vars \/ (page[t] \in Going ~> page[t] \notin Going)
    /\ \A c \in Callers : calls[t][c] # "none" ~> calls[t][c] = "none"
=============================================================================
