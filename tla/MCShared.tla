------------------------------ MODULE MCShared ---------------------------------
(***************************************************************************)
(* Workflows, Breadcrumbs, SignIn and BrowserStorage for TLC: what several  *)
(* mounts of a page take part in, and a session and a record that several   *)
(* tabs may find.  These share nothing, so no property is about two of      *)
(* them: the first state says which one a behaviour is about, and the       *)
(* others rest.                                                             *)
(***************************************************************************)
EXTENDS Workflows, TLC

CONSTANTS
  cart, payment, support, order, upload,
  outer, inner, flow, editor, header,
  Nested, Components, InMount, MaxNavigations, MaxRegistered, MaxItems,
  Tabs, MaxFamilies, MaxSerial, Callers, HasLocks, CopyRaces,
  Consumers, Build, Records, NoRecord, NoEntry, NoWriter, ClearEvent, MaxUpdates, MaxEvents

VARIABLES
  about,
  contributions, trail, sequence, handles, mounted,
  page, url, id, session, held, calls, rejected, inFlight, lost, posts, codes, used, current,
  revoked, cut, foreign,
  disk, room, writer, updates, events, entry, failed, subscribed, shown

Crumbs  == INSTANCE Breadcrumbs WITH Mounts <- Nested
Gate    == INSTANCE SignIn
Browser == INSTANCE BrowserStorage WITH
             mounted <- subscribed, Nobody <- NoWriter, Cleared <- ClearEvent

ASSUME CrumbsAssumption == Crumbs!BreadcrumbsAssumption
ASSUME GateAssumption == Gate!SignInAssumption
ASSUME BrowserAssumption == Browser!BrowserStorageAssumption

crumbs == <<contributions, trail, sequence, handles, mounted>>
signIn == <<page, url, id, session, held, calls, rejected, inFlight, lost, posts, codes, used,
            current, revoked, cut, foreign>>
browser == <<disk, room, writer, updates, events, entry, failed, subscribed, shown>>

\* An App inside another one; the header is a component of the outer one.
TwoApps      == <<outer, inner>>
WhereTheyAre == [o \in Components |-> IF o = header THEN 1 ELSE 2]

\* Every tab runs the same build; what it finds may be older, newer or of its own version.
SameBuild        == [t \in Tabs |-> 2]
OneOfEachVersion == [v \in {1, 2, 3} |-> [v |-> v, d |-> {}]]
AnyVersion       == {NoRecord} \cup {OneOfEachVersion[v] : v \in {1, 2, 3}}

Symmetry == Permutations(Tabs)

SharedInit ==
  /\ Init /\ Crumbs!Init /\ Gate!Init /\ Browser!Init
  /\ about \in {"workflows", "breadcrumbs", "sign-in", "browser"}
  /\ about # "browser" => disk = NoRecord

SharedNext ==
  \/ about = "workflows" /\ Next /\ UNCHANGED <<crumbs, signIn, browser, about>>
  \/ about = "breadcrumbs" /\ Crumbs!Next /\ UNCHANGED <<vars, signIn, browser, about>>
  \/ about = "sign-in" /\ Gate!Next /\ UNCHANGED <<vars, crumbs, browser, about>>
  \/ about = "browser" /\ Browser!Next /\ UNCHANGED <<vars, crumbs, signIn, about>>

SharedSpec == SharedInit /\ [][SharedNext]_<<vars, crumbs, signIn, browser, about>>

-----------------------------------------------------------------------------
\* The trail says what the page's mounts and components want it to say, and takes from none of them
\* (Breadcrumbs).
TrailIsKept == Crumbs!TrailIsKept

\* Open tabs never use one session, and nobody presents a token that was retired (SignIn).
SessionsAreOwned == about = "sign-in" => Gate!Consistent

\* What a tab shows of the stored value, and what it says of its own writes (BrowserStorage).
TabsAreCurrent == about = "browser" => Browser!Consistent

\* No functional update is lost to another (BrowserStorage).
UpdatesAreKept == Browser!UpdatesAreKept
=============================================================================
