------------------------------ MODULE ShellState ------------------------------
(***************************************************************************)
(* The shell's live state, the pass over its observers and listeners that   *)
(* every change makes, and those who hear it: the runtime, which drops the  *)
(* previous user's values; the mounts, which retire their session's client; *)
(* the routers of React Apps; and the stored theme, which changes the state *)
(* again from inside such a pass (shell-state/shell-state-store.ts,         *)
(* theme/stored-theme.ts).                                                  *)
(*                                                                          *)
(* Passes are synchronous and nest: `calls` is the stack of them, innermost *)
(* first, and nothing else runs while there is one.  The user's stored      *)
(* values are what UserStore promises, for the one key that matters here.   *)
(* `session` counts identity and group changes: the sessions there were.    *)
(* `confirmed` is history: what the backend has ever held for each user.    *)
(***************************************************************************)
EXTENDS Naturals, Sequences, SequencesExt, FiniteSets

CONSTANTS
  Users,           \* who may sign in
  Nobody,          \* nobody is signed in
  Groups,          \* the group sets the shell may name
  Mounts,          \* the mounts that may open
  Inside,          \* by mount: those nested in it
  StoredTheme,     \* the shell names the key that holds the theme
  LateEffects,     \* React runs an effect some time after the render it belongs to
  MaxSessions      \* bound: identity and group changes

Unset       == "unset"
Invalid     == "invalid"           \* a stored value that the key's schema refuses
Themes      == {"light", "dark"}
Preferences == {"light", "dark", "system"}
Rows        == Preferences \cup {Unset, Invalid}

ShellStateAssumption ==
  /\ Nobody \notin Users /\ Groups # {} /\ MaxSessions \in Nat \ {0}
  /\ Inside \in [Mounts -> SUBSET Mounts] /\ \A m \in Mounts : m \notin Inside[m]
  /\ StoredTheme \in BOOLEAN /\ LateEffects \in BOOLEAN

VARIABLES
  state,           \* user, groups and theme
  calls,           \* the passes in progress
  observers,       \* in the order they were added
  session,
  client,          \* by mount: the session its client was made for (0: it has none)
  rendered,        \* by mount: the context of a router whose effects have not run yet
  router,          \* by mount: the context of the router in use
  madeFor,         \* by mount: the session that router was made for (0: there is none)
  area,            \* the stored preference: whose, phase, row, pending save, failed save
  backend,         \* by user: the preference the backend holds
  current,         \* the preference in force
  cache,           \* by user: the preference the next page starts with
  system,          \* what the operating system prefers
  painted,         \* the theme of the document
  confirmed

storage == <<area, backend, confirmed>>
theme   == <<current, cache, painted>>
views   == <<rendered, router, madeFor>>
vars    == <<state, calls, observers, session, client, views, storage, theme, system>>

Runtime    == [kind |-> "host", of |-> Nobody]
Session(m) == [kind |-> "session", of |-> m]
Router(m)  == [kind |-> "router", of |-> m]
NoRouter   == [client |-> 0, user |-> Nobody, theme |-> Unset]

Quiet   == calls = <<>>
Mounted == {m \in Mounts : client[m] # 0}

\* What a route callback is given.
Context(m) == [client |-> client[m], user |-> state.user, theme |-> state.theme]

\* Observers are copied when the pass starts.  Who does not paint has a theme of Unset.
Pass(identity, security, paint) ==
  [identity |-> identity, security |-> security, paint |-> paint, todo |-> observers]

-----------------------------------------------------------------------------
(* The stored theme *)

Resolve(p) == IF p = "system" THEN system ELSE p

Cached(u) == IF u = Nobody \/ cache[u] = Unset THEN "system" ELSE cache[u]

\* The binding's value: a save in the air, what the backend had, or the key's default.
Value(a) ==
  IF a.pending # Unset THEN a.pending ELSE IF a.row \in Preferences THEN a.row ELSE "system"

\* The binding's status once its area has loaded, with no save in the air or failed.
Settled(a)    == a.phase = "ready" /\ a.pending = Unset /\ ~a.failed
Ready(a)      == Settled(a) /\ a.row # Invalid
Unreadable(a) == Settled(a) /\ a.row = Invalid

\* A value that cannot be read leaves the preference as it was, as loading had it.
Selected(a, u) == IF a.phase = "ready" /\ ~Unreadable(a) THEN Value(a) ELSE Cached(u)

\* shellState.apply() with a theme, within the passes in progress, and the document's after it.
ApplyTheme(p, s, passes) ==
  LET t == Resolve(p) IN
  /\ current' = p
  /\ state' = [s EXCEPT !.theme = t]
  /\ IF s.theme = t
     THEN calls' = passes /\ painted' = t
     ELSE calls' = <<Pass(FALSE, FALSE, t)>> \o passes /\ UNCHANGED painted

CacheConfirmed(a, u) ==
  cache' = IF Ready(a) /\ u # Nobody THEN [cache EXCEPT ![u] = Value(a)] ELSE cache

\* The binding's listener hears that the area is `a` now.
Read(a, passes) ==
  /\ area' = a
  /\ IF StoredTheme /\ ~Unreadable(a)
     THEN ApplyTheme(Selected(a, state.user), state, passes) /\ CacheConfirmed(a, state.user)
     ELSE calls' = passes /\ UNCHANGED <<state, theme>>

\* Heard by the stored theme alone.
SystemChanges ==
  /\ Quiet /\ StoredTheme
  /\ \E t \in Themes \ {system} :
       /\ system' = t
       /\ IF current = "system"
          THEN /\ state' = [state EXCEPT !.theme = t]
               /\ IF state.theme = t
                  THEN calls' = calls /\ painted' = t
                  ELSE calls' = <<Pass(FALSE, FALSE, t)>> /\ UNCHANGED painted
          ELSE UNCHANGED <<state, calls, painted>>
  /\ UNCHANGED <<observers, session, client, views, storage, current, cache>>

-----------------------------------------------------------------------------
(* The user's stored values *)

NoArea(u) == [of |-> u, phase |-> "loading", row |-> Unset, pending |-> Unset, failed |-> FALSE]

Held(u) == IF u = Nobody THEN Unset ELSE backend[u]

LoadSettles ==
  /\ Quiet /\ area.phase = "loading"
  /\ \/ Read([area EXCEPT !.phase = "ready", !.row = Held(area.of)], calls)
     \/ Read([area EXCEPT !.phase = "error"], calls)
  /\ UNCHANGED <<observers, session, client, views, backend, confirmed, system>>

LoadAgain ==
  /\ Quiet /\ area.phase = "error"
  /\ Read(NoArea(area.of), calls)
  /\ UNCHANGED <<observers, session, client, views, backend, confirmed, system>>

\* Somebody picks a theme.
Save ==
  /\ Quiet /\ StoredTheme /\ area.phase = "ready" /\ area.pending = Unset /\ area.of # Nobody
  /\ \E p \in Preferences :
       Read([area EXCEPT !.pending = p, !.failed = FALSE], calls)
  /\ UNCHANGED <<observers, session, client, views, backend, confirmed, system>>

Store(u, p) ==
  /\ backend' = [backend EXCEPT ![u] = p]
  /\ confirmed' = [confirmed EXCEPT ![u] = @ \cup {p}]

SaveSettles ==
  /\ Quiet /\ area.pending # Unset
  /\ \/ /\ Read([area EXCEPT !.row = area.pending, !.pending = Unset], calls)
        /\ Store(area.of, area.pending)
     \/ /\ Read([area EXCEPT !.pending = Unset, !.failed = TRUE], calls)
        /\ UNCHANGED <<backend, confirmed>>
  /\ UNCHANGED <<observers, session, client, views, system>>

-----------------------------------------------------------------------------
(* apply(), by the shell *)

\* A new principal or a new group set; the previous user's save in the air may still arrive.
SetSession ==
  /\ Quiet /\ session < MaxSessions
  /\ \E u \in Users \cup {Nobody}, g \in Groups, t \in IF StoredTheme THEN {state.theme} ELSE Themes :
       /\ u # state.user \/ g # state.groups
       /\ state' = [user |-> u, groups |-> g, theme |-> t]
       /\ calls' = <<Pass(u # state.user, TRUE, Unset)>>
       /\ \/ UNCHANGED <<backend, confirmed>>
          \/ area.pending # Unset /\ u # state.user /\ Store(area.of, area.pending)
  /\ session' = session + 1
  /\ UNCHANGED <<observers, client, views, area, theme, system>>

\* Without a stored theme the shell sets it.
SetTheme ==
  /\ Quiet /\ ~StoredTheme
  /\ \E t \in Themes \ {state.theme} : state' = [state EXCEPT !.theme = t]
  /\ calls' = <<Pass(FALSE, FALSE, Unset)>>
  /\ UNCHANGED <<observers, session, client, views, storage, theme, system>>

-----------------------------------------------------------------------------
(* One observer after another *)

Hears(o) == ~Quiet /\ Head(calls).todo # <<>> /\ Head(Head(calls).todo) = o
Heard    == <<[Head(calls) EXCEPT !.todo = Tail(@)]>> \o Tail(calls)

\* The runtime: another user's values are read afresh, and the theme of the next user's cache shows.
HostHears ==
  /\ Hears(Runtime)
  /\ IF Head(calls).identity
     THEN Read(NoArea(state.user), Heard)
     ELSE calls' = Heard /\ UNCHANGED <<state, area, theme>>
  /\ UNCHANGED <<observers, session, client, views, backend, confirmed, system>>

\* The observers that stay, in their order.
Without(gone) ==
  FlattenSeq([i \in DOMAIN observers |-> IF observers[i] \in gone THEN <<>> ELSE <<observers[i]>>])

Gone(ms) ==
  /\ observers' = Without(UNION {{Session(m), Router(m)} : m \in ms})
  /\ rendered' = [m \in Mounts |-> IF m \in ms THEN NoRouter ELSE rendered[m]]
  /\ router' = [m \in Mounts |-> IF m \in ms THEN NoRouter ELSE router[m]]
  /\ madeFor' = [m \in Mounts |-> IF m \in ms THEN 0 ELSE madeFor[m]]

\* A mount retires its client.  An Angular mount tears its application down within the call, and
\* the mounts nested in it with it: they were copied into the pass and are called all the same.
SessionHears(m) ==
  /\ Hears(Session(m))
  /\ calls' = Heard
  /\ IF Head(calls).security /\ m \in Mounted
     THEN \E ms \in {{}, Inside[m]} :
            /\ client' = [n \in Mounts |-> IF n = m THEN session ELSE IF n \in ms THEN 0 ELSE client[n]]
            /\ Gone(ms)
     ELSE UNCHANGED <<client, observers, views>>
  /\ UNCHANGED <<state, session, storage, theme, system>>

\* Fault: a router keeps the context it was made with.
RouterIgnores(m) ==
  /\ Hears(Router(m))
  /\ calls' = Heard
  /\ UNCHANGED <<state, observers, session, client, views, storage, theme, system>>

\* A change of session replaces the router; any other renews its context, also of one that is about
\* to be replaced.
RouterHears(m) ==
  /\ Hears(Router(m))
  /\ calls' = Heard
  /\ router' = IF Head(calls).security \/ router[m] = NoRouter THEN router
               ELSE [router EXCEPT ![m] = Context(m)]
  /\ UNCHANGED <<state, observers, session, client, rendered, madeFor, storage, theme, system>>

\* The field listeners have run and apply() returns.
Return ==
  /\ ~Quiet /\ Head(calls).todo = <<>>
  /\ calls' = Tail(calls)
  /\ painted' = IF Head(calls).paint = Unset THEN painted ELSE Head(calls).paint
  /\ UNCHANGED <<state, observers, session, client, views, storage, current, cache, system>>

-----------------------------------------------------------------------------
(* Mounts and their routers *)

MountOpens(m) ==
  /\ Quiet /\ m \notin Mounted
  /\ \A n \in Mounts : m \in Inside[n] => n \in Mounted
  /\ client' = [client EXCEPT ![m] = session]
  /\ observers' = Append(observers, Session(m))
  /\ UNCHANGED <<state, calls, session, views, storage, theme, system>>

MountCloses(m) ==
  /\ Quiet /\ m \in Mounted
  /\ LET ms == {m} \cup Inside[m] IN
       client' = [n \in Mounts |-> IF n \in ms THEN 0 ELSE client[n]] /\ Gone(ms)
  /\ UNCHANGED <<state, calls, session, storage, theme, system>>

\* The router in use was made for a session that is over, or there is none.
Replaceable(m) == m \in Mounted /\ madeFor[m] # client[m]

\* The cleanup of the router's predecessor and its own effect are one commit.
Attached(m, context) ==
  /\ observers' = Append(Without({Router(m)}), Router(m))
  /\ router' = [router EXCEPT ![m] = context]
  /\ madeFor' = [madeFor EXCEPT ![m] = context.client]
  /\ rendered' = [rendered EXCEPT ![m] = NoRouter]

RouterRenders(m) ==
  /\ Quiet /\ Replaceable(m) /\ rendered[m].client # client[m]
  /\ IF LateEffects
     THEN rendered' = [rendered EXCEPT ![m] = Context(m)] /\ UNCHANGED <<observers, router, madeFor>>
     ELSE Attached(m, Context(m))
  /\ UNCHANGED <<state, calls, session, client, storage, theme, system>>

RouterAttaches(m) ==
  /\ Quiet /\ rendered[m] # NoRouter
  /\ Attached(m, rendered[m])
  /\ UNCHANGED <<state, calls, session, client, storage, theme, system>>

-----------------------------------------------------------------------------

Init ==
  /\ system = "light"
  /\ \E u \in Users \cup {Nobody}, g \in Groups : state = [user |-> u, groups |-> g, theme |-> "light"]
  /\ calls = <<>> /\ observers = <<Runtime>> /\ session = 1
  /\ client = [m \in Mounts |-> 0]
  /\ rendered = [m \in Mounts |-> NoRouter] /\ router = [m \in Mounts |-> NoRouter]
  /\ madeFor = [m \in Mounts |-> 0]
  /\ area = NoArea(state.user)
  /\ backend \in [Users -> {Unset, Invalid}] /\ confirmed = [u \in Users |-> {}]
  /\ current = "system" /\ cache = [u \in Users |-> Unset] /\ painted = "light"

Next ==
  \/ SystemChanges \/ LoadSettles \/ LoadAgain \/ Save \/ SaveSettles
  \/ SetSession \/ SetTheme \/ HostHears \/ Return
  \/ \E m \in Mounts :
       \/ SessionHears(m) \/ RouterHears(m)
       \/ MountOpens(m) \/ MountCloses(m) \/ RouterRenders(m) \/ RouterAttaches(m)

Spec == Init /\ [][Next]_vars

-----------------------------------------------------------------------------
(* Properties *)

Contexts == [client : 0 .. session, user : Users \cup {Nobody}, theme : Themes \cup {Unset}]

\* Every variable has its type.
TypeOK ==
  /\ state \in [user : Users \cup {Nobody}, groups : Groups, theme : Themes]
  /\ session \in 1 .. MaxSessions /\ client \in [Mounts -> 0 .. session]
  /\ rendered \in [Mounts -> Contexts] /\ router \in [Mounts -> Contexts]
  /\ madeFor \in [Mounts -> 0 .. session]
  /\ area \in [of : Users \cup {Nobody}, phase : {"loading", "ready", "error"}, row : Rows,
               pending : Preferences \cup {Unset}, failed : BOOLEAN]
  /\ backend \in [Users -> Rows]
  /\ cache \in [Users -> Preferences \cup {Unset}]
  /\ current \in Preferences /\ system \in Themes /\ painted \in Themes

\* Outside a pass, every mount works for the present session, and none that is gone has a client
\* left: a mount disposed by another's observer makes no new one (withQueryClient).
SessionsAreCurrent ==
  /\ Quiet => \A m \in Mounted : client[m] = session
  /\ \A m \in Mounted : \E i \in DOMAIN observers : observers[i] = Session(m)

\* Outside a pass, the page shows the present user's preference: the stored one, or what was cached
\* for that user while it loads, failed to or cannot be read, however sessions, loads, saves and the
\* system's preference interleave (attachStoredTheme).
ThemeIsTheUsers ==
  StoredTheme /\ Quiet =>
    /\ area.of = state.user
    /\ painted = state.theme
    /\ state.theme = Resolve(Selected(area, state.user))

\* Only what the backend confirmed is cached, and for its own user (attachStoredTheme).  A user who
\* has no row has the default.
CacheIsConfirmed == \A u \in Users : cache[u] \in confirmed[u] \cup {"system", Unset}

Consistent == TypeOK /\ SessionsAreCurrent /\ ThemeIsTheUsers /\ CacheIsConfirmed

\* app-mount.tsx:24: "The snapshot fields are read fresh each time, so a route callback sees
\* current values." Of a router that has the present session's client.
CallbacksSeeCurrent ==
  Quiet => \A m \in Mounted : router[m].client = client[m] => router[m] = Context(m)

\* While effects follow their render at once, every part of the page goes by the present session.
PageIsCurrent == Consistent /\ (LateEffects \/ CallbacksSeeCurrent)
=============================================================================
