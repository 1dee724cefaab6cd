# TLA+ verification of the micro-frontend framework

This directory holds TLA+ models of the framework's runtime, the TLC configurations that
model-check them on small instances, and proofs, checked by TLAPS, that the most important of
their properties hold for every value of the constants.

Paths below are relative to `packages/mfe-runtime/src/` unless they start with `packages/` or
`apps/`.

## 1. Inventory of the system

The repository is a TypeScript framework that lets a shell page load micro-frontends (Apps and
Widgets) at run time. The contracts are in `packages/mfe-core`, the framework-neutral logic in
`packages/mfe-runtime`, the chat client in `packages/mfe-agent`, and the bindings to React and
Angular, the build plugins, the developer tools and the shell around them. Everything runs on one
JavaScript thread per tab: the concurrency is that of promises, timers, abort signals, events of
other tabs, and user code called back in the middle of an operation.

| Component | State | Operations | Interacts with | What is hard | What makes it correct |
|---|---|---|---|---|---|
| User storage (`storage/user-store.ts`) | rows and revisions per key, the save in flight, the save queued, load phase, generation | `read`, `save`, `retry`, `retryLoad`, `replace`, `reset`, `dispose`, `whenLoaded` | a backend through `UserStorageAdapter`; other tabs through its `sync`; definition resolution waits on `whenLoaded` | late answers of a previous user, late sync states, aborted saves that never settle, hand-over of queued saves | last write wins in call order, every `save()` settles, nothing of another user, no value moves back, an up-to-date state converges |
| Mounting (`mount/mount-controller.ts`, `mount-lifecycle.ts`, `mount-definition.ts`, `deadline.ts`) | published status, attempt number, the attempt being attached, teardowns, disposal promise | `start`, `retry`, `fail`, `update`, `dispose`; the definition's `load`/`mount`/`dispose` | container loader, mount context, definitions, parent mounts through signals | deadlines with late settlements, disposal while attaching, failures before the mount resolves, calls from inside `mount()` | status matches the page, attempts do not overlap, one teardown per surface, signal outlives the definition, everything settles |
| Mount context (`mount/mount-context.ts`) | token, abort controller, scope roots | `abort`, `dispose` | removes the mount from every scoped store | order of teardown | stores first, then the signal, after the definition |
| Actions (`actions/action-executor.ts`, `action-registry.ts`) | registered actions, flights per action, promise chain of agent writes, approver | `register`, `update`, `remove`, `removeMount`, `execute`, `setApprover`, `dispose` | App code (`execute`, `canExecute`), host policy, the chat's approval card, audit sink | the page changes during an approval or in the queue, deadline against a late result, runs given up while queued | agent writes take turns, nothing starts that is gone, refused or stopped, one result per run, the queue drains |
| Container loading (`loader/`) | loads in flight and resolved per entry, containers registered or needing a reload | `load`, `preload`, `clearCache` | Module Federation runtime, mounting | shared loads with callers that leave, expired loads that settle late | one load per entry, no load over an unknown outcome, callers leave without harm |
| Browser storage (`storage/storage-store.ts`, `service.ts`, `envelope.ts`, `session-identity.ts`) | an entry per bound key of `localStorage`/`sessionStorage`, the last failed write of each | `bind`, `set` with values and functional updates, `reset`, `retry`, `handleStorageEvent`, migration on read | other tabs, other builds, components | events older than own writes, two tabs updating one key, storage full or blocked | subscribers see what their tab holds, updates add up, newer records stay |
| Navigation (`navigation/boundary-navigator.ts`, `packages/mfe-react/src/boundary-history.ts`) | blockers, negotiation flag, deferred navigation | `requestNavigation`, `push`, `replace`, `go`, `registerBlocker`, `clearBlockers` | mounts' blockers (asynchronous), the browser's history | requests and pops during a negotiation | one negotiation at a time, no blocker is skipped |
| Authentication (`auth/`) | cached token, renewal in flight | `getAccessToken`, the authenticated `fetch` | the shell's `getToken` and `refreshToken`, servers | renewals shared by requests, retry after 401 | at most one renewal and one retry, a rejected token is not offered again |
| Agent context (`agent-context/agent-context-store.ts`) | selections and suggestions per mount | `register`, `update`, `suggest`, `read`, `removeMount` | mounts, chat | registrations that outlive mounts | only live mounts are described |
| Breadcrumbs (`breadcrumbs/breadcrumb-store.ts`) | contributions and overrides per mount, the trail | `registerMount`, `update`, `remove`, `contribute`, `setOverride`, `clearOverride`, `notifyNavigation`, `removeMount` | the mounts' adapters and routers, components with crumbs of their own | two components of one mount, navigations between their effects, adapters that clean up late | the trail is that of live mounts and of components that are there, and nobody's crumbs are replaced |
| Shell state and theme (`shell-state/`, `theme/stored-theme.ts`, `observable.ts`) | user, groups, theme; observers; the cached preference of each user | `apply`, `observeTransitions`, the stored theme's `read` and `apply` | the runtime, every mount's session, React routers, user storage, the operating system | passes nested in passes, mounts that go in the middle of one, loads and saves across a change of user | when the page is quiet every part of it is of the present session, and a user's theme is only that user's |
| Angular mounting (`packages/mfe-angular/src/mount/`) | the generation of a mount's application, its signal, the application in use | `mountApp`, `runMountApplication`, `dispose` | the shell's session, Angular's asynchronous bootstrap, the host | sessions that change while an application is created, rendered or waited for | one application on the page, none leaked, the host hears of the present one's failures |
| Telemetry (`telemetry/`) | workflow runs with participants, spans, a budget of open spans per mount | `start`, `step`, `headers`, `succeed`, `fail`, `leave`, disposal | mounts that share a run, a provider that may throw | spans of one mount in a run that others go on with | no span is left open, none ends under those who go on, budgets do not drift |
| Action palette and shortcuts (`actions/action-registry.ts`, `shortcut.ts`, `shortcut-scope.ts`) | registrations, ids, the shortcuts that may fire, the published entries, the keys pressed so far | `register`, `update`, `remove`, `removeMount`, `evaluateAll`, `handleKeyDown` | the host page, boundaries of Apps, fields that take text | shortcuts judged once and kept, ids after renames, sequences of keys over changes | a key has one owner, an id names one action, the palette is what is registered |
| Registry, overrides (`registry/`, `overrides/`) | parsed entries | parsing, validation | loader | pure functions | unit tests |
| Runtime assembly (`runtime/`) | the components | `create`, `resetUser`, `dispose` | all | order of disposal | nothing runs after it |
| Agent chat (`packages/mfe-agent/src/chat-client.ts`) | turn queue, conversation generation, open interrupts | `sendMessage`, `reload`, `editMessage`, `stop`, `clear`, `requestApproval` | agent backend, actions | stops and answers during a turn | every request is paired with results, answers reach the backend, a stop stops |
| Sign-in (`apps/shell/src/auth/`) | the id of a tab and its session in `sessionStorage`, the Web Lock on the id, the renewal in flight | `claimTab`, `restoreSession`, `authenticate`, `getAccessToken`, `signInAfterSessionLost` | the browser's tabs, a provider that rotates refresh tokens | duplicated tabs, reloads in the middle, answers that are lost after the provider has rotated | no two open tabs use one session, no retired token is shown, everybody gets in or out |

The adapters, build tools, lint rules, developer tools, apps and examples keep no protocol state
of the runtime and are listed in `PROJECT.json` with the reason they are left out.

## 2. Plan

Done, in order of importance:

1. **UserStore** – the store with its adapter's calls in the air. Proved.
2. **Mount**, which implements the abstract **Lifecycle** of a handle. Proved.
3. **Actions** – runs, approvals, the queue of agent writes. Proved.
4. **ContainerLoader** – shared loads over the federation loader. Implements **SingleFlight**. Proved.
5. **Session** – shared token renewal and the one retry of a request. Implements **SingleFlight**.
   Proved.
6. **Navigator** – negotiation with blockers, reports held back, the host around it. Proved.
7. **BrowserStorage** – tabs with storage events in the air, migrations, failed writes. Proved.
8. **ChatClient** – a conversation with its backend. Proved.
9. **SignIn** – tabs, their sessions and the token source of the shell. Proved.
10. **ShellState** – passes over observers, and the stored theme that changes the state from one.
    Proved.
11. **AngularApp** – an Angular mount's applications by session. Proved.
12. **Breadcrumbs** – the trail with its overrides. Proved.
13. **Workflows** – runs that mounts share, with their spans. Proved.
14. **ActionRegistry** – ids, palette and shortcuts. Proved.

Left, in this order:

* The composition of Mount with ContainerLoader and `whenLoaded()` (`resolve-definition.ts` awaits
  both under one deadline), and nested mounts, with `dispose()` that is called from inside itself.
* AgentContext, and the order in which the runtime disposes its components.

Every module declares its parameters as `CONSTANTS` with a named assumption, has one action per
operation or continuation, and uses no `RECURSIVE` operator, so that it can be proved about.

An MC module gives one or several modules the values of TLC. Where it holds several, they share no
variable: its `about` says, from the first state on, which of them a behaviour is about, and the
others rest. That is how the modules are checked under one configuration, not a claim about how the
components interact; what a component needs of another is part of its own module (the adapter of
UserStore, the observers of ShellState, the routers of Breadcrumbs).

## 3. The modules and the code

A definition carries the name of the method it stands for where there is one. `PROJECT.json`,
"map", names its lines. Definitions whose comment says "Fault" are wrong versions of the code kept
next to the right one: putting one in its place must break the property it is listed with under
"mutants", which shows that the property depends on that code.

### UserStore

One `UserStorageStore`, the adapter's calls that have not settled, and the backend.

* `phase`, `generation`, `disposed` are the private fields; `row`, `seen`, `sending`, `queued`,
  `failed` are the fields of every `Slot`. Keys stand for owner and key joined by `slotKey()`.
* A generation stands for the signed-in user. That is the worst case: `reset()` for the same
  user is less.
* `flights` are `adapter.save()` calls. One of them can be at the adapter, have arrived at the
  backend (`SaveArrives`), and then be answered, rejected (a lost answer included) or, after
  `reset()` or `dispose()` aborted it, given up (`SaveAbandoned`), which settles it whatever the
  adapter does. The handling of an answer and `#finish()` are two microtasks in the code, with
  nothing of the store able to run in between, and one step here.
* `load` has an entry per user since the aborted load of one may still be out during the next.
* `polls` are states read for `sync` and not delivered.
* `gate` is where each caller of `whenLoaded()` is in its loop. A load that was replaced never
  holds it (its abort settles the promise), hence `FollowLoad` is always enabled.
* The backend and the adapter (the last section of the module) follow the `UserStorageAdapter`
  contract in `packages/mfe-core/src/storage.ts` and the in-memory adapter in
  `testing/memory-user-storage.ts`: revisions of a key grow with every write, a state read before
  a save that has resolved is dropped, other tabs write at any time, rows may be rewritten at a
  newer schema version at the same revision. A rejected save may have been applied, but is not
  applied after the rejection.

Left out: listeners and their re-entrance, diagnostics, freezing and parsing of values.

### Mount and Lifecycle

`Lifecycle` is the abstract specification: the status and attempt of a `MountHandle` as
`MountLifecycle` promises them. `Mount` is one mount with its `MountController`,
`MountLifecycle`, `DefinitionAttempts` and deadlines.

* `run[a]` is the `#runAttempt()` call of attempt `a`, `attach[a]` its `attach()` call,
  `mounting[a]` the definition's `mount()` promise, `tear[a]` its `#tearDown()`. They go on
  independently: an attempt that timed out is `"done"` while its `mount()` is still pending.
* `current` is `#attempt` of `DefinitionAttempts`; it is assigned only when `mount()` has
  returned its promise. Between `Open` and `Opened` the definition's synchronous code is on the
  stack: nothing else runs (`Idle`), except what the definition itself calls, and what the host
  calls from there when `HostReenters`.
* The mount deadline is `MountTimesOut`, the load deadline one of the ways of `LoadFails`, the
  dispose deadline `DisposalTimesOut`.
* `cleanup()` of the code calls `Promise.allSettled` on the teardowns running at that moment:
  `awaited`.

Left out: the published input snapshot, the delivery of outputs (it has the same fence as
failures), nested mounts, the stores scoped to a context, `dispose()` called from inside
`dispose()`.

### Actions

The runs of `ActionExecutor` and what the registry does to them.

* A run is at `"asking"` while its approval card is open, `"queued"` or `"running"` once it has a
  `Flight`, `"over"` at its end. `result` is how the flight ended; a run may be `"running"` with
  a result, since `execute()` may go on after it was given up.
* `lane` is what the call came to at `#run()`: a user's run, an agent's that starts at once (a
  read, or `parallelSafe`), or one that queues. It depends on the input, the registration at that
  moment and the host's policy, so any call may take any lane.
* `writes` is the promise `#writes`, as the set of runs it waits for; `ahead[c]` is the `previous`
  of run `c`. `Serialize` is `previous.then(() => result)`: the fault `SerializeBehindLast`
  is the simpler `#writes = result`.
* `Remove` is `remove()`, `removeMount()` and `dispose()`, each of which releases the actions
  it takes. An action registered again is another object, and the registry compares objects.
* `allowed` is what `canExecute` and the agent placement say now. It changes at any time.

Left out: denial notices, audit records, inputs and outputs (a value that fails its schema is
`"failed"`); names, shortcuts and published entries are ActionRegistry.

### SingleFlight, ContainerLoader and Session

`SingleFlight` is the abstract specification of shared asynchronous work: for each key one flight
at a time, callers that join it, each answered by the flight it joined after that has landed, and
callers that leave without effect. It stands for no code of its own. `ContainerLoader` implements
it with registry entries as keys and attempts as flights, `Session` with one key and renewals as
flights.

In `ContainerLoader`, `resolved` and `inFlight` are the maps of `SharedContainerLoader`,
`registered` and `reloadRequired` the sets of the federation loader.

* `stage[a]` follows the promise chain of an attempt: its load or its deadline settles it, then
  the `then` publishes, then the `finally` forgets, then each caller's race resolves. Other callers
  may come between any two. `remote[a]` is the runtime's `loadRemote()`, which nobody can cancel.
* `FederationLoad` is the federation loader's `load()` up to its first wait, which runs inside the
  call that starts the attempt.
* `AssetsFail` is the Angular adapter's page assets failing while the container still loads: the
  attempt is over, its signal is not aborted, and the runtime goes on unobserved.

Left out: a `preload` that the inner loader implements itself, and the promise of page assets that
loads of different entries share.

In `Session`, `token` and `inFlight` are the two variables of `createSessionTokenService`.
`stage[r]` is the renewal's promise, `shell[r]` what the shell's auth library does for it, which
goes on after the deadline. `phase[q]` is where a request is in `sendToApi()`. `Quiet` is the rule
of JavaScript that a response and a timer are handled after the microtasks before them. The backend
may stop accepting any token at any time, and another tab may put a new one into the library's
store.

Left out: which origins are sent the token, credentials of the caller, traces.

### Navigator

`known`, `negotiating` and `deferred` are the private fields of `BoundaryNavigator`, `later` the
microtasks of `#tellLater()`, `asking` the rest of the blockers of the negotiation in
`requestNavigation()`. `at[m]` is where the router of App `m` believes the page to be.

* The host is the shell's TanStack router: a link asks first and moves afterwards (`HostClicks`,
  `HostMoves`), a browser back has moved the page when the host asks, and a refused one is taken
  home again (`BrowserGoes`, `BrowserReturns`). `HostAnnounces` is the effect that calls
  `announce()` once the host has rendered the move.
* `Overlapping` names what may begin while the host is in the middle of a navigation; see sections
  4 and 7.
* `left` are the mounts that unmounted after the negotiation collected their blockers. One that is
  mounted again registers a new blocker; the one still to be asked is that of its earlier life.
* `deaf` says that the blocker now asked was unmounted before it was asked. An App's delegate
  confirms through `confirmUnlessDisposed()` and answers all the same; that of a Widget with
  `useNavigationBlock()` does not (`Agrees`, section 7).

Left out: the index bookkeeping of the boundary history, the unload prompt, listeners and commits
that throw.

### BrowserStorage

One key, in several tabs. `disk` is the stored record, `events[t]` the storage events on their way
to tab `t`, `entry[t]` its `KeyEntry`, `failed[t]` the write its write error is about. A value is
the set of functional updates it contains, so that a lost update can be seen.

* An operation of the store is synchronous and is a function from what it may change to what it
  leaves (`Refreshed`, `Attempt`, `Heard`); the actions are the calls of the service and the events.
* `Mount` and `Unmount` are a React component that subscribes; `Write` and `Peek` also take a
  binding of their own and release it at once, as the imperative calls do.
* The browser orders the events of one tab, and may be late with them. A write of the same record
  sends none.

Left out: other keys, declarations that disagree, schemas that reject, session identity, disposal.

### ChatClient

The history is the user's messages, the calls and their results. `turn` is the turn in flight with
the local variables of `#turnLoop()`; `generation` is the counter `stop()` bumps, and a turn of an
old generation is `Stopped`. `pending` is the agent client's `pendingInterrupts`, `cards` the
backend's questions that are open, `approving` the call a page's question is about.

* The backend is any that keeps to AG-UI: it streams calls and results into the history, and ends a
  run with calls open for the page, with an interrupt on each open call, or cancelled. It answers
  what a run resumes before it ends that run.
* `Proceed` and `Continue` are the loop over the calls to run and the end of a round. A call to an
  unknown tool is answered in the same step.
* The conversation may be stopped, cut back, cleared or replaced between any two steps.

Left out: the view of the messages, the limits of the history sent, options of a turn.

### SignIn

Each tab has a page (`page` says how far it has booted), its `sessionStorage` (`id`, `session`) and,
while the page lasts, the lock it holds (`held`) and its token source (`calls`, `rejected`,
`inFlight`, `lost`). `posts` are renewals on their way to the provider and back.

* `Claim` is `claimTab()`, `Restore` and `DropCopy` `restoreSession()`, `Redeem` the sign-in
  callback, `Redirect` and `RemoveLost` `auth/sign-in.ts`. `Ask` and `Read` are the two halves of
  `getAccessToken()` around its `await`, `RenewOnce` the renewal that callers share. A caller whose
  signal aborts before that `await` is over (`"leaving"`) still reads, may start a renewal, and then
  does not wait for it; one that aborts later leaves at once (`Leave`).
* The browser duplicates, reloads, closes and reopens tabs at any time and frees the locks of a page
  that goes (`Unload`). The provider rotates refresh tokens and ends a family when a retired one is
  shown (`Answer`); the network loses requests and answers (`Break`). These are external.
* `CopyRaces` lets a page go while a copy of it is still to be told from it; section 7.

Left out: configuration, return addresses, claims, the avatar, blocked storage, a session without a
refresh token, providers that do not rotate.

### Breadcrumbs

`contributions` is the store's map by depth, `trail` what `#compose()` published, `handles` the
registrations adapters still hold of each mount, `mounted` the components whose effects have not been cleaned up.
Items are numbers: two publications with equal numbers are equal trails. `Publish` and `Navigate` are
what an App's router makes of it (`packages/mfe-react/src/app-mount.tsx`), `Contribute` and `Leave` a
component with `useBreadcrumbs()`. A mount may be removed, and registered again, before the adapters
of its earlier lives clean up: their handles update and remove nothing (`Live`).

`RegisterMount` is enabled only when the mount has no contribution, which `registerMount()` does not
check. The adapters see to it: React runs the cleanup of an effect before the effect runs again, and
Angular registers once an application, after the abort of the one before has torn that down. A second
registration over a live one would take its place with nothing to show and compose nothing.

Left out: the host page's own crumbs, two mounts at one depth.

### AngularApp

`generation`, `disposed`, `mounted` and `application` are the variables of `mountApp()`; `stage[g]`
follows `runMountApplication()` of a generation and `mountApp()`'s continuation of it; `creation[g]`
is Angular's `createApplication()`, which nobody can cancel; `waitsFor` is the `await` of
`latestApplication()`. `RenderChangesSession` and `RenderDisposes` are a component that changes the
session, or has the mount disposed, while it renders. What an abort destroys runs its `ngOnDestroy`
hooks within the call of `start()`: they may change the session again (`SessionChanges` with `n = 2`,
of which only the inner call starts an application) or have the mount disposed
(`SessionChangeDisposes`). `ForeignDestroy` is an application destroyed from inside.

Left out: providers, styles and the router of an application; code of the definition that changes the
session from the few synchronous lines between the check after `render()` and the listener of the
signal (`mount-providers.ts:269-305`); more than one further change within one abort.

### ShellState

`state` is the snapshot, `calls` the stack of `apply()` calls in progress, each with the observers it
has still to call, `observers` the set in insertion order.

* Observers are the runtime (`HostHears`, which resets the user area), each mount's session
  (`SessionHears`, which retires its client and may dispose nested mounts within the call) and each
  React router (`RouterHears`). A mount that goes out of a pass it was copied into is still called.
* The stored theme is `Read`, which every change of the area calls and which calls `apply()` again
  from inside. A stored value that the key's schema refuses (`Invalid`) is not applied: the theme
  stays what it was while the area loaded. The area is what UserStore promises, for one key.
* `madeFor` is the session a router was made for, which says when the keyed provider replaces it
  (`Replaceable`). Its context alone does not: a theme pass between a change of session and React's
  commit gives a router that is about to go the next session's client (section 7).
* Field listeners run when the observers have (`Return`). `LateEffects` lets React run an effect some
  time after the render it belongs to.

Left out: the display name, token refreshes, the pre-paint script, observers that throw.

### Workflows

`run` is the page's map of open runs, `span` every span that was started, `budgeted` the `#open` set
of each mount's tracer, `gone` the disposed mounts. Everything is synchronous; a provider may fail to
start a span at any time (`StartSpan`). `Dispose` is `dispose()` of a mount's telemetry, which leaves
all the runs it takes part in.

Left out: attributes, records, spans of requests, the report of colliding names.

### ActionRegistry

A slot is one component's registration. `action[s]` is its `RegisteredAction`: status, name, id,
declared shortcut, the one that may fire (`usable`) and the published entry. `published` is the
snapshot.

* `Register`, `Update`, `Unregister`, `RemoveMount`, `EvaluateAll` are the methods; a change of the
  host page's shortcuts judges every container's again (`RefreshContainers`).
* An id is a name with numbers at its end, so that `FreeId` can meet names that end in numbers.
* `Type` is a chord in a text field or outside, `KeyDown` the dispatch with the sequence so far;
  `Pause` is its timeout. `recent` (the chords really typed) and `fired` are history.
* `PageMoves` takes the page into and out of the boundaries of Apps.

Left out: schemas, collision and refusal reports, disposal of the registry, key layouts.

## 4. What the runs check

| Run | Instance | States | Shows |
|---|---|---|---|
| UserStoreSaves | 1 key, 1 value and its removal, 3 `save()` calls, 1 change of user, 1 caller of `whenLoaded()`, with fairness | 66,786 | `Consistent`, `CallsAreHonoured`, `StoredInCallOrder`, `EveryoneIsAnswered` |
| UserStoreLatePoll | 1 key, 2 sync states delivered in any order | violation | `OnlyRemovedRowsGo` fails, section 7 |
| UserStoreSync | 1 key, 2 schema versions, 2 saves, other tabs up to revision 3, 2 sync states delivered in the order read | 537,861 | `RowNeverGoesBack`, `SyncIsSound` |
| Mounting | Mount: 2 attempts, 2 sets of inputs. ContainerLoader: 2 entries of 1 container, 2 callers, 2 attempts, 1 cleared cache. With fairness | 117,880 | `Consistent`, `AttemptsDoNotOverlap`, that Mount implements Lifecycle (`KeepsLifecycle`), `MountsSettle`; that the loader implements SingleFlight (`LoadsAreShared`), `ModulesAreSafe`, `EveryLoadSettles` |
| Agent | Actions: 1 action, 3 calls of users and agents. ChatClient: 2 messages, 2 calls, 2 runs a turn, 1 stop. With fairness | 241,088 | `Consistent`, `StartsOnlyIfWanted`, `AgentRunsEnd`; `ChatIsConsistent`, `TurnsAreWhole`, `StoppedTurnsEnd` |
| Shared | Workflows: 3 mounts, 2 runs, a budget of 2, 3 spans. Breadcrumbs: 2 nested mounts, 3 components, 2 navigations, 3 registrations. SignIn: 2 tabs (symmetric) with Web Locks, 1 caller, 1 family of 2 tokens. BrowserStorage: the 2 tabs, of one build, with 1 component each, records of three versions, 2 updates, 1 event waiting per tab | 323,933 | `Consistent` (of Workflows), `RunsOutliveMounts`; `TrailIsKept`; `SessionsAreOwned`; `TabsAreCurrent`, `UpdatesAreKept` |
| Adapters | AngularApp: 4 sessions. Navigator: 2 nested Apps, 3 places, 2 reports waiting; mounts may come and go in the middle of a negotiation, pushes and back only outside of one (section 7). With fairness | 47,214 | `Consistent` (of AngularApp), `OnlyTheLatestFails`, `ApplicationsSettle`; `NegotiationsAreSafe`, `EveryoneArrives`, `NegotiationsEnd` |
| NavigatorDeaf | 1 App and 1 Widget that blocks, 2 places, with fairness | violation | `NegotiationsEnd` fails, section 7 |
| Chrome | ActionRegistry: the host page and two nested Apps of one definition, names that end in numbers, a shortcut and a longer one it begins. ShellState: 2 users (symmetric) and nobody, 3 sessions of which the first is nobody's, a widget in an app; with the stored theme and prompt effects, and with a theme the shell sets and late effects; what a user has stored may be unreadable | 1,594,058 | `Consistent` (of ActionRegistry), `KeysHaveOneOwner`, `IdsAreUnique`, `EntriesStay`; `PageIsCurrent` |
| ShellStateLate | the same ShellState, with effects some time after their render | violation | `CallbacksSeeCurrent` fails, section 7 |
| SignInCopies | 2 tabs, 2 families, pages that go while a copy is told apart | violation | `CopiedSessionIsNeverUsed` fails, section 7 |
| Authentication | Session: 2 requests, 2 renewals, 3 tokens. SignIn: 1 tab without Web Locks, 2 callers, 2 tokens. With fairness | 211,184 | that Session implements SingleFlight (`RenewalsAreShared`), `TokenIsKept`, `EveryWaitEnds`; `EveryoneGetsOn` |

Several names stand for a conjunction, whose parts are definitions of the module with a comment each:

* `Consistent` is the type invariant of a module with the invariants that say its parts agree. Of
  UserStore: `OneFlightPerKey`, `CurrentUserOnly`. Of Mount: `SurfaceMatchesStatus`,
  `NothingLeftBehind`, `LatestInputsShown`, `TeardownsInOrder`. Of Actions: `WritesTakeTurns`,
  `RunsBelongToLiveActions`, `ToldWhenGivenUp`. Of Workflows: `SpansAreTheRuns`, `RunsHaveSomebody`,
  `BudgetIsExact`. Of AngularApp: `OnlyTheLatestIsShown`, `NothingFailsSilently`. Of ActionRegistry:
  `PaletteIsCurrent`. `TabsAreCurrent`, `ChatIsConsistent`, `SessionsAreOwned` and `PageIsCurrent`
  are the same for BrowserStorage, ChatClient, SignIn and ShellState; `TrailIsKept`, `TokenIsKept`,
  `ModulesAreSafe` and `NegotiationsAreSafe` add action properties to it.
* `CallsAreHonoured` is `PromisesAreKept` (nobody's promise is lost or resolved early) and
  `LatestCallShown`; `SyncIsSound` is `OnlyRemovedRowsGo` and `FreshStateConverges`; `TurnsAreWhole`
  is `RequestsArePaired`, `StopsAreHeeded` and `AnswersAreKept`; `MountsSettle` and
  `ApplicationsSettle` are the liveness of Mount and of AngularApp.

Why the bounds are enough. Three saves of a key are one in flight, one queued and one that replaces
the queued value; slots of different keys share nothing but the user, which the theorems show for
any set of keys. One change of user leaves calls of the old generation out during the new one, and
all older generations are treated alike. Two sync states in the air are the least that can be
delivered in the wrong order. A second attempt of a mount starts while the teardown of the first
runs, and no step distinguishes a third. Three writes are the least in which one can end in the
queue between two others; runs of different actions meet only there. Two entries of one container
let a load of one meet what became of a load of the other; of two callers one can leave and the
other stay, or come late. Two requests are refused together, and of two renewals one can hang or
fail while the other answers. Two nested Apps are the least that are asked in an order. Two tabs
with an event each hold one from before a write of their own, and none is overtaken by another. Two
calls in a run are the least of which one is answered and one is not, and a second run is the least
that resumes. Three mounts are one that leaves a run, one that goes on and one that joins; a budget
of two is one span that counts and one more. Two components of one mount compete for an override,
and a third is in the other mount; three registrations let either mount come again. One family and
two tabs are an original and its copy, and a second token is the least that retires one. Four
sessions leave one application adopted, one in creation, one aborted and one waited for. Three
sessions are nobody's, one user's, and the other's or nobody's, when the cache and a late save of
the first user are still there. Two Apps of one definition compete for a number, and a name that
ends in one meets it.

What the runs leave to the theorems or out. Chrome has no Widgets, so that the refusal of a Widget's
host-scope action rests on `PaletteStaysCurrent`, which holds for any set of them. With two renewals in
Authentication, `RefreshedOncePerToken` (a part of `TokenIsKept`) has no third renewal to go wrong;
`RefreshesAreNotWasted` has no such bound. Shared has tabs of one build and pages that stay until
their copies are told from them: of records of newer builds only `TabsShowWhatIsStored` speaks, of
copies that meet a reload of the original the run SignInCopies.

The bounds are constants (`Max...`) that occur only in guards; the theorems of section 6 hold for
all of their values. Deadlock is not checked: a disposed mount, a store, a page or a conversation
with its bounds used up has nothing left to do, and rests in a run that is about another module. What
must not stop is stated as liveness.

## 5. Fairness

Safety properties assume none. For liveness:

* A continuation of a settled promise is a microtask and runs: weak fairness of the actions that
  are continuations (`Publish`, `Forget`, `Deliver`, `Over`, `Wake`, `RunMicrotask`, `BeginTurn`,
  `TurnContinues`, AngularApp's `Continuation`, SignIn's `Boot`, `Read` and `Settle`). In
  `whenLoaded()` a settled load opens the gate before any later task can start another load; since
  the model lets `RetryLoad` come in between, `LeaveWhenLoaded` has strong fairness.
* A timer fires: weak fairness of `MountTimesOut`, `LoadFails`, `DisposalTimesOut`, `TimesOut` and
  both `Expire`.
* The storage adapter answers every call whose signal has not been aborted. It need not answer
  others.
* Navigator: the host and the browser finish what they began, and the user answers every question
  of a mount that is there (`Answer`). Nobody need edit, push or click.
* ChatClient: a run that finished or was aborted settles, and a tool settles, as it does at the
  latest when its signal aborts and `ActionExecutor` ends the call as cancelled. The backend need
  not send anything and the user need not answer anything.
* SignIn: the browser grants or refuses a lock it is asked for, and a request to the provider is
  answered or fails. `EveryoneGetsOn` leaves out a user who reloads the page for ever.
* AngularApp: continuations only. An application that is never created holds up nobody but its own
  session, which is what `MountSettles` says.
* Nothing is assumed of definitions, of `execute()`, of the federation runtime, of the auth
  library, or of backends: all of them may hang for ever. `TeardownsEnd` alone assumes, in the
  property itself (`DefinitionsStop`), that a `mount()` whose signal aborted and a definition's
  `dispose()` end, and shows that no teardown then waits for something its own abort should end.

Breadcrumbs, Workflows, ActionRegistry and ShellState are synchronous and have no liveness to state.

## 6. What is proved

TLAPS checks these for every value of the constants, from the named assumption of the module and, for
five theorems, hypotheses about the environment, which the theorem states and without which the code
is known to break the property.

**UserStoreProofs.** `TypeCorrect`; `SavesGoOneAtATime`; `OnlyTheCurrentUsersRows`;
`StoreIsConsistent` (`Consistent`, from these three); `RowsNeverGoBack` (`RowNeverGoesBack`). The
first ones follow from `FlightInv`: types, `NoFutureFlight` (a call in the air belongs to this
generation or an earlier one, so that `reset()` starts with nothing of its own in the air) and
`OneFlightPerKey` itself, which must say both that `sending` implies a flight and that a flight
implies `sending` for `#finish()` to hand over exactly one save. The others add `RowsKnown` (rows
carry their user wherever they are), `HeldIsNewest` (`seen` is at least the revision held) and
`AnswerIsNewer` (the answer to a save has a revision above the row it replaced). None of these
depends on the order in which an adapter delivers states.

`CallersAreTold` (`CallsAreHonoured`) and `SavesArriveInOrder` (`StoredInCallOrder`) rest on
`CallInv`: calls wait in the save that carries the latest one's value (`FlightsOfCalls`,
`QueuesOfCalls`), a user has one save of a key in the air, aborted ones included
(`OneFlightPerUser`), and what is queued was called after what is in the air, which was called after
what the backend has (`CallsInOrder`).

`SyncTakesNothingTooMuch` (`SyncIsSound`) has the hypothesis `PollsInOrder`: the adapter delivers the
states in the order it read them. Without it the code breaks the property (run UserStoreLatePoll,
section 7). Its invariant, `SyncInv`, says of every row, in the store, in an answer or in a state on
its way, that it is the backend's unless the backend has been written to since (`RowsFit`), and of a
key without its row, that the backend has gone past the revision seen (`RemovedIsGone`, which is an
invariant only because it speaks of the states on their way as well, and of their order).

**MountProofs.** `AttemptsNeverOverlap` and `ImplementsLifecycle`: every step of Mount is a
step of Lifecycle or leaves status and attempt alone, also when the host calls back from inside
`mount()`. The invariant `LifecycleInv` adds to `AttemptsDoNotOverlap` that an outcome
belongs to an attempt and that `dispose()` marks the status at once; with these, a continuation
that passes `isCurrent()` finds the status still pending.

`ThePageIsWhatIsSaid` (`Consistent`) has the hypothesis `~HostReenters`; with it the code leaves a
surface behind (section 7, `mount-controller.ts:205`). `MountInv` follows each attempt: which stages of
`run`, `attach`, `mounting` and `tear` can meet (`Stages`), that what is mounted was given the latest
inputs (`Shown`), that a failure noted is the attempt's own, and that a disposal waits for every
teardown that has begun (`DisposalWaits`).

`PagesShareLoads` (`LoadsAreShared`) and `PagesAreSafe` (`ModulesAreSafe`) state what
ContainerLoaderProofs shows of the loader for the pages of MCMounting.

**ContainerLoaderProofs.** `CallersGetOneCopy` (`CallersAgree`), `PagesRunOneCopy` and
`LoadsImplementSharing`: the loader implements SingleFlight, each entry a key and each attempt a flight
that lands when its promise chain is over. An attempt is in the map exactly until then
(`InFlightIsOpen`), an attempt starts only when what the earlier ones of its entry loaded has been
dropped (`EarlierAreGone`), and a caller is given what an attempt of its own entry loaded
(`CallersAreMatched`).

**SessionProofs.** `TypeCorrect`, `RefreshesAreNotWasted` (`RefreshedOncePerToken`), `TheTokenIsKept`
(`TokenIsKept`) and `RenewalsImplementSharing` (`RenewalsAreShared`). Only the last renewal can
be in the air (`OneInTheAir`), the token is what the last one that ended came to, nothing if it failed
(`TokenIsLast`), and each renewal is to get away from what the one before it gave, with tokens that
grow (`TokensGrow`): that is why a token is refreshed a second time only after a failure between.

**ActionsProofs.** `TypeCorrect`, `WritesRunInTurn`, `NothingRunsForTheGone`, `GivenUpRunsAreTold`;
`RunsAreConsistent` (`Consistent`, from these); `OneResultPerRun`; `OnlyWantedRunsStart`
(`StartsOnlyIfWanted`). The invariant that makes the turns inductive is `LineInv`: the queue's promise
waits for every write in line, and a write waits for every one that entered before it. It fails for
the shorter `#writes = result`. `OneResultPerRun` is an action property that follows from the type
invariant, which says that nothing with a result still waits; `OnlyWantedRunsStart` needs that no
stopped call stays in the queue (`NoneStoppedWaits`): what leaves it is asked only whether it has
ended.

Of ChatClient, `TheChatTellsTheTruth` (`ChatIsConsistent`) and `TurnsAreGivenWhole` (`TurnsAreWhole`);
the second has the hypothesis `~CancelsMidway` (section 7, `chat-client.ts:473`). `ChatInv` adds to the
first what a turn may hold in each phase (`Shaped`) and that what an interrupt raises is pending.
`PairInv` says where a call that the backend does not answer may be open: while its run streams, while
its tool runs, or in line behind that tool (`toRun`), and never before a message of the user
(`PairedBefore`, without which a turn that is cut back to that message would open it again). The
history is treated as a sequence to which each handler adds some entries once each (`Adds`), so that
what these lemmas need of a history is proved once for all handlers.

**SharedProofs.** Of Workflows, `NoSpanLeaks` (`Consistent`) and `DisposalSparesSharedRuns`
(`RunsOutliveMounts`). `SpansAreTheRuns` is an equation between sets, and is proved span by span and
run by run; to be inductive it needs besides that a closed run has let go of its spans and that a
run's step is not its root (`ClosedIsEmpty`).

Of SignIn, `TabsOwnTheirSessions` (`SessionsAreOwned`), for any number of tabs, with the hypotheses
`HasLocks` (without Web Locks the code cannot tell a copy, and says so) and `~CopyRaces` (run
SignInCopies, section 7). A lock is held from a page's claim until the page goes, and of the tabs with
one id at most one has claimed it (`LocksInv`); a page has one renewal under way, with the token in its
tab (`PostsInv`). Two tabs that have one session, or may yet get it by a renewal, have one id, or one
of them knows that it is a copy (`FamiliesInv`), so that the one with the lock is the only user
(`OneOwner`). That no token is shown twice has to be said of tabs that are closed or still loading as
well: the tab that has the lock of its id, or will get it, has the provider's present token or its
answer on the way (`TokensInv`). A new id is free because there are more ids than tabs, by the
pigeon-hole principle (`NewIdIsFree`).

Of BrowserStorage, `TabsShowWhatIsStored` (`TabsAreCurrent`), without hypotheses: which builds the tabs
run does not matter to it. That a tab which is behind has changed the store itself last is kept
because of what is on the way to all others (`CaughtUp`): the newest event of a tab is about the stored
record or a clear, and a tab without events holds that record, unless the tab is the one that wrote
last. `UpdatesSurviveEachOther` (`UpdatesAreKept`) has the hypothesis `OneBuild`: a tab of a newer build
that hears late of an older record converts it and writes it back over what has been stored since
(section 7). With one build, what a tab writes holds what it read a moment before in the same call
(`ReadAfresh`), and nothing that was written by a tab is converted (`HeardKeepsUpdates`).

Of Breadcrumbs, `TheTrailIsKept` (`TrailIsKept`), without hypotheses. A contribution is that of the
registration its mount's adapter holds or there is none, and an override is that of a component which
is there, in that mount, since its last navigation (`CrumbsInv`); a contribution ends with its own
handle or its mount, however many handles of earlier lives are cleaned up meanwhile
(`ContributionsStay`). The constants' assumption says that
the mounts of the chain are distinct and that none is a component. That a registration composes
nothing is harmless because the mount it registers had no part of the trail. What `FlattenSeq`
yields is proved by the first part that would go wrong (`FlattenIs`).

**AngularAppProofs.** `OneApplicationIsShown` (`Consistent`) and `FailuresAreTheLatest`
(`OnlyTheLatestFails`). What is on the page rests on the signals (`SignalsInv`): every earlier
generation that was started is aborted, and an application whose signal is aborted is not on the page. That nothing
fails silently rests on where the present generation can stand (`PresentInv`), through the wait that
follows one generation after another.

Of Navigator, `MovesAreAskedFirst` (`NegotiationsAreSafe`), without hypotheses. The action property says
of every handler that can move the page in the middle of a negotiation that it tells no App of it; an
App that pushes then has moved itself. That the blockers are asked from the innermost out rests on any
finite set of mounts having such an order (`OrdersExist`, by the least set that would have none), and
that a deaf negotiation still has somebody to ask on what is left of the order (`TailDescends`).

**ActionRegistryProofs.** `PaletteStaysCurrent` (`Consistent`), `AnIdNamesOneAction`
(`IdsAreUnique`), `EntriesAreLeftAlone` (`EntriesStay`) and `KeysRunTheirOwner` (`KeysHaveOneOwner`).
Which shortcut may fire is kept, not derived; it stays right because it depends on the host page's
shortcuts alone (`UsableDependsOnHosts`) and every call that changes those judges all others again
(`RefreshContainersJudges`). That a free id exists is a pigeon-hole argument: there are more numbers to
try than actions (`FreeIdIsFree`). That others' entries stay needs that only live actions declare
shortcuts (`OnlyLiveDeclare`), and the attempt showed that the host page's shortcuts must be
compared action by action: with two host actions that declare the same keys their set may stay while
all others are evaluated again. `KeysInv` says that the keys kept are the last ones pressed, and fewer
than the longest shortcut has.

Of ShellState, `ThePageIsCurrent` (`PageIsCurrent`), without hypotheses, for the two shells MCChrome
has: one with a stored theme and prompt effects, and one with a theme of its own and late effects. The
constants' assumption says that no mount is inside itself. What is promised outside of a pass is kept
within one as "right, or due": the stack of passes says which observer is still to hear of a change
that concerns it (`HostDue`, `SessionDue`, `RouterDue`).

* There are at most two passes, the inner one inside a change of session, and no observer is twice in
  either (`StackIs`); that observers stay distinct when some leave is `WithoutIs`.
* A client is of the present session exactly when its mount is not due (`SessionInv`).
* The user area is the present user's, or the runtime is due (`AreaInv`).
* With a stored theme, the state's theme is the preferred one and the page shows it, or the pass that
  changed it is still to paint (`ThemeInv`), a value that cannot be read having changed nothing; a router with an old context is due, or due to be
  replaced with its mount's client (`RouterInv`). For the other shell the parts that do not depend on
  the theme are enough, and the steps that leave the theme alone are the same (`SameActions`).

Model-checked only: the liveness properties, since fairness is beyond the prover, and
`CallbacksSeeCurrent` with late effects, `CopiedSessionIsNeverUsed`, `NegotiationsEnd` and
`OnlyRemovedRowsGo` without its hypothesis, which are violated. No module uses recursion.

## 7. Where the code and its words differ

Four disagreements have a run that shows them:

* **A late sync state removes a key** (`storage/user-store.ts:256`, run UserStoreLatePoll). A key
  that is absent from a state is taken for removed, however old the state is. If another tab
  creates a key, a state with it is delivered, and then an older state without it, the row goes;
  and because the slot keeps the revision it has seen, later states with the row are ignored until
  the key is written again. `apps/docs/content/docs/configure-user-storage.mdx:75-76` promises
  that "a copy of the state read before a change never undoes it", and the comment at
  `user-store.ts:222-224` that "a late poll never moves a value back". With states delivered in the
  order they were read, `OnlyRemovedRowsGo` and `FreshStateConverges` hold (run UserStoreSync).
* **A blocker asked after it has gone** (`packages/mfe-react/src/hooks/use-navigation-block.ts:54`,
  run NavigatorDeaf; `packages/mfe-angular/src/inject/navigation-block.ts:63` does the same for
  Widgets). A negotiation asks the blockers it collected when it began. If one unmounts while
  another is asked, its cleanup has no question to answer yet, and the question that comes later is
  never answered: the negotiation goes on for ever and every later navigation is refused.
  `boundary-navigator.ts:39-41` describes this very case and says that "every adapter's blocker
  delegate confirms through" the helper against it; this one does not.
* **A copied session is used** (`apps/shell/src/auth/tab.ts:49`, run SignInCopies). `claimTab()`
  writes the copy's new id before it waits for that id's lock, and `restoreSession()` drops the
  copied tokens later still. A page that is reloaded, or crashes and is restored, in between finds
  its own id free, is told that it owns the session, and restores the original's, refresh token
  included. A copy that starts on a sign-in callback keeps its tokens too, since `authenticate()`
  does not look at the claim there; and a copy that loads while its original reloads may win the
  original's lock. `apps/shell/src/auth/gate.ts:115` says "A copied tab's session is never used."
  With `CopyRaces = FALSE` no two tabs share a session (`SessionsAreOwned`).
* **A router's context is late** (`packages/mfe-react/src/app-mount.tsx:197`, run ShellStateLate). The
  context is made while rendering and renewed by an observer that an effect adds. A change of theme
  between the two is missed, and the App's route callbacks get the old value until the next change.
  `app-mount.tsx:24` says that "a route callback sees current values".

Others were met while modelling. The models contain them; the passing runs are set so that they do
not occur, or their properties leave them out:

* **A surface is left behind** (`mount/mount-controller.ts:205`). When the host disposes its handle
  from inside the definition's synchronous `mount()` (`HostReenters = TRUE` in Mount), the attempt
  is not yet known to `detach()`. The comment at `mount-controller.ts:30-32` says that such an
  attempt is "detached again once the attach settles"; the code does so only when the attach
  resolves, not when it rejects or times out. `NothingLeftBehind` fails then.
* **A late event undoes a newer build's record** (`storage/storage-store.ts:233`). The payload of a
  storage event is migrated and written back without a look at what is stored by then, which a newer
  build may have written. `apps/docs/content/docs/change-the-shape-of-a-stored-value.mdx:115` says "A
  value from a newer build is never overwritten by a read." Tabs of three builds show it; the run has
  tabs of one.
* **A retired override comes back** (`breadcrumbs/breadcrumb-store.ts:182`). The store remembers one
  owner per mount, so the mark that a navigation retired an owner's override is gone as soon as
  another component overrides; lines 147-148 say that such an owner "cannot install it again".
* **Listeners before observers** (`theme/stored-theme.ts:130`). The runtime's observer, the first,
  resets the user area; the stored theme hears that and calls `apply({ theme })` from inside the pass.
  The nested pass runs the theme's field listeners before any mount has heard of the new user,
  against `shell-state/shell-state-store.ts:106-107`.
* **A retired router with the next client** (`packages/mfe-react/src/app-mount.tsx:210`).
  `apply({ theme })` right after `apply({ user })`, before React has replaced the subtree, gives the
  old session's router the new session's QueryClient, against the comment at 193-194. ShellState
  contains it; that router is still replaced.
* **A contested shortcut is not reported** (`actions/action-registry.ts:516`). When the host page
  frees keys that two nested Apps declare, both may fire and neither does, with no report; lines
  313-314 say that "registration already reported the collision".
* **Others are evaluated** (`actions/action-registry.ts:524`). A host action with a shortcut that
  comes, changes or goes rebuilds the entry of every container action with a shortcut, and so calls
  its `canExecute`; lines 4-5 and 276-277 say that updating one action evaluates no other.
* **A move is not told** (`navigation/boundary-navigator.ts:275` and `:336`). If an App pushes, or
  the user goes back, while a negotiation runs, reports held back are dropped when it is blocked, and
  a push is recorded as known before it is told. `EveryoneArrives` fails when `Overlapping` contains
  `"push"` or `"back"`; it holds without them, and what they do in the middle of a negotiation no run
  shows.
* **A refused token is handed out again** (`auth/session.ts:130`). A renewal measures the library's
  stored token against the refused one of the caller that started it, not of those who join. The
  request then returns its 401, and the next one renews.
* **A call without its result** (`packages/mfe-agent/src/chat-client.ts:287`). The backend may answer
  a call it held, resumed as cancelled, after the user's next message; `reload()` of that message
  cuts the result off and keeps the call, while the comment at 852-855 wants every call paired.
  `RequestsArePaired` therefore speaks of the page's calls only.
* **Chat, smaller.** `stop()` between a run's interrupt and the moment its cards open answers a
  backend's call as stopped (329-332); a run that ends `cancelled` leaves its calls unanswered
  (473, `CancelsMidway`); of a run that ends with interrupts, the page's calls that no interrupt
  names are not run (500-512); a message queued before `stop()` or `clear()` still runs after it
  (430); a `followUp` that throws leaves the backend's cards open with nobody waiting (531).

## 8. Not modelled

What section 2 leaves, and the parts named "left out" in section 3:

* **AgentContext** keeps sets by mount that `removeMount()` empties, like Breadcrumbs without the
  overrides; nothing of it waits or nests.
* **The composition of Mount with the loader**, of mounts in one another, and the order in which the
  runtime disposes its parts. Mount sees of a load that it succeeds, fails or is too late; a product
  of the two modules is out of TLC's reach with the bounds of section 4.
* **Hazards without a property**, in `PROJECT.json`: `dispose()` called from inside the first
  `dispose()` (`mount/mount-lifecycle.ts:124`), a handle disposed from inside `mount()`
  (`mount-definition.ts:401`, see section 7), a registration replaced under a waiting call
  (`action-executor.ts:413`), a write through a released Angular binding
  (`packages/mfe-angular/src/inject/stored-state.ts:87`).

For good: parsing and validation, rendering, attributes and log output, code generation and bundler
plugins, lint rules, developer tools, examples. They are most of the repository's lines, and hold
no state that outlives a call.
