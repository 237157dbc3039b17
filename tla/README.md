# WayRay: TLA+ specifications

WayRay is a thin-client system: `wrsrvd`, a Wayland compositor without a screen,
renders a user's session and streams it over QUIC to `wrclient`; a session stays
on the server when its client leaves and is found again by the token the client
presents ("hot-desking"). Several servers form a cluster and send clients to the
one that has their session. The modules here model the parts of that machinery
where several actors, crashes, queues and stale copies meet. Paths below are
relative to `src/crates/` unless they start with `src/`.

Contents: 1 inventory, 2 modules, 3 runs and bounds, 4 fairness, 5 proofs,
6 deviations, 7 what is not modelled, 8 plan.

## 1. Inventory

| Component | State | Operations | Talks to | Modules |
|---|---|---|---|---|
| Session registry (`wrsrvd/src/session/registry.rs`, `types.rs`) | sessions by id, token index, next id, remote map | create, activate, suspend, destroy, set user/timeout, sweep, purge, restore | called by the compositor's loop; queues to the store | `SessionRegistry`, `Cluster` |
| Persistence (`session/persistence.rs`, `entity.rs`) | writer queue, SQLite table | persist, remove, load_all, flush | a tokio task applies the queue in order | `SessionRegistry` |
| Network thread (`wrsrvd/src/network.rs`) | client being served, newcomers, keyframe gate | accept, classify, serve, preempt, relay | channels to and from the compositor | `HotDesk`, `FrameStream`, `Clipboard` |
| Headless compositor loop (`backend/headless.rs`) | active session, connected client, previous frame, keyframe counters | drain network events, sweep, render, send frames, answer admin queries | everything on the server | `HotDesk`, `FrameStream`, `Cluster`, `Admin` |
| Client session loop (`wrclient/src/main.rs`) | framebuffer, pending keyframe request | read frames, apply, verify, acknowledge, send input | QUIC streams | `FrameStream` |
| Client connection loop (`wrclient/src/main.rs`, `network.rs`) | backoff, redirect count, first attempt | connect, follow redirects, reconnect | servers of the cluster | `Cluster` |
| Cluster (`wayray-protocol/src/cluster.rs`, `headless.rs`) | peers, published tokens, remote map | publish, probe, redirect, balance | other `wrsrvd` | `Cluster` |
| WM protocol server (`wm/protocol.rs`, `handlers/`) | bound WM, window objects, pending commands, bindings | bind, replace, manage and render phases, bindings, workspaces | external WMs, built-in WM | `WmProtocol`, `RenderCommands`, `Workspaces` |
| Built-in WM and WM types (`wm/floating.rs`, `wm/types.rs`) | focus stack, z-order, workspaces and tags | map, unmap, focus, restack, visibility | WM state, Space | `WmProtocol`, `RenderBatch`, `Workspaces` |
| Tiling WM (`wr-wm-tiling`) | window list, output | layout, answers to manage and render phases | WM protocol | `Tiling`, `BspLayout` |
| Input (`state.rs`, `wrclient/src/input.rs`) | held keys, modifiers on both sides | convert, inject, release all, bindings | seat, WM | `KeyRouting` |
| Clipboard (`state.rs`, `wrclient/src/clipboard.rs`) | selection, reader threads, last text | read, push, poll, echo suppression, cut | control stream | `Clipboard`, `ClipText` |
| Launcher (`launcher_link.rs`, `wrsessd`, `wrlogin`) | managed sessions and their processes | created, destroyed, authenticated, logout, kill | Unix socket, best effort | `Launcher` |
| TLS identities and pins (`wayray-protocol/src/tls.rs`, `network.rs`) | identity files, known-hosts file, each process's memory of it | load or generate, verify or remember, save | files shared by processes | `PinStore` |
| Codec (`wayray-protocol/src/codec.rs`) | none | encode, decode | all streams | `Framing` |
| Administration (`wrsrvd/src/admin.rs`, `wradm`) | one connection, one reply slot | accept, dispatch, reply, time out | compositor's loop | `Admin` |

What is hard here:

* **Concurrency.** The network thread and the compositor exchange messages over
  FIFO channels; a client may be preempted at any await point while the
  compositor is still working on messages about it. Clipboard readers are
  threads of their own. Window managers come, replace each other and go, while
  their objects live on. Several processes of one user share the pin file.
* **Failure.** Persistence is asynchronous: a crash loses the queue, a database
  operation may fail and be skipped, a restart rebuilds memory from what is
  left. Servers crash while their peers remember what they said. Events to the
  launcher are sent once. Files are rewritten in place.
* **Ordering.** Deltas only make sense on top of what the client already has, and
  one channel carries the frames of successive connections. Selections, key
  releases and logouts may arrive after what they refer to has changed.
* **Timeouts.** The network thread waits three seconds for a binding; the client
  gives a frame read five milliseconds; an administrator's query gives up while
  its answer is under way; suspended sessions and remembered homes expire.
* **Cancellation.** `select!` drops the future of the branch that lost, with the
  bytes it had read or written.

What makes each part correct: a token leads to its one session, whatever
expired, crashed or restarted in between, on whichever server; the session that
is bound is the one of the client being served, so no input, key or picture
crosses over; a client that stays connected shows what the compositor renders;
a window that is gone stays gone and events reach the window manager in charge;
no key or modifier sticks; a clipboard text is not echoed and not lost; programs
end with their session; a certificate once trusted is the only one trusted;
nothing that is abandoned stays for ever. `PROJECT.json` lists the hazards one by
one, at their lines, with the properties that cover them.

## 2. Modules

| Module | Models | Extends or instantiates |
|---|---|---|
| `SessionRegistry` | registry + store + crash/restart | – |
| `SessionRegistryProofs` | its inductive invariant and proofs | `SessionRegistry` |
| `RegistryClaims` | the registry with history variables, for what comments promise | `SessionRegistry` |
| `HotDesk` | network thread and compositor thread around the registry | `SessionRegistry`, `Desk` |
| `Desk` | what hot-desking promises: the abstract specification | – |
| `FrameStream` | rendering, relay, flow control, client reconstruction | – |
| `Cluster` | several servers and the clients that look for their session | – |
| `RenderCommands` | gathering, restacking and applying render commands (operators) | – |
| `RenderBatch` | those operators by themselves | `RenderCommands` |
| `WmProtocol` | windows, focus, external window managers, their objects | `RenderCommands` |
| `Workspaces` | workspace and tag visibility | – |
| `BspLayout`, `Tiling` | the tiling WM's layout; its event loop | `Tiling` extends `BspLayout` |
| `KeyRouting` | a key from the user's hand to the seat | – |
| `Clipboard`, `ClipText` | clipboard both ways; the cut of a long text | – |
| `Launcher` | sessions' programs, logins and crashes | – |
| `PinStore` | server identities and pins on disk | – |
| `Framing` | length-prefixed messages on a stream | – |
| `Admin` | the control socket | – |
| `HotDeskProofs`, `FrameStreamProofs`, `ClusterProofs`, `RenderBatchProofs` | inductive invariant and proofs of the module they are named after | that module |
| `WindowsProofs` | invariants and proofs of `WmProtocol`, `Tiling` and the layout | `WmProtocol`, `Tiling`, `MCBspLayout`, `RenderProofs` |
| `RenderProofs` | lemmas on induction, stacks, folds and `RenderCommands` | `RenderCommands` |
| `PartsProofs` | invariants and proofs of `KeyRouting`, `Clipboard`, `ClipText`, `Launcher`, `Admin`, `PinStore`, `Framing`, `Workspaces` | those eight, `RenderProofs` |
| `MCSessionRegistry`, `MCHotDesk`, `MCCluster`, `MCBspLayout` | instances of one module (symmetry, bounded inputs) | |
| `MCWindows`, `MCParts`, `MCLiveness` | instances of several modules (see *Sums*) | |

Operators called "Mutant" in a comment are deliberately wrong versions of the
definition that follows them. No specification uses them: they show that a
property fails when the code has the bug they describe.

### SessionRegistry

`sessions`, `token_index` and `next_id` are the registry's fields; `ops` is the
channel of the writer task, `db` the table, `store` tells SQLite from the
`NullStore`. A session's `age` is the time since `suspended_at`, 0 when unset.
Wall-clock columns and names other than the user's are dropped.

The actions are the calls the compositor makes, whole: a connect that finds
nothing to resume is `create_session` and `activate` (two saves), the periodic
sweep is `cleanup_expired` and `purge_destroyed`, each with its deletes, in any
order the hash map may yield. `set_user` and `set_suspend_timeout` have callers
in tests only; they are part of the registry's interface and are modelled.
`WriterApply` and `WriterFail` are the writer task. `Restart` is the death of
the process at any instant followed by `enable_persistence` and
`restore_persisted`; `RestartUnloaded` is the start whose database does not open
or does not load. `next_id`'s repeated maximum over the rows is `NextIdAfter`.

`RegistryClaims` adds the set of ids ever stored and how the last process ended.
`Shutdown` is `Restart`: the main loop ends in `process::exit`, which runs no
destructor.

### HotDesk and Desk

`pc`, `cur`, `waiting` are `server_loop`'s position, the client being served and
the receiver of newcomers; `channel` is `NetToCompositor`; `reply` the per-
connection answer channel; the rest are fields of `CalloopData` and the seat's
held keys. `TakeClient`/`Announce` separate the creation of the `serve_client`
future from its first poll, because `select!` may take the newcomer's branch
before. `ServeEnds` covers every return of `serve_client`, the timeout of the
decision included, so a `HandleConnected` may run for a connection that is gone.
Redirects are a free choice whenever the token has no session here (`Cluster`
says when they happen). Persistence is off in this module (`store = "null"`).

`Desk` is what the two threads together promise: one desk, at which a client
sits down only when it is free, at the session of its token; only the one who
sits types; whoever leaves takes the hands off the keyboard and leaves the
session as it is; only a session nobody sits at goes away. `OneDesk` states that
`HotDesk` implements it, with `at <- client_addr`, `keys <- keys_down` and each
token's session read off the registry. A rebinding over a live client, input
injected into another client's session, keys left down at a change of hands, or a
sweep that takes an active session are all steps `Desk` has not.

### FrameStream

A frame is a function from tiles to colours. An update holds the pixels it
carries, the checksum (taken to identify the frame) and whether it is a
keyframe. A message is `Parts` chunks on a stream that holds `Window`. A write
that does not fit stays pending and is dropped when another branch of the
relay's `select!` completes (`RelayControl`); a read that runs out of data is
dropped by the client's timeout (`ReadTimeout`). A reader that starts in the
middle of a message cannot make sense of the rest: `in_step` becomes false and
it reads no further. `lost` and `in_step` are history variables.

### Cluster

One token is followed. `session`, `published` and `remote` are what each server
has, tells its peers and remembers of them: a peer's question is answered from
the published set (`published`), which only the handlers of connects and
disconnects refresh, and the answer is kept in the remote map until it expires
(`ForgetRemote`). `HandleConnected` is `drain_network_events`' order of lookups:
own registry (`Resume`), remote map, peers. A lookup at the
peers is not one step: the loop asks one after the other and waits (`PassOver`
for each one that has nothing or does not answer in time, remembered in `denied`),
while the peers' network threads answer from their published sets and everybody
else goes on. `Decide` ends it with what the lookups come to (`Locates`): the
client is sent to that home (`SendHome`) when the cluster configuration lists an
address for it, and served here (`Create`) when there is no home or its address
is unknown. `create_session` forgets the home that was remembered. A server names
itself by its node id or host name, which need not be in its peers' files:
`unlisted` is the set of servers for which it is not, any set, the same for the
whole run. Answers may be lost (`faults`). The client is
`connect_following_redirects` and the loop around it: candidates in their order,
at most `MaxRedirects` hops, a fatal end for a client whose version no server
supports or that never connected, backoff and reconnection for one that did. A
crash loses connections, channel, lookup, published set and remote map, and the
session unless the database has it.

### RenderCommands, RenderBatch, WmProtocol

A stack is a sequence of windows, bottom first. `SetPosition`, `SetZ`,
`SetVisible` are the requests' edits of `pending_render_commands` (the first
command of the window is changed, `set_position` always adds one), `restack` the
fold of z-order directives, `apply_render_commands` the whole of that method: map
visible windows, unmap the others, and raise in the restacked order.
`RenderBatch` checks the operators by themselves, for every batch.

`WmProtocol` is what the compositor's thread does for windows and window
managers: `new_toplevel`, `AckConfigure`, `toplevel_destroyed`, clicks and
Alt+Tab of the built-in WM, `RenderFrame`, `bind` (also over a WM that is still
connected), the destructors of manager and window objects, a WM's disconnection
(the destructors of all its objects), and its requests. `toplevel_destroyed` takes
a window off the focus stack and out of the Space and leaves the seat's keyboard
focus alone (`kb`), as the code does: the focus may point to a window that is
gone until the next click. The
phase flags, `z_index` and `binding_modes`, which nothing reads, are left out.

### Workspaces

`WorkspaceState` and the requests that change it; a bitmask is the set of its
bits, a name its place in the lexicographic order (the fallback after a destroy
is the least name). `is_visible` decides by tags, by workspace, or shows the
window when it has neither.

### Tiling, BspLayout

`BspLayout` is `calculate_layout` on integers with the `i32` division that rounds
towards zero. `Tiling` is the WM's event loop between two queues, with windows
that open and close meanwhile. `bsp_layout` calls itself for the two halves of an
area; here it is a recursive function of the number of windows whose values are
functions of the area and the direction, so that the proofs can speak of it.
`IsTiling` says what a tiling is without recursion (inside the output, a gap
apart, no area lost). The actions of `Tiling` are the compositor's `new_toplevel`,
`toplevel_destroyed`, `bind` and `start_render_phase` as far as the tiling WM
hears of them, under names of their own (`NewToplevel`, `ToplevelDestroyed`,
`BindManager`, `StartRenderPhase`) because `WmProtocol` models the whole of them.
`Snap` is the user's Super+Arrow, which the compositor answers itself also while
the tiling WM is in charge: it configures the focused window with half of the
output (`SnapSizes`) and tells nobody. The focus is not in this module, so any
open window may be the one. `snapped` is a history variable: the windows whose
last size comes from a snap and not from the WM.

### KeyRouting

`convert_keyboard` is modelled by what it produces: the key, bracketed by Shift
presses and releases when caps lock makes the text's case differ from the
Shift the client knows of. `inject_network_input` is one action: modifier
tracker, bindings of the external WM, chords of the built-in WM, the seat.
Between them are the client's queue, which waits for a connection, and the
messages under way; a break loses a suffix of them. `HandleDisconnected` is
`release_all_keys`.

### Clipboard, ClipText

Contents are tokens. A selection is read by a thread (`readers`) whose result is
forwarded if it finishes at all, in any order. `reading` is the relay's read of
the control stream, which `select!` may drop half way (`InputInterrupts`).
`capture_if_changed` and `apply_remote` are wrclient's, with `last_text`. `ClipText`
is `cap_clipboard_payload` on byte classes of UTF-8.

### Launcher, PinStore, Framing, Admin

`Launcher` follows one token: `live` is the registry's, `events` the link's
queue, `managed` wrsessd's table entry, `procs` the processes, which outlive a
wrsessd that crashes. `PinStore` has the identity files written one after the
other, the pin file opened (truncated) and written in two steps, and processes
that read it once. `Framing` keeps the prefix's width (`% PrefixWidth`) and the
size limit, scaled down in their order. `Admin` is the socket's one thread, the
query channel, and a reply slot per query that an answer may fill too late.

### Sums

`MCParts`, `MCWindows` and `MCLiveness` run several components in one instance.
A behaviour picks a `part` and runs that component; the others stay as they
started. No part reads or writes another's variables, so an interleaving of two
reaches no state of either that it does not reach alone, and each property
speaks of one component: the sum has exactly the reachable states of its parts
(the counts in section 3 are those of the components run alone). In
`MCLiveness` the fairness conditions of a component are asked of the behaviours
that picked it. Components that do interact are composed properly: `HotDesk`
with the registry, `WmProtocol` with the render commands.

A word on TLC: it caches constant-level definitions per module, so a module must
not be both extended and instantiated with other constants in one instance.
`MCParts` therefore extends its nine modules; `MCLiveness` instantiates all of its
own.

## 3. Runs

| Run | Checks | Bounds | Distinct states |
|---|---|---|---|
| `SessionRegistry` | `TypeOK`, `TokenIndexExact`, `RowsUniquePerToken`, `DrainedStoreMirrorsMemory`, `NextIdFresh` | 2 tokens, 3 ids, queue guard 2, 2 restarts, 1 failure | 439,809 |
| `HotDesk` | `HotDeskTypeOK`, `ActiveIsBound`, `RelayedIsBound`, refinement `OneDesk` | 4 connections, 2 tokens, 2 inputs | 16,780 |
| `FrameStream` | `FrameTypeOK`, `FirstIsKeyframe`, `NoDrift` | 2 tiles, 2 colours, 2 connections, 3 draws, 2 chunks, window 3 | 1,197,879 |
| `Cluster` | `SingleHome`, `ConnectedIsFindable`, `HomeIsHere` | 2 servers, 3 clients (one of an old version), 2 redirects, any unlisted, 1 lost probe, 1 crash | 4,242,489 |
| `Windows` | `FocusStackExact`, `NoGhosts`, `ObjectsOfCurrent`; `OpeningRetiles`; `LayoutTiles` | 2 WMs, 2 windows, 1 pending command; 3 windows, 1 frame, any snaps; 24 windows on 42 sizes | 1,941,573 |
| `Parts` | see below | see below | 2,303,084 |
| `Liveness` | `SuspendedIsReclaimed`, `AbandonedIsSuspended`, `CatchesUp`, `Reconnects`, `LogoutTakesEffect`, `LocalCopyArrives`, `AdminAnswered` | see below | 108,928 |
| `ClaimIds` | violates `IdsNeverReused` | 1 token | – |
| `ClaimTokens` | violates `TokensUniqueInMemory` | 1 token, 1 failure | – |
| `ClaimShutdown` | violates `ShutdownLosesNothing` | 1 token | – |
| `ClaimReads` | violates `ReadsInStep` | 2 chunks | – |
| `ClaimHeals` | violates `StaleRegionHeals` | 1 connection | – |

The parts of `Parts`:

| Part | Checks | Bounds | Distinct states |
|---|---|---|---|
| keys | `NoStuckKeys`, `ModifiersInStep` | a letter and Tab, Shift and Alt, 3 messages queued, 1 under way, 1 break | 792,600 |
| admin | `AnswerIsRecent` | 3 clients, 4 requests, 2 changes | 534,669 |
| pins | `FingerprintStable`, `PinEnforced` | 2 servers, 2 processes, 3 certificates, one failure and one crash | 513,570 |
| clipboard | `NoEcho` | 2 terminals, 2 texts and an image in the session, 1 long text outside, 3 copies, 2 breaks, 1 refused write | 282,604 |
| launcher | `NoOrphans` | 4 sessions, 5 programs, 2 crashes | 116,519 |
| text | `CutStaysText` | texts of 5 characters, limits 1 to 8 | 10,920 |
| batch | `LastDirectiveWins`, `OthersKeepOrder` | 3 windows, 2 requests a frame | 31,120 |
| workspaces | `ModesExclusive`, `DestroyHidesNothing` | 1 window, 2 names, 2 tags, 2 outputs | 15,120 |
| framing | `MessagesIntact` | 3 messages around the limit and the prefix's width | 5,962 |

Why the bounds are enough for the cases that matter.

* Registry: two tokens and three ids let a token be used, expire and be used
  again while another lives on; a queue guard of two lets a sweep and a restore
  grow the queue to five operations, so a crash hits every prefix of
  save-save-delete-save runs; two restarts let a restore be cut short by a second
  crash. The proofs remove these bounds.
* HotDesk: with four connections one can be relayed while a second preempts, a
  third preempts before it was announced, and the decision of the first comes
  late.
* FrameStream: two tiles make a delta differ from a keyframe, an interval of two
  makes promotion happen within three draws, two chunks with a window of three
  make writes block between and within messages.
* Cluster: with three clients of one token, one can be bound, one preempt it and
  one wait elsewhere on a stale home; with two servers each can believe in the
  other, or find a home it cannot send anybody to. The `Liveness` run has three servers, so that a chain of stale homes is
  longer than the redirects allowed.
* Windows: two window managers overlap, the older with objects the newer's list
  replaces; two windows are what a focus stack and a sibling need. Three tiled
  windows halve the output in both directions, and let one open after another
  closed while a third stays; snaps are not bounded. `LayoutTiles` covers the
  layouts of more windows.
* Parts: one break and three queued messages hold a whole Shift bracket before,
  across and after a disconnection; two copies may be read at once and end in
  either order; two processes read the pin file before either writes it; four
  sessions let two logouts be queued behind new sessions; message sizes lie
  below, at and above the limit and the prefix; an administrator can be served
  after another's query has timed out and its answer has come late.

The runs set `CHECK_DEADLOCK FALSE`: ids, restarts, connections, draws, copies
and the like are bounded, so every model comes to rest when they are used up.

### What the failing runs show

* `ClaimIds`. The newest session expires and its row is deleted; after a restart
  `next_id` is computed from the remaining rows and the id is issued again,
  against the comment in `restore_persisted`.
* `ClaimTokens`. A delete fails and is only logged; a new session takes the token;
  the next start restores both rows, one of them out of the index's reach.
* `ClaimShutdown`. The flush in `SqliteStore::drop` is never run by a process that
  leaves through `process::exit`.
* `ClaimReads`. The client's display reads are raced against a timeout, which the
  same file says must not be done.
* `ClaimHeals`. Every update the client needs has been sent, its write was
  dropped by `select!`, the screen does not change any more, and unchanged frames
  are skipped before the keyframe interval is considered.

## 4. Fairness

All conditions are weak fairness, of loops and threads that run whatever the
others do. Nothing is assumed of users, of applications or of failures.

| Component | Weakly fair | Because |
|---|---|---|
| registry | `Tick`, `CleanupExpired` | time passes; the loop turns about every 16 ms and sweeps every 3600 turns |
| desk | `Compositor` (and the two above) | the loop drains its channel on every turn; the network thread and the clients need do nothing, since the property speaks of the time after the last connection |
| display | `Render`, `HandleEvent`, `DrainIdle`; `Greet`, `RelayFrame`, `WriteMore`, `RelayControl`; `ReadChunk` | compositor's loop, network thread, client's reader; drawing, connecting, hanging up, typing and timeouts need not happen |
| servers | a client's backoff and dialling; each server's handlers, answers, expiry of remembered homes, restart | the client retries for ever once it was connected; remembered homes have a lifetime; a crashed server is started again (a service manager's job, external) |
| programs | `worker` | a thread of its own; nobody has to log in or exit |
| clipboard | the compositor's handling of a content, the relay's read, the terminal's poll, a terminal's reconnection | each is a loop of its own |
| admin | accepting, handing over, answer or timeout, a peer's hanging up | the thread's loop; the peers are `wradm`, which asks once and exits |

`CatchesUp` is stated for a client that stays connected, on a stream wide
enough for every message, which is the case where no write is dropped
(`ClaimHeals` is the other case). `LocalCopyArrives` is checked with connections
that last. `AdminAnswered` does not assume that the compositor's loop answers:
answer and timeout are one fair choice. `Reconnects` is checked without lost
probes, with a crash.

## 5. Proofs

The theorems hold for every value of the constants that the modules' assumptions
allow: any number of sessions, connections, servers, clients, windows, keys,
tiles and messages, and any bound on crashes, breaks and the like. The proofs
use the specifications as TLC runs them.

| Module | About | Obligations | Theorems (property) |
|---|---|---|---|
| `SessionRegistryProofs` | `SessionRegistry` | 1526 | `TypeCorrect` (`TypeOK`), `Invariance`, `TokenIndexCorrect` (`TokenIndexExact`), `RowsUnambiguous` (`RowsUniquePerToken`), `NextIdIsFresh` (`NextIdFresh`), `DrainedStoreIsExact` (`DrainedStoreMirrorsMemory`) |
| `HotDeskProofs` | `HotDesk`, `Desk` | 1218 | `HotDeskInvariant`, `HotDeskTypes` (`HotDeskTypeOK`), `NoActiveSessionLeft` (`ActiveIsBound`), `RelayedClientIsBound` (`RelayedIsBound`), `OneDeskImplemented` (the refinement `OneDesk`) |
| `FrameStreamProofs` | `FrameStream` | 1460 | `FrameInvariant`, `FrameTypes` (`FrameTypeOK`), `FirstUpdateIsKeyframe` (`FirstIsKeyframe`), `PictureNeverDrifts` (`NoDrift`) |
| `ClusterProofs` | `Cluster` | 1193 | `ClusterInvariant`, `SessionHasOneHome` (`SingleHome`), `ConnectedSessionIsFindable` (`ConnectedIsFindable`), `NoOtherHomeRemembered` (`HomeIsHere`) |
| `WindowsProofs` | `WmProtocol`, `Tiling`, `BspLayout` | 2929 | `WmInvariant`, `EveryWindowHasItsFocusPlace` (`FocusStackExact`), `ClosedWindowsStayClosed` (`NoGhosts`), `EventsGoToTheWmInCharge` (`ObjectsOfCurrent`); `OpenedWindowsAreTiled` (`OpeningRetiles`); `WindowsTileTheScreen` (`LayoutTiles`), `SizedLayoutsTile`, `RoomyLayoutsHaveSize` |
| `RenderBatchProofs` | `RenderBatch` | 1287 | `LastDirectiveIsObeyed` (`LastDirectiveWins`), `UnnamedWindowsKeepOrder` (`OthersKeepOrder`) |
| `RenderProofs` | `RenderCommands` | 566 | lemmas on induction, stacks and folds, for the two above and the next |
| `PartsProofs` | the parts of `MCParts` | 3392 | `KeysComeUp` (`NoStuckKeys`), `ModifiersFollow` (`ModifiersInStep`), `TerminalsDoNotEcho` (`NoEcho`), `NoProgramOrphaned` (`NoOrphans`), `IdentityIsStable` (`FingerprintStable`), `PinsAreEnforced` (`PinEnforced`), `MessagesAreIntact` (`MessagesIntact`), `AnswersAreRecent` (`AnswerIsRecent`), `ModesAlwaysExclusive` (`ModesExclusive`), `DestroyNeverHides` (`DestroyHidesNothing`), `CutTextsStayText` (`CutStaysText`) |

### The invariants and why they are needed

Hardly any of the properties is inductive as it stands. What each proof adds:

**SessionRegistry.** Whether the table will hold two rows of a token depends on
what is in the queue, in which order, and on what memory looked like when it was
queued. As long as no database operation failed, `IInv` adds: `DeadAreDeleted`, a
row or a queued save whose session is gone has a delete behind it; `LiveNotDeleted`,
nothing queued deletes a session in memory; `LiveIsSaved`, the last thing queued
for a live session is its present image, or its row is; `TokenKept`, a session's
row and queued images carry its token; `WritesDisjoint`, when a save is reached,
every other row with its token has been deleted ahead of it; `NullIsEmpty`,
without a store there is nothing stored or queued. `RestartIInv` uses
`RowsUniquePerToken` before the crash to show that the index does not depend on
the order of the rows. The properties are conditional on `failures = 0` because
the code does not keep them otherwise (`ClaimTokens`).

**HotDesk.** `HotDeskInv` says what one thread may know of the other while
messages are under way: connections that wait have not been announced
(`NewcomersUnknown`), each is announced once (`AnnouncedOnce`) and right behind the
disconnection of the one before (`Alternates`), inputs are ahead of everything
else and belong to the bound client (`InputsAreBound`); and for each position of
`server_loop`, what the channel holds and what has been decided
(`ServedIsKnown`). The last of them also gives that a compositor which still has a
session bound while nobody is served has a disconnection coming. `HotDeskInv`
contains the registry's `IInv`: a resumed session is the one its token names because
the index is exact. `OneDeskImplemented` maps every action
to a step of `Desk` or a stutter from this invariant, one lemma per action.

**FrameStream.** `FrameInv` follows the picture through the whole path: each update
in the compositor's channel continues the one before (`QueueLinked`), the next
damage continues the last (`BaseIsSent`), the first in the channel continues what
the client shows once it has read all that passed the gate (`QueueFollows`), and
the parts on the wire are consecutive and end in what the client waits for
(`StreamLinked`), unless a keyframe, which continues anything, comes in between
(`KeyframeFollows`). The part on the wire is conditional on a stream that nothing
has broken; everything before the gate holds without. That updates which continue
one another are also sent needs `KeyframeDue`, checked by TLC before it was proved:
from the moment a connection is announced, the announcement is in the compositor's
channel with nothing behind it but requests for keyframes (`ToBeAnnounced`), or the
compositor has the client and a keyframe is to come or has passed (`Serves`). So
when nothing is under way to a client, it shows what was rendered last.

**Cluster.** `HomeIsHere` holds without conditions, because a creation forgets
what was remembered and only a server without the session remembers an answer. Beyond
it: short of a crash every session is published
(`Advertised`), so a peer that says it has nothing has nothing. That the answers a
lookup has collected are still true when it ends (`Denied`) needs more: no other
server creates a session meanwhile, because it would do so for a client that asks
it, and the one client that asks (`Expected`: it still waits, unanswered, on the
connection it asked on, and asks once) asks here. So the session a lookup ends with
is the only one (`OneHome`). All three are conditional on a run in which nothing
failed, every server is listed under its id and one client came (`Smooth`). Without conditions a client that was told it is bound stays bound because no
disconnection of its own is pending at that server (`BoundStays`, `Ending`).

**WmProtocol.** The compositor's half says that the focus stack is a permutation
of the windows and the scene a stack of some of them (nothing is said of `kb`:
`FocusAgrees`, section 6); `apply_render_commands`
keeps it by the lemmas of `RenderProofs`, whatever a WM sends. The other half is
about connections: objects do not outlive theirs, and the WM in charge has its
manager object, so that a late destructor cannot take the current WM down.

**The layout.** The proof goes by induction on the number of windows, over all
areas at once: the two halves of an area lie in it a gap apart and make up its
area but for the gap (`HalvesOf`), so tilings of the halves are a tiling of the
area (`CoversBoth`, `TilesCover`). That needs no assumption on the screen except
that every window is left some width and height, which is `SizedLayoutsTile`.
When it is, is a second induction: `first_w` is rounded, and half of a gap is
taken from the first half and half from the second, so a part with five pixels
for each window that it still has to hold, one of the window and four of a gap,
halves into two such parts (`HalvesHaveRoom`); the direction alternates, so half
of the windows, rounded up, count downwards (`RoomyLayoutsHaveSize`).
`WindowsTileTheScreen` puts the two together.

**Tiling.** `TilingInv` says what is under way. After an opening, a manage phase
is still to come with nothing but render phases behind it (`ManageDue`), or the WM
has made its proposals (`Managed`): for every window it knows, the last proposal in
the request queue, or the window's size when there is none, is its place in the
layout of just those windows (`Fits`). A snap changes the size of one window,
which is exempt until the next proposal for it is through. Render phases put requests behind the
proposals without touching sizes; a proposal for a window that was closed is
dropped. That the windows it knows are open at the end needs `Announced` (each
window is announced once, so the WM's list has no window twice and a closed one
does not come back) and `Closed` (a window that is known, or about to be, and not
open has its `window_closed` under way); that the layout is of the right output,
`OutputFirst`.

**The cut of a text.** The encoding of a text grows character by character, and
the encoding of the first of them is a prefix of the whole (`EncodingPrefix`). One
character begins before the limit and ends at or behind it (`CharacterAtLimit`);
its first byte is the last one before the limit that is not a continuation, so
`BackOff` cuts just before it, or just behind when it has one byte (`BackOffCuts`).
A character of several bytes that ends exactly at the limit is dropped too.

**RenderBatch.** Both are action properties about one frame. `restack` is a fold
over the batch: a directive holds after its own step (`RestackedHolds`) and no
later command touches the pair. `apply_render_commands` then raises windows in turn,
and raising all windows of an order in that order yields it (`RaisingReaches`).

**The parts.** Keys: the *last* message about a key on its way tells whether it is
down (`Releases`, `Presses`), through brackets, repeats and losses of a suffix.
Clipboard: an application's text on a terminal's clipboard is the one the terminal
remembers (`Remembered`), over reconnections. Launcher: the events under way
alternate with the session's life (`Alternating`), so programs left over have their
logout queued last. Pins: what a process has
accepted is what it has pinned, and while one process at a time writes, what the
user trusted is what the file holds (`ProcessInv`, `UserInv`). Identity: the
certificate file decides, wherever the writer died between certificate and key
(`IdentityInv`). Framing: every message still in the pipe has a place where it
starts, each behind the one before (`InFrame`). Admin: nothing in a slot is newer
than the registry, and the slot waited at holds no answer older than the request.
Workspaces: exclusive modes, with the shape of the maps.

### What the proofs assume

Besides types and bounds, the named assumptions of the modules say that
distinguished values are not ordinary ones: `NoConn` is no connection and no token,
`NoServer`, `NoClient`, `NoWm`, `NoWindow` likewise, `None` is no certificate and no
directory, `NoSession` no set of programs. Three say more. `ClipboardAssumption`
separates the texts of applications from the users' (`NoEcho` tells an echo by
its text). `IsFiniteSet` is asked of windows and workspace names, where
the model counts or chooses the least. `WmAssumption` numbers windows as
`register_window` does. `TilingAssumption` and `ClipTextAssumption` are types;
`LayoutAssumption` asks for screens on which every window gets a pixel next to its
gap, for on a smaller one the code hands out widths of zero and below
(`SizedLayoutsTile` has no such assumption). Integers do not overflow: a product
of a width and a number of windows stays far below 2^31. Three theorems have hypotheses of their own, all true
in the runs:

* `IdentityIsStable` assumes `OwnDirs`, a directory per server; without it the
  property is false (section 6);
* `MessagesAreIntact` assumes `LengthsFit`, payloads shorter than the prefix can
  count: `encode` converts the length to `u32` without a check;
* the two theorems of `RenderBatchProofs` assume finitely many windows.

### What the proofs found

* `FirstIsKeyframe` was false as first stated for a stream narrower than a message
  (`Window < Parts`), which no run had: a client whose read timed out in the
  middle of the keyframe finds the rest of it at the head of the wire. The
  property now excludes a reader that has lost its place (`in_step`), which
  `ReadsInStep` of `ClaimReads` is about.
* The first proof of `SingleHome` went through without its condition on the
  clients, which showed that the model was wrong: a lookup at the peers was one
  step, and so excluded lookups at other servers. It is step by step now
  (`PassOver`, `Decide`). With that, two clients of one token do get two homes
  (`LookupExcludesDuplicate`, section 6), `SingleHome` is about a client that came
  alone, and its proof needs `Expected` and `Denied`.
* `Restacked` had overlapping `CASE` guards: with a window that is not in the stack
  and `z_order = Top`, either branch could be meant. `types.rs` skips the command;
  the definition now says so before it looks at the directive.
* `LayoutTiles` did not say that there is a part for every window: a layout without
  parts, or with too few of them, could satisfy it on areas alone. It says so now.
  Its proof gave the size of screen that is enough, which `LayoutAssumption` states
  and TLC evaluates for the 42 screens of the run.
* `NoDrift`, `ActiveIsBound` and `NoOrphans` did not exclude that nothing is sent at
  all. Their proofs showed what is always on its way, and each states it now: the
  update a client misses, the disconnection of a client that left, the logout of a
  session that ended.
* `Without`, `retain` and the order of `on_render` are now written as the code has
  them (position and remove; retain; the order of registration) instead of by a
  filter, which the library defines recursively.

### Only model-checked

* `SuspendedIsReclaimed`, `AbandonedIsSuspended`, `CatchesUp`, `Reconnects`,
  `LogoutTakesEffect`, `LocalCopyArrives`, `AdminAnswered`: liveness under fairness is
  out of the prover's reach. The safety halves of three of them are theorems: while
  an abandoned session is bound its disconnection is in the channel
  (`ActiveIsBound`), while a picture is behind an update is under way (`NoDrift`),
  while programs outlive their session its logout is queued (`NoOrphans`).

Every safety invariant and action property of the passing runs is a theorem. The
proofs about recursive definitions (the layout, the folds) do not use the library's
induction theorems, which take an operator as a parameter: the recursions are
shown to have a solution, and the solution to be what the definition chooses, from
the fact that a non-empty set of naturals has a least element (`RenderProofs`).

## 6. Deviations

Where a comment or a document promises what the code does not do, the modules
state the promise under "What the repository says and the code does not do", and
TLC refutes it. Five of them have a run (section 3). The others are refuted by adding
the definition to the configuration named here.

* `Cluster.RestartKeepsHome` (`wrsrvd/src/backend/headless.rs:629`; `Cluster.cfg`).
  The comment at wrsrvd/src/backend/headless.rs:642 says a server can "redirect to the session's
  home server instead of creating a duplicate". The tokens peers are told are
  published by the handlers of connects and disconnects only, so a server that
  restored its sessions at boot answers that it has none, and the peer that is
  asked creates a second session for the token.
* `Cluster.LookupExcludesDuplicate` (`wrsrvd/src/backend/headless.rs:664`;
  `Cluster.cfg`). The same comment, with nothing lost, nothing crashed and every
  server listed: two
  clients of one token come to two servers at once, each server is told by the
  other, whose published set has nothing yet, that it has no session, and both
  create one. The lookups are answered concurrently by design
  (wrsrvd/src/network.rs:359).
* `Cluster.PublishedIsCurrent` (`wrsrvd/src/backend/headless.rs:629`;
  `Cluster.cfg`). The comment at wrsrvd/src/backend/headless.rs:628 says
  publish_cluster_state is "called whenever session state changes"; the sweep that
  destroys expired sessions does not call it (its calls are at lines 516 and 558),
  so peers are sent to a server that has no session any more.
* `RenderBatch.PreserveKeepsOrder` (`wrsrvd/src/state.rs:269`; `RenderSpec` with 3
  windows, `MaxPending = 3`). wrsrvd/src/wm/types.rs:74 documents ZOrder::Preserve
  as "Keep current z-order (no change).", but every visible command maps its
  window in the Space, which puts a window that is mapped already on top.
* `RenderBatch.HideIsObeyed` (`wrsrvd/src/wm/protocol.rs:538`; `RenderSpec` with 3
  windows, `MaxPending = 3`). wayray-wm-protocol/protocols/wayray-wm-v1.xml:273
  describes hide as "hide window (remains managed)". set_position always adds a
  command and hide changes the first command of the window: with two set_position
  requests before it in a batch, the second command maps the window again and the
  hide has no effect.
* `WmProtocol.AccumulatedAreApplied` (`wrsrvd/src/backend/headless.rs:812`;
  `Windows.cfg`). The comment at wrsrvd/src/backend/headless.rs:808 says "For this
  frame, apply any commands accumulated from previous dispatches", but
  start_render_phase clears pending_render_commands right before
  take_render_commands: what the WM sent between two frames is dropped.
* `WmProtocol.SeatOfTheWm` (`wrsrvd/src/wm/protocol.rs:646`; `Windows.cfg`).
  wrsrvd/src/wm/protocol.rs:60 says of wm_seat "The WM's seat object for sending
  binding events." It is set by the first seat request while it is empty, and bind
  does not reset it: after a replacement it is the old WM's seat, which gets the
  new WM's events.
* `WmProtocol.NewWmKnowsWindows` (`wrsrvd/src/handlers/wm_protocol.rs:36`;
  `Windows.cfg`). src/docs/ai/adr/009-pluggable-window-management.md:172 says "On
  WM connect, the compositor sends the full window list so the WM can reconstruct
  state." existing_windows leaves out toplevels whose current state has no size,
  that is those that have not acknowledged a configure, and nothing announces them
  later.
* `WmProtocol.HotSwapKeepsObjects` (`wrsrvd/src/wm/protocol.rs:626`;
  `Windows.cfg`). src/book/src/concepts/pluggable-wm.md:76 lists the steps of a
  hot swap: "The old WM disconnects", then "The new WM receives the full window
  list and takes over". The code sends the list at bind, before the old WM is
  gone, and the destructor of each of the old WM's window objects then removes the
  entry of its window id, which is the new WM's by now.
* `WmProtocol.FocusAgrees` (`wrsrvd/src/handlers/xdg_shell.rs:75`; `Windows.cfg`).
  wrsrvd/src/wm/floating.rs:84 says "Focus stack: last element is the focused
  window." toplevel_destroyed takes the window off the stack and gives the
  keyboard focus to nobody, so the last element is not focused until it is
  clicked.
* `KeyRouting.ReconnectsInStep` (`wrsrvd/src/state.rs:431`; `Parts.cfg`). The
  comment at wrsrvd/src/state.rs:429 says the released keyboard "matches a
  freshly-(re)connecting client, which holds nothing". wrclient keeps its modifier
  state over a reconnection and sends differences only, so a Shift held over it is
  down at the client and up at the server.
* `KeyRouting.AllReleased` (`wrsrvd/src/state.rs:526`; `Parts.cfg`).
  wrclient/src/input.rs:102 says driving modifiers from ModifiersChanged "ensures
  a release is never lost - which would otherwise leave a modifier such as Shift
  stuck down on the server". A release is looked up among the bindings too: when
  the key was bound after its press was forwarded, the release goes to the WM and
  the key stays down in the application.
* `KeyRouting.BindingsReleased` (`wrsrvd/src/wm/protocol.rs:216`; `Parts.cfg`).
  wayray-wm-protocol/protocols/wayray-wm-v1.xml:350 describes binding_released as
  "a registered keybinding was released". The chord of a release is looked up with
  the modifiers still held: when the modifier comes up first, no binding matches
  and the event is not sent.
* `Launcher.LogoutCleansUp` (`wrsessd/src/main.rs:74`; `Parts.cfg`).
  wrsessd/src/main.rs:9 says "`session_logout`: Clean up child processes". A
  second session_requested for a token, which a wrsrvd restarted without its
  database sends, replaces the table's entry without killing its children, and the
  logout then finds the new ones only.
* `Launcher.LoginStartsDesktop` (`wrsessd/src/main.rs:66`; `Parts.cfg`).
  wrlogin/src/main.rs:52 says "The session token is passed via environment
  variable by the launcher." handle_session_requested sets WAYLAND_DISPLAY only;
  the greeter falls back to 'unknown', for which the launcher has no session, so
  no login succeeds.
* `Clipboard.EchoGuardHolds` (`wrclient/src/clipboard.rs:100`; `Parts.cfg`). The
  comment at wrclient/src/clipboard.rs:98 says "Record before applying so the echo
  guard holds even if the OS clipboard write fails". When the write fails, the
  text of an earlier push is still on the OS clipboard and now differs from
  last_text: the next focus sends it back to the server, as a selection of the
  client's.
* `Clipboard.LocalCopyArrives` (`wrclient/src/clipboard.rs:57`; `ClipFairSpec`
  with the constants of `Liveness.cfg` and `MaxCuts = 1`).
  wrclient/src/clipboard.rs:4 says the local clipboard "is polled on window focus
  gain and, when its text changed, pushed to the server". The text is remembered
  when it is captured: when the connection breaks before it is delivered, later
  polls find it unchanged and it is not pushed after the reconnection.
* `Clipboard.ControlInStep` (`wrsrvd/src/network.rs:815`; `Parts.cfg`).
  wrclient/src/main.rs:890 says "length-prefixed reads are not cancellation-safe,
  so they must not be raced". The server's relay reads control messages in a
  branch of a select!: when an input message completes first, the bytes of a large
  clipboard message read so far are dropped and the stream is parsed from its
  middle.
* `PinStore.FirstUseEnforced` (`wayray-protocol/src/tls.rs:112`; `Parts.cfg`).
  wayray-protocol/src/tls.rs:14 says "the first fingerprint seen for a peer is
  recorded in a `known_hosts`-style file and enforced on every later connection".
  Each process rewrites the whole file from what it read at its start, so the pin
  another process recorded meanwhile is lost and a changed certificate is trusted
  anew.
* `PinStore.FirstUseEnforced` (`wayray-protocol/src/tls.rs:191`; `Parts.cfg`).
  wayray-protocol/src/tls.rs:14 says "the first fingerprint seen for a peer is
  recorded in a `known_hosts`-style file and enforced on every later connection".
  The file is truncated and then written in place: a process that dies in between
  leaves it empty, and every peer is at its first use again.
* `PinStore.FingerprintStable` (`wrsrvd/src/network.rs:255`; `PinSpec` with one
  directory for two servers). The comment at wrsrvd/src/network.rs:252 says
  "Persisting the certificate keeps its fingerprint stable across restarts". Two
  servers of one machine that start for the first time together both generate an
  identity; each serves its own, the files keep the last one, and the other server
  presents a new fingerprint after its restart.
* `Tiling.AlwaysRetiled` (`wrsrvd/src/handlers/xdg_shell.rs:75`; `TilingSpec` with
  the constants of `Windows.cfg`).
  src/docs/ai/adr/009-pluggable-window-management.md:51 says "Compositor sends
  `manage_start` when state changes occur (new window, close, resize request,
  fullscreen request)". Only new_toplevel starts a manage phase
  (wrsrvd/src/handlers/xdg_shell.rs:71): after a close the tiling WM is not asked
  for sizes, and the remaining windows leave a hole.

## 7. Not modelled

* **Audio.** The server forwards audio messages on a stream of their own, and
  `wrclient` discards what it reads: there is no state to speak of.
* **Winit backend, wgpu display.** Windows on the developer's or the user's
  desktop; rendering and I/O.
* **Generated WM bindings, vendored code, packaging.** Not this program's logic.
  The Space and the seat of smithay are modelled from how `wrsrvd` uses them and
  marked external.
* **Start-up and command line,** the token file, name resolution and the parsing
  of `cluster.toml`: wiring and I/O.
* **Placement by load.** It is asked for at a connect, when no session is active
  (`ActiveIsBound` and `OneDesk` of `HotDesk`): the load is 0 and the threshold is
  never reached.
* **Requests that only log:** fullscreen, decorations, interactive move and resize.
  **Geometry** other than the tiling layout. Pointer motion and the key code table.
* **Pixel compression** and the render thread: an update is the pixels it carries.
* **The flush with a deadline** of the store: its only caller outside tests is a
  destructor that never runs (`ClaimShutdown`).

## 8. Plan

Every safety invariant and action property of the passing runs is a theorem. What
is left, in this order:

1. What the repository's documents claim and the code keeps only under a condition
   (section 6), stated as theorems with that condition.
2. The tiling WM's focus and the default workspace it creates, and the wire's width
   of coordinates (`i32`) in the layout.
