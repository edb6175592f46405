# A TLA+ model of the WSLg protocol bridge

`src/bridge.c` lets an unchanged Hyprland run under WSLg. It is a Wayland
server for one compositor (the *client*) and a Wayland client of WSLg's Weston
(the *parent*). It copies the client's dma-buf frames into shared-memory
buffers for the parent, forwards the parent's keyboard and pointer to the
client, and starts, watches and stops the compositor's process.

This directory holds TLA+ modules that model the bridge, TLC configurations
that check them on small instances, and theorems that TLAPS proves for every
value of the constants. Line numbers below are those of `src/bridge.c`;
`PROJECT.json` maps every definition to its lines.

## The system

The bridge is one thread. Its main loop (1513-1556) waits for either of its two
connections, handles what has come from the parent, then what has come from
the clients, then looks for the child. Each request of a client and each event
of the parent is handled from start to end before the next. Signal handlers
interrupt it between any two steps.

| Component | State | Operations | Hard behaviour | What makes it correct |
|---|---|---|---|---|
| Frame path (209-421) | `G.pool`, `G.slot[3].busy`, `G.width`/`height`, `slots_listening`, `queued`, `queued_surface`, `busy`/`released`/`dead` of each buffer | attach, commit, buffer destroy; the parent's buffer release and configure | frames, releases and resizes in any order; a full pool; failing allocations and copies; objects destroyed while in use | no slot is overwritten while the parent holds it; each buffer is returned once; frames appear in order and none is lost; a frame fits its slot |
| Surfaces and shell objects (423-565, 870-1049) | `surface_state`, `main_surface`, `G.compositor_client` | create, attach, frame, commit, ack, get_toplevel, destroy, disconnect | destruction in unusual orders, two toplevels, a second client, a client that ends in the middle of the parent's events | no use of a destroyed object; the main toplevel is told the parent's size; each callback is answered once |
| Keyboard (567-584, 611-660, 1182-1274, 1380-1388) | `G.keyboards`, the one pending modifier key, `inject_chord` | key, modifiers, enter, leave, bind, release, SIGUSR1 chord | a modifier key waits for its modifiers; focus changes; injected keys | the client's keyboards agree with the parent's; no stuck and no senseless key |
| Pointer (586-610, 625-636, 1096-1180) | `G.pointers`, the enter serial | enter, leave, motion, button, axis, set_cursor | links of a client that is gone; windows that change under the pointer | events reach live pointers only, inside the focus only, and none an old listener has no place for |
| dma-buf params and feedback (706-868) | a params object and its `buffer_state`, one fd; the pool's fd | add, create_immed, destroy, feedback | errors after a used object, fd ownership, 32-bit arithmetic | each fd is closed once; accepted sizes fit the buffer; what the feedback lists is accepted |
| Parent connection (1276-1366, 1465-1496) | the bound globals and their versions, `G.seat`, `G.pointer`, `G.keyboard` | registry, round trips, bind, ping, configure | parents of any version; seats and devices that come and go; answers that come a round trip late | no request the parent refuses and no event without a listener; input is heard |
| Generated protocol code (`gen/`) | none | six files of tables and stubs | tables that belong together by name only | a request runs the function of its own name, and an event likewise |
| Lifecycle (1370-1589) | `G.run`, `got_signal`, `inject_chord`, `G.parent_closed`, `compositor_gone`, `G.child` | startup, spawn, loop, signals, shutdown, exit code | signals between any two steps; child, parent and client ending together; a child that ignores SIGTERM | the bridge stops, leaves no compositor behind, reports the right code |
| User environment (1390-1397, `scripts/omarchy-wsl-session-init`) | `WAYLAND_DISPLAY` of the systemd user manager | import by the session, restore by the bridge | who writes last | the parent's display is back at the end |
| Qualification probe (`qualify/qualify.c`) | a socket pair, a second process | draw, hand over a descriptor, read back, exit code | either process failing or killed at any call | PASS means both formats were read back; neither process waits for ever |

The components meet in few places. The frame path and the shell objects of one
client share `surface_state` and `main_surface` and are one module. What several
clients' objects mean to each other needs no frames, only whether one is shown or
waits, and is another. The keyboard needs to know only whether there is a main
surface. The lifecycle needs to know only that the parent has closed or is lost
and that the first client has left. The probe is a program of its own.

`PROJECT.json` lists under `hazards` where each of these can go wrong in a way
that a test would hardly reach, with the properties that would show it, or why
none does yet.

## Modules

| Module | What it is |
|---|---|
| `FrameMailbox` | abstract specification: a mailbox of one frame between client and parent |
| `FramePath`, `MCFramePath`, `FramePathProofs` | the frame path, with one client's buffers and surfaces; its instances; its theorems, the refinement of `FrameMailbox` among them |
| `SeatRelay`, `MCSeatRelay`, `SeatRelayProofs` | the keyboard of the seat |
| `ClientObjects`, `MCClientObjects`, `ClientObjectsProofs` | several clients: windows, devices, callbacks, disconnects |
| `DmabufParams`, `MCDmabufParams`, `DmabufParamsProofs` | params, descriptors, the checks and their arithmetic |
| `Lifecycle`, `LifecycleProofs` | the process: startup, child, loop, signals, shutdown, exit code |
| `ProtocolTables` | the generated tables, one definition for each |
| `ClientWire`, `MCClientWire`, `ClientWireProofs` | requests and events between a client and the bridge, through the tables of both ends |
| `ParentConnection`, `MCParentConnection`, `ParentConnectionProofs` | the bridge as a client of its parent |
| `Qualify`, `MCQualify` | the qualification probe and its second process, with its theorem |

`ClientWire` and `ParentConnection` extend `ProtocolTables`; no other module
that models code uses another, but for `FramePath`, which instantiates `FrameMailbox`. What their proofs say of
queues of messages (`Has`, `Once`, `Ahead`, `Before`) is the same in both.

Definitions introduced by a comment that begins with *Mutant* are deliberate
errors. No specification uses them: each can replace the definition that
follows it, to confirm that the properties notice.

### FramePath

One action is one handler. `CreateBuffer` and `DestroyBuffer` are
`params_create_immed` and `buffer_destroy`; `CreateSurface` to `Detach` are the
requests on surfaces (an `AckConfigure` may come before anything was told, since
`xs_ack` does not ask); the handler `surface_commit` is split by its outcome:
`CommitForConfigure`, `CommitBare` (a cursor), `CommitPresented`,
`CommitQueued`, `CommitCopyFails`. `ReleaseOnly`, `ReleaseStages`,
`ReleaseDangling` and `ReleaseCopyFails` are the outcomes of `shm_release` with
the `pump_queue` inside it. `TopConfigure` and `XsConfigure` are the parent's
two configure events.

What is shared by the handlers is an operator named after its function.
`UsePool`, `LosePool` and `CannotStage` are the outcomes of `ensure_pool` with
`arm_slots`; `ShowFrame` is the rest of `stage_buffer`; `ReleaseClient` and
`Enqueue` are `release_client` and `enqueue_buffer`.

- A buffer's size and format are one value, `Geometry[b]`. Strides, offsets,
  pixels and damage are left out. `pool` is the geometry the slots were really
  cut for. `gsize` stands for `G.width` and `G.height`, which `ensure_pool` and
  `top_configure` both write. The difference between the two is the subject of
  `FrameFits`.
- `held` is what the parent has, `busySlots` what the bridge believes it has.
  `armed` says that the release listener really is on the slots, `listening` is
  the flag `slots_listening`.
- `owed` is what the client waits for: the buffers whose release was not sent.
- A buffer_state that is `busy` when its wl_buffer is destroyed becomes a
  `zombie` until `release_client` frees it.
- Where the code would read freed memory or a null pointer, the session ends
  with a name for it (`dangling_surface` and so on). Nothing is said of what
  follows. A protocol error ends the session too, since libwayland disconnects
  the client, and so ends the bridge.

The constant `ClientObeys` lists the rules the client keeps, and `WorldMay`
what the kernel and the parent may do to the bridge. A property that
needs a rule names it by the constants of its run, or in the assumption of its
theorem.

### SeatRelay

The handlers of the parent's keyboard are operators on a record of the seat
(`UpKey`, `UpMods`, `ForwardKey`, `ForwardMods`), because the chord calls six of
them in a row: `SuperReturn` is `deliver_super_return`. `view[c]` is what
keyboard `c` was told, and `odd` collects the keyboards that were sent a key
event that makes no sense. The parent sends modifiers after a focus change and
after a key that changed the mask, and nothing between the two: `owesMods`.
Weston behaves in this way, and focuses only a window that has shown a frame.

The code drops latched and locked modifiers and the group (1240-1253), and
sends keyboards no new keymap after the first (1182-1197). The model has only
depressed modifiers.

### ClientObjects

The bridge's pointers into other objects, for several clients: `main_surface`,
`G.keyboards`, `G.pointers`, `queued_surface` and the frame callbacks that went to
the parent. No resource has a destructor, so a disconnect (`ClientLeaves`) frees
what the client has and changes none of them.

`half` is whose half of a turn of the loop it is: in the first the parent's events
are dispatched, in the second the clients' requests. A client that is gone is no
end of the loop. `ClientGone` is `client_gone`: for the client that was hooked it
sets `compositorGone` and clears `run`, which only `ToParent` tests, at the end of
the turn (1513). Libwayland meets a client's end where it reads its socket, which is
in the second half, or where it flushes to it. The bridge flushes in the first half
as well, at its start (1518) and inside five listeners (303, 372, 1145, 1214, 1258),
so `ClientLeaves` may come between any two events of the parent. For the
compositor that breaks the rule `ends_in_time`, which is not the compositor's to
keep; it is named because the properties are false without it.

`fields[c]` is what is set in a
surface_state and `resources[c]` what exists. A handler that would use a freed
object is an action of its own (`...Faults`), which sets `fault` and ends the
behaviour.

A client has one surface, keyboard and pointer. Frames are only "shown"
(`CommitShown`) or "waiting" (`CommitWaits`), in either case at any time: when a
frame waits is the subject of `FramePath`. A surface is destroyed
only after its frame has left the queue, since the other case ends in
`FramePath`'s `dangling_surface`. A client whose event named another client's
object is `doomed`, because libwayland drops it.

`MayBreak` names rules the clients may break, `MaxBroken` how many of them in one
behaviour, and `broken` is a ghost that remembers which were. Each property says which
rules it needs, and the run breaks every one of the six: the others must not
matter.

### DmabufParams

A params object is `open` while its user data is the `buffer_state`, `spent`
once `params_create_immed` has passed that on. Handlers that read the null user data
set `fault`. `open` is the set of descriptors of the process: those of the
dma-bufs and of the staging pool.

A buffer is followed to its end: `Attach`, the three outcomes of a commit
(`CommitShown`, `CommitWaits`, `CommitBare`), the queue (`PumpShows`,
`PumpFails`), `BufferDestroy` and `BufferDestroyBusy`. `ReleaseClient` returns
early when the buffer is `released` already: a buffer that is pending on two
surfaces can be marked released by the one and queued by the other, and then stays
busy with its descriptor open. `ClientLeaves` is the end of a client that is not the
compositor, which frees the resources and no buffer_state.

`cut` is the image the pool's slots were cut for, `size` is `G.width` and `G.height`.
`PoolMatches` compares an image with `size`, as `ensure_pool` does (235), and
`TopConfigure` overwrites `size`, so a frame may be copied into slots of another image.
`StageNew` and `PoolLost` are the rebuild and its failures.

`ParamsError` is `params_ok`; `RowBytes`, `Stride`, `FrameBytes`, `PoolBytes`,
`PoolSize` and `SlotStart` are the arithmetic of `params_ok`, `ensure_pool` and
`copy_buffer` with the conversions the code makes, and nothing stops them from
wrapping. An int that overflows in `width * 4` wraps, as it does in a build
without a check. `Sizable` and `Mappable` are what `ftruncate` and `mmap`
refuse; `mmap` maps no 2^62 bytes (`MapAssumption`). `Word` stands for 2^32.
It is 128 in the runs and any even number above 8 in the theorems. As in
`ClientObjects`, `broken` remembers the rules that were broken, `ftruncate` and
`keeps_size` among them, which are the kernel's and the parent's to keep.

### ProtocolTables and ClientWire

Each interface of the generated files has its message list (`...Messages`, from
the `.c` files), handler struct, opcode and event code macros, listener struct,
since macros, and its stubs by the object they make and whether they end
their own. wayland-scanner keeps them in step; nothing in the language does.
libwayland's own interfaces (`WlRequests`, `WlEvents`, `WlStubs`) are external.

`ClientWire` sends messages through them. `CallStub` is a client's call of a
stub, `DispatchRequest` what the bridge's libwayland and the implementation
struct do with it, and `DispatchEvent` the client's side. `Impl` holds every
implementation struct of `bridge.c`, by what each function does to objects and the
events it sends. There is one object of each interface at a time. `trouble` is
what went wrong first: a request or event that ran the wrong function
(`misrouted`), a request that was `refused` by libwayland or had `no implementation`
or was `rejected` by a handler that turns down every client (`params_create`), an event
that was `unknown` to an object of that version, or a batch of events that
ended `incomplete`.

### ParentConnection

`phase` is how far `main` is with its round trips. Messages are in flight both
ways (`toParent`, `toBridge`). The parent announces its globals, answers, sends
any event an object has at the version it was bound with, and its seats appear,
change devices and disappear. `BindVersion` is the version `registry_global` asks
for, `Listeners` are the listener structs. A seat may be
unplugged while its global or its bind is in flight; the parent answers such a bind
with nothing. `unheard` is a ghost: the seats that were there first and whose
capabilities have not come.

### Lifecycle

`pc` is the place in `main`. The steps of the main loop are `Top` (the test of
`G.run`, the chord and the flushes), `EnterPoll`, `PollReturns`,
`DispatchParent`, `DispatchClients`, and `Reap` or `LoopEnds`. `StopChild` to
`Finish` are the code after the loop. `OnSignal` and `OnUsr1` come between any
two steps; they interrupt `poll` and the last `waitpid`. `EnterPoll` is a step of its
own because a signal just before the system call does not interrupt it. `noChild`
says whether the bridge was told to start nothing, and is either in `Init`.

The child, the parent, the first client and the session's scripts act freely:
the child ends by itself in any of the usual ways, obeys SIGTERM, or ignores it
until SIGKILL. A close or a loss of the parent comes after startup; during the
roundtrips of startup both lead elsewhere (see *Not modelled*).

### Qualify

The probe and its second process, one action for each call that can block or
fail and whose order matters. `ends` and `child.ends` are who has which end of the
socket pair open: `recvmsg` returns nothing once nobody can write, and a send with
nobody to read is a signal. Each process may fail or be killed at any point. A
buffer is the set of channels that hold the pattern.

## Runs that pass

| Run | Instance | What it shows |
|---|---|---|
| `frame_steady` | 3 buffers, 1 surface, one geometry, 3 slots; the parent may configure that size and keep the buffer it shows | the frame path is a `FrameMailbox`, with its liveness; the queue drains, callbacks are forwarded, destroyed buffers are freed |
| `frame_geometry` | 3 buffers of 2 geometries, 2 surfaces, 2 slots, a parent that resizes, failing allocations | leases, no overwriting, the client is told the parent's size, no fault for a client that keeps the rules |
| `frame_wild` | 2 buffers of 2 sizes, 2 surfaces, 2 slots, the window keeps its size; buffers shared, reused early and destroyed in use; failing allocations and copies | the bookkeeping of the staging pool and the queue's pointers stay sound, and every frame fits its slots |
| `seat_keys` | a plain key, Return, Shift, Super; 2 keyboards | keyboards agree with the parent, and every key that is held back reaches every keyboard |
| `life` | with and without a child; SIGTERM and SIGINT, SIGUSR1, 2 waits | stops, no orphan, crash reported, display restored, chord delivered, a close that exits 0, and without a child a lost parent that exits 2 |
| `clients` | a compositor and a diagnostic client, 2 callbacks, any one of six rules broken | which broken rule is needed for an event to a freed object, an end that is missed or mistaken, a lost callback, an event out of focus |
| `params` | 2 params, 2 surfaces, 3 descriptors, 4 planes, 9 images of which some have rows, slots or pools that wrap, a parent that configures any of their sizes, words of 7 bits, any two of nine rules broken | what is used is open and closed once, the five ways to lose a descriptor, copies in bounds, slots told where they are, an honest feedback |
| `wire` | clients that bind one of the four globals at an old or a new version | requests and events reach their functions, none is refused, rejected, unknown or incomplete but the named ones, and both ends agree on what exists |
| `parent` | five parents (new, two old, one without seats, one that lacks a global), two seats | no event without a listener, no refused request, all seats heard, input heard |
| `qualify` | the two formats of `main` | PASS is earned, and both processes end |

**Why the bounds are enough.** Three buffers give one that is shown, one that
waits and one that supersedes it, and any two of them may differ in size or format.
The code asks of the slots only whether none, some or all are busy; two slots
make the three cases distinct, so the runs with two surfaces have 2 and the others
the 3 of the code. Two surfaces give a main surface and
a cursor or a second toplevel. The bridge's counters are small: `Waits` stands
for the 50 looks at the child, and 2 gives a first look and a last one. Two
modifiers are the fewest where one can be held while another is pressed; the
second keyboard differs from the first by when it was bound.
In `frame_geometry` the view `WithoutCallbacks` leaves out the frame callbacks and
the frame committed last: no guard and none of that run's properties reads them.
Surfaces, and buffers of one geometry, are interchangeable in the safety runs.

A second client is the first that is not the compositor. Both callbacks are the
compositor's, so that it can ask for one before the last is answered; `MaxBroken` 1
separates the rules. The third descriptor lets the pool and both buffers be there
at once; `FewBroken` keeps to two broken rules in one behaviour, since one already
excuses each property. The planes and images have each comparison of `params_ok` on
either side, the last offset of a word, a width whose rows wrap to 0 bytes and one
whose rows wrap to 4, rows that an int holds as a negative number, and a pool that
32 bits do not hold. `MaxGlobals` 1
keeps the four object trees of `wire` apart, which share no table, `MaxObjects` 3
gives the longest chain of makers (a base, a surface and its toplevel), and
`MaxQueue` 2 lets a request and an event cross. Batches that belong together
are sent whole beyond it. In `parent`, `MaxQueue` 2 binds what a side sends of
its own accord: answers always go. Two seats give one that is used and one that
is not.

**Deadlock** is checked for the keyboard, which never stops. In the other
systems the session, the process or the behaviour (after a fault) ends, and
their configurations turn the check off.

**Fairness.** A step of the bridge is taken when it can be, because the bridge
is a loop. `FramePath` assumes of the parent that it releases each
buffer a later one has replaced (or any buffer, unless the run says it keeps the
current one) and completes its configures. The first is strong fairness: a
configure in progress delays a release again and again, and never prevents it.
`SeatRelay` assumes that the parent's modifiers event follows the key.
`ClientObjects` and `DmabufParams` assume nothing: `ensure_pool` refuses a frame
while a slot is busy (237) and allocations may fail, so when a frame that waits is
shown, and its callback answered, is stated where slots and parent are modelled
(`QueueDrains`, `FrameForwarded`). `Lifecycle` assumes weak
fairness of the bridge's steps and that SIGKILL ends a process, and strong
fairness of the return of `poll`: signals do not arrive for ever within every
single timeout. `Qualify` assumes that each of its two processes runs. Nothing
is assumed of the client, the user, or the child before SIGKILL.

## Runs that show a disagreement

Each of these checks one property that a test or a document states and the code
violates. `findings` in `PROJECT.json` quotes them.

| Run | What happens |
|---|---|
| `frame_resize_v` | A configure overwrites the size that `ensure_pool` compares with. A frame of the new size is copied into slots cut for the old one. |
| `clients_extra_v` | A second client makes a window or a device and disconnects. The next event of the parent goes to its freed resource (569, 955). |

Other limits of the passing properties show when a constant of a passing
configuration is changed, or a property is checked that holds under fewer
conditions only:

| Configuration | Change | TLC then finds | What happens |
|---|---|---|---|
| `frame_steady` | `Geometry <- TwoSizes`, `ParentSizes = {}`, check `WaitingGoesFirst` | `WaitingGoesFirst` | A frame that fits the pool is shown while an older one of another size waits, which is shown after it (382), where `tests/suite.c:548-550` expects frames in order. |
| `frame_steady` | `Geometry <- TwoSizes` | `QueueDrains` | A parent that keeps the current buffer never empties the pool, and a frame of another size waits for ever (237), where `tests/suite.c:614` expects "held frame copied before parent release". |
| `frame_geometry` | `WorldMay` with `"split_configure"` | `ToldIsAsked` | A pool rebuilt between the two configure events makes the bridge tell the client its own last size (338, 255). |
| `frame_geometry` | a rule of the client left out: `awaits_release`, `keeps_pending`, `keeps_queued_surface` or `keeps_toplevel` | `NoFault` | A protocol error for a buffer reused early, or a use of freed memory (697, 428, 872). |
| `seat_keys` | `shiftR` in `Keys` and `Modifiers`, and check `NothingStuck` | `PendingDelivered`, `NothingStuck` | Both Shift keys share a bit, so the second press is followed by no modifiers event: it is held back and replaced by the next modifier key, or stays down for the client (1235), where `tests/suite.c:578` expects "modifier key delivered" of one key alone. |
| `seat_keys` | `WorldMay` with `"chord_any_time"` | `Sensible` | The chord presses keys that are down and ends with modifiers 0 while the user holds one (1380-1388). |
| `seat_keys` | `WorldMay` with `"late_keyboard"` | `KeysFaithful` | A keyboard bound in focus gets no enter (648). |
| `life` | `WorldMay = {"early_signal"}` | `NoOrphan` | SIGTERM between `fork` and `sigaction` leaves the compositor running (1502-1507), where `docs/receipts/hostile-validator-20260923T224539Z.md:44` has "no leftover processes". |
| `life` | `WorldMay = {"late_import"}` | `DisplayRestored` | The session's import comes after the restore (1394). |
| `life` | `Stops` without `~noChild` | `Stops` | Without a child poll has no timeout, and a signal just before it is not acted on (1526). |
| `life` | `LossExitsTwo` without `noChild` | `LossExitsTwo` | With a child, the loss of the parent exits with the child's code (1583), where `tests/suite.c:886` has "parent loss exits 2". |
| `life` | check `CloseExitsZero` | `CloseExitsZero` | A compositor that ends by itself, with another code, in the iteration that read the window's close hides it (1545-1551), where `docs/usage.md:37` has "The bridge exits 0". |
| `clients` | `MayBreak = {"ends_in_time"}`, check `DisconnectStops` | `DisconnectStops` | A flush between two events of the parent (1214 and five more) meets the compositor's end. `client_gone` only clears `G.run`, and the next event of the batch goes to a freed keyboard, pointer or window. `tests/suite.c:647` has "client disconnect stops bridge", with no event of the parent on the way. |
| `params` | `MayBreak = {"uses_once"}`, check `SecondUseRefused` | `SecondUseRefused` | A params that was used has no user data: its second use reads through a null pointer (763, 717) and `already_used` is never sent, which `gen/linux-dmabuf-server.h:427` documents. |
| `parent` | `WorldMay` with `"caps_lost"` or `"seat_removed"` | `InputHeard` | A device is asked for once and never given up: input stays on one that no longer speaks (1278). |

Some properties name the limit themselves. `EventsSound` and `CompositorEnds`
need that the compositor binds first (1063) and that its end is not met by a
flush among the parent's events; `EventsSound` also that nobody else makes a
window or device, and that shell objects go with their surface.
`CallbackKept` needs one frame request at a time (463), `PointerPaired` that
devices and window do not change under the focus (648). `Allowed` leaves out popups and
touch devices, which have no implementation (961, 664). `EventsUnderstood` leaves out
the devices of a seat bound below version 8, which the bridge makes at version 9
(627). `RequestsTaken` leaves out `damage_buffer` with a parent's compositor
older than 4, `SeatsHeard` the seats that are gone before they were heard. `Allowed`
also has `create` of a dma-buf's params turned down for everyone (728). `FdsSound`
names the five ways to lose a descriptor: a params destroyed unused, a client that
leaves, a buffer pending on two surfaces (267), a failing `ftruncate` (246), and a
size that `ftruncate` refuses. `CopyInBounds` leaves out what is copied after a
configure of another size over the pool's (235, as `frame_resize_v` shows), and
`SlotsTold` the pools that 32 bits cannot hold (253, 259): `ensure_pool` does not ask
whether they do. `ObjectsAgree` leaves
out the callbacks that the parent's frames answered, whose resources stay.

The passing properties stand beside these. `FrameFits` holds for every
order of frames as long as the parent keeps its size; the mailbox holds as long
as all frames have one geometry; `KeysFaithful` holds when every modifier has a
bit of its own and the chord comes with no key down.

## Theorems

Proved by TLAPS for any number of buffers, surfaces, slots, keys, keyboards,
waits, clients, callbacks, params, descriptors, formats, seats and messages in
flight, any word, and any versions that clients and parents may come with.

| Theorem | Assumes | States |
|---|---|---|
| `TypeCorrect`, `StagingCorrect`, `QueueCorrect`, `NeverOverwrites` | nothing of client or world | `TypeOK`, `StagingSafe`, `QueueSound`, `NoOverwrite` |
| `FramesFit` | the parent configures no size after the first | `FrameFits` |
| `LeasesSound` | a buffer is pending on one surface only | `LeaseSound` |
| `ImplementsMailbox`, `LosesNothing` | every frame and every later configure has one geometry, and no allocation fails | `FramePath` implements `FrameMailbox`'s safety part; `NothingLost` |
| `RulesSpareFaults` | five rules of the client (`KeepsRules`), and copies that do not fail | `NoFault` |
| `TellsWhatIsAsked` | windows attach no buffer before their first configure, and configures arrive whole | `ToldIsAsked` |
| `SeatTypeCorrect` | nothing | `TypeOK` |
| `KeyboardFaithful`, `KeyboardSensible` | a bit for each modifier; chords with no key down, and no change of keyboards or window in focus | `KeysFaithful`, `Sensible` |
| `LifeTypeCorrect` | nothing | `TypeOK` |
| `NeverOrphans`, `CrashesReported` | no signal before the handlers | `NoOrphan`, `CrashReported` |
| `DisplayComesBack` | the same, and the session's scripts end with the compositor | `DisplayRestored` |
| `ClosesReported` | no signal before the handlers | `CloseReported` |
| `LossesExitTwo` | nothing; the property speaks of a bridge without a child | `LossExitsTwo` |
| `ClientTypeCorrect` | nothing | `TypeOK` |
| `EventsAlwaysSound`, `CompositorAlwaysEnds`, `CallbacksKept`, `PointersPaired` | nothing; each property names the rules it needs | `EventsSound`, `CompositorEnds`, `CallbackKept`, `PointerPaired` |
| `ParamsTypeCorrect`, `DescriptorsSound` | nothing, likewise | `TypeOK`, `FdsSound` |
| `FeedbackCorrect` | nothing | `FeedbackHonest` |
| `CopyCorrect`, `SlotsCorrect` | an even word above 8, and an `mmap` that maps no quarter of the address space | `CopyInBounds`, `SlotsTold` |
| `WireTypeCorrect`, `RequestsAreRouted`, `RequestsAreAllowed`, `EventsAreUnderstood`, `BothEndsAgree` | versions that are positive; the properties name popups, touch devices, `create`, input devices of an old seat and callbacks | `ClientWire`'s `TypeOK`, `Routed`, `Allowed`, `EventsUnderstood`, `ObjectsAgree` |
| `TypeCorrect` (of `ParentConnectionProofs`), `EventsAreTaken`, `RequestsAreTaken`, `SeatsAreHeard` | nothing of parent or world; a finite set of seats | `TypeOK`, `EventsTaken`, `RequestsTaken`, `SeatsHeard` |
| `InputIsHeard` | no seat the bridge uses is removed and none loses a device | `InputHeard` |
| `PassIsEarned` | nothing | `PassMeansRead` |

**The frame path.** `SafeInv` is inductive without any assumption: it joins the types to
`StagingSafe` (the slots that are held are those that are busy, which needs the pool
and the listener behind them to survive each rebuild) and `QueueSound` (a buffer
that waits is busy, so it can neither be attached nor freed), and adds that
`slots_listening` is set only when the listeners are there. `NoOverwrite`
follows, since a free slot is one that is not held. `FitInv` adds that `gsize`
is the pool's size whenever there is a pool, the fact a resize breaks. `LeaseInv` adds
that a pending buffer is neither busy nor released, which needs the rule that no
buffer is pending on two surfaces: a commit on one would mark the other's. `MailboxInv` adds that all slots are busy while a frame waits:
then a commit cannot overtake it, and a release always stages it. That is what the
refinement needs. `FaultInv` says that what the bridge is about to read exists:
the buffers that are pending, the toplevels, the surface whose frame waits.
`ToldInv` says when `gsize` is the parent's: between the two events of a
configure, and until a surface with an acked configure has shown a frame. A
toplevel that is configured by its first commit is the second case.

**The keyboard.** `SeatInv` says what keyboards know *before* the modifiers
come: they believe all keys that are down, except that the pending key has not
changed yet (`Told`); the pending key is the last one that changed
(`PendingIsLast`); and it is gone whenever the parent owes nothing
(`Completed`). A bit of its own for each modifier is what makes every modifier key
be followed by its modifiers.

**The lifecycle.** `LifeInv` says, place by place, what main knows of the
child (`ChildKnown`), what the child was sent (`ChildAsked`) and that the code
of a child that ended unasked is the one in hand (`CrashKept`). `DisplayInv`
adds that nobody has written the display before there is a child. `CloseInv` adds
that a child which was sent nothing and has ended did so unasked, so the code that
`Reap` takes over a close is never that of a child the bridge has stopped. `AloneInv` is about a
bridge without a child: it says why the loop was left, which the exit code needs.

**The clients.** `ClientInv` says that unless two clients have objects, all the
bridge keeps is the compositor's (`Alone`); that the compositor is the one that is
hooked once it has come (`Hooked`), so that its end clears `run` and, where it
comes in the clients' half, no event follows it; that a surface_state has no field of a freed object, unless shell objects were
left behind (`Whole`); that a callback on a surface is its client's (`Shaped`); and
that exactly in the parent's focus, which then is on a window, every pointer is
inside (`Inside`). None of these is inductive without `main_surface` being one
that has a toplevel, which is part of `TypeOK`.

**The params.** The invariant joins the two halves of `FdsSound` and
`FeedbackHonest` with what was checked: a buffer's plane and image passed
`params_ok` (`Accepted`). A buffer that is pending is live, and one that waits is busy
and not freed (`Waiting`). `FdsOwned` needs to know which buffers are busy: only
the one that waits, while no buffer is pending twice (`LeasedOnce`), since a busy
buffer that is destroyed keeps its descriptor until `release_client` frees it. `PoolCut` says
that the pool is one that `mmap` took, of `size` unless a configure has changed it.
`CopyCorrect` rests on `MappedStride`: where `width * 4` overflows an int, a row is a
negative number of bytes or none, and the pool that `ensure_pool` asks for is too
large to be mapped or empty; so in every pool that exists a row has the bytes
`params_ok` compared with, although both may have wrapped.

**The wire.** The proof has two halves. The tables are gone through interface by
interface: `TablesFit` says that at every interface stubs, opcodes, handler structs, event
codes, listeners and versions belong together, and `Effects` that each function of
the implementation structs makes, ends and leaves what the stub of its name does.
From then on no table is opened, and `WireInv` is about messages in flight. For each
object (`Ordered`) the request that makes it is there once, ahead of all that ask
something of it, and the one that ends it is behind all of them. So (`Shared`)
the client has an object exactly when the bridge has it, or is about to,
and no end is under way. An object not yet made already has its version (`Will`),
which is its maker's, or that of its maker's maker; without it no request in flight
could be known to be old enough (`OldEnough`). `FeedbackTold` says that each event
which the end of a batch needs has come or is ahead of it, and `Configures` that a
surface's configure has its toplevel's right ahead of it: the toplevel may be
destroyed while both are under way, and another be made.

**The parent connection.** `ConnectionInv` says of every message in flight that its
object exists, that it is one the other side knows at the version of `BoundAt` (what
`registry_global` binds at, for the global the object comes from), and that no version is
above what the listeners were written for. `TripInv` says that there is one round trip at
a time, that a seat is announced and bound once, and that in the second round trip
the capabilities of every unheard seat, or the bind they answer, are ahead of its
end in whichever queue that is. `DevicesInv` follows a device from the seat's capabilities
to `G.pointer` or `G.keyboard` and on to the request for it: at each moment one of the
three holds it. It needs that capabilities in flight are still true (`CapsHonest`), which is
what `caps_lost` and `seat_removed` break.

**The probe.** `QualifyInv` says that every format before the current one is good,
and the current one when its second process has exited with 0.

Each invariant was checked with TLC before it was proved.

**Only model-checked** are all liveness properties (`QueueDrains`,
`FrameForwarded`, `ZombieFreed`, `PendingDelivered`, `Stops`, `ChordDelivered`,
`BothEnd`, and the fairness of `MailboxSpec`), because the
proof system has no rules for `ENABLED`. Every other property of a passing run is a
theorem.

## Not modelled

- **Positioners, popups and regions** beyond their place on the wire: the bridge
  keeps nothing of them.
- **Keymap, repeat rate, latched and locked modifiers**: passed on or
  dropped, no state that a later step reads.
- **Startup**: a close of the parent during the roundtrips reaches
  `wl_display_flush_clients` before the server exists (1327, 1481-1483).
- **When a seat in use is unplugged** `parent.cfg` leaves out (`seat_removed`), because
  `InputHeard` is false then; the table above has it.
- **Mappings** of the staging pool, which no rebuild unmaps: address space is not
  in a model.
- **Output of the probe**: its second process leaves by `_exit`
  (`docs/receipts/hostile-validator-20260923T222215Z.md:44`), a matter of stdio.
- **find_vkms, the launcher and install scripts**: I/O done once, and other
  programs that run in sequence.
- **The test suite and the mock parent**: read as the statement of what is expected.
- **Signatures and enumerations of the generated code**: the tables have names,
  versions and places.

## Plan

Done: the frame path with its abstract specification and proofs; the keyboard, the
lifecycle, the clients' objects, the params, the wire, the parent connection and
the probe, each with its proofs. Next:

1. `UserEnvironment`: the launcher's value, the imports and the restore, with two
   bridges one after the other; abstract specification: the last session's end
   restores the first display.
2. `Bridge`: `Lifecycle` composed with `FramePath` and `SeatRelay` through `main_surface`,
   the close and the chord.

## Running it

    tlc -config frame_steady.cfg MCFramePath
    tlc -config seat_keys.cfg MCSeatRelay
    tlc -config clients.cfg MCClientObjects
    tlc -config life.cfg Lifecycle
    tlapm ClientObjectsProofs.tla

`tlapm` takes a few minutes each for `FramePathProofs`, `ClientWireProofs` and
`ParentConnectionProofs`, and less than one for each of the others.
