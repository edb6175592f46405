------------------------------- MODULE FramePath -------------------------------
(***************************************************************************)
(* The frame path of bridge.c: the client's dma-bufs, its surfaces, the    *)
(* staging pool shared with the parent compositor, and the one queued      *)
(* frame between them.                                                     *)
(*                                                                         *)
(* The bridge is one thread: a client request or a parent event is handled *)
(* from start to end before the next one, so every handler is one action.  *)
(* The interleavings are those of the two connections it serves.           *)
(***************************************************************************)
EXTENDS Naturals, FiniteSets

CONSTANTS Buffers,      \* the wl_buffers the client makes
          Surfaces,     \* the wl_surfaces the client makes
          Geometry,     \* Geometry[b]: size and format of buffer b
          STAGING,      \* staging slots in the pool (3 in the code)
          InitSize,     \* the size of the parent's first configure
          ParentSizes,  \* the sizes of the parent's later configures
          ClientObeys,  \* the rules this client keeps
          WorldMay,     \* what the world around the bridge may do
          None

ClientRules == {"one_surface",          \* a buffer is pending on one surface only
                "awaits_release",       \* no attach of a buffer before its release
                "keeps_pending",        \* no destroy of an attached, uncommitted buffer
                "keeps_queued_surface", \* no destroy of a surface owed a release
                "keeps_toplevel",       \* a toplevel goes together with its surface
                "acks_first"}           \* a window has no buffer before its first ack_configure

WorldEvents == {"alloc_fail",           \* memfd_create, ftruncate or mmap fails
                "sync_fail",            \* DMA_BUF_IOCTL_SYNC or mmap of a dma-buf fails
                "split_configure",      \* the two configure events arrive in two reads
                "keep_current"}         \* the parent keeps the buffer it shows

Slots == 1..STAGING
Sizes == {Geometry[b].size : b \in Buffers} \cup ParentSizes \cup {InitSize}
Formats == {Geometry[b].format : b \in Buffers}

ASSUME StagingAssumption == STAGING \in Nat \ {0}
ASSUME GeometryAssumption ==
  \A b \in Buffers : /\ Geometry[b] = [size |-> Geometry[b].size, format |-> Geometry[b].format]
                     /\ Geometry[b] # None
ASSUME RulesAssumption == ClientObeys \subseteq ClientRules /\ WorldMay \subseteq WorldEvents
ASSUME NoneAssumption == None \notin Buffers \cup Surfaces \cup Sizes

VARIABLES
  pool,          \* G.pool: the geometry its slots were cut for, or None
  gsize,         \* G.width, G.height: written by the pool and by the parent
  listening,     \* slots_listening
  armed,         \* shm_listener really is on the slots of this pool
  busySlots,     \* the slots with G.slot[i].busy
  held,          \* the slots given to the parent and not released by it
  shown,         \* the last frame committed to the parent: buffer, slot and pool
  queued,        \* queued
  queuedSurface, \* queued_surface
  latest,        \* the last frame committed on a toplevel
  bufState,      \* a buffer_state: unmade, live, zombie (dead, resource gone), freed
  busy,          \* the buffers with buf->busy
  released,      \* the buffers with buf->released
  owed,          \* the buffers whose wl_buffer.release the client awaits
  surfState,     \* a surface_state: unmade, bare, xdg, toplevel, stale, freed
  acked,         \* the surfaces with s->ack
  pending,       \* s->pending_buffer
  frame,         \* the surfaces with s->frame
  told,          \* the size in the last configure sent for the surface
  mainSurface,   \* main_surface
  asked,         \* the size in the parent's last xdg_toplevel.configure
  configuring,   \* that configure awaits its xdg_surface.configure
  session        \* up, or why the session is over

poolVars == <<pool, gsize, listening, armed>>
slotVars == <<busySlots, held, shown>>
queueVars == <<queued, queuedSurface>>
pathVars == <<queueVars, latest>>
bufVars == <<bufState, busy, released, owed>>
surfVars == <<surfState, acked, pending, frame>>
confVars == <<told, mainSurface, asked, configuring>>
vars == <<poolVars, slotVars, pathVars, bufVars, surfVars, confVars, session>>

BufferStates == {"unmade", "live", "zombie", "freed"}
SurfaceStates == {"unmade", "bare", "xdg", "toplevel", "stale", "freed"}

\* "error" is a protocol error sent to the client, which ends it; the others
\* are uses of freed memory or of a null pointer, after which nothing is said.
Endings == {"closed", "error", "dangling_buffer", "dangling_surface",
            "dangling_toplevel", "null_resource"}

Init ==
  /\ pool = None /\ gsize = InitSize /\ listening = FALSE /\ armed = FALSE
  /\ busySlots = {} /\ held = {} /\ shown = [buffer |-> None, slot |-> 0, pool |-> None]
  /\ queued = None /\ queuedSurface = None /\ latest = None
  /\ bufState = [b \in Buffers |-> "unmade"]
  /\ busy = {} /\ released = {} /\ owed = {}
  /\ surfState = [s \in Surfaces |-> "unmade"]
  /\ acked = {} /\ pending = [s \in Surfaces |-> None] /\ frame = {}
  /\ told = [s \in Surfaces |-> None] /\ mainSurface = None
  /\ asked = InitSize /\ configuring = FALSE
  /\ session = "up"

-----------------------------------------------------------------------------
(* The staging pool                                                        *)

\* Mutant: the size of the pool is not compared.
MatchesAnySize(g) == pool # None /\ pool.format = g.format

\* ensure_pool keeps the pool: it compares with G.width and G.height, not
\* with the size the slots were cut for.
PoolMatches(g) ==
  /\ pool # None
  /\ gsize = g.size
  /\ pool.format = g.format

\* ensure_pool may answer 0 while the slots in taken are busy.
PoolUsable(g, taken) == PoolMatches(g) \/ taken = {}

\* Mutant: a frame is staged only when every slot is free.
StagesWhenIdle(g, taken) == PoolUsable(g, taken) /\ taken = {}

\* stage_buffer has a slot to copy a frame of geometry g to.
CanStage(g, taken) == PoolUsable(g, taken) /\ Slots \ taken # {}

\* Mutant: the busy flags are not looked at.
FirstSlot(taken) == 1

\* free_slot: the lowest slot that is not busy.
FreeSlot(taken) == CHOOSE i \in Slots \ taken : \A j \in Slots \ taken : i <= j

\* Mutant: the rebuild does not reset slots_listening.
ListeningKept(g) == listening

\* slots_listening as arm_slots finds it: a rebuild has reset it.
ListeningSeen(g) == listening /\ PoolMatches(g)

\* ensure_pool answers 0: the pool is kept, or destroyed and rebuilt.  Then
\* arm_slots puts the release listener on the slots.
UsePool(g) ==
  /\ IF PoolMatches(g) THEN UNCHANGED <<pool, gsize>> ELSE pool' = g /\ gsize' = g.size
  /\ listening' = TRUE
  /\ armed' = (~ListeningSeen(g) \/ (armed /\ PoolMatches(g)))

\* ensure_pool has destroyed the pool and cannot make the next one.
LosePool ==
  /\ pool' = None
  /\ listening' = FALSE
  /\ armed' = FALSE
  /\ UNCHANGED gsize

\* stage_buffer answers 1: the frame has to wait.  Either ensure_pool refuses
\* or every slot is busy, and nothing changes; or the pool is lost.
CannotStage(g, taken) ==
  \/ ~CanStage(g, taken) /\ UNCHANGED poolVars
  \/ /\ "alloc_fail" \in WorldMay
     /\ ~PoolMatches(g)
     /\ taken = {}
     /\ LosePool

\* Mutant: the frame callback is not handed over.
ForwardNothing(s) == frame

\* stage_buffer hands the surface's frame callback to the parent.
Forward(s) == frame \ {s}

\* The frame of b goes to the parent, who holds the slots lent, in a free slot.
ShowFrame(b, taken, lent) ==
  /\ UsePool(Geometry[b])
  /\ busySlots' = taken \cup {FreeSlot(taken)}
  /\ held' = lent \cup {FreeSlot(taken)}
  /\ shown' = [buffer |-> b, slot |-> FreeSlot(taken), pool |-> pool']

-----------------------------------------------------------------------------
(* The client's buffers                                                    *)

\* Mutant: a dead buffer is left allocated.
FreeNever(state) == state

\* The end of release_client: a dead buffer is freed.
FreeIfDead(state) == IF state = "zombie" THEN "freed" ELSE state

\* Mutant: the release is sent and the busy flag stays.
ReleaseStaysBusy(b, busyNow, owedNow) ==
  /\ busy' = busyNow
  /\ owed' = owedNow \ {b}
  /\ released' = released \cup {b}
  /\ bufState' = [bufState EXCEPT ![b] = FreeIfDead(@)]

\* release_client(b), where the caller has already made the busy buffers
\* busyNow and the client awaits the release of owedNow.
ReleaseClient(b, busyNow, owedNow) ==
  IF b \in released
  THEN /\ busy' = busyNow
       /\ owed' = owedNow
       /\ UNCHANGED <<released, bufState>>
  ELSE /\ busy' = busyNow \ {b}
       /\ owed' = owedNow \ {b}
       /\ released' = released \cup {b}
       /\ bufState' = [bufState EXCEPT ![b] = FreeIfDead(@)]

\* Mutants: the superseded frame is not released; the older frame stays.
EnqueueForgets(s, b) ==
  /\ busy' = busy \cup {b} /\ owed' = owed \cup {b} /\ UNCHANGED <<released, bufState>>
  /\ queued' = b
  /\ queuedSurface' = s

EnqueueKeepsOldest(s, b) ==
  IF queued \in {None, b}
  THEN EnqueueForgets(s, b)
  ELSE ReleaseClient(b, busy, owed) /\ UNCHANGED queueVars

\* enqueue_buffer(s, b): b waits, and a frame it supersedes is released.
Enqueue(s, b) ==
  /\ IF queued \in {None, b}
     THEN busy' = busy \cup {b} /\ owed' = owed \cup {b} /\ UNCHANGED <<released, bufState>>
     ELSE ReleaseClient(queued, busy \cup {b}, owed \cup {b})
  /\ queued' = b
  /\ queuedSurface' = s

ClearQueue == queued' = None /\ queuedSurface' = None

\* Mutant: a staged frame stays queued.
StayQueued(b) == UNCHANGED queueVars

\* The part of release_client(b) that empties the queue.
Unqueue(b) == IF queued = b /\ b \notin released THEN ClearQueue ELSE UNCHANGED queueVars

Obeys(rule) == rule \in ClientObeys

\* The bridge handles a client request.  The parent sends its two configure
\* events together, so this happens between them only when they arrive in two
\* reads, and other events of the parent never come between them.
ClientTurn == session = "up" /\ (configuring => "split_configure" \in WorldMay)

\* params_create_immed, of params that params_ok accepts.
CreateBuffer(b) ==
  /\ ClientTurn
  /\ bufState[b] = "unmade"
  /\ bufState' = [bufState EXCEPT ![b] = "live"]
  /\ UNCHANGED <<poolVars, slotVars, pathVars, busy, released, owed, surfVars, confVars, session>>

\* buffer_destroy: a busy buffer lives on without its resource.
DestroyBuffer(b) ==
  /\ ClientTurn
  /\ bufState[b] = "live"
  /\ Obeys("keeps_pending") => \A s \in Surfaces : pending[s] # b
  /\ bufState' = [bufState EXCEPT ![b] = IF b \in busy THEN "zombie" ELSE "freed"]
  /\ IF b \notin busy /\ queued = b THEN ClearQueue ELSE UNCHANGED queueVars
  /\ owed' = owed \ {b}
  /\ UNCHANGED <<poolVars, slotVars, latest, busy, released, surfVars, confVars, session>>

-----------------------------------------------------------------------------
(* The client's surfaces                                                   *)

IsSurface(s) == surfState[s] \notin {"unmade", "freed"}
HasToplevel(s) == surfState[s] \in {"toplevel", "stale"}   \* s->toplevel is not null

MakeSurface(s, from, to) ==
  /\ ClientTurn
  /\ surfState[s] = from
  /\ surfState' = [surfState EXCEPT ![s] = to]
  /\ UNCHANGED <<poolVars, slotVars, pathVars, bufVars, acked, pending, frame, session>>

\* comp_surface
CreateSurface(s) == MakeSurface(s, "unmade", "bare") /\ UNCHANGED confVars

\* xdg_get_surface
GetXdgSurface(s) ==
  /\ Obeys("acks_first") => pending[s] = None
  /\ MakeSurface(s, "bare", "xdg")
  /\ UNCHANGED confVars

\* xs_toplevel: the last toplevel made is the main surface.
GetToplevel(s) ==
  /\ MakeSurface(s, "xdg", "toplevel")
  /\ mainSurface' = s
  /\ UNCHANGED <<told, asked, configuring>>

\* top_destroy: s->toplevel keeps pointing to the destroyed resource.
DestroyToplevel(s) ==
  /\ ~Obeys("keeps_toplevel")
  /\ MakeSurface(s, "toplevel", "stale")
  /\ UNCHANGED confVars

\* surface_destroy: the queue keeps pointing to the surface.
DestroySurface(s) ==
  /\ ClientTurn
  /\ IsSurface(s)
  /\ Obeys("keeps_queued_surface") => queuedSurface # s
  /\ surfState' = [surfState EXCEPT ![s] = "freed"]
  /\ mainSurface' = IF mainSurface = s THEN None ELSE mainSurface
  /\ pending' = [pending EXCEPT ![s] = None]
  /\ acked' = acked \ {s}
  /\ frame' = frame \ {s}
  /\ UNCHANGED <<poolVars, slotVars, pathVars, bufVars, told, asked, configuring, session>>

\* xs_ack, whether or not there was a configure to acknowledge.
AckConfigure(s) ==
  /\ ClientTurn
  /\ surfState[s] \in {"xdg", "toplevel", "stale"}
  /\ acked' = acked \cup {s}
  /\ UNCHANGED <<poolVars, slotVars, pathVars, bufVars, surfState, pending, frame, confVars, session>>

\* surface_frame: a callback that was not answered yet is forgotten.
RequestFrame(s) ==
  /\ ClientTurn
  /\ IsSurface(s)
  /\ frame' = frame \cup {s}
  /\ UNCHANGED <<poolVars, slotVars, pathVars, bufVars, surfState, acked, pending, confVars, session>>

\* surface_attach of a buffer: a busy one is a protocol error.
Attach(s, b) ==
  /\ ClientTurn
  /\ IsSurface(s)
  /\ bufState[b] = "live"
  /\ Obeys("one_surface") => \A t \in Surfaces \ {s} : pending[t] # b
  /\ Obeys("awaits_release") => b \notin owed
  /\ Obeys("acks_first") => s \in acked \/ surfState[s] = "bare"
  /\ IF b \in busy
     THEN session' = "error" /\ UNCHANGED <<released, pending>>
     ELSE /\ released' = released \ {b}
          /\ pending' = [pending EXCEPT ![s] = b]
          /\ UNCHANGED session
  /\ UNCHANGED <<poolVars, slotVars, pathVars, bufState, busy, owed,
                 surfState, acked, frame, confVars>>

\* surface_attach of no buffer
Detach(s) ==
  /\ ClientTurn
  /\ IsSurface(s)
  /\ pending' = [pending EXCEPT ![s] = None]
  /\ UNCHANGED <<poolVars, slotVars, pathVars, bufVars, surfState, acked, frame, confVars, session>>

-----------------------------------------------------------------------------
(* surface_commit                                                          *)

\* Mutant: the client is told the size of the pool.
PoolSize == IF pool = None THEN gsize ELSE pool.size

\* What emit_configure reads.
ConfigureSize == gsize

\* emit_configure(s): the client is told what G.width and G.height hold.
EmitConfigure(s) ==
  /\ told' = IF surfState[s] = "toplevel" THEN [told EXCEPT ![s] = ConfigureSize] ELSE told
  /\ session' = IF surfState[s] = "stale" THEN "dangling_toplevel" ELSE session

\* The first commit of a toplevel, without a buffer, asks for a configure.
CommitForConfigure(s) ==
  /\ ClientTurn
  /\ HasToplevel(s)
  /\ s \notin acked
  /\ pending[s] = None
  /\ EmitConfigure(s)
  /\ UNCHANGED <<poolVars, slotVars, pathVars, bufVars, surfVars, mainSurface, asked, configuring>>

\* A commit reads the pending buffer after its resource is gone.
CommitDangling(s) ==
  /\ ClientTurn
  /\ IsSurface(s)
  /\ pending[s] # None
  /\ bufState[pending[s]] # "live"
  /\ session' = "dangling_buffer"
  /\ UNCHANGED <<poolVars, slotVars, pathVars, bufVars, surfVars, confVars>>

\* The commit of b on s consumes the pending buffer.
Commits(s, b) ==
  /\ ClientTurn
  /\ IsSurface(s)
  /\ pending[s] = b
  /\ bufState[b] = "live"
  /\ pending' = [pending EXCEPT ![s] = None]
  /\ UNCHANGED <<surfState, acked, confVars>>

\* A surface without a toplevel (a cursor) is never shown: its buffer is
\* released and its frame callback answered at once.
CommitBare(s, b) ==
  /\ Commits(s, b)
  /\ ~HasToplevel(s)
  /\ IF b \in busy
     THEN UNCHANGED bufVars
     ELSE ReleaseClient(b, busy, owed)
  /\ frame' = frame \ {s}
  /\ UNCHANGED <<poolVars, slotVars, pathVars, session>>

\* present_fixed: stage_buffer answers 0.
CommitPresented(s, b) ==
  /\ Commits(s, b)
  /\ HasToplevel(s)
  /\ CanStage(Geometry[b], busySlots)
  /\ ShowFrame(b, busySlots, held)
  /\ ReleaseClient(b, busy, owed \cup {b})
  /\ Unqueue(b)
  /\ latest' = b
  /\ frame' = Forward(s)
  /\ UNCHANGED session

\* present_fixed: stage_buffer answers 1.
CommitQueued(s, b) ==
  /\ Commits(s, b)
  /\ HasToplevel(s)
  /\ CannotStage(Geometry[b], busySlots)
  /\ Enqueue(s, b)
  /\ latest' = b
  /\ UNCHANGED <<slotVars, frame, session>>

\* present_fixed: stage_buffer answers -1, with a protocol error.
CommitCopyFails(s, b) ==
  /\ Commits(s, b)
  /\ HasToplevel(s)
  /\ "sync_fail" \in WorldMay
  /\ CanStage(Geometry[b], busySlots)
  /\ UsePool(Geometry[b])
  /\ session' = "error"
  /\ UNCHANGED <<slotVars, pathVars, bufVars, frame>>

-----------------------------------------------------------------------------
(* shm_release and the pump_queue in it                                    *)

ParentTurn == session = "up" /\ ~configuring

\* The parent lets go of slot i.
Releases(i) ==
  /\ ParentTurn
  /\ i \in held
  /\ held' = held \ {i}

\* The slots that are busy when pump_queue runs.
Others(i) == busySlots \ {i}

\* The queue is empty, or its frame still has to wait.
ReleaseOnly(i) ==
  /\ Releases(i)
  /\ busySlots' = busySlots \ {i}
  /\ IF queued = None
     THEN UNCHANGED poolVars
     ELSE CannotStage(Geometry[queued], Others(i))
  /\ UNCHANGED <<shown, pathVars, bufVars, surfVars, confVars, session>>

\* The queued frame takes the slot.
ReleaseStages(i) ==
  /\ ParentTurn
  /\ i \in held
  /\ queued # None
  /\ surfState[queuedSurface] # "freed"
  /\ CanStage(Geometry[queued], Others(i))
  /\ ShowFrame(queued, Others(i), held \ {i})
  /\ ReleaseClient(queued, busy, owed)
  /\ ClearQueue
  /\ frame' = Forward(queuedSurface)
  /\ UNCHANGED <<latest, surfState, acked, pending, confVars, session>>

\* The queued frame was copied, and its surface is gone: surface->frame.
ReleaseDangling(i) ==
  /\ Releases(i)
  /\ queued # None
  /\ surfState[queuedSurface] = "freed"
  /\ CanStage(Geometry[queued], Others(i))
  /\ session' = "dangling_surface"
  /\ busySlots' = Others(i)
  /\ UNCHANGED <<poolVars, shown, pathVars, bufVars, surfVars, confVars>>

\* The copy fails: the error goes to the buffer's resource, if it has one.
ReleaseCopyFails(i) ==
  /\ Releases(i)
  /\ "sync_fail" \in WorldMay
  /\ queued # None
  /\ CanStage(Geometry[queued], Others(i))
  /\ UsePool(Geometry[queued])
  /\ session' = IF bufState[queued] = "live" THEN "error" ELSE "null_resource"
  /\ ClearQueue
  /\ busySlots' = Others(i)
  /\ UNCHANGED <<shown, latest, bufVars, surfVars, confVars>>

-----------------------------------------------------------------------------
(* The parent window                                                       *)

\* top_configure: the new size is written over the size of the pool.
TopConfigure(z) ==
  /\ ParentTurn
  /\ gsize' = z
  /\ asked' = z
  /\ configuring' = TRUE
  /\ UNCHANGED <<pool, listening, armed, slotVars, pathVars, bufVars, surfVars,
                 told, mainSurface, session>>

\* xs_configure: the main surface is told.
XsConfigure ==
  /\ session = "up"
  /\ configuring
  /\ configuring' = FALSE
  /\ IF mainSurface = None THEN UNCHANGED <<told, session>> ELSE EmitConfigure(mainSurface)
  /\ UNCHANGED <<poolVars, slotVars, pathVars, bufVars, surfVars, mainSurface, asked>>

\* top_close, which tells the main toplevel; or the client disconnects.
SessionEnds ==
  /\ ClientTurn
  /\ session' \in {"closed"} \cup
       {"dangling_toplevel" : s \in {t \in Surfaces : t = mainSurface /\ surfState[t] = "stale"}}
  /\ UNCHANGED <<poolVars, slotVars, pathVars, bufVars, surfVars, confVars>>

-----------------------------------------------------------------------------
MakesBuffer == \E b \in Buffers : CreateBuffer(b) \/ DestroyBuffer(b)

MakesSurface ==
  \E s \in Surfaces : \/ CreateSurface(s) \/ GetXdgSurface(s) \/ GetToplevel(s)
                      \/ DestroyToplevel(s) \/ DestroySurface(s)

SetsSurface ==
  \E s \in Surfaces : \/ AckConfigure(s) \/ RequestFrame(s) \/ Detach(s)
                      \/ CommitForConfigure(s) \/ CommitDangling(s)

UsesBuffer ==
  \E s \in Surfaces, b \in Buffers :
    \/ Attach(s, b) \/ CommitBare(s, b) \/ CommitPresented(s, b)
    \/ CommitQueued(s, b) \/ CommitCopyFails(s, b)

ParentReleases(i) ==
  ReleaseOnly(i) \/ ReleaseStages(i) \/ ReleaseDangling(i) \/ ReleaseCopyFails(i)

Next ==
  \/ MakesBuffer \/ MakesSurface \/ SetsSurface \/ UsesBuffer
  \/ \E i \in Slots : ParentReleases(i)
  \/ \E z \in ParentSizes : TopConfigure(z)
  \/ XsConfigure
  \/ SessionEnds

Spec == Init /\ [][Next]_vars

\* A slot that a later frame has replaced.
Replaced(i) == shown.slot # i

\* The parent releases every buffer it was given, or, where it may keep the
\* one it shows, every buffer that a later one replaced; a configure in
\* between only delays the release.  It completes every configure.
Fairness ==
  /\ \A i \in Slots :
       SF_vars(("keep_current" \in WorldMay => Replaced(i)) /\ ParentReleases(i))
  /\ WF_vars(XsConfigure)

LiveSpec == Spec /\ Fairness

-----------------------------------------------------------------------------
(* Properties                                                              *)

Geometries == {Geometry[b] : b \in Buffers}
Running == session = "up"

\* Every variable has its type.
TypeOK ==
  /\ pool \in Geometries \cup {None}
  /\ gsize \in Sizes /\ asked \in Sizes
  /\ listening \in BOOLEAN /\ armed \in BOOLEAN /\ configuring \in BOOLEAN
  /\ busySlots \in SUBSET Slots /\ held \in SUBSET Slots
  /\ shown \in [buffer : Buffers \cup {None}, slot : Slots \cup {0}, pool : Geometries \cup {None}]
  /\ queued \in Buffers \cup {None} /\ queuedSurface \in Surfaces \cup {None}
  /\ latest \in Buffers \cup {None}
  /\ bufState \in [Buffers -> BufferStates]
  /\ busy \in SUBSET Buffers /\ released \in SUBSET Buffers /\ owed \in SUBSET Buffers
  /\ surfState \in [Surfaces -> SurfaceStates]
  /\ acked \in SUBSET Surfaces /\ frame \in SUBSET Surfaces
  /\ pending \in [Surfaces -> Buffers \cup {None}]
  /\ told \in [Surfaces -> Sizes \cup {None}]
  /\ mainSurface \in Surfaces \cup {None}
  /\ session \in Endings \cup {"up"}

\* Whatever the client does, the queue never points to a buffer_state that
\* was freed or that the client may attach again (enqueue_buffer,
\* release_client and buffer_destroy agree on busy, dead and queued).
QueueSound ==
  /\ (queued = None) = (queuedSurface = None)
  /\ queued # None => queued \in busy /\ bufState[queued] \in {"live", "zombie"}

\* What the bridge believes of its slots is what the parent holds, across
\* every rebuild of the pool; and the parent never holds a slot that has no
\* pool behind it or whose release would reach no listener.
StagingSafe ==
  /\ held = busySlots
  /\ busySlots # {} => pool # None /\ armed

\* The bridge never copies a frame into a slot that the parent still holds
\* (free_slot and the all-slots-free test of ensure_pool).
NoOverwrite ==
  [][shown' # shown => shown'.slot \notin held \/ ParentReleases(shown'.slot)]_vars

\* The one buffer the bridge keeps from the client is the one that waits: a
\* staged, superseded or destroyed buffer is neither held back, nor leaked
\* with its fd, nor released twice; and the client awaits a release of
\* exactly the buffers that will get one.
LeaseSound ==
  Running => /\ busy = {queued} \ {None}
             /\ busy \cap released = {}
             /\ owed = {b \in busy : bufState[b] = "live"}
             /\ \A b \in Buffers : bufState[b] = "zombie" => b = queued

\* A frame is copied only into slots that were cut for its size and format.
FrameFits == shown.buffer # None => shown.pool = Geometry[shown.buffer]

\* A client that reuses a buffer only after its release, and destroys what it
\* made only when the bridge is done with it, gets no protocol error and meets
\* no freed memory.
NoFault == session \in {"up", "closed"}

\* The size the only toplevel there was is told is the size the parent last
\* asked for, once the parent has completed its configure: a pool of another
\* size built meanwhile, which writes G.width and G.height too, is not told.
\* (A second toplevel is told that size.)
OnlyToplevel == \A s \in Surfaces \ {mainSurface} : surfState[s] \in {"unmade", "bare"}
ToldIsAsked ==
  Running /\ ~configuring /\ mainSurface # None /\ OnlyToplevel
    => told[mainSurface] \in {None, asked}

\* While a frame waits no other frame is shown: frames are shown in the order
\* in which they were committed.
WaitingGoesFirst == [][queued # None /\ shown' # shown => shown'.buffer = queued]_vars

\* A frame that waits is shown or superseded, and the queue runs empty.
QueueDrains == queued # None ~> queued = None \/ ~Running

\* A frame callback asked for with a frame that waits reaches the parent.
FrameForwarded ==
  \A s \in Surfaces : queuedSurface = s /\ s \in frame ~> s \notin frame \/ ~Running

\* A buffer destroyed while it waits is freed and its dma-buf closed.
ZombieFreed ==
  \A b \in Buffers : bufState[b] = "zombie" ~> bufState[b] = "freed" \/ ~Running

\* With one geometry the frame path is a mailbox.
Mailbox == INSTANCE FrameMailbox
             WITH latest <- latest, waiting <- queued, shown <- shown.buffer, open <- Running

\* Each commit is shown at once or waits its turn, a frame that waits goes
\* first, and it does not wait for ever.
MailboxSpec == Mailbox!Spec

\* The same without the promise that the wait ends.
MailboxSafeSpec == Mailbox!SafeSpec

\* The frame committed last is the one that waits or the one that is shown.
NothingLost == Mailbox!LatestKept
=============================================================================
