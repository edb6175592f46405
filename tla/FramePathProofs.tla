---------------------------- MODULE FramePathProofs ----------------------------
(***************************************************************************)
(* Theorems about FramePath, for all buffers, surfaces, geometries, numbers *)
(* of slots, clients and worlds.                                           *)
(***************************************************************************)
EXTENDS FramePath, WellFoundedInduction, TLAPS

-----------------------------------------------------------------------------
(* The slot free_slot picks.                                               *)

\* free_slot returns a slot that is not busy, whenever there is one.
LEMMA FreeSlotIsFree ==
  ASSUME NEW taken, Slots \ taken # {}
  PROVE  FreeSlot(taken) \in Slots \ taken
<1>1. Slots \ taken \subseteq Nat
  BY StagingAssumption DEF Slots
<1>2. PICK i \in Slots \ taken : \A j \in Slots \ taken : ~(<<j, i>> \in OpToRel(<, Nat))
  BY <1>1, NatLessThanWellFounded, WFMin
<1>3. \A j \in Slots \ taken : i <= j
  <2> TAKE j \in Slots \ taken
  <2>1. i \in Nat /\ j \in Nat
    BY <1>1
  <2>2. ~(j < i)
    BY <1>2, <2>1 DEF OpToRel
  <2> QED
    BY <2>1, <2>2
<1> QED
  BY <1>3 DEF FreeSlot

-----------------------------------------------------------------------------
(* Type correctness                                                        *)

USE DEF Geometries, BufferStates, SurfaceStates, Endings

LEMMA SizesOfGeometries == \A b \in Buffers : Geometry[b].size \in Sizes
  BY DEF Sizes

\* A pool the bridge uses or loses is well typed.
LEMMA PoolType ==
  ASSUME TypeOK, NEW b \in Buffers, UsePool(Geometry[b]) \/ LosePool \/ UNCHANGED poolVars
  PROVE  /\ pool' \in Geometries \cup {None}
         /\ gsize' \in Sizes
         /\ listening' \in BOOLEAN
         /\ armed' \in BOOLEAN
  BY SizesOfGeometries DEF TypeOK, UsePool, LosePool, poolVars, PoolMatches

\* So are the slots after a frame was shown.
LEMMA SlotType ==
  ASSUME TypeOK, NEW b \in Buffers, NEW taken \in SUBSET Slots, NEW lent \in SUBSET Slots,
         CanStage(Geometry[b], taken), ShowFrame(b, taken, lent)
  PROVE  /\ busySlots' \in SUBSET Slots
         /\ held' \in SUBSET Slots
         /\ shown' \in [buffer : Buffers \cup {None}, slot : Slots \cup {0},
                        pool : Geometries \cup {None}]
<1>1. FreeSlot(taken) \in Slots
  BY FreeSlotIsFree DEF CanStage
<1>2. pool' \in Geometries \cup {None}
  BY PoolType DEF ShowFrame
<1> QED
  BY <1>1, <1>2 DEF ShowFrame

\* So are the buffers after a release.
LEMMA ReleaseType ==
  ASSUME TypeOK, NEW b \in Buffers, NEW B \in SUBSET Buffers, NEW O \in SUBSET Buffers,
         ReleaseClient(b, B, O)
  PROVE  /\ bufState' \in [Buffers -> BufferStates]
         /\ busy' \in SUBSET Buffers
         /\ released' \in SUBSET Buffers
         /\ owed' \in SUBSET Buffers
  BY DEF TypeOK, ReleaseClient, FreeIfDead

LEMMA EmitType ==
  ASSUME TypeOK, NEW s \in Surfaces, EmitConfigure(s)
  PROVE  /\ told' \in [Surfaces -> Sizes \cup {None}]
         /\ session' \in Endings \cup {"up"}
  BY DEF TypeOK, EmitConfigure, ConfigureSize

\* Every variable keeps its type.
THEOREM TypeCorrect == Spec => []TypeOK
<1>1. Init => TypeOK
  <2> SUFFICES ASSUME Init PROVE TypeOK
    OBVIOUS
  <2>1. InitSize \in Sizes
    BY DEF Sizes
  <2>2. shown \in [buffer : Buffers \cup {None}, slot : Slots \cup {0}, pool : Geometries \cup {None}]
    BY DEF Init
  <2> QED
    BY <2>1, <2>2 DEF Init, TypeOK
<1>2. TypeOK /\ [Next]_vars => TypeOK'
  <2> SUFFICES ASSUME TypeOK, [Next]_vars PROVE TypeOK'
    OBVIOUS
  <2> USE DEF poolVars, slotVars, queueVars, pathVars, bufVars, surfVars, confVars
  <2>1. CASE UNCHANGED vars
    BY <2>1 DEF TypeOK, vars
  <2>2. CASE MakesBuffer
    <3> PICK b \in Buffers : CreateBuffer(b) \/ DestroyBuffer(b)
      BY <2>2 DEF MakesBuffer
    <3>1. CASE CreateBuffer(b)
      BY <3>1 DEF TypeOK, CreateBuffer
    <3>2. CASE DestroyBuffer(b)
      BY <3>2 DEF TypeOK, DestroyBuffer, ClearQueue
    <3> QED
      BY <3>1, <3>2
  <2>3. CASE MakesSurface
    <3> PICK s \in Surfaces : \/ CreateSurface(s) \/ GetXdgSurface(s) \/ GetToplevel(s)
                              \/ DestroyToplevel(s) \/ DestroySurface(s)
      BY <2>3 DEF MakesSurface
    <3> USE DEF MakeSurface
    <3>1. CASE CreateSurface(s)
      BY <3>1 DEF TypeOK, CreateSurface
    <3>2. CASE GetXdgSurface(s)
      BY <3>2 DEF TypeOK, GetXdgSurface
    <3>3. CASE GetToplevel(s)
      BY <3>3 DEF TypeOK, GetToplevel
    <3>4. CASE DestroyToplevel(s)
      BY <3>4 DEF TypeOK, DestroyToplevel
    <3>5. CASE DestroySurface(s)
      BY <3>5 DEF TypeOK, DestroySurface
    <3> QED
      BY <3>1, <3>2, <3>3, <3>4, <3>5
  <2>4. CASE SetsSurface
    <3> PICK s \in Surfaces : \/ AckConfigure(s) \/ RequestFrame(s) \/ Detach(s)
                              \/ CommitForConfigure(s) \/ CommitDangling(s)
      BY <2>4 DEF SetsSurface
    <3>1. CASE AckConfigure(s)
      BY <3>1 DEF TypeOK, AckConfigure
    <3>2. CASE RequestFrame(s)
      BY <3>2 DEF TypeOK, RequestFrame
    <3>3. CASE Detach(s)
      BY <3>3 DEF TypeOK, Detach
    <3>4. CASE CommitForConfigure(s)
      BY <3>4, EmitType DEF TypeOK, CommitForConfigure
    <3>5. CASE CommitDangling(s)
      BY <3>5 DEF TypeOK, CommitDangling
    <3> QED
      BY <3>1, <3>2, <3>3, <3>4, <3>5
  <2>5. CASE UsesBuffer
    <3> PICK s \in Surfaces, b \in Buffers :
          \/ Attach(s, b) \/ CommitBare(s, b) \/ CommitPresented(s, b)
          \/ CommitQueued(s, b) \/ CommitCopyFails(s, b)
      BY <2>5 DEF UsesBuffer
    <3>1. CASE Attach(s, b)
      BY <3>1 DEF TypeOK, Attach
    <3>2. CASE CommitBare(s, b)
      <4>1. /\ bufState' \in [Buffers -> BufferStates] /\ busy' \in SUBSET Buffers
            /\ released' \in SUBSET Buffers /\ owed' \in SUBSET Buffers
        BY <3>2, ReleaseType DEF TypeOK, CommitBare
      <4> QED
        BY <3>2, <4>1 DEF TypeOK, CommitBare, Commits
    <3>3. CASE CommitPresented(s, b)
      <4>1. busySlots \in SUBSET Slots /\ held \in SUBSET Slots /\ busy \in SUBSET Buffers
            /\ owed \cup {b} \in SUBSET Buffers
        BY DEF TypeOK
      <4>2. UsePool(Geometry[b])
        BY <3>3 DEF CommitPresented, ShowFrame
      <4> HIDE DEF poolVars, slotVars, queueVars, pathVars, bufVars, surfVars
      <4>3. /\ bufState' \in [Buffers -> BufferStates] /\ busy' \in SUBSET Buffers
            /\ released' \in SUBSET Buffers /\ owed' \in SUBSET Buffers
        BY <3>3, <4>1, ReleaseType DEF CommitPresented
      <4>4. /\ busySlots' \in SUBSET Slots /\ held' \in SUBSET Slots
            /\ shown' \in [buffer : Buffers \cup {None}, slot : Slots \cup {0},
                           pool : Geometries \cup {None}]
        BY <3>3, <4>1, SlotType DEF CommitPresented
      <4>5. /\ pool' \in Geometries \cup {None} /\ gsize' \in Sizes
            /\ listening' \in BOOLEAN /\ armed' \in BOOLEAN
        BY <4>2, PoolType
      <4> QED
        BY <3>3, <4>3, <4>4, <4>5
        DEF TypeOK, CommitPresented, Commits, Unqueue, ClearQueue, Forward, queueVars
    <3>4. CASE CommitQueued(s, b)
      <4>1. /\ pool' \in Geometries \cup {None} /\ gsize' \in Sizes
            /\ listening' \in BOOLEAN /\ armed' \in BOOLEAN
        <5>1. LosePool \/ UNCHANGED poolVars
          BY <3>4 DEF CommitQueued, CannotStage
        <5> QED
          BY <5>1, PoolType
      <4>2. /\ bufState' \in [Buffers -> BufferStates] /\ busy' \in SUBSET Buffers
            /\ released' \in SUBSET Buffers /\ owed' \in SUBSET Buffers
        <5>1. CASE queued \in {None, b}
          BY <3>4, <5>1 DEF TypeOK, CommitQueued, Enqueue
        <5>2. CASE queued \notin {None, b}
          <6>1. queued \in Buffers /\ busy \cup {b} \in SUBSET Buffers
                /\ owed \cup {b} \in SUBSET Buffers
            BY <5>2 DEF TypeOK
          <6>2. ReleaseClient(queued, busy \cup {b}, owed \cup {b})
            BY <3>4, <5>2 DEF CommitQueued, Enqueue
          <6> QED
            BY <6>1, <6>2, ReleaseType
        <5> QED
          BY <5>1, <5>2
      <4> QED
        BY <3>4, <4>1, <4>2 DEF TypeOK, CommitQueued, Commits, Enqueue
    <3>5. CASE CommitCopyFails(s, b)
      <4>1. UsePool(Geometry[b])
        BY <3>5 DEF CommitCopyFails
      <4>2. /\ pool' \in Geometries \cup {None} /\ gsize' \in Sizes
            /\ listening' \in BOOLEAN /\ armed' \in BOOLEAN
        BY <4>1, PoolType
      <4> QED
        BY <3>5, <4>2 DEF TypeOK, CommitCopyFails, Commits
    <3> QED
      BY <3>1, <3>2, <3>3, <3>4, <3>5
  <2>6. CASE \E i \in Slots : ParentReleases(i)
    <3> PICK i \in Slots : ParentReleases(i)
      BY <2>6
    <3> USE DEF Others
    <3>1. CASE ReleaseOnly(i)
      <4>1. /\ pool' \in Geometries \cup {None} /\ gsize' \in Sizes
            /\ listening' \in BOOLEAN /\ armed' \in BOOLEAN
        BY <3>1 DEF TypeOK, ReleaseOnly, CannotStage, LosePool
      <4> QED
        BY <3>1, <4>1 DEF TypeOK, ReleaseOnly, Releases
    <3>2. CASE ReleaseStages(i)
      <4>1. queued \in Buffers /\ busySlots \ {i} \in SUBSET Slots /\ held \ {i} \in SUBSET Slots
            /\ busy \in SUBSET Buffers /\ owed \in SUBSET Buffers
        BY <3>2 DEF TypeOK, ReleaseStages
      <4>2. UsePool(Geometry[queued])
        BY <3>2 DEF ReleaseStages, ShowFrame
      <4>3. /\ bufState' \in [Buffers -> BufferStates] /\ busy' \in SUBSET Buffers
            /\ released' \in SUBSET Buffers /\ owed' \in SUBSET Buffers
        BY <3>2, <4>1, ReleaseType DEF ReleaseStages
      <4>4. /\ busySlots' \in SUBSET Slots /\ held' \in SUBSET Slots
            /\ shown' \in [buffer : Buffers \cup {None}, slot : Slots \cup {0},
                           pool : Geometries \cup {None}]
        BY <3>2, <4>1, SlotType DEF ReleaseStages
      <4>5. /\ pool' \in Geometries \cup {None} /\ gsize' \in Sizes
            /\ listening' \in BOOLEAN /\ armed' \in BOOLEAN
        BY <4>1, <4>2, PoolType
      <4> QED
        BY <3>2, <4>3, <4>4, <4>5 DEF TypeOK, ReleaseStages, ClearQueue, Forward
    <3>3. CASE ReleaseDangling(i)
      BY <3>3 DEF TypeOK, ReleaseDangling, Releases
    <3>4. CASE ReleaseCopyFails(i)
      <4>1. queued \in Buffers /\ UsePool(Geometry[queued])
        BY <3>4 DEF TypeOK, ReleaseCopyFails
      <4>2. /\ pool' \in Geometries \cup {None} /\ gsize' \in Sizes
            /\ listening' \in BOOLEAN /\ armed' \in BOOLEAN
        BY <4>1, PoolType
      <4> QED
        BY <3>4, <4>2 DEF TypeOK, ReleaseCopyFails, Releases, ClearQueue
    <3> QED
      BY <3>1, <3>2, <3>3, <3>4 DEF ParentReleases
  <2>7. ASSUME NEW z \in ParentSizes, TopConfigure(z) PROVE TypeOK'
    BY <2>7 DEF TypeOK, TopConfigure, Sizes
  <2>8. CASE XsConfigure
    <3>1. CASE mainSurface = None
      BY <2>8, <3>1 DEF TypeOK, XsConfigure
    <3>2. CASE mainSurface # None
      <4>1. mainSurface \in Surfaces /\ EmitConfigure(mainSurface)
        BY <2>8, <3>2 DEF TypeOK, XsConfigure
      <4> QED
        BY <2>8, <4>1, EmitType DEF TypeOK, XsConfigure
    <3> QED
      BY <3>1, <3>2
  <2>9. CASE SessionEnds
    BY <2>9 DEF TypeOK, SessionEnds
  <2> QED
    BY <2>1, <2>2, <2>3, <2>4, <2>5, <2>6, <2>7, <2>8, <2>9 DEF Next
<1> QED
  BY <1>1, <1>2, PTL DEF Spec

-----------------------------------------------------------------------------
(* Slots, and the queue, for every client                                  *)

\* StagingSafe and QueueSound are inductive once slots_listening is known to
\* be set only while the listeners are there.
SafeInv ==
  /\ TypeOK
  /\ StagingSafe
  /\ QueueSound
  /\ listening => armed

\* A pool in use exists and its releases are heard.
LEMMA UsePoolArms ==
  ASSUME listening => armed, NEW b \in Buffers, UsePool(Geometry[b])
  PROVE  pool' # None /\ armed'
  BY GeometryAssumption DEF UsePool, PoolMatches, ListeningSeen

\* Waiting does not harm the slots.
LEMMA CannotStageKeeps ==
  ASSUME listening => armed, NEW g, NEW taken, CannotStage(g, taken),
         taken # {} => pool # None /\ armed
  PROVE  /\ taken # {} => pool' # None /\ armed'
         /\ listening' => armed'
  BY DEF CannotStage, LosePool, poolVars

\* A frame shown keeps the slots as the parent sees them.
LEMMA ShowFrameKeeps ==
  ASSUME listening => armed, NEW b \in Buffers, NEW taken, ShowFrame(b, taken, taken)
  PROVE  StagingSafe' /\ (listening' => armed')
<1>1. UsePool(Geometry[b])
  BY DEF ShowFrame
<1>2. pool' # None /\ armed'
  BY <1>1, UsePoolArms
<1> QED
  BY <1>2 DEF ShowFrame, StagingSafe

LEMMA SafeStep == SafeInv /\ TypeOK' /\ [Next]_vars => SafeInv'
<1> SUFFICES ASSUME SafeInv, TypeOK', [Next]_vars
             PROVE  StagingSafe' /\ QueueSound' /\ (listening' => armed')
  BY DEF SafeInv
<1> USE DEF SafeInv, poolVars, slotVars, queueVars, pathVars, bufVars
<1>a. ASSUME UNCHANGED <<poolVars, busySlots, held>>
      PROVE  StagingSafe' /\ (listening' => armed')
  BY <1>a DEF StagingSafe
<1>b. ASSUME UNCHANGED <<queueVars, busy, bufState>>
      PROVE  QueueSound'
  BY <1>b DEF QueueSound
<1>1. CASE UNCHANGED vars
  BY <1>1, <1>a, <1>b DEF vars
<1>2. CASE MakesBuffer
  <2> PICK b \in Buffers : CreateBuffer(b) \/ DestroyBuffer(b)
    BY <1>2 DEF MakesBuffer
  <2>1. StagingSafe' /\ (listening' => armed')
    BY <1>a DEF CreateBuffer, DestroyBuffer
  <2>2. CASE CreateBuffer(b)
    BY <2>1, <2>2 DEF CreateBuffer, QueueSound, TypeOK
  <2>3. CASE DestroyBuffer(b)
    BY <2>1, <2>3 DEF DestroyBuffer, QueueSound, TypeOK, ClearQueue
  <2> QED
    BY <2>2, <2>3
<1>3. CASE MakesSurface
  BY <1>3, <1>a, <1>b DEF MakesSurface, MakeSurface, CreateSurface, GetXdgSurface,
                          GetToplevel, DestroyToplevel, DestroySurface
<1>4. CASE SetsSurface
  BY <1>4, <1>a, <1>b DEF SetsSurface, AckConfigure, RequestFrame, Detach,
                          CommitForConfigure, CommitDangling
<1>5. CASE UsesBuffer
  <2> PICK s \in Surfaces, b \in Buffers :
        \/ Attach(s, b) \/ CommitBare(s, b) \/ CommitPresented(s, b)
        \/ CommitQueued(s, b) \/ CommitCopyFails(s, b)
    BY <1>5 DEF UsesBuffer
  <2>1. CASE Attach(s, b)
    BY <2>1, <1>a, <1>b DEF Attach
  <2>2. CASE CommitBare(s, b)
    <3>1. StagingSafe' /\ (listening' => armed')
      BY <2>2, <1>a DEF CommitBare
    <3>2. QueueSound'
      BY <2>2 DEF CommitBare, ReleaseClient, FreeIfDead, QueueSound, TypeOK
    <3> QED
      BY <3>1, <3>2
  <2>3. CASE CommitPresented(s, b)
    <3>1. StagingSafe' /\ (listening' => armed')
      BY <2>3, ShowFrameKeeps DEF CommitPresented, StagingSafe
    <3>2. QueueSound'
      BY <2>3 DEF CommitPresented, Unqueue, ClearQueue, ReleaseClient, FreeIfDead, QueueSound, TypeOK
    <3> QED
      BY <3>1, <3>2
  <2>4. CASE CommitQueued(s, b)
    <3>1. StagingSafe' /\ (listening' => armed')
      BY <2>4, CannotStageKeeps DEF CommitQueued, StagingSafe
    <3>2. bufState[b] = "live" /\ queued' = b /\ queuedSurface' = s /\ b # None /\ s # None
      BY <2>4, NoneAssumption DEF CommitQueued, Commits, Enqueue
    <3>3. b \in busy' /\ bufState'[b] = "live"
      BY <2>4, <3>2 DEF CommitQueued, Enqueue, ReleaseClient, FreeIfDead, TypeOK
    <3> QED
      BY <3>1, <3>2, <3>3 DEF QueueSound
  <2>5. CASE CommitCopyFails(s, b)
    <3>1. pool' # None /\ armed'
      BY <2>5, UsePoolArms DEF CommitCopyFails
    <3> QED
      BY <2>5, <3>1, <1>b DEF CommitCopyFails, StagingSafe
  <2> QED
    BY <2>1, <2>2, <2>3, <2>4, <2>5
<1>6. CASE \E i \in Slots : ParentReleases(i)
  <2> PICK i \in Slots : ParentReleases(i)
    BY <1>6
  <2> USE DEF Others, Releases
  <2>1. CASE ReleaseOnly(i)
    <3>1. listening' => armed'
      BY <2>1 DEF ReleaseOnly, CannotStage, LosePool
    <3>2. StagingSafe'
      BY <2>1 DEF ReleaseOnly, CannotStage, LosePool, StagingSafe
    <3> QED
      BY <2>1, <3>1, <3>2, <1>b DEF ReleaseOnly
  <2>2. CASE ReleaseStages(i)
    <3>1. queued \in Buffers /\ held = busySlots
      BY <2>2 DEF ReleaseStages, TypeOK, StagingSafe
    <3>2. ShowFrame(queued, busySlots \ {i}, busySlots \ {i})
      BY <2>2, <3>1 DEF ReleaseStages
    <3>3. StagingSafe' /\ (listening' => armed')
      BY <3>1, <3>2, ShowFrameKeeps
    <3> QED
      BY <2>2, <3>3 DEF ReleaseStages, ClearQueue, QueueSound
  <2>3. CASE ReleaseDangling(i)
    BY <2>3, <1>b DEF ReleaseDangling, StagingSafe
  <2>4. CASE ReleaseCopyFails(i)
    <3>1. pool' # None /\ armed'
      BY <2>4, UsePoolArms DEF ReleaseCopyFails, TypeOK
    <3> QED
      BY <2>4, <3>1 DEF ReleaseCopyFails, ClearQueue, QueueSound, StagingSafe
  <2> QED
    BY <2>1, <2>2, <2>3, <2>4 DEF ParentReleases
<1>7. ASSUME NEW z \in ParentSizes, TopConfigure(z)
      PROVE  StagingSafe' /\ QueueSound' /\ (listening' => armed')
  BY <1>7, <1>b DEF TopConfigure, StagingSafe
<1>8. CASE XsConfigure
  BY <1>8, <1>a, <1>b DEF XsConfigure
<1>9. CASE SessionEnds
  BY <1>9, <1>a, <1>b DEF SessionEnds
<1> QED
  BY <1>1, <1>2, <1>3, <1>4, <1>5, <1>6, <1>7, <1>8, <1>9 DEF Next

LEMMA SafeAlways == Spec => []SafeInv
<1>1. Init /\ TypeOK => SafeInv
  BY DEF Init, SafeInv, StagingSafe, QueueSound
<1> QED
  BY <1>1, SafeStep, TypeCorrect, PTL DEF Spec

\* The busy flags are what the parent holds, whatever the client and the
\* parent do, through every rebuild of the pool.
THEOREM StagingCorrect == Spec => []StagingSafe
  BY SafeAlways, PTL DEF SafeInv

\* The queue never points to a freed buffer_state, whatever the client does.
THEOREM QueueCorrect == Spec => []QueueSound
  BY SafeAlways, PTL DEF SafeInv

\* No frame is copied into a slot the parent still holds.
THEOREM NeverOverwrites == Spec => NoOverwrite
<1> DEFINE Safely == shown' # shown => shown'.slot \notin held \/ ParentReleases(shown'.slot)
<1>1. SafeInv /\ [Next]_vars => [Safely]_vars
  <2> SUFFICES ASSUME SafeInv, Next, shown' # shown
               PROVE  shown'.slot \notin held \/ ParentReleases(shown'.slot)
    BY DEF vars
  <2> USE DEF slotVars
  <2>1. \/ \E s \in Surfaces, b \in Buffers : CommitPresented(s, b)
        \/ \E i \in Slots : ReleaseStages(i)
    BY DEF Next, MakesBuffer, CreateBuffer, DestroyBuffer, MakesSurface, MakeSurface,
           CreateSurface, GetXdgSurface, GetToplevel, DestroyToplevel, DestroySurface,
           SetsSurface, AckConfigure, RequestFrame, Detach, CommitForConfigure, CommitDangling,
           UsesBuffer, Attach, CommitBare, CommitQueued, CommitCopyFails,
           ParentReleases, ReleaseOnly, ReleaseDangling, ReleaseCopyFails,
           TopConfigure, XsConfigure, SessionEnds
  <2>2. ASSUME NEW s \in Surfaces, NEW b \in Buffers, CommitPresented(s, b)
        PROVE  shown'.slot \notin held
    <3>1. shown'.slot = FreeSlot(busySlots) /\ Slots \ busySlots # {}
      BY <2>2 DEF CommitPresented, ShowFrame, CanStage
    <3> QED
      BY <3>1, FreeSlotIsFree DEF SafeInv, StagingSafe
  <2>3. ASSUME NEW i \in Slots, ReleaseStages(i)
        PROVE  shown'.slot \notin held \/ ParentReleases(shown'.slot)
    <3>1. shown'.slot = FreeSlot(Others(i)) /\ Slots \ Others(i) # {}
      BY <2>3 DEF ReleaseStages, ShowFrame, CanStage
    <3>2. shown'.slot \notin busySlots \/ shown'.slot = i
      BY <3>1, FreeSlotIsFree DEF Others
    <3> QED
      BY <2>3, <3>2 DEF SafeInv, StagingSafe, ParentReleases
  <2> QED
    BY <2>1, <2>2, <2>3
<1> QED
  BY <1>1, SafeAlways, PTL DEF Spec, NoOverwrite

-----------------------------------------------------------------------------
(* The size of the frames, while the parent asks for no size of its own     *)

ParentNeverResizes == ParentSizes = {}

\* G.width and G.height are the size of the pool until the parent writes them.
FitInv ==
  /\ TypeOK
  /\ FrameFits
  /\ pool # None => gsize = pool.size

\* ensure_pool leaves a pool of the geometry it was asked for.
LEMMA UsePoolFits ==
  ASSUME FitInv, NEW b \in Buffers, UsePool(Geometry[b])
  PROVE  pool' = Geometry[b] /\ gsize' = pool'.size
<1>1. CASE PoolMatches(Geometry[b])
  <2>1. pool.size = Geometry[b].size /\ pool.format = Geometry[b].format
    BY <1>1 DEF PoolMatches, FitInv
  <2>2. PICK c \in Buffers : pool = Geometry[c]
    BY <1>1 DEF PoolMatches, FitInv, TypeOK
  <2>3. pool = Geometry[b]
    BY <2>1, <2>2, GeometryAssumption
  <2> QED
    BY <1>1, <2>1, <2>3 DEF UsePool, PoolMatches
<1>2. CASE ~PoolMatches(Geometry[b])
  BY <1>2 DEF UsePool
<1> QED
  BY <1>1, <1>2

LEMMA FitStep ==
  ASSUME ParentNeverResizes, FitInv, TypeOK', [Next]_vars
  PROVE  FitInv'
<1> SUFFICES FrameFits' /\ (pool' # None => gsize' = pool'.size)
  BY DEF FitInv
<1>a. ASSUME UNCHANGED <<pool, gsize, shown>>
      PROVE  FrameFits' /\ (pool' # None => gsize' = pool'.size)
  BY <1>a DEF FitInv, FrameFits
<1>b. ASSUME NEW g, NEW taken, CannotStage(g, taken), UNCHANGED shown
      PROVE  FrameFits' /\ (pool' # None => gsize' = pool'.size)
  BY <1>b DEF FitInv, FrameFits, CannotStage, LosePool, poolVars
<1>c. ASSUME NEW b \in Buffers, UsePool(Geometry[b]), UNCHANGED shown
      PROVE  FrameFits' /\ (pool' # None => gsize' = pool'.size)
  BY <1>c, UsePoolFits DEF FitInv, FrameFits
<1>d. ASSUME NEW b \in Buffers, NEW taken, NEW lent, ShowFrame(b, taken, lent)
      PROVE  FrameFits' /\ (pool' # None => gsize' = pool'.size)
  <2>1. pool' = Geometry[b] /\ gsize' = pool'.size
    BY <1>d, UsePoolFits DEF ShowFrame
  <2> QED
    BY <1>d, <2>1 DEF ShowFrame, FrameFits
<1> USE DEF poolVars, slotVars
<1>1. CASE UNCHANGED vars
  BY <1>1, <1>a DEF vars
<1>2. CASE MakesBuffer
  BY <1>2, <1>a DEF MakesBuffer, CreateBuffer, DestroyBuffer
<1>3. CASE MakesSurface
  BY <1>3, <1>a DEF MakesSurface, MakeSurface, CreateSurface, GetXdgSurface,
                    GetToplevel, DestroyToplevel, DestroySurface
<1>4. CASE SetsSurface
  BY <1>4, <1>a DEF SetsSurface, AckConfigure, RequestFrame, Detach,
                    CommitForConfigure, CommitDangling
<1>5. CASE UsesBuffer
  <2> PICK s \in Surfaces, b \in Buffers :
        \/ Attach(s, b) \/ CommitBare(s, b) \/ CommitPresented(s, b)
        \/ CommitQueued(s, b) \/ CommitCopyFails(s, b)
    BY <1>5 DEF UsesBuffer
  <2>1. CASE Attach(s, b)
    BY <2>1, <1>a DEF Attach
  <2>2. CASE CommitBare(s, b)
    BY <2>2, <1>a DEF CommitBare
  <2>3. CASE CommitPresented(s, b)
    BY <2>3, <1>d DEF CommitPresented
  <2>4. CASE CommitQueued(s, b)
    BY <2>4, <1>b DEF CommitQueued
  <2>5. CASE CommitCopyFails(s, b)
    BY <2>5, <1>c DEF CommitCopyFails
  <2> QED
    BY <2>1, <2>2, <2>3, <2>4, <2>5
<1>6. CASE \E i \in Slots : ParentReleases(i)
  <2> PICK i \in Slots : ParentReleases(i)
    BY <1>6
  <2>1. CASE ReleaseOnly(i)
    BY <2>1, <1>a, <1>b DEF ReleaseOnly
  <2>2. CASE ReleaseStages(i)
    BY <2>2, <1>d DEF ReleaseStages, FitInv, TypeOK
  <2>3. CASE ReleaseDangling(i)
    BY <2>3, <1>a DEF ReleaseDangling
  <2>4. CASE ReleaseCopyFails(i)
    BY <2>4, <1>c DEF ReleaseCopyFails, FitInv, TypeOK
  <2> QED
    BY <2>1, <2>2, <2>3, <2>4 DEF ParentReleases
<1>7. CASE XsConfigure
  BY <1>7, <1>a DEF XsConfigure
<1>8. CASE SessionEnds
  BY <1>8, <1>a DEF SessionEnds
<1> QED
  BY <1>1, <1>2, <1>3, <1>4, <1>5, <1>6, <1>7, <1>8 DEF Next, ParentNeverResizes

\* While the parent never resizes the window, every frame shown was copied
\* into slots cut for its size and format, whatever sizes the client uses.
THEOREM FramesFit == ParentNeverResizes /\ Spec => []FrameFits
<1> SUFFICES ASSUME ParentNeverResizes PROVE Spec => []FrameFits
  OBVIOUS
<1>1. Init /\ TypeOK => FitInv
  BY DEF Init, FitInv, FrameFits
<1>2. FitInv /\ TypeOK' /\ [Next]_vars => FitInv'
  BY FitStep
<1>3. FitInv => FrameFits
  BY DEF FitInv
<1> QED
  BY <1>1, <1>2, <1>3, TypeCorrect, PTL DEF Spec

-----------------------------------------------------------------------------
(* The buffers of a client that never attaches one buffer to two surfaces   *)

OneSurface == Obeys("one_surface")

\* Two pending buffers differ, and a pending buffer is neither busy nor
\* released: surface_attach has just cleared its flag.
PendingInv ==
  /\ \A s, t \in Surfaces : pending[s] = pending[t] /\ pending[s] # None => s = t
  /\ \A s \in Surfaces : pending[s] # None => pending[s] \notin busy \cup released

LeaseInv ==
  /\ TypeOK
  /\ Running => PendingInv
  /\ LeaseSound

\* release_client of a live buffer that was just committed and not queued.
LEMMA ReleaseLive ==
  ASSUME LeaseInv, Running, NEW b \in Buffers, NEW O, ReleaseClient(b, busy, O),
         bufState[b] = "live", b \notin busy, b \notin released, O \in {owed, owed \cup {b}}
  PROVE  busy' = busy /\ owed' = owed /\ released' = released \cup {b} /\ bufState' = bufState
<1>1. /\ busy' = busy \ {b} /\ owed' = O \ {b} /\ released' = released \cup {b}
      /\ bufState' = [bufState EXCEPT ![b] = FreeIfDead(@)]
  BY DEF ReleaseClient
<1>2. FreeIfDead(bufState[b]) = bufState[b] /\ b \notin owed
  BY DEF FreeIfDead, LeaseInv, LeaseSound
<1>3. bufState' = bufState
  BY <1>1, <1>2 DEF LeaseInv, TypeOK
<1> QED
  BY <1>1, <1>2, <1>3

\* enqueue_buffer of a buffer that was just committed.
LEMMA EnqueueLease ==
  ASSUME LeaseInv, Running, NEW s \in Surfaces, NEW b \in Buffers, Enqueue(s, b),
         bufState[b] = "live", b \notin busy, b \notin released
  PROVE  /\ busy' = {b} /\ busy' \cap released' = {}
         /\ owed' = {c \in busy' : bufState'[c] = "live"}
         /\ \A c \in Buffers : bufState'[c] = "zombie" => c = b
         /\ released' = released \cup (busy \ {b})
<1> USE DEF LeaseInv, LeaseSound, TypeOK
<1>1. queued # b
  BY NoneAssumption
<1>2. CASE queued = None
  <2>1. busy = {} /\ owed = {}
    BY <1>2
  <2> QED
    BY <1>2, <2>1, NoneAssumption DEF Enqueue
<1>3. CASE queued # None
  <2>1. queued \in Buffers /\ busy = {queued} /\ queued \notin released
    BY <1>3
  <2>2. ReleaseClient(queued, busy \cup {b}, owed \cup {b})
    BY <1>1, <1>3 DEF Enqueue
  <2>3. /\ busy' = {b} /\ owed' = (owed \cup {b}) \ {queued}
        /\ released' = released \cup {queued}
        /\ bufState' = [bufState EXCEPT ![queued] = FreeIfDead(@)]
    BY <1>1, <2>1, <2>2 DEF ReleaseClient
  <2>4. owed' = {b} /\ bufState'[b] = "live"
    BY <1>1, <2>1, <2>3
  <2>5. \A c \in Buffers : bufState'[c] # "zombie"
    BY <2>1, <2>3 DEF FreeIfDead
  <2> QED
    BY <2>1, <2>3, <2>4, <2>5
<1> QED
  BY <1>2, <1>3

LEMMA LeaseStep ==
  ASSUME OneSurface, LeaseInv, QueueSound, TypeOK', [Next]_vars
  PROVE  LeaseInv'
<1> SUFFICES ASSUME session' = "up"
             PROVE  PendingInv' /\ LeaseSound'
  BY DEF LeaseInv, LeaseSound, Running
<1> USE DEF queueVars, pathVars, bufVars, surfVars
<1>1. CASE UNCHANGED vars
  BY <1>1 DEF vars, LeaseInv, LeaseSound, PendingInv, Running
<1> SUFFICES ASSUME Next PROVE PendingInv' /\ LeaseSound'
  BY <1>1
<1>0. Running
  BY DEF Next, MakesBuffer, CreateBuffer, DestroyBuffer, MakesSurface, MakeSurface,
         CreateSurface, GetXdgSurface, GetToplevel, DestroyToplevel, DestroySurface,
         SetsSurface, AckConfigure, RequestFrame, Detach, CommitForConfigure, CommitDangling,
         UsesBuffer, Attach, Commits, CommitBare, CommitPresented, CommitQueued, CommitCopyFails,
         ParentReleases, Releases, ReleaseOnly, ReleaseStages, ReleaseDangling, ReleaseCopyFails,
         TopConfigure, XsConfigure, SessionEnds, ClientTurn, ParentTurn, Running
<1>a. ASSUME UNCHANGED <<queued, busy, released, owed, bufState>>
      PROVE  LeaseSound'
  BY <1>0, <1>a DEF LeaseInv, LeaseSound, Running
<1>b. ASSUME UNCHANGED <<pending, busy, released>>
      PROVE  PendingInv'
  BY <1>0, <1>b DEF LeaseInv, PendingInv
<1>c. ASSUME NEW s \in Surfaces, UNCHANGED <<busy, released>>,
             pending' = [pending EXCEPT ![s] = None]
      PROVE  PendingInv'
  BY <1>0, <1>c DEF LeaseInv, PendingInv, TypeOK
<1>d. ASSUME NEW s \in Surfaces, NEW b \in Buffers, Commits(s, b)
      PROVE  /\ b # None /\ b \notin busy /\ b \notin released /\ bufState[b] = "live"
             /\ b # queued
             /\ \A t \in Surfaces : pending'[t] # b
             /\ \A t, u \in Surfaces : pending'[t] = pending'[u] /\ pending'[t] # None => t = u
             /\ \A t \in Surfaces : pending'[t] # None => pending'[t] \notin busy \cup released
  <2>1. pending[s] = b /\ b # None /\ pending' = [pending EXCEPT ![s] = None] /\ bufState[b] = "live"
    BY <1>d, NoneAssumption DEF Commits
  <2>2. b \notin busy /\ b \notin released /\ b # queued
    BY <1>0, <2>1 DEF LeaseInv, PendingInv, LeaseSound
  <2> QED
    BY <1>0, <2>1, <2>2 DEF LeaseInv, PendingInv, TypeOK
<1>2. CASE MakesBuffer
  <2> PICK b \in Buffers : CreateBuffer(b) \/ DestroyBuffer(b)
    BY <1>2 DEF MakesBuffer
  <2>1. CASE CreateBuffer(b)
    <3>1. LeaseSound'
      BY <1>0, <2>1 DEF CreateBuffer, LeaseInv, LeaseSound, QueueSound, Running, TypeOK
    <3> QED
      BY <2>1, <3>1, <1>b DEF CreateBuffer
  <2>2. CASE DestroyBuffer(b)
    <3>1. PendingInv'
      BY <2>2, <1>b DEF DestroyBuffer
    <3>2. UNCHANGED <<queued, busy, released>>
      BY <1>0, <2>2, NoneAssumption DEF DestroyBuffer, LeaseInv, LeaseSound
    <3>3. LeaseSound'
      BY <1>0, <2>2, <3>2 DEF DestroyBuffer, LeaseInv, LeaseSound, Running, TypeOK
    <3> QED
      BY <3>1, <3>3
  <2> QED
    BY <2>1, <2>2
<1>3. CASE MakesSurface
  <2> PICK s \in Surfaces : \/ CreateSurface(s) \/ GetXdgSurface(s) \/ GetToplevel(s)
                            \/ DestroyToplevel(s) \/ DestroySurface(s)
    BY <1>3 DEF MakesSurface
  <2>1. CASE DestroySurface(s)
    BY <2>1, <1>a, <1>c DEF DestroySurface
  <2>2. CASE ~DestroySurface(s)
    BY <2>2, <1>a, <1>b DEF MakeSurface, CreateSurface, GetXdgSurface, GetToplevel, DestroyToplevel
  <2> QED
    BY <2>1, <2>2
<1>4. CASE SetsSurface
  <2> PICK s \in Surfaces : \/ AckConfigure(s) \/ RequestFrame(s) \/ Detach(s)
                            \/ CommitForConfigure(s) \/ CommitDangling(s)
    BY <1>4 DEF SetsSurface
  <2>1. CASE Detach(s)
    BY <2>1, <1>a, <1>c DEF Detach
  <2>2. CASE ~Detach(s)
    BY <2>2, <1>a, <1>b DEF AckConfigure, RequestFrame, CommitForConfigure, CommitDangling
  <2> QED
    BY <2>1, <2>2
<1>5. CASE UsesBuffer
  <2> PICK s \in Surfaces, b \in Buffers :
        \/ Attach(s, b) \/ CommitBare(s, b) \/ CommitPresented(s, b)
        \/ CommitQueued(s, b) \/ CommitCopyFails(s, b)
    BY <1>5 DEF UsesBuffer
  <2>1. CASE Attach(s, b)
    <3>1. /\ b \notin busy
          /\ released' = released \ {b}
          /\ pending' = [pending EXCEPT ![s] = b]
          /\ UNCHANGED <<queued, busy, owed, bufState>>
      BY <2>1 DEF Attach
    <3>2. \A t \in Surfaces \ {s} : pending[t] # b
      BY <2>1 DEF Attach, OneSurface
    <3>3. LeaseSound'
      BY <1>0, <3>1 DEF LeaseInv, LeaseSound, Running
    <3>4. PendingInv'
      BY <1>0, <3>1, <3>2 DEF LeaseInv, PendingInv, TypeOK
    <3> QED
      BY <3>3, <3>4
  <2>2. CASE CommitBare(s, b)
    <3>1. Commits(s, b) /\ UNCHANGED queued
      BY <2>2 DEF CommitBare
    <3>2. ReleaseClient(b, busy, owed)
      BY <2>2, <3>1, <1>d DEF CommitBare
    <3>3. /\ busy' = busy /\ owed' = owed /\ released' = released \cup {b}
          /\ bufState' = bufState
      BY <1>0, <3>1, <3>2, <1>d, ReleaseLive
    <3>4. LeaseSound'
      BY <1>0, <3>1, <3>3, <1>d DEF LeaseInv, LeaseSound, Running
    <3>5. PendingInv'
      BY <3>1, <3>3, <1>d DEF PendingInv
    <3> QED
      BY <3>4, <3>5
  <2>3. CASE CommitPresented(s, b)
    <3>1. Commits(s, b) /\ ReleaseClient(b, busy, owed \cup {b}) /\ Unqueue(b)
      BY <2>3 DEF CommitPresented
    <3>2. UNCHANGED queued
      BY <3>1, <1>d DEF Unqueue
    <3>3. /\ busy' = busy /\ owed' = owed /\ released' = released \cup {b}
          /\ bufState' = bufState
      BY <1>0, <3>1, <1>d, ReleaseLive
    <3>4. LeaseSound'
      BY <1>0, <3>1, <3>2, <3>3, <1>d DEF LeaseInv, LeaseSound, Running
    <3>5. PendingInv'
      BY <3>1, <3>3, <1>d DEF PendingInv
    <3> QED
      BY <3>4, <3>5
  <2>4. CASE CommitQueued(s, b)
    <3>1. Commits(s, b) /\ Enqueue(s, b) /\ queued' = b
      BY <2>4 DEF CommitQueued, Enqueue
    <3>2. /\ busy' = {b} /\ busy' \cap released' = {}
          /\ owed' = {c \in busy' : bufState'[c] = "live"}
          /\ \A c \in Buffers : bufState'[c] = "zombie" => c = b
          /\ released' = released \cup (busy \ {b})
      BY <1>0, <3>1, <1>d, EnqueueLease
    <3>3. LeaseSound'
      BY <3>1, <3>2, NoneAssumption DEF LeaseSound
    <3>4. PendingInv'
      BY <3>1, <3>2, <1>d DEF PendingInv
    <3> QED
      BY <3>3, <3>4
  <2>5. CASE CommitCopyFails(s, b)
    BY <2>5 DEF CommitCopyFails
  <2> QED
    BY <2>1, <2>2, <2>3, <2>4, <2>5
<1>6. CASE \E i \in Slots : ParentReleases(i)
  <2> PICK i \in Slots : ParentReleases(i)
    BY <1>6
  <2>1. CASE ReleaseOnly(i)
    BY <2>1, <1>a, <1>b DEF ReleaseOnly
  <2>2. CASE ReleaseStages(i)
    <3>1. /\ queued \in Buffers /\ busy = {queued} /\ queued \notin released
          /\ ReleaseClient(queued, busy, owed) /\ queued' = None /\ UNCHANGED pending
      BY <1>0, <2>2 DEF ReleaseStages, ClearQueue, LeaseInv, LeaseSound, TypeOK
    <3>2. /\ busy' = {} /\ owed' = {} /\ released' = released \cup {queued}
          /\ bufState' = [bufState EXCEPT ![queued] = FreeIfDead(@)]
      BY <1>0, <3>1 DEF ReleaseClient, LeaseInv, LeaseSound
    <3>3. LeaseSound'
      BY <1>0, <3>1, <3>2 DEF LeaseSound, LeaseInv, FreeIfDead, TypeOK
    <3>4. PendingInv'
      BY <1>0, <3>1, <3>2 DEF PendingInv, LeaseInv
    <3> QED
      BY <3>3, <3>4
  <2>3. CASE ReleaseDangling(i)
    BY <2>3 DEF ReleaseDangling
  <2>4. CASE ReleaseCopyFails(i)
    BY <2>4 DEF ReleaseCopyFails
  <2> QED
    BY <2>1, <2>2, <2>3, <2>4 DEF ParentReleases
<1>7. ASSUME NEW z \in ParentSizes, TopConfigure(z)
      PROVE  PendingInv' /\ LeaseSound'
  BY <1>7, <1>a, <1>b DEF TopConfigure
<1>8. CASE XsConfigure
  BY <1>8, <1>a, <1>b DEF XsConfigure
<1>9. CASE SessionEnds
  BY <1>9, <1>a, <1>b DEF SessionEnds
<1> QED
  BY <1>2, <1>3, <1>4, <1>5, <1>6, <1>7, <1>8, <1>9 DEF Next

\* The bridge holds back exactly the buffer that waits, frees a destroyed one
\* with it, and owes the client exactly the releases it will send.
THEOREM LeasesSound == OneSurface /\ Spec => []LeaseSound
<1> SUFFICES ASSUME OneSurface PROVE Spec => []LeaseSound
  OBVIOUS
<1>1. Init /\ TypeOK => LeaseInv
  BY DEF Init, LeaseInv, LeaseSound, PendingInv
<1>2. LeaseInv /\ QueueSound /\ TypeOK' /\ [Next]_vars => LeaseInv'
  BY LeaseStep
<1>3. LeaseInv => LeaseSound
  BY DEF LeaseInv
<1> QED
  BY <1>1, <1>2, <1>3, TypeCorrect, QueueCorrect, PTL DEF Spec

-----------------------------------------------------------------------------
(* The frame path as a mailbox, while one geometry is in use                *)

OneGeometryInUse ==
  /\ "alloc_fail" \notin WorldMay
  /\ \A b, c \in Buffers : Geometry[b] = Geometry[c]
  /\ \A b \in Buffers, z \in ParentSizes : z = Geometry[b].size

\* A frame waits only while every slot is with the parent.
MailboxInv ==
  /\ pool # None => \A b \in Buffers : PoolMatches(Geometry[b])
  /\ Running /\ queued # None => pool # None /\ busySlots = Slots

LEMMA SlotsExist == 1 \in Slots
  BY StagingAssumption DEF Slots

\* With a pool, or with no slot busy, a free slot is all a frame needs.
LEMMA CanStageFree ==
  ASSUME SafeInv, MailboxInv, NEW b \in Buffers, NEW taken \in SUBSET busySlots
  PROVE  CanStage(Geometry[b], taken) <=> taken # Slots
BY SlotsExist DEF SafeInv, StagingSafe, TypeOK, MailboxInv, CanStage, PoolUsable

LEMMA UsePoolMatches ==
  ASSUME OneGeometryInUse, MailboxInv, NEW b \in Buffers, UsePool(Geometry[b])
  PROVE  \A c \in Buffers : PoolMatches(Geometry[c])'
BY GeometryAssumption DEF OneGeometryInUse, MailboxInv, UsePool, PoolMatches

LEMMA MailboxStep ==
  ASSUME OneGeometryInUse, SafeInv, MailboxInv, [Next]_vars
  PROVE  MailboxInv' /\ [Mailbox!Next]_(Mailbox!vars)
<1> USE DEF Mailbox!vars, poolVars, slotVars, queueVars, pathVars
<1> DEFINE Stutters == UNCHANGED <<latest, queued, shown, session>>
           Ends == Running /\ ~Running' /\ queued' \in {queued, None} /\ UNCHANGED <<latest, shown>>
<1>a. Stutters => [Mailbox!Next]_(Mailbox!vars)
  BY DEF Running
<1>b. Ends => [Mailbox!Next]_(Mailbox!vars)
  BY DEF Mailbox!Next, Mailbox!Close, Running
<1>c. ASSUME UNCHANGED <<pool, gsize, busySlots, queued>>, Running' => Running
      PROVE  MailboxInv'
  BY <1>c DEF MailboxInv, PoolMatches
<1>1. CASE UNCHANGED vars
  BY <1>1, <1>a, <1>c DEF vars, Running
<1>2. CASE MakesBuffer
  <2> PICK b \in Buffers : CreateBuffer(b) \/ DestroyBuffer(b)
    BY <1>2 DEF MakesBuffer
  <2>1. CASE CreateBuffer(b)
    BY <2>1, <1>a, <1>c DEF CreateBuffer, Running
  <2>2. CASE DestroyBuffer(b)
    <3>1. UNCHANGED queued
      BY <2>2, NoneAssumption DEF DestroyBuffer, SafeInv, QueueSound
    <3> QED
      BY <2>2, <3>1, <1>a, <1>c DEF DestroyBuffer, Running
  <2> QED
    BY <2>1, <2>2
<1>3. CASE MakesSurface
  BY <1>3, <1>a, <1>c DEF MakesSurface, MakeSurface, CreateSurface, GetXdgSurface,
                          GetToplevel, DestroyToplevel, DestroySurface, Running
<1>4. CASE SetsSurface
  <2> PICK s \in Surfaces : \/ AckConfigure(s) \/ RequestFrame(s) \/ Detach(s)
                            \/ CommitForConfigure(s) \/ CommitDangling(s)
    BY <1>4 DEF SetsSurface
  <2>1. UNCHANGED <<latest, queued, shown, pool, gsize, busySlots>> /\ Running
    BY DEF AckConfigure, RequestFrame, Detach, CommitForConfigure, CommitDangling,
           ClientTurn, Running
  <2> QED
    BY <2>1, <1>a, <1>b, <1>c DEF AckConfigure, RequestFrame, Detach, CommitForConfigure,
                                  CommitDangling, EmitConfigure, Running
<1>5. CASE UsesBuffer
  <2> PICK s \in Surfaces, b \in Buffers :
        \/ Attach(s, b) \/ CommitBare(s, b) \/ CommitPresented(s, b)
        \/ CommitQueued(s, b) \/ CommitCopyFails(s, b)
    BY <1>5 DEF UsesBuffer
  <2>0. Running
    BY DEF Attach, CommitBare, CommitPresented, CommitQueued, CommitCopyFails, Commits,
           ClientTurn, Running
  <2>1. CASE Attach(s, b)
    <3>1. UNCHANGED <<latest, queued, shown, pool, gsize, busySlots>>
      BY <2>1 DEF Attach
    <3>2. UNCHANGED session \/ session' = "error"
      BY <2>1 DEF Attach
    <3> QED
      BY <2>0, <3>1, <3>2, <1>a, <1>b, <1>c DEF Running
  <2>2. CASE CommitBare(s, b)
    BY <2>2, <1>a, <1>c DEF CommitBare, Running
  <2>3. CASE CommitPresented(s, b)
    <3>1. busySlots # Slots
      BY <2>3 DEF CommitPresented, CanStage
    <3>2. queued = None
      BY <2>0, <3>1 DEF MailboxInv
    <3>3. queued' = None
      BY <2>3, <3>2 DEF CommitPresented, Unqueue, ClearQueue
    <3>4. UsePool(Geometry[b])
      BY <2>3 DEF CommitPresented, ShowFrame
    <3>5. MailboxInv'
      BY <3>3, <3>4, UsePoolMatches DEF MailboxInv
    <3>6. Mailbox!Present(b)
      BY <2>0, <2>3, <3>2, <3>3 DEF Mailbox!Present, CommitPresented, ShowFrame, Running
    <3> QED
      BY <3>5, <3>6 DEF Mailbox!Next
  <2>4. CASE CommitQueued(s, b)
    <3>1. /\ CannotStage(Geometry[b], busySlots) /\ queued' = b /\ latest' = b
          /\ UNCHANGED <<slotVars, session>>
      BY <2>4 DEF CommitQueued, Enqueue
    <3>2. ~CanStage(Geometry[b], busySlots) /\ UNCHANGED poolVars
      BY <3>1 DEF CannotStage, OneGeometryInUse
    <3>3. busySlots = Slots
      BY <3>2, CanStageFree
    <3>4. pool # None
      BY <3>3, SlotsExist DEF SafeInv, StagingSafe
    <3>5. MailboxInv'
      BY <3>1, <3>2, <3>3, <3>4 DEF MailboxInv, PoolMatches
    <3>6. Mailbox!Hold(b)
      BY <2>0, <3>1 DEF Mailbox!Hold, Running
    <3> QED
      BY <3>5, <3>6 DEF Mailbox!Next
  <2>5. CASE CommitCopyFails(s, b)
    <3>1. Ends /\ UsePool(Geometry[b])
      BY <2>0, <2>5 DEF CommitCopyFails, Running
    <3>2. MailboxInv'
      BY <3>1, UsePoolMatches DEF MailboxInv
    <3> QED
      BY <3>1, <3>2, <1>b
  <2> QED
    BY <2>1, <2>2, <2>3, <2>4, <2>5
<1>6. CASE \E i \in Slots : ParentReleases(i)
  <2> PICK i \in Slots : ParentReleases(i)
    BY <1>6
  <2>0. Running
    BY DEF ParentReleases, ReleaseOnly, ReleaseStages, ReleaseDangling, ReleaseCopyFails,
           Releases, ParentTurn, Running
  <2>1. CASE ReleaseOnly(i)
    <3>1. Others(i) \in SUBSET busySlots /\ Others(i) # Slots
      BY DEF Others
    <3>2. queued = None
      <4> SUFFICES ASSUME queued # None PROVE FALSE
        OBVIOUS
      <4>1. queued \in Buffers /\ CannotStage(Geometry[queued], Others(i))
        BY <2>1 DEF ReleaseOnly, SafeInv, TypeOK
      <4>2. CanStage(Geometry[queued], Others(i))
        BY <3>1, <4>1, CanStageFree
      <4> QED
        BY <4>1, <4>2 DEF CannotStage, OneGeometryInUse
    <3>3. UNCHANGED <<poolVars, latest, queued, shown, session>>
      BY <2>1, <3>2 DEF ReleaseOnly
    <3>4. MailboxInv'
      BY <3>2, <3>3 DEF MailboxInv, PoolMatches
    <3> QED
      BY <3>3, <3>4, <1>a
  <2>2. CASE ReleaseStages(i)
    <3>1. queued \in Buffers /\ queued # None /\ UsePool(Geometry[queued]) /\ queued' = None
      BY <2>2 DEF ReleaseStages, ShowFrame, ClearQueue, SafeInv, TypeOK
    <3>2. MailboxInv'
      BY <3>1, UsePoolMatches DEF MailboxInv
    <3>3. Mailbox!CatchUp
      BY <2>0, <2>2, <3>1 DEF Mailbox!CatchUp, ReleaseStages, ShowFrame, Running
    <3> QED
      BY <3>2, <3>3 DEF Mailbox!Next
  <2>3. CASE ReleaseDangling(i)
    <3>1. Ends /\ UNCHANGED poolVars
      BY <2>0, <2>3 DEF ReleaseDangling, Running
    <3>2. MailboxInv'
      BY <3>1 DEF MailboxInv, PoolMatches
    <3> QED
      BY <3>1, <3>2, <1>b
  <2>4. CASE ReleaseCopyFails(i)
    <3>1. Ends /\ UsePool(Geometry[queued]) /\ queued \in Buffers
      BY <2>0, <2>4 DEF ReleaseCopyFails, ClearQueue, Running, SafeInv, TypeOK
    <3>2. MailboxInv'
      BY <3>1, UsePoolMatches DEF MailboxInv
    <3> QED
      BY <3>1, <3>2, <1>b
  <2> QED
    BY <2>1, <2>2, <2>3, <2>4 DEF ParentReleases
<1>7. ASSUME NEW z \in ParentSizes, TopConfigure(z)
      PROVE  MailboxInv' /\ [Mailbox!Next]_(Mailbox!vars)
  <2>1. Stutters /\ UNCHANGED <<pool, busySlots>> /\ gsize' = z
    BY <1>7 DEF TopConfigure
  <2>2. MailboxInv'
    BY <2>1 DEF MailboxInv, PoolMatches, OneGeometryInUse, Running
  <2> QED
    BY <2>1, <2>2, <1>a
<1>8. CASE XsConfigure
  <2>1. UNCHANGED <<latest, queued, shown, pool, gsize, busySlots>> /\ Running
    BY <1>8 DEF XsConfigure, Running
  <2> QED
    BY <1>8, <2>1, <1>a, <1>b, <1>c DEF XsConfigure, EmitConfigure, Running
<1>9. CASE SessionEnds
  <2>1. Ends /\ UNCHANGED <<pool, gsize, busySlots, queued>>
    BY <1>9 DEF SessionEnds, ClientTurn, Running
  <2> QED
    BY <2>1, <1>b, <1>c
<1> QED
  BY <1>1, <1>2, <1>3, <1>4, <1>5, <1>6, <1>7, <1>8, <1>9 DEF Next

\* While one geometry is in use and the pool can be made, the frame path
\* implements the mailbox: a frame that waits goes first, and a frame is never
\* shown after one committed later.
THEOREM ImplementsMailbox == OneGeometryInUse /\ Spec => MailboxSafeSpec
<1> SUFFICES ASSUME OneGeometryInUse PROVE Spec => MailboxSafeSpec
  OBVIOUS
<1>1. Init => Mailbox!Init /\ MailboxInv
  BY DEF Init, Mailbox!Init, MailboxInv, Running
<1>2. SafeInv /\ MailboxInv /\ [Next]_vars => MailboxInv' /\ [Mailbox!Next]_(Mailbox!vars)
  BY MailboxStep
<1> QED
  BY <1>1, <1>2, SafeAlways, PTL DEF Spec, MailboxSafeSpec, Mailbox!SafeSpec

\* The mailbox loses no frame: the one committed last is kept or shown.
THEOREM LosesNothing == OneGeometryInUse /\ Spec => []NothingLost
<1> USE DEF NothingLost, Mailbox!LatestKept
<1> SUFFICES ASSUME OneGeometryInUse PROVE Spec => []NothingLost
  OBVIOUS
<1>1. Mailbox!Init => NothingLost
  BY DEF Mailbox!Init
<1>2. NothingLost /\ [Mailbox!Next]_(Mailbox!vars) => NothingLost'
  BY NoneAssumption DEF Mailbox!Next, Mailbox!Present, Mailbox!Hold, Mailbox!CatchUp,
                        Mailbox!Close, Mailbox!vars
<1> QED
  BY <1>1, <1>2, ImplementsMailbox, PTL DEF MailboxSafeSpec, Mailbox!SafeSpec

-----------------------------------------------------------------------------
(* A client that keeps the rules meets no fault                            *)

KeepsRules ==
  /\ {"one_surface", "awaits_release", "keeps_pending", "keeps_queued_surface", "keeps_toplevel"}
       \subseteq ClientObeys
  /\ "sync_fail" \notin WorldMay

\* What the bridge is about to read exists: the buffers that are pending, the
\* toplevels, and the surface whose frame waits.
AllAlive ==
  /\ \A s \in Surfaces : pending[s] # None => bufState[pending[s]] = "live"
  /\ \A s \in Surfaces : surfState[s] # "stale"
  /\ queuedSurface # None => surfState[queuedSurface] # "freed"

FaultInv == AllAlive /\ NoFault

\* release_client and enqueue_buffer free no buffer_state whose wl_buffer lives.
LEMMA ReleaseKeepsLive ==
  ASSUME TypeOK, NEW b \in Buffers, NEW B, NEW O, ReleaseClient(b, B, O)
  PROVE  \A c \in Buffers : bufState[c] = "live" => bufState'[c] = "live"
BY DEF ReleaseClient, FreeIfDead, TypeOK

LEMMA EnqueueKeepsLive ==
  ASSUME TypeOK, NEW s \in Surfaces, NEW b \in Buffers, Enqueue(s, b)
  PROVE  \A c \in Buffers : bufState[c] = "live" => bufState'[c] = "live"
<1>1. CASE queued \in {None, b}
  BY <1>1 DEF Enqueue
<1>2. CASE queued \notin {None, b}
  <2>1. queued \in Buffers /\ ReleaseClient(queued, busy \cup {b}, owed \cup {b})
    BY <1>2 DEF Enqueue, TypeOK
  <2> QED
    BY <2>1, ReleaseKeepsLive
<1> QED
  BY <1>1, <1>2

LEMMA FaultStep ==
  ASSUME KeepsRules, FaultInv, LeaseSound, QueueSound, TypeOK, [Next]_vars
  PROVE  FaultInv'
<1> USE DEF FaultInv, AllAlive, queueVars, pathVars, bufVars, surfVars, confVars
<1>1. CASE UNCHANGED vars
  BY <1>1 DEF vars, NoFault
<1> SUFFICES ASSUME Next PROVE FaultInv'
  BY <1>1
<1>a. ASSUME NEW s \in Surfaces, UNCHANGED <<bufState, surfState, queuedSurface>>,
             pending' = [pending EXCEPT ![s] = None]
      PROVE  AllAlive'
  BY <1>a DEF TypeOK
<1>b. ASSUME UNCHANGED <<bufState, surfState, queuedSurface, pending, session>>
      PROVE  FaultInv'
  BY <1>b DEF NoFault
<1>2. CASE MakesBuffer
  <2> PICK b \in Buffers : CreateBuffer(b) \/ DestroyBuffer(b)
    BY <1>2 DEF MakesBuffer
  <2>1. CASE CreateBuffer(b)
    BY <2>1 DEF CreateBuffer, NoFault, TypeOK
  <2>2. CASE DestroyBuffer(b)
    <3>1. \A s \in Surfaces : pending[s] # b
      BY <2>2 DEF DestroyBuffer, KeepsRules, Obeys
    <3>2. queuedSurface' \in {None, queuedSurface}
      BY <2>2 DEF DestroyBuffer, ClearQueue
    <3> QED
      BY <2>2, <3>1, <3>2 DEF DestroyBuffer, NoFault, TypeOK
  <2> QED
    BY <2>1, <2>2
<1>3. CASE MakesSurface
  <2> PICK s \in Surfaces : \/ CreateSurface(s) \/ GetXdgSurface(s) \/ GetToplevel(s)
                            \/ DestroyToplevel(s) \/ DestroySurface(s)
    BY <1>3 DEF MakesSurface
  <2>1. CASE CreateSurface(s) \/ GetXdgSurface(s) \/ GetToplevel(s)
    BY <2>1 DEF CreateSurface, GetXdgSurface, GetToplevel, MakeSurface, NoFault, TypeOK
  <2>2. CASE DestroyToplevel(s)
    BY <2>2 DEF DestroyToplevel, KeepsRules, Obeys
  <2>3. CASE DestroySurface(s)
    <3>1. queuedSurface # s
      BY <2>3 DEF DestroySurface, KeepsRules, Obeys
    <3> QED
      BY <2>3, <3>1 DEF DestroySurface, NoFault, TypeOK
  <2> QED
    BY <2>1, <2>2, <2>3
<1>4. CASE SetsSurface
  <2> PICK s \in Surfaces : \/ AckConfigure(s) \/ RequestFrame(s) \/ Detach(s)
                            \/ CommitForConfigure(s) \/ CommitDangling(s)
    BY <1>4 DEF SetsSurface
  <2>1. CASE AckConfigure(s) \/ RequestFrame(s)
    BY <2>1, <1>b DEF AckConfigure, RequestFrame
  <2>2. CASE Detach(s)
    BY <2>2, <1>a DEF Detach, NoFault
  <2>3. CASE CommitForConfigure(s)
    BY <2>3, <1>b DEF CommitForConfigure, EmitConfigure
  <2>4. CASE CommitDangling(s)
    BY <2>4 DEF CommitDangling
  <2> QED
    BY <2>1, <2>2, <2>3, <2>4
<1>5. CASE UsesBuffer
  <2> PICK s \in Surfaces, b \in Buffers :
        \/ Attach(s, b) \/ CommitBare(s, b) \/ CommitPresented(s, b)
        \/ CommitQueued(s, b) \/ CommitCopyFails(s, b)
    BY <1>5 DEF UsesBuffer
  <2>a. ASSUME Commits(s, b), \A c \in Buffers : bufState[c] = "live" => bufState'[c] = "live",
               queuedSurface' \in {None, queuedSurface, s}, UNCHANGED session
        PROVE  FaultInv'
    BY <2>a DEF Commits, IsSurface, NoFault, TypeOK
  <2>1. CASE Attach(s, b)
    <3>1. b \notin busy
      BY <2>1 DEF Attach, ClientTurn, KeepsRules, Obeys, LeaseSound, Running
    <3> QED
      BY <2>1, <3>1 DEF Attach, NoFault, TypeOK
  <2>2. CASE CommitBare(s, b)
    BY <2>2, <2>a, ReleaseKeepsLive DEF CommitBare
  <2>3. CASE CommitPresented(s, b)
    BY <2>3, <2>a, ReleaseKeepsLive DEF CommitPresented, Unqueue, ClearQueue
  <2>4. CASE CommitQueued(s, b)
    <3>1. queuedSurface' = s
      BY <2>4 DEF CommitQueued, Enqueue
    <3> QED
      BY <2>4, <3>1, <2>a, EnqueueKeepsLive DEF CommitQueued
  <2>5. CASE CommitCopyFails(s, b)
    BY <2>5 DEF CommitCopyFails, KeepsRules
  <2> QED
    BY <2>1, <2>2, <2>3, <2>4, <2>5
<1>6. CASE \E i \in Slots : ParentReleases(i)
  <2> PICK i \in Slots : ParentReleases(i)
    BY <1>6
  <2>1. CASE ReleaseOnly(i)
    BY <2>1, <1>b DEF ReleaseOnly
  <2>2. CASE ReleaseStages(i)
    <3>1. queued \in Buffers /\ ReleaseClient(queued, busy, owed)
      BY <2>2 DEF ReleaseStages, TypeOK
    <3>2. \A c \in Buffers : bufState[c] = "live" => bufState'[c] = "live"
      BY <3>1, ReleaseKeepsLive
    <3> QED
      BY <2>2, <3>2 DEF ReleaseStages, ClearQueue, NoFault, TypeOK
  <2>3. CASE ReleaseDangling(i)
    <3>1. queuedSurface # None
      BY <2>3 DEF ReleaseDangling, QueueSound
    <3> QED
      BY <2>3, <3>1 DEF ReleaseDangling
  <2>4. CASE ReleaseCopyFails(i)
    BY <2>4 DEF ReleaseCopyFails, KeepsRules
  <2> QED
    BY <2>1, <2>2, <2>3, <2>4 DEF ParentReleases
<1>7. ASSUME NEW z \in ParentSizes, TopConfigure(z)
      PROVE  FaultInv'
  BY <1>7, <1>b DEF TopConfigure
<1>8. CASE XsConfigure
  BY <1>8, <1>b DEF XsConfigure, EmitConfigure, TypeOK
<1>9. CASE SessionEnds
  BY <1>9 DEF SessionEnds, NoFault
<1> QED
  BY <1>2, <1>3, <1>4, <1>5, <1>6, <1>7, <1>8, <1>9 DEF Next

\* A client that attaches a buffer to one surface and again only after its
\* release, and destroys what it made only when the bridge is done with it, is
\* sent no protocol error and meets no freed memory, whatever sizes, failing
\* pools and configures come.
THEOREM RulesSpareFaults == KeepsRules /\ Spec => []NoFault
<1> SUFFICES ASSUME KeepsRules PROVE Spec => []NoFault
  OBVIOUS
<1>1. Init => FaultInv
  BY DEF Init, FaultInv, AllAlive, NoFault
<1>2. FaultInv /\ LeaseSound /\ TypeOK /\ QueueSound /\ [Next]_vars => FaultInv'
  BY FaultStep
<1>3. FaultInv => NoFault
  BY DEF FaultInv
<1>4. OneSurface
  BY DEF OneSurface, KeepsRules, Obeys
<1> QED
  BY <1>1, <1>2, <1>3, <1>4, LeasesSound, TypeCorrect, QueueCorrect, PTL DEF Spec

-----------------------------------------------------------------------------
(* The client is told the size the parent asked for                        *)

AsksInOrder == "acks_first" \in ClientObeys /\ "split_configure" \notin WorldMay

\* No surface has shown a frame yet: none was a toplevel with an acked configure.
NoneHasShown ==
  \A s \in Surfaces : \/ surfState[s] \in {"unmade", "bare", "xdg"}
                      \/ surfState[s] = "toplevel" /\ s \notin acked

\* G.width and G.height are the parent's until a pool is built for a frame, and
\* again between the two events of a configure.
ParentsSize ==
  /\ configuring => gsize = asked
  /\ NoneHasShown => gsize = asked

\* Frames come from surfaces whose configure was acked, also those that wait.
AckedFirst ==
  /\ \A s \in Surfaces : pending[s] # None => s \in acked \/ surfState[s] = "bare"
  /\ queuedSurface # None =>
       \/ surfState[queuedSurface] \in {"stale", "freed"}
       \/ surfState[queuedSurface] = "toplevel" /\ queuedSurface \in acked

\* Only toplevels are told a size, and the main surface is one.
ToldToplevels ==
  /\ \A s \in Surfaces : surfState[s] \in {"unmade", "bare", "xdg"} => told[s] = None
  /\ mainSurface # None => surfState[mainSurface] \in {"toplevel", "stale"}

ToldInv == Running => ParentsSize /\ AckedFirst /\ ToldToplevels /\ ToldIsAsked

LEMMA ToldStep ==
  ASSUME AsksInOrder, ToldInv, TypeOK, QueueSound, [Next]_vars
  PROVE  ToldInv'
<1> USE DEF queueVars, pathVars, surfVars, confVars, poolVars
<1>1. CASE UNCHANGED vars
  BY <1>1 DEF vars, ToldInv, ParentsSize, NoneHasShown, AckedFirst, ToldToplevels, ToldIsAsked,
              OnlyToplevel, Running
<1> SUFFICES ASSUME Next, session' = "up"
             PROVE  ParentsSize' /\ AckedFirst' /\ ToldToplevels' /\ ToldIsAsked'
  BY <1>1 DEF ToldInv, Running
<1>0. session = "up" /\ ParentsSize /\ AckedFirst /\ ToldToplevels /\ ToldIsAsked
  <2>1. session = "up"
    BY DEF Next, MakesBuffer, CreateBuffer, DestroyBuffer, MakesSurface, MakeSurface,
           CreateSurface, GetXdgSurface, GetToplevel, DestroyToplevel, DestroySurface,
           SetsSurface, AckConfigure, RequestFrame, Detach, CommitForConfigure, CommitDangling,
           UsesBuffer, Attach, Commits, CommitBare, CommitPresented, CommitQueued, CommitCopyFails,
           ParentReleases, Releases, ReleaseOnly, ReleaseStages, ReleaseDangling, ReleaseCopyFails,
           TopConfigure, XsConfigure, SessionEnds, ClientTurn, ParentTurn
  <2> QED
    BY <2>1 DEF ToldInv, Running
<1>t. ClientTurn => ~configuring
  BY DEF ClientTurn, AsksInOrder
<1>a. ASSUME UNCHANGED <<gsize, asked, configuring>>, NoneHasShown' => NoneHasShown
      PROVE  ParentsSize'
  BY <1>0, <1>a DEF ParentsSize
<1>b. ASSUME UNCHANGED <<told, asked, mainSurface, configuring>>, OnlyToplevel' => OnlyToplevel
      PROVE  ToldIsAsked'
  BY <1>0, <1>b DEF ToldIsAsked, Running
<1>c. ASSUME UNCHANGED <<surfState, acked>>
      PROVE  (NoneHasShown' <=> NoneHasShown) /\ (mainSurface' = mainSurface /\ OnlyToplevel' => OnlyToplevel)
  BY <1>c DEF NoneHasShown, OnlyToplevel
<1>d. ASSUME UNCHANGED <<surfState, acked, confVars, gsize>>,
             AckedFirst'
      PROVE  ParentsSize' /\ AckedFirst' /\ ToldToplevels' /\ ToldIsAsked'
  BY <1>0, <1>a, <1>b, <1>c, <1>d DEF ToldToplevels
<1>2. CASE MakesBuffer
  <2> PICK b \in Buffers : CreateBuffer(b) \/ DestroyBuffer(b)
    BY <1>2 DEF MakesBuffer
  <2>1. queuedSurface' \in {None, queuedSurface}
    BY DEF CreateBuffer, DestroyBuffer, ClearQueue
  <2>2. UNCHANGED <<surfState, acked, pending, confVars, gsize>>
    BY DEF CreateBuffer, DestroyBuffer
  <2>3. AckedFirst'
    BY <1>0, <2>1, <2>2 DEF AckedFirst
  <2> QED
    BY <1>d, <2>2, <2>3
<1>3. CASE MakesSurface
  <2> PICK s \in Surfaces : \/ CreateSurface(s) \/ GetXdgSurface(s) \/ GetToplevel(s)
                            \/ DestroyToplevel(s) \/ DestroySurface(s)
    BY <1>3 DEF MakesSurface
  <2>1. CASE CreateSurface(s)
    <3>1. /\ surfState[s] = "unmade" /\ surfState' = [surfState EXCEPT ![s] = "bare"]
          /\ UNCHANGED <<acked, pending, queuedSurface, confVars, gsize>>
      BY <2>1 DEF CreateSurface, MakeSurface
    <3> QED
      BY <1>0, <1>a, <1>b, <3>1
         DEF NoneHasShown, OnlyToplevel, AckedFirst, ToldToplevels, TypeOK
  <2>2. CASE GetXdgSurface(s)
    <3>1. /\ surfState[s] = "bare" /\ surfState' = [surfState EXCEPT ![s] = "xdg"]
          /\ pending[s] = None
          /\ UNCHANGED <<acked, pending, queuedSurface, confVars, gsize>>
      BY <2>2 DEF GetXdgSurface, MakeSurface, AsksInOrder, Obeys
    <3> QED
      BY <1>0, <1>a, <1>b, <3>1
         DEF NoneHasShown, OnlyToplevel, AckedFirst, ToldToplevels, TypeOK
  <2>3. CASE GetToplevel(s)
    <3>1. /\ surfState[s] = "xdg" /\ surfState' = [surfState EXCEPT ![s] = "toplevel"]
          /\ mainSurface' = s /\ told[s] = None
          /\ UNCHANGED <<acked, pending, queuedSurface, told, asked, configuring, gsize>>
      BY <1>0, <2>3 DEF GetToplevel, MakeSurface, ToldToplevels
    <3>2. ParentsSize' /\ AckedFirst'
      BY <1>0, <1>a, <3>1 DEF NoneHasShown, AckedFirst, TypeOK
    <3> QED
      BY <1>0, <3>1, <3>2 DEF ToldToplevels, ToldIsAsked, TypeOK
  <2>4. CASE DestroyToplevel(s)
    <3>1. /\ surfState[s] = "toplevel" /\ surfState' = [surfState EXCEPT ![s] = "stale"]
          /\ UNCHANGED <<acked, pending, queuedSurface, confVars, gsize>>
      BY <2>4 DEF DestroyToplevel, MakeSurface
    <3> QED
      BY <1>0, <1>a, <1>b, <3>1
         DEF NoneHasShown, OnlyToplevel, AckedFirst, ToldToplevels, TypeOK
  <2>5. CASE DestroySurface(s)
    <3>1. /\ surfState' = [surfState EXCEPT ![s] = "freed"] /\ acked' = acked \ {s}
          /\ mainSurface' = IF mainSurface = s THEN None ELSE mainSurface
          /\ pending' = [pending EXCEPT ![s] = None]
          /\ UNCHANGED <<queuedSurface, told, asked, configuring, gsize>>
      BY <2>5 DEF DestroySurface
    <3>2. ~NoneHasShown'
      BY <3>1 DEF NoneHasShown, TypeOK
    <3>3. mainSurface' # None => mainSurface' # s /\ ~OnlyToplevel'
      BY <3>1 DEF OnlyToplevel, TypeOK
    <3>4. AckedFirst' /\ ToldToplevels'
      BY <1>0, <3>1, <3>3 DEF AckedFirst, ToldToplevels, TypeOK
    <3> QED
      BY <1>a, <3>1, <3>2, <3>3, <3>4 DEF ToldIsAsked
  <2> QED
    BY <2>1, <2>2, <2>3, <2>4, <2>5
<1>4. CASE SetsSurface
  <2> PICK s \in Surfaces : \/ AckConfigure(s) \/ RequestFrame(s) \/ Detach(s)
                            \/ CommitForConfigure(s) \/ CommitDangling(s)
    BY <1>4 DEF SetsSurface
  <2>1. CASE AckConfigure(s)
    <3>1. acked' = acked \cup {s} /\ UNCHANGED <<surfState, pending, queuedSurface, confVars, gsize>>
      BY <2>1 DEF AckConfigure
    <3> QED
      BY <1>0, <1>a, <1>b, <3>1 DEF NoneHasShown, OnlyToplevel, AckedFirst, ToldToplevels
  <2>2. CASE RequestFrame(s)
    BY <1>0, <1>d, <2>2 DEF RequestFrame, AckedFirst
  <2>3. CASE Detach(s)
    BY <1>0, <1>d, <2>3 DEF Detach, AckedFirst, TypeOK
  <2>4. CASE CommitForConfigure(s)
    <3>1. surfState[s] = "toplevel" /\ told' = [told EXCEPT ![s] = gsize]
      BY <2>4 DEF CommitForConfigure, HasToplevel, EmitConfigure, ConfigureSize
    <3>2. /\ s \notin acked
          /\ UNCHANGED <<surfState, acked, pending, queuedSurface, mainSurface, asked, configuring, gsize>>
      BY <2>4 DEF CommitForConfigure
    <3>3. ParentsSize' /\ AckedFirst' /\ ToldToplevels'
      BY <1>0, <1>a, <1>c, <3>1, <3>2 DEF AckedFirst, ToldToplevels, TypeOK
    <3>4. ASSUME mainSurface # None, OnlyToplevel
          PROVE  told'[mainSurface] = asked
      <4>1. mainSurface = s
        BY <3>1, <3>4 DEF OnlyToplevel
      <4>2. NoneHasShown
        BY <3>1, <3>2, <3>4, <4>1 DEF OnlyToplevel, NoneHasShown
      <4> QED
        BY <1>0, <3>1, <4>1, <4>2 DEF ParentsSize, TypeOK
    <3> QED
      BY <1>c, <3>2, <3>3, <3>4 DEF ToldIsAsked
  <2>5. CASE CommitDangling(s)
    BY <2>5 DEF CommitDangling
  <2> QED
    BY <2>1, <2>2, <2>3, <2>4, <2>5
<1>5. CASE UsesBuffer
  <2> PICK s \in Surfaces, b \in Buffers :
        \/ Attach(s, b) \/ CommitBare(s, b) \/ CommitPresented(s, b)
        \/ CommitQueued(s, b) \/ CommitCopyFails(s, b)
    BY <1>5 DEF UsesBuffer
  <2>a. ASSUME Commits(s, b), UNCHANGED <<queuedSurface, gsize>>
        PROVE  ParentsSize' /\ AckedFirst' /\ ToldToplevels' /\ ToldIsAsked'
    BY <1>0, <1>d, <2>a DEF Commits, AckedFirst, TypeOK
  <2>b. ASSUME Commits(s, b), HasToplevel(s)
        PROVE  /\ surfState[s] \in {"toplevel", "stale"} /\ s \in acked
               /\ ~NoneHasShown
    BY <1>0, <2>b, NoneAssumption DEF Commits, HasToplevel, AckedFirst, NoneHasShown
  <2>1. CASE Attach(s, b)
    <3>1. /\ s \in acked \/ surfState[s] = "bare"
          /\ UNCHANGED <<surfState, acked, queuedSurface, confVars, gsize>>
          /\ pending' = [pending EXCEPT ![s] = b] \/ UNCHANGED pending
      BY <2>1 DEF Attach, AsksInOrder, Obeys
    <3> QED
      BY <1>0, <1>d, <3>1 DEF AckedFirst, TypeOK
  <2>2. CASE CommitBare(s, b)
    BY <2>2, <2>a DEF CommitBare
  <2>3. CASE CommitPresented(s, b)
    <3>1. /\ UNCHANGED <<surfState, acked, confVars>> /\ pending' = [pending EXCEPT ![s] = None]
          /\ queuedSurface' \in {None, queuedSurface} /\ ~configuring /\ ~NoneHasShown
      BY <1>t, <2>3, <2>b DEF CommitPresented, Commits, Unqueue, ClearQueue
    <3>2. ParentsSize' /\ ToldIsAsked'
      BY <1>b, <1>c, <3>1 DEF ParentsSize
    <3> QED
      BY <1>0, <3>1, <3>2 DEF AckedFirst, ToldToplevels, TypeOK
  <2>4. CASE CommitQueued(s, b)
    <3>1. /\ UNCHANGED <<surfState, acked, confVars, gsize>>
          /\ pending' = [pending EXCEPT ![s] = None] /\ queuedSurface' = s
      BY <2>4 DEF CommitQueued, Commits, CannotStage, LosePool, Enqueue
    <3>2. AckedFirst'
      BY <1>0, <2>4, <2>b, <3>1 DEF CommitQueued, AckedFirst, TypeOK
    <3> QED
      BY <1>d, <3>1, <3>2
  <2>5. CASE CommitCopyFails(s, b)
    BY <2>5 DEF CommitCopyFails
  <2> QED
    BY <2>1, <2>2, <2>3, <2>4, <2>5
<1>6. CASE \E i \in Slots : ParentReleases(i)
  <2> PICK i \in Slots : ParentReleases(i)
    BY <1>6
  <2>1. CASE ReleaseOnly(i)
    <3>1. UNCHANGED <<surfVars, confVars, queuedSurface, gsize>>
      BY <2>1 DEF ReleaseOnly, CannotStage, LosePool
    <3> QED
      BY <1>0, <1>d, <3>1 DEF AckedFirst
  <2>2. CASE ReleaseStages(i)
    <3>1. /\ UNCHANGED <<surfState, acked, pending, confVars>> /\ queuedSurface' = None
          /\ ~configuring /\ queuedSurface \in Surfaces
      BY <2>2, NoneAssumption DEF ReleaseStages, ClearQueue, ParentTurn, QueueSound, TypeOK
    <3>2. ~NoneHasShown
      BY <1>0, <3>1, NoneAssumption DEF AckedFirst, NoneHasShown
    <3>3. ParentsSize' /\ ToldIsAsked'
      BY <1>b, <1>c, <3>1, <3>2 DEF ParentsSize
    <3> QED
      BY <1>0, <3>1, <3>3 DEF AckedFirst, ToldToplevels
  <2>3. CASE ReleaseDangling(i)
    BY <2>3 DEF ReleaseDangling
  <2>4. CASE ReleaseCopyFails(i)
    BY <2>4 DEF ReleaseCopyFails
  <2> QED
    BY <2>1, <2>2, <2>3, <2>4 DEF ParentReleases
<1>7. ASSUME NEW z \in ParentSizes, TopConfigure(z)
      PROVE  ParentsSize' /\ AckedFirst' /\ ToldToplevels' /\ ToldIsAsked'
  <2>1. /\ gsize' = z /\ asked' = z /\ configuring'
        /\ UNCHANGED <<surfVars, queuedSurface, told, mainSurface>>
    BY <1>7 DEF TopConfigure
  <2> QED
    BY <1>0, <2>1 DEF ParentsSize, AckedFirst, ToldToplevels, ToldIsAsked
<1>8. CASE XsConfigure
  <2>1. /\ configuring /\ ~configuring'
        /\ UNCHANGED <<surfVars, queuedSurface, gsize, mainSurface, asked>>
    BY <1>8 DEF XsConfigure
  <2>2. ParentsSize' /\ AckedFirst'
    BY <1>0, <2>1 DEF ParentsSize, AckedFirst
  <2>3. CASE mainSurface = None
    BY <1>0, <1>8, <2>1, <2>2, <2>3 DEF XsConfigure, ToldToplevels, ToldIsAsked
  <2>4. CASE mainSurface # None
    <3>1. surfState[mainSurface] = "toplevel" /\ told' = [told EXCEPT ![mainSurface] = gsize]
      BY <1>0, <1>8, <2>4 DEF XsConfigure, EmitConfigure, ConfigureSize, ToldToplevels
    <3>2. ToldToplevels'
      BY <1>0, <2>1, <3>1 DEF ToldToplevels, TypeOK
    <3>3. told'[mainSurface] = asked
      BY <1>0, <2>1, <2>4, <3>1 DEF ParentsSize, TypeOK
    <3> QED
      BY <2>1, <2>2, <3>2, <3>3 DEF ToldIsAsked
  <2> QED
    BY <2>3, <2>4
<1>9. CASE SessionEnds
  BY <1>9 DEF SessionEnds
<1> QED
  BY <1>2, <1>3, <1>4, <1>5, <1>6, <1>7, <1>8, <1>9 DEF Next

\* A window that attaches no buffer before its first configure, of a parent
\* whose configures arrive whole, is told the size the parent asked for last,
\* although frames of other sizes overwrite G.width and G.height.
THEOREM TellsWhatIsAsked == AsksInOrder /\ Spec => []ToldIsAsked
<1> SUFFICES ASSUME AsksInOrder PROVE Spec => []ToldIsAsked
  OBVIOUS
<1>1. Init => ToldInv
  BY DEF Init, ToldInv, ParentsSize, AckedFirst, ToldToplevels, ToldIsAsked
<1>2. ToldInv /\ TypeOK /\ QueueSound /\ [Next]_vars => ToldInv'
  BY ToldStep
<1>3. ToldInv => ToldIsAsked
  BY DEF ToldInv, ToldIsAsked
<1> QED
  BY <1>1, <1>2, <1>3, TypeCorrect, QueueCorrect, PTL DEF Spec
=============================================================================
