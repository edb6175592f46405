----------------------------- MODULE DmabufParams ------------------------------
(***************************************************************************)
(* How a client's dma-buf becomes a wl_buffer: the params objects, the     *)
(* buffer_state that passes from a params to its buffer, the checks of     *)
(* params_ok and the arithmetic that staging does with what they let       *)
(* through, the pool that is cut into slots for the image staged first,    *)
(* and who has to close each file descriptor: the dma-bufs' and the        *)
(* pool's.                                                                 *)
(*                                                                         *)
(* A protocol error ends the client at its next read: the model stops      *)
(* there.  Which slot is free when, the errors of attach and of copying,   *)
(* and a buffer that is destroyed while a surface has it pending are in    *)
(* FramePath; a resource freed with its client is in ClientObjects.        *)
(***************************************************************************)
EXTENDS Integers, FiniteSets

CONSTANTS Params,       \* the params objects, each with the buffer made of it
          Surfaces,     \* surfaces buffers are attached to
          Fds,          \* file descriptors
          Word,         \* 2^32: unsigned arithmetic is modulo Word
          MaxMap,       \* the most bytes mmap maps
          STAGING,      \* staging slots in the pool
          Planes,       \* the planes clients give: records of offset, stride, modifier
          Images,       \* what clients make of them: width, height, format, flags
          MayBreak,     \* the rules clients, the parent and the kernel may break
          None

Rules == {"uses_once",       \* no add or create_immed on a params that was used
          "uses_params",     \* a params with a plane is used before it is destroyed
          "listed_formats",  \* only formats, modifiers and flags of the feedback
          "sound_requests",  \* one plane 0, a positive size, rows that hold the width
          "fits_parent",     \* an image whose pool 32 bits can hold
          "pends_once",      \* a buffer is pending on one surface at a time
          "stays",           \* a client with buffers lasts as long as the bridge
          "keeps_size",      \* the parent configures no other size than the pool's
          "ftruncate"}       \* the kernel gives a memfd the size it is asked for

Half == Word \div 2
Formats == {"XRGB8888", "ARGB8888", "other"}

ASSUME WordAssumption == Word \in Nat /\ Word > 8 /\ Half * 2 = Word
ASSUME StagingAssumption == STAGING \in Nat \ {0}
ASSUME PlanesAssumption ==
  Planes \subseteq [offset : 0..Word - 1, stride : 0..Word - 1, modifier : {"LINEAR", "other"}]
ASSUME ImagesAssumption ==
  Images \subseteq [width : -Half..Half - 1, height : -Half..Half - 1, format : Formats,
                    flags : {0, 1}]
ASSUME NoneAssumption == None \notin Params \cup Fds \cup Planes \cup Images
ASSUME ErrorAssumption ==
  None \notin {"incomplete", "invalid_format", "invalid_dimensions", "out_of_bounds"}
ASSUME MapAssumption == MaxMap \in Nat /\ MaxMap < Word * Word - STAGING * (Half * Half)
ASSUME RulesAssumption == MayBreak \subseteq Rules

VARIABLES
  params,   \* params resources; open while its user data is the buffer_state
  plane,    \* buf->planes and what add has set, by params
  image,    \* the size and format params_ok has accepted
  fd,       \* buf->fd
  buffer,   \* the wl_buffer; zombie when buf->dead, lost with its client
  busy,     \* buf->busy
  released, \* buf->released
  pending,  \* surface->pending_buffer
  queued,   \* queued
  pool,     \* G.pool_fd
  cut,      \* the image the slots were cut for, with its format G.shm_format
  size,     \* G.width and G.height
  open,     \* the descriptors that are open
  error,    \* the protocol error posted
  fault,    \* a handler went through a null pointer
  broken    \* the rules that were broken so far

vars == <<params, plane, image, fd, buffer, busy, released, pending, queued, pool, cut, size, open,
          error, fault, broken>>
madeVars == <<params, plane, image, fd>>
leaseVars == <<busy, released, pending, queued>>
poolVars == <<pool, cut, size>>
endVars == <<error, fault>>

Init ==
  /\ params = [p \in Params |-> "unmade"]
  /\ plane = [p \in Params |-> None] /\ image = [p \in Params |-> None]
  /\ fd = [p \in Params |-> None] /\ buffer = [p \in Params |-> "none"]
  /\ busy = {} /\ released = {} /\ pending = [s \in Surfaces |-> None] /\ queued = None
  /\ pool = None /\ cut = None /\ size = <<0, 0>> /\ open = {}
  /\ error = None /\ fault = FALSE /\ broken = {}

Running == error = None /\ ~fault
When(cond, rule) == IF cond THEN {rule} ELSE {}
Breaks(rules) == rules \subseteq MayBreak /\ broken' = broken \cup rules

-----------------------------------------------------------------------------
(* Arithmetic                                                              *)

\* Conversions to uint32_t and to int32_t.
Unsigned(n) == n % Word
Signed(n) == ((n + Half) % Word) - Half

\* params_ok: (uint32_t)w * 4
RowBytes(w) == Unsigned(4 * Unsigned(w))

\* copy_buffer: the bytes that are mapped and where in them a row starts.
MapLength(pl, im) == pl.offset + pl.stride * im.height
RowStart(pl, y) == pl.offset + y * pl.stride

\* ensure_pool and copy_buffer: a staged row, an int; ensure_pool: a slot and
\* the pool, each a size_t.
Stride(im) == Signed(4 * im.width)
FrameBytes(im) == (Stride(im) * im.height) % (Word * Word)
PoolBytes(im) == (FrameBytes(im) * STAGING) % (Word * Word)

\* As an off_t the pool's size is negative, and ftruncate refuses it; mmap
\* refuses no bytes or too many.
Sizable(im) == PoolBytes(im) < Half * Word
Mappable(im) == PoolBytes(im) \in 1..MaxMap

\* Mutant: the slots start a row apart.
RowsApart(i, im) == Signed((i - 1) * Stride(im))

\* What the parent is told: the pool's size and where slot i starts.
PoolSize(im) == Signed(PoolBytes(im))
SlotStart(i, im) == Signed((i - 1) * FrameBytes(im))

\* 32 bits hold the pool; nothing asks.
Representable(im) == 4 * im.width < Half /\ 4 * im.width * im.height * STAGING < Half

-----------------------------------------------------------------------------
(* The feedback and the checks                                             *)

FormatTable == <<[format |-> "XRGB8888", modifier |-> "LINEAR"],
                 [format |-> "ARGB8888", modifier |-> "LINEAR"]>>

\* Mutant: the tranche lists the first format only.
FirstListed == {FormatTable[1]}

\* send_feedback: the tranche names the table's entries 0 and 1.
Tranche == {FormatTable[1 + i] : i \in {0, 1}}

\* shm_of knows the format.
Presentable(format) == format \in {"XRGB8888", "ARGB8888"}

\* Mutant: rows are not compared.
RowsUnchecked(pl, im) ==
  IF pl = None THEN "incomplete"
  ELSE IF im.flags # 0 \/ pl.modifier # "LINEAR" \/ ~Presentable(im.format)
       THEN "invalid_format"
  ELSE IF im.width <= 0 \/ im.height <= 0 THEN "invalid_dimensions"
  ELSE None

\* params_ok: the first error it finds, or none.  The 64-bit sum cannot wrap,
\* so need < offset adds nothing.
ParamsError(pl, im) ==
  IF pl = None THEN "incomplete"
  ELSE IF im.flags # 0 \/ pl.modifier # "LINEAR" \/ ~Presentable(im.format)
       THEN "invalid_format"
  ELSE IF im.width <= 0 \/ im.height <= 0 THEN "invalid_dimensions"
  ELSE IF pl.stride < RowBytes(im.width) THEN "out_of_bounds"
  ELSE None

-----------------------------------------------------------------------------
(* Requests of params                                                      *)

\* dmabuf_params
CreateParams(p) ==
  /\ Running /\ params[p] = "unmade"
  /\ params' = [params EXCEPT ![p] = "open"]
  /\ UNCHANGED <<plane, image, fd, buffer, leaseVars, poolVars, open, endVars, broken>>

\* params_add: the descriptor that came with the request stays open.
AddPlane(p, f, pl) ==
  /\ Running /\ params[p] = "open" /\ plane[p] = None /\ f \notin open
  /\ plane' = [plane EXCEPT ![p] = pl]
  /\ fd' = [fd EXCEPT ![p] = f]
  /\ open' = open \cup {f}
  /\ UNCHANGED <<params, image, buffer, leaseVars, poolVars, endVars, broken>>

\* The descriptor of a plane that is refused is closed.
ClosesIt(p, f) == (open \cup {f}) \ {f}

\* params_add of another plane than 0 or of a second one.
AddRefused(p, f) ==
  /\ Running /\ params[p] \in {"open", "spent"} /\ f \notin open
  /\ \/ error' = "plane_idx"
     \/ plane[p] # None /\ params[p] = "open" /\ error' = "plane_set"
  /\ open' = ClosesIt(p, f)
  /\ Breaks({"sound_requests"})
  /\ UNCHANGED <<madeVars, buffer, leaseVars, poolVars, fault>>

\* params_create
CreateRejected(p) ==
  /\ Running /\ params[p] \in {"open", "spent"}
  /\ error' = "invalid_wl_buffer"
  /\ Breaks({"sound_requests"})
  /\ UNCHANGED <<madeVars, buffer, leaseVars, poolVars, open, fault>>

\* params_create_immed with what params_ok accepts.
CreateImmed(p, im) ==
  /\ Running /\ params[p] = "open" /\ ParamsError(plane[p], im) = None
  /\ image' = [image EXCEPT ![p] = im]
  /\ buffer' = [buffer EXCEPT ![p] = "live"]
  /\ params' = [params EXCEPT ![p] = "spent"]
  /\ Breaks(When(~Representable(im), "fits_parent"))
  /\ UNCHANGED <<plane, fd, leaseVars, poolVars, open, endVars>>

\* The client asked for what the feedback does not list.
Unlisted(pl, im) ==
  im.flags # 0 \/ [format |-> im.format, modifier |-> pl.modifier] \notin Tranche

\* params_create_immed with what it refuses.
CreateRefused(p, im) ==
  /\ Running /\ params[p] = "open" /\ ParamsError(plane[p], im) # None
  /\ error' = ParamsError(plane[p], im)
  /\ IF plane[p] # None /\ Unlisted(plane[p], im)
     THEN Breaks({"listed_formats"}) ELSE Breaks({"sound_requests"})
  /\ UNCHANGED <<madeVars, buffer, leaseVars, poolVars, open, fault>>

\* params_add and params_create_immed read buf->planes and buf->used where the
\* user data is null: already_used is never sent.
SpentFaults(p) ==
  /\ Running /\ params[p] = "spent"
  /\ Breaks({"uses_once"})
  /\ fault' = TRUE
  /\ UNCHANGED <<madeVars, buffer, leaseVars, poolVars, open, error>>

\* params_destroy: a buffer_state that no buffer was made of is lost.
ParamsDestroy(p) ==
  /\ Running /\ params[p] \in {"open", "spent"}
  /\ Breaks(When(params[p] = "open" /\ plane[p] # None, "uses_params"))
  /\ params' = [params EXCEPT ![p] = "destroyed"]
  /\ UNCHANGED <<plane, image, fd, buffer, leaseVars, poolVars, open, endVars>>

-----------------------------------------------------------------------------
(* The buffer                                                              *)

\* Mutant: the descriptor stays open.
LeftOpen(p) == open

\* close(buf->fd)
CloseFd(p) == open \ {fd[p]}

Pending(p) == \E s \in Surfaces : pending[s] = p

BufferDestroy(p) ==
  /\ Running /\ buffer[p] = "live" /\ p \notin busy /\ ~Pending(p)
  /\ open' = CloseFd(p)
  /\ buffer' = [buffer EXCEPT ![p] = "freed"]
  /\ UNCHANGED <<madeVars, leaseVars, poolVars, endVars, broken>>

BufferDestroyBusy(p) ==
  /\ Running /\ buffer[p] = "live" /\ p \in busy /\ ~Pending(p)
  /\ buffer' = [buffer EXCEPT ![p] = "zombie"]
  /\ UNCHANGED <<madeVars, leaseVars, poolVars, open, endVars, broken>>

\* release_client, where these descriptors are open and these buffers busy: a
\* buffer that is released already keeps what it has.
Frees(p) == p \notin released /\ buffer[p] = "zombie"

ReleaseClient(p, opened, held) ==
  /\ busy' = IF p \in released THEN held ELSE held \ {p}
  /\ released' = released \cup {p}
  /\ open' = IF Frees(p) THEN opened \ {fd[p]} ELSE opened
  /\ buffer' = IF Frees(p) THEN [buffer EXCEPT ![p] = "freed"] ELSE buffer

\* A client that is not the compositor disconnects: its resources are freed,
\* and nothing that hangs on them is.
ClientLeaves ==
  /\ Running /\ Breaks({"stays"})
  /\ params' = [p \in Params |-> IF params[p] = "unmade" THEN "unmade" ELSE "destroyed"]
  /\ buffer' = [p \in Params |-> IF buffer[p] = "live" THEN "lost" ELSE buffer[p]]
  /\ pending' = [s \in Surfaces |-> None]
  /\ UNCHANGED <<plane, image, fd, busy, released, queued, poolVars, open, endVars>>

-----------------------------------------------------------------------------
(* The staging pool                                                        *)

SizeOf(im) == <<im.width, im.height>>

\* ensure_pool compares with G.width and G.height, which a configure writes.
PoolMatches(im) == pool # None /\ size = SizeOf(im) /\ cut.format = im.format

\* destroy_pool
PoolDestroyed == open \ {pool}

\* ensure_pool finds its pool, or makes another and cuts it for this image; the
\* image is copied into a slot and released.
StageKept(p) ==
  /\ PoolMatches(image[p])
  /\ ReleaseClient(p, open, busy)
  /\ UNCHANGED poolVars

StageNew(p) ==
  /\ ~PoolMatches(image[p]) /\ Sizable(image[p]) /\ Mappable(image[p])
  /\ cut' = image[p] /\ size' = SizeOf(image[p])
  /\ \E f \in Fds \ PoolDestroyed :
       pool' = f /\ ReleaseClient(p, PoolDestroyed \cup {f}, busy)

Stage(p) == StageKept(p) \/ StageNew(p)

\* ensure_pool has given up the pool and fails: memfd_create or mmap does, and
\* closes what there was; where ftruncate does the descriptor stays open.
PoolLost(im, opened) ==
  /\ ~PoolMatches(im)
  /\ pool' = None /\ cut' = None /\ UNCHANGED size
  /\ \/ opened = PoolDestroyed /\ UNCHANGED broken
     \/ \E f \in Fds \ PoolDestroyed :
          /\ opened = PoolDestroyed \cup {f}
          /\ Breaks(When(Sizable(im), "ftruncate"))

\* Nothing is staged: a slot is busy or there is none, or the pool is lost.
StageFails(im, opened) ==
  \/ opened = open /\ UNCHANGED <<poolVars, broken>>
  \/ PoolLost(im, opened)

\* top_configure
TopConfigure(im) ==
  /\ Running /\ im.width > 0 /\ im.height > 0
  /\ size' = SizeOf(im)
  /\ Breaks(When(pool # None /\ size # SizeOf(im), "keeps_size"))
  /\ UNCHANGED <<madeVars, buffer, leaseVars, pool, cut, open, endVars>>

-----------------------------------------------------------------------------
(* Attach, commit and the parent's release                                 *)

Attach(s, p) ==
  /\ Running /\ buffer[p] = "live" /\ p \notin busy
  /\ Breaks(When(\E other \in Surfaces \ {s} : pending[other] = p, "pends_once"))
  /\ pending' = [pending EXCEPT ![s] = p]
  /\ released' = released \ {p}
  /\ UNCHANGED <<madeVars, buffer, busy, queued, poolVars, open, endVars>>

Commit(s) ==
  /\ Running /\ pending[s] # None
  /\ pending' = [pending EXCEPT ![s] = None]
  /\ UNCHANGED <<madeVars, endVars>>

\* surface_commit of a window: present_fixed stages the buffer,
CommitShown(s) ==
  /\ Commit(s)
  /\ Stage(pending[s])
  /\ queued' = IF queued = pending[s] /\ queued \notin released THEN None ELSE queued
  /\ UNCHANGED broken

\* or enqueue_buffer has it wait in the place of the one that waits,
CommitWaits(s) ==
  /\ Commit(s) /\ (queued # None => buffer[queued] # "lost")
  /\ \E opened \in SUBSET Fds :
       /\ StageFails(image[pending[s]], opened)
       /\ IF queued \in {None, pending[s]}
          THEN /\ busy' = busy \cup {pending[s]} /\ open' = opened
               /\ UNCHANGED <<released, buffer>>
          ELSE ReleaseClient(queued, opened, busy \cup {pending[s]})
  /\ queued' = pending[s]

\* and surface_commit of any other surface releases it.
CommitBare(s) ==
  /\ Commit(s)
  /\ IF pending[s] \in busy
     THEN UNCHANGED <<busy, released, open, buffer>>
     ELSE ReleaseClient(pending[s], open, busy)
  /\ UNCHANGED <<queued, poolVars, broken>>

\* pump_queue stages what waits, or leaves it.
PumpShows ==
  /\ Running /\ queued # None /\ buffer[queued] # "lost"
  /\ Stage(queued)
  /\ queued' = None
  /\ UNCHANGED <<madeVars, pending, endVars, broken>>

PumpFails ==
  /\ Running /\ queued # None
  /\ \E opened \in SUBSET Fds : StageFails(image[queued], opened) /\ open' = opened
  /\ UNCHANGED <<madeVars, buffer, leaseVars, endVars>>

-----------------------------------------------------------------------------
Next ==
  \/ \E p \in Params :
       \/ CreateParams(p) \/ CreateRejected(p) \/ SpentFaults(p) \/ ParamsDestroy(p)
       \/ BufferDestroy(p) \/ BufferDestroyBusy(p)
       \/ \E f \in Fds : AddRefused(p, f) \/ \E pl \in Planes : AddPlane(p, f, pl)
       \/ \E im \in Images : CreateImmed(p, im) \/ CreateRefused(p, im)
       \/ \E s \in Surfaces : Attach(s, p)
  \/ \E s \in Surfaces : CommitShown(s) \/ CommitWaits(s) \/ CommitBare(s)
  \/ PumpShows \/ PumpFails
  \/ ClientLeaves
  \/ \E im \in Images : TopConfigure(im)

Spec == Init /\ [][Next]_vars

-----------------------------------------------------------------------------
(* Properties                                                              *)

\* Every variable has its type, and a buffer has a plane and an image.
TypeOK ==
  /\ params \in [Params -> {"unmade", "open", "spent", "destroyed"}]
  /\ plane \in [Params -> Planes \cup {None}] /\ image \in [Params -> Images \cup {None}]
  /\ fd \in [Params -> Fds \cup {None}]
  /\ buffer \in [Params -> {"none", "live", "zombie", "lost", "freed"}]
  /\ busy \subseteq Params /\ released \subseteq Params
  /\ pending \in [Surfaces -> Params \cup {None}] /\ queued \in Params \cup {None}
  /\ pool \in Fds \cup {None} /\ cut \in Images \cup {None} /\ size \in Int \X Int
  /\ (pool = None <=> cut = None) /\ open \subseteq Fds
  /\ fault \in BOOLEAN /\ broken \subseteq Rules
  /\ \A p \in Params : buffer[p] # "none" => plane[p] \in Planes /\ image[p] \in Images

\* gen/linux-dmabuf-server.h:427: a params that "has already been used to create
\* a wl_buffer" is answered with the error ALREADY_USED.  No handler goes through
\* a null pointer instead.
SecondUseRefused == ~fault

\* One rule of these was broken.
Broke(rules) == broken \cap rules # {}

\* The buffer_state of p can be reached from a resource or from the queue.
Reachable(p) == params[p] = "open" \/ buffer[p] = "live" \/ queued = p

\* The descriptor of every buffer_state in use is open, and it is no one
\* else's: none is closed too early or twice.
FdsHeld ==
  /\ \A p \in Params : Reachable(p) /\ fd[p] # None => fd[p] \in open \ {pool}
  /\ \A p, q \in Params : Reachable(p) /\ Reachable(q) /\ fd[p] = fd[q] /\ fd[p] # None => p = q
  /\ pool # None => pool \in open

\* What is open is somebody's.  A descriptor is lost only with a params that was
\* destroyed unused, with a client that leaves, with a buffer pending on two
\* surfaces, which may stay busy for ever, and where ftruncate fails or is asked
\* for a size it has to refuse.
FdsOwned ==
  open \subseteq {pool} \cup {fd[p] : p \in {q \in Params : Reachable(q)}}
  \/ Broke({"uses_params", "stays", "pends_once", "ftruncate", "fits_parent"})

\* The descriptors are sound: what is in use is open and nobody else's, and what
\* is open is in use, through commits, supersession, releases and rebuilds.
FdsSound == FdsHeld /\ FdsOwned

\* Copying one row after the other reads no further than what is mapped of the
\* client's buffer and writes no further than a slot that was cut for this image,
\* and each slot lies in the mapping of the pool.
CopyFits(pl, im, slots) ==
  /\ \A y \in 0..im.height - 1 :
       /\ RowStart(pl, y) + Stride(im) <= MapLength(pl, im)
       /\ (y + 1) * Stride(im) <= FrameBytes(slots)
  /\ Stride(im) >= 0
  /\ \A i \in 1..STAGING : i * FrameBytes(slots) <= PoolBytes(slots)

Copies(p) ==
  \/ \E s \in Surfaces : pending[s] = p /\ CommitShown(s)
  \/ queued = p /\ PumpShows

\* Every frame that is copied fits, whatever sizes clients make, also those
\* whose rows, slots or pools wrap, into slots cut for it or for another image,
\* unless the parent has configured another size over the pool's.
CopyInBounds ==
  [][\A p \in Params :
       Copies(p) => CopyFits(plane[p], image[p], cut') \/ Broke({"keeps_size"})]_vars

\* The parent is told of slots where they are, apart and inside the pool it is
\* told of, unless a client makes an image whose pool 32 bits cannot hold.
SlotsTold ==
  cut # None /\ ~Broke({"fits_parent"}) => \A i \in 1..STAGING :
    /\ SlotStart(i, cut) = (i - 1) * FrameBytes(cut)
    /\ SlotStart(i, cut) + FrameBytes(cut) <= PoolSize(cut)

\* The feedback lists what params_ok and staging accept and nothing else.
FeedbackHonest ==
  /\ error = "invalid_format" => "listed_formats" \in broken
  /\ \A p \in Params : buffer[p] # "none" => ~Unlisted(plane[p], image[p])
=============================================================================
