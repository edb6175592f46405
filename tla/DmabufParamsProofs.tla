-------------------------- MODULE DmabufParamsProofs ---------------------------
(***************************************************************************)
(* The properties of DmabufParams, proved for every number of params,      *)
(* surfaces and descriptors, every word size, all planes and images and    *)
(* all the rules that may be broken.                                       *)
(***************************************************************************)
EXTENDS DmabufParams, TLAPS

\* A params object has nothing before it is made, and its buffer_state has a
\* descriptor exactly when it has a plane and is the buffer's once there is one.
PlanesPaired ==
  \A p \in Params :
    /\ plane[p] = None <=> fd[p] = None
    /\ params[p] = "unmade" => plane[p] = None
    /\ params[p] \in {"unmade", "open"} => buffer[p] = "none"

\* What a buffer was made of has passed params_ok, and is too large for the
\* parent only when a rule was broken; so is a buffer without its client.
Accepted ==
  \A p \in Params :
    /\ buffer[p] # "none" =>
         /\ ParamsError(plane[p], image[p]) = None
         /\ Representable(image[p]) \/ "fits_parent" \in broken
    /\ buffer[p] = "lost" => "stays" \in broken

\* A buffer that is pending is live, and one that waits is busy and not freed.
Waiting ==
  /\ \A s \in Surfaces : pending[s] # None => buffer[pending[s]] = "live"
  /\ queued # None => queued \in busy /\ buffer[queued] \in {"live", "zombie", "lost"}
  /\ \A p \in Params : buffer[p] = "zombie" => p \in busy

\* Only the buffer that waits is busy, a buffer is pending once and not while it
\* waits, and neither was released, as long as clients keep to pends_once.
LeasedOnce ==
  /\ busy \subseteq {queued}
  /\ queued \notin released
  /\ \A s \in Surfaces : pending[s] # None =>
       /\ pending[s] \notin released /\ pending[s] # queued
       /\ \A t \in Surfaces : pending[t] = pending[s] => s = t
Leases == LeasedOnce \/ "pends_once" \in broken

\* The pool was cut for a size that ftruncate and mmap take, and is of the size
\* the parent configured and of one that 32 bits hold unless a rule was broken.
PoolCut ==
  cut # None =>
    /\ cut.width > 0 /\ cut.height > 0 /\ Mappable(cut)
    /\ Representable(cut) \/ "fits_parent" \in broken
    /\ size = SizeOf(cut) \/ "keeps_size" \in broken

IInv ==
  /\ TypeOK /\ PlanesPaired /\ Accepted /\ Waiting /\ Leases /\ PoolCut
  /\ FdsHeld /\ FdsOwned /\ FeedbackHonest

-----------------------------------------------------------------------------
(* What params_ok lets through                                             *)

\* The feedback's tranche is what params_ok accepts of formats, modifiers and
\* flags.
LEMMA TranchePresentable ==
  ASSUME NEW pl \in Planes, NEW im \in Images
  PROVE  Unlisted(pl, im) <=> im.flags # 0 \/ pl.modifier # "LINEAR" \/ ~Presentable(im.format)
<1>1. Tranche = {[format |-> "XRGB8888", modifier |-> "LINEAR"],
                 [format |-> "ARGB8888", modifier |-> "LINEAR"]}
  <2>1. FormatTable[1 + 0] = [format |-> "XRGB8888", modifier |-> "LINEAR"]
    BY DEF FormatTable
  <2>2. FormatTable[1 + 1] = [format |-> "ARGB8888", modifier |-> "LINEAR"]
    BY DEF FormatTable
  <2> QED BY <2>1, <2>2 DEF Tranche
<1> QED
  BY <1>1, PlanesAssumption, ImagesAssumption DEF Unlisted, Presentable

\* An accepted image has a positive size and rows that its width needs.
LEMMA AcceptedSound ==
  ASSUME NEW pl \in Planes \cup {None}, NEW im \in Images, ParamsError(pl, im) = None
  PROVE  /\ pl \in Planes
         /\ ~Unlisted(pl, im)
         /\ im.width > 0 /\ im.height > 0
         /\ pl.stride >= RowBytes(im.width)
<1> USE NoneAssumption
<1>1. None \notin {"incomplete", "invalid_format", "invalid_dimensions", "out_of_bounds"}
  BY ErrorAssumption
<1>2. pl # None
  BY <1>1 DEF ParamsError
<1>3. pl \in Planes
  BY <1>2
<1>4. ~(im.flags # 0 \/ pl.modifier # "LINEAR" \/ ~Presentable(im.format))
  BY <1>1, <1>2 DEF ParamsError
<1>5. ~(im.width <= 0 \/ im.height <= 0)
  BY <1>1, <1>2, <1>4 DEF ParamsError
<1>6. ~(pl.stride < RowBytes(im.width))
  BY <1>1, <1>2, <1>4, <1>5 DEF ParamsError
<1>7. pl.stride \in Int /\ RowBytes(im.width) \in Int /\ im.width \in Int /\ im.height \in Int
  BY <1>3, WordAssumption, PlanesAssumption, ImagesAssumption DEF RowBytes, Unsigned, Half
<1> QED
  BY <1>3, <1>4, <1>5, <1>6, <1>7, TranchePresentable

-----------------------------------------------------------------------------
(* Arithmetic                                                              *)

\* A number that int32_t holds is unchanged by the conversion to it.
LEMMA SignedIdentity ==
  ASSUME NEW n \in Nat, n < Half
  PROVE  Signed(n) = n
<1>1. Half \in Nat /\ n + Half \in 0..Word - 1
  BY WordAssumption DEF Half
<1>2. (n + Half) % Word = n + Half
  BY <1>1, WordAssumption
<1> QED BY <1>1, <1>2 DEF Signed

LEMMA UnsignedIdentity ==
  ASSUME NEW n \in Nat, n < Word
  PROVE  Unsigned(n) = n
  BY WordAssumption DEF Unsigned

\* Rows of r bytes or less that start every s bytes end before s * h.
LEMMA RowsFit ==
  ASSUME NEW y \in Nat, NEW h \in Nat, NEW s \in Nat, NEW r \in Nat, y + 1 <= h, r <= s
  PROVE  y * s + r <= s * h /\ (y + 1) * s <= s * h
<1>1. (y + 1) * s <= h * s
  OBVIOUS
<1> QED BY <1>1

LEMMA ModSmall == ASSUME NEW m \in Nat, NEW x \in Nat, x < m PROVE x % m = x
OBVIOUS

\* A negative number is m less in arithmetic modulo m.
LEMMA ModNegative ==
  ASSUME NEW m \in Nat, NEW x \in Nat, 0 < x, x < m
  PROVE  (-x) % m = m - x
<1>1. -x = m * (-1) + (m - x) /\ m - x \in 0..m - 1
  OBVIOUS
<1> QED BY <1>1

LEMMA ModQuotient ==
  ASSUME NEW m \in Nat, 0 < m, NEW q \in Int, NEW r \in Nat, r < m
  PROVE  (m * q + r) % m = r
OBVIOUS

LEMMA TimesMonotone ==
  ASSUME NEW a \in Nat, NEW b \in Nat, NEW c \in Nat, a <= b
  PROVE  a * c <= b * c /\ c * a <= c * b
OBVIOUS

\* What int32_t and uint32_t both hold is the same in both.
LEMMA SignedUnsigned ==
  ASSUME NEW n \in Nat, Signed(n) >= 0
  PROVE  Unsigned(n) = Signed(n)
<1>0. Word \in Nat /\ 0 < Word /\ Half \in Nat /\ Half < Word
  BY WordAssumption DEF Half
<1>1. PICK q \in Int, r \in Nat : r < Word /\ n + Half = Word * q + r /\ r = (n + Half) % Word
  <2>1. n + Half = Word * ((n + Half) \div Word) + ((n + Half) % Word)
    BY <1>0
  <2> QED BY <2>1, <1>0
<1>2. PICK k \in Nat : k = r - Half /\ k < Word
  BY <1>0, <1>1 DEF Signed
<1>3. n = Word * q + k
  BY <1>0, <1>1, <1>2
<1>4. (Word * q + k) % Word = k
  BY ModQuotient, <1>0, <1>2
<1> QED BY <1>0, <1>1, <1>2, <1>3, <1>4 DEF Signed, Unsigned

\* A row of an accepted image is of Stride's bytes for the client and for the
\* pool where mmap takes the pool: where an int has a negative number of bytes, or
\* none, mmap is asked for far too many, or for none.
LEMMA MappedStride ==
  ASSUME NEW im \in Images, im.width > 0, im.height > 0, Mappable(im)
  PROVE  /\ Stride(im) \in Nat /\ 0 < Stride(im) /\ Stride(im) = RowBytes(im.width)
         /\ FrameBytes(im) = Stride(im) * im.height
         /\ PoolBytes(im) = FrameBytes(im) * STAGING
<1> DEFINE w == im.width
           h == im.height
           s == Stride(im)
           w2 == Word * Word
<1>1. Half \in Nat /\ Word \in Nat /\ Word > 8 /\ Half * 2 = Word /\ Half > 4
  BY WordAssumption DEF Half
<1>2. w \in 1..Half - 1 /\ h \in 1..Half - 1 /\ w \in Nat /\ h \in Nat
  BY <1>1, ImagesAssumption
<1>3. s \in -Half..Half - 1
  BY <1>1, <1>2 DEF Stride, Signed
<1>4. w2 \in Nat /\ Half * Half \in Nat /\ STAGING \in Nat /\ MaxMap \in Nat /\ STAGING > 0
  BY <1>1, StagingAssumption, MapAssumption
<1>5. STAGING * (Half * Half) \in Nat /\ MaxMap + STAGING * (Half * Half) < w2
  BY <1>4, MapAssumption
<1> HIDE DEF w, h, s, w2
\* the bytes of a frame, and of a pool, of h rows of n bytes each
<1>6. ASSUME NEW n \in Nat, n <= Half
      PROVE  n * h \in Nat /\ n * h * STAGING \in Nat /\ n * h * STAGING <= STAGING * (Half * Half)
             /\ n * h <= n * h * STAGING
  <2>1. n * h \in Nat /\ n * h <= Half * Half
    <3>1. n * h <= Half * h /\ Half * h <= Half * Half
      BY <1>1, <1>2, <1>6, TimesMonotone
    <3> QED BY <3>1, <1>1, <1>2, <1>4
  <2>2. n * h * STAGING <= (Half * Half) * STAGING /\ (n * h) * 1 <= (n * h) * STAGING
    BY <2>1, <1>4, TimesMonotone
  <2> QED BY <2>1, <2>2, <1>4
<1>7. FrameBytes(im) = (s * h) % w2 /\ PoolBytes(im) = (FrameBytes(im) * STAGING) % w2
  BY DEF FrameBytes, PoolBytes, s, h, w2
<1>8. PoolBytes(im) > 0 /\ PoolBytes(im) <= MaxMap
  BY <1>4 DEF Mappable
<1>9. s # 0
  <2>1. SUFFICES ASSUME s = 0 PROVE FALSE
    OBVIOUS
  <2>2. s * h = 0
    BY <2>1, <1>2
  <2>3. 0 % w2 = 0
    BY <1>4, <1>5, ModSmall
  <2>4. FrameBytes(im) * STAGING = 0
    BY <2>2, <2>3, <1>7, <1>4
  <2> QED BY <2>4, <2>3, <1>7, <1>8
<1>10. ~(s < 0)
  <2>1. SUFFICES ASSUME s < 0 PROVE FALSE
    OBVIOUS
  <2>2. PICK n \in Nat : n = -s /\ n > 0 /\ n <= Half
    BY <2>1, <1>1, <1>3
  <2>3. PICK x \in Nat : x = n * h /\ s * h = -x /\ 0 < x
    <3>1. n * h \in Nat /\ 0 < n * h /\ (-n) * h = -(n * h)
      BY <2>2, <1>2
    <3> QED BY <3>1, <2>2, <1>3
  <2>4. PICK y \in Nat : y = x * STAGING /\ y <= STAGING * (Half * Half) /\ x <= y /\ y < w2
    BY <1>6, <2>2, <2>3, <1>4, <1>5
  <2>5. FrameBytes(im) = w2 - x
    <3>1. x < w2
      BY <2>4, <1>4
    <3>2. (-x) % w2 = w2 - x
      BY <3>1, <2>3, <1>4, ModNegative
    <3> QED BY <3>2, <1>7, <2>3
  <2>6. FrameBytes(im) * STAGING = w2 * (STAGING - 1) + (w2 - y)
    BY <2>5, <2>4, <1>4
  <2>7. w2 - y \in Nat /\ w2 - y < w2 /\ 0 < w2 /\ STAGING - 1 \in Int
    BY <2>3, <2>4, <1>4
  <2>8. PICK z \in Nat : z = w2 - y /\ z < w2
    BY <2>7
  <2>9. (w2 * (STAGING - 1) + z) % w2 = z
    BY <2>7, <2>8, <1>4, ModQuotient
  <2>10. PoolBytes(im) = z
    BY <2>6, <2>8, <2>9, <1>7
  <2> QED BY <2>10, <2>8, <2>4, <1>8, <1>5, <1>4
<1>11. s \in Nat /\ 0 < s /\ s <= Half
  BY <1>9, <1>10, <1>3, <1>1
<1>12. s * h \in Nat /\ s * h * STAGING \in Nat /\ s * h * STAGING < w2 /\ s * h < w2
  BY <1>6, <1>11, <1>5, <1>4
<1>13. FrameBytes(im) = s * h
  BY <1>7, <1>12, <1>4, ModSmall
<1>14. PoolBytes(im) = FrameBytes(im) * STAGING
  BY <1>7, <1>12, <1>13, <1>4, ModSmall
<1>15. s = RowBytes(w)
  <2>1. Unsigned(w) = w
    BY <1>1, <1>2, UnsignedIdentity
  <2>2. 4 * w \in Nat /\ Signed(4 * w) >= 0
    BY <1>2, <1>11 DEF Stride, s, w
  <2>3. Unsigned(4 * w) = Signed(4 * w)
    BY <2>2, SignedUnsigned
  <2> QED BY <2>1, <2>3 DEF RowBytes, Stride, s, w
<1> QED BY <1>11, <1>13, <1>14, <1>15 DEF s, h, w

\* The copy of an accepted image into slots cut for its size.
LEMMA AcceptedCopyFits ==
  ASSUME NEW pl \in Planes, NEW im \in Images, NEW slots \in Images,
         im.width > 0, im.height > 0, pl.stride >= RowBytes(im.width),
         SizeOf(im) = SizeOf(slots), Mappable(slots)
  PROVE  CopyFits(pl, im, slots)
<1> DEFINE h == im.height
           s == Stride(im)
<1>1. /\ slots.width = im.width /\ slots.height = im.height
      /\ Stride(slots) = s /\ FrameBytes(slots) = FrameBytes(im) /\ PoolBytes(slots) = PoolBytes(im)
  <2>1. slots.width = im.width /\ slots.height = im.height
    BY DEF SizeOf
  <2>2. Stride(slots) = Stride(im)
    BY <2>1 DEF Stride
  <2>3. FrameBytes(slots) = FrameBytes(im)
    BY <2>1, <2>2 DEF FrameBytes
  <2> QED BY <2>1, <2>2, <2>3 DEF PoolBytes
<1>2. Mappable(im)
  BY <1>1 DEF Mappable
<1>3. /\ s \in Nat /\ s = RowBytes(im.width) /\ FrameBytes(im) = s * h
      /\ PoolBytes(im) = FrameBytes(im) * STAGING
  BY <1>2, MappedStride
<1>4. h \in Nat /\ pl.stride \in Nat /\ pl.offset \in Nat /\ STAGING \in Nat
  BY ImagesAssumption, PlanesAssumption, WordAssumption, StagingAssumption DEF Half
<1> HIDE DEF h, s
<1>5. ASSUME NEW y \in 0..h - 1
      PROVE  /\ RowStart(pl, y) + s <= MapLength(pl, im)
             /\ (y + 1) * s <= s * h
  <2>1. y \in Nat /\ y + 1 <= h
    BY <1>4
  <2>2. y * pl.stride + s <= pl.stride * h
    BY <2>1, <1>3, <1>4, RowsFit
  <2>3. (y + 1) * s <= s * h
    BY <2>1, <1>3, <1>4, RowsFit
  <2>4. y * pl.stride \in Nat /\ pl.stride * h \in Nat
    BY <2>1, <1>4
  <2> QED BY <2>2, <2>3, <2>4, <1>3, <1>4 DEF RowStart, MapLength, h
<1>6. ASSUME NEW i \in 1..STAGING
      PROVE  i * FrameBytes(im) <= PoolBytes(im)
  <2>1. FrameBytes(im) \in Nat
    BY <1>3, <1>4
  <2>2. i * FrameBytes(im) <= STAGING * FrameBytes(im)
    BY <2>1, <1>4, TimesMonotone
  <2> QED BY <2>1, <2>2, <1>3, <1>4
<1>7. FrameBytes(slots) = s * h
  BY <1>1, <1>3
<1> QED BY <1>1, <1>3, <1>5, <1>6, <1>7 DEF CopyFits, h, s

\* An image whose pool 32 bits hold: no conversion changes a number.
LEMMA RepresentableExact ==
  ASSUME NEW im \in Images, im.width > 0, im.height > 0, Representable(im)
  PROVE  /\ FrameBytes(im) \in Nat /\ PoolBytes(im) = FrameBytes(im) * STAGING
         /\ PoolBytes(im) < Half /\ PoolBytes(im) \in Nat
         /\ Sizable(im)
<1> DEFINE w == im.width
           h == im.height
           r == 4 * w
           f == r * h
<1>1. w \in Nat /\ h \in Nat /\ STAGING \in Nat /\ STAGING > 0
  BY ImagesAssumption, StagingAssumption, WordAssumption DEF Half
<1>2. Half \in Nat /\ Word \in Nat /\ Half < Word /\ 1 <= Word /\ 1 <= Half
  BY WordAssumption DEF Half
<1>3. r \in Nat /\ r < Half /\ f \in Nat /\ f * STAGING \in Nat /\ f * STAGING < Half
  BY <1>1 DEF Representable
<1> HIDE DEF r, f
<1>4. f <= f * STAGING
  <2>1. f * 1 <= f * STAGING
    BY <1>1, <1>3, TimesMonotone
  <2> QED BY <2>1, <1>3
<1>5. Half <= Half * Word /\ Half <= Word * Word /\ Word * Word \in Nat /\ Half * Word \in Nat
  <2>1. 1 * Half <= Word * Half /\ 1 * Word <= Word * Word
    BY <1>2, TimesMonotone
  <2> QED BY <2>1, <1>2
<1>6. Stride(im) = r
  BY <1>3, SignedIdentity DEF Stride, r
<1>7. FrameBytes(im) = f
  <2>1. f < Word * Word
    BY <1>3, <1>4, <1>5, <1>2
  <2>2. f % (Word * Word) = f
    BY <2>1, <1>3, <1>5, ModSmall
  <2> QED BY <2>2, <1>6 DEF FrameBytes, f, r
<1>8. PoolBytes(im) = f * STAGING
  <2>1. f * STAGING < Word * Word
    BY <1>3, <1>5, <1>2
  <2>2. (f * STAGING) % (Word * Word) = f * STAGING
    BY <2>1, <1>3, <1>5, ModSmall
  <2> QED BY <2>2, <1>7 DEF PoolBytes
<1>9. Sizable(im)
  BY <1>8, <1>3, <1>5, <1>2 DEF Sizable
<1> QED BY <1>3, <1>7, <1>8, <1>9

\* The parent is told of slots one after the other in a pool that holds them.
LEMMA RepresentableTold ==
  ASSUME NEW im \in Images, im.width > 0, im.height > 0, Representable(im),
         NEW i \in 1..STAGING
  PROVE  /\ SlotStart(i, im) = (i - 1) * FrameBytes(im)
         /\ SlotStart(i, im) + FrameBytes(im) <= PoolSize(im)
<1> DEFINE f == FrameBytes(im)
<1>1. f \in Nat /\ PoolBytes(im) = f * STAGING /\ f * STAGING < Half /\ f * STAGING \in Nat
  BY RepresentableExact
<1>2. i - 1 \in Nat /\ STAGING \in Nat /\ (i - 1) + 1 <= STAGING /\ Half \in Nat
  BY StagingAssumption, WordAssumption DEF Half
<1> HIDE DEF f
<1>3. (i - 1) * f + f <= f * STAGING
  BY <1>1, <1>2, RowsFit
<1>4. (i - 1) * f \in Nat /\ (i - 1) * f < Half
  BY <1>1, <1>2, <1>3
<1>5. SlotStart(i, im) = (i - 1) * f
  <2>1. Signed((i - 1) * f) = (i - 1) * f
    BY <1>4, SignedIdentity
  <2> QED BY <2>1 DEF SlotStart, f
<1>6. PoolSize(im) = f * STAGING
  BY <1>1, SignedIdentity DEF PoolSize
<1> QED BY <1>3, <1>5, <1>6 DEF f

-----------------------------------------------------------------------------
(* The inductive invariant: the requests of params                         *)

LEMMA InvInit == Init => IInv
<1> SUFFICES ASSUME Init PROVE IInv
  OBVIOUS
<1> USE DEF Init
<1>1. TypeOK
  <2>1. size \in Int \X Int /\ open \subseteq Fds /\ broken \subseteq Rules
    OBVIOUS
  <2>2. pending \in [Surfaces -> Params \cup {None}] /\ fd \in [Params -> Fds \cup {None}]
    OBVIOUS
  <2>3. /\ plane \in [Params -> Planes \cup {None}] /\ image \in [Params -> Images \cup {None}]
        /\ params \in [Params -> {"unmade", "open", "spent", "destroyed"}]
        /\ buffer \in [Params -> {"none", "live", "zombie", "lost", "freed"}]
    OBVIOUS
  <2>4. \A p \in Params : buffer[p] # "none" => plane[p] \in Planes /\ image[p] \in Images
    OBVIOUS
  <2> QED BY <2>1, <2>2, <2>3, <2>4 DEF TypeOK
<1>2. PlanesPaired /\ Accepted
  BY DEF PlanesPaired, Accepted
<1>3. Waiting /\ PoolCut
  BY DEF Waiting, PoolCut
<1>4. Leases
  BY DEF Leases, LeasedOnce
<1>5. FdsHeld /\ FdsOwned
  BY DEF FdsHeld, FdsOwned, Reachable
<1>6. FeedbackHonest
  BY ErrorAssumption DEF FeedbackHonest
<1> QED BY <1>1, <1>2, <1>3, <1>4, <1>5, <1>6 DEF IInv

\* What no lease, no pool and no buffer has changed in.
LEMMA KeptInv ==
  ASSUME IInv, UNCHANGED <<buffer, leaseVars, poolVars>>, broken \subseteq broken'
  PROVE  (Waiting /\ Leases /\ PoolCut)'
<1> USE DEF IInv, leaseVars, poolVars
<1>1. Waiting'
  BY DEF Waiting
<1>2. Leases'
  BY DEF Leases, LeasedOnce
<1>3. PoolCut'
  BY DEF PoolCut
<1> QED BY <1>1, <1>2, <1>3

LEMMA CreateParamsInv ==
  ASSUME IInv, NEW p \in Params, CreateParams(p)
  PROVE  IInv'
<1> USE DEF IInv, CreateParams, leaseVars, poolVars, endVars
<1>1. (TypeOK /\ PlanesPaired /\ Accepted /\ FeedbackHonest)'
  BY DEF TypeOK, PlanesPaired, Accepted, FeedbackHonest
<1>2. (Waiting /\ Leases /\ PoolCut)'
  BY KeptInv
<1>3. fd[p] = None /\ \A q \in Params \ {p} : Reachable(q)' = Reachable(q)
  BY DEF PlanesPaired, Reachable, TypeOK
<1>4. Reachable(p) => Reachable(p)'
  BY DEF Reachable, TypeOK
<1>5. FdsHeld'
  BY <1>3 DEF FdsHeld
<1>6. FdsOwned'
  BY <1>3, <1>4 DEF FdsOwned, Broke
<1> QED BY <1>1, <1>2, <1>5, <1>6

LEMMA AddPlaneInv ==
  ASSUME IInv, NEW p \in Params, NEW f \in Fds, NEW pl \in Planes, AddPlane(p, f, pl)
  PROVE  IInv'
<1> USE NoneAssumption DEF IInv, AddPlane, leaseVars, poolVars, endVars
<1>1. buffer[p] = "none" /\ fd[p] = None
  BY DEF PlanesPaired
<1>2. (TypeOK /\ PlanesPaired)'
  BY <1>1 DEF TypeOK, PlanesPaired
<1>3. (Accepted /\ FeedbackHonest)'
  BY <1>1 DEF Accepted, FeedbackHonest, TypeOK
<1>4. (Waiting /\ Leases /\ PoolCut)'
  BY KeptInv
<1>5. \A q \in Params : Reachable(q)' = Reachable(q)
  BY DEF Reachable
<1>6. \A q \in Params : fd'[q] = IF q = p THEN f ELSE fd[q]
  BY DEF TypeOK
<1>7. FdsHeld'
  BY <1>5, <1>6 DEF FdsHeld, TypeOK
<1>8. FdsOwned'
  <2>1. Reachable(p)
    BY DEF Reachable
  <2>2. CASE open \subseteq {pool} \cup {fd[q] : q \in {r \in Params : Reachable(r)}}
    <3>1. SUFFICES ASSUME NEW g \in open', g # pool
                   PROVE  \E q \in Params : Reachable(q)' /\ g = fd'[q]
      BY DEF FdsOwned
    <3>2. CASE g = f
      BY <3>2, <2>1, <1>5, <1>6
    <3>3. CASE g # f
      <4>1. PICK q \in Params : Reachable(q) /\ g = fd[q]
        BY <3>1, <3>3, <2>2
      <4>2. g # None
        BY <3>3, <3>1 DEF TypeOK
      <4> QED BY <4>1, <4>2, <1>1, <1>5, <1>6
    <3> QED BY <3>2, <3>3
  <2>3. CASE Broke({"uses_params", "stays", "pends_once", "ftruncate", "fits_parent"})
    BY <2>3 DEF FdsOwned, Broke
  <2> QED BY <2>2, <2>3 DEF FdsOwned
<1> QED BY <1>2, <1>3, <1>4, <1>7, <1>8

\* An error ends the model: nothing in use has changed.
LEMMA ErrorInv ==
  ASSUME IInv, UNCHANGED <<madeVars, buffer, leaseVars, poolVars, open>>,
         fault' \in BOOLEAN, broken \subseteq broken', broken' \subseteq Rules,
         error' = "invalid_format" => "listed_formats" \in broken'
  PROVE  IInv'
<1> USE DEF IInv, madeVars
<1>1. (TypeOK /\ PlanesPaired)'
  BY DEF TypeOK, PlanesPaired, leaseVars, poolVars
<1>2. (Accepted /\ FeedbackHonest)'
  BY DEF Accepted, FeedbackHonest
<1>3. (Waiting /\ Leases /\ PoolCut)'
  BY KeptInv
<1>4. \A q \in Params : Reachable(q)' = Reachable(q)
  BY DEF Reachable, leaseVars
<1>5. FdsHeld'
  BY <1>4 DEF FdsHeld, poolVars
<1>6. FdsOwned'
  BY <1>4 DEF FdsOwned, Broke, poolVars
<1> QED BY <1>1, <1>2, <1>3, <1>5, <1>6

LEMMA AddRefusedInv ==
  ASSUME IInv, NEW p \in Params, NEW f \in Fds, AddRefused(p, f)
  PROVE  IInv'
<1>1. open' = open
  BY DEF IInv, AddRefused, ClosesIt, TypeOK
<1>2. broken \subseteq broken' /\ broken' \subseteq Rules /\ fault' \in BOOLEAN
  BY RulesAssumption DEF IInv, AddRefused, Breaks, TypeOK
<1>3. error' # "invalid_format" /\ UNCHANGED <<madeVars, buffer, leaseVars, poolVars>>
  BY DEF AddRefused
<1> QED BY <1>1, <1>2, <1>3, ErrorInv

LEMMA CreateRejectedInv ==
  ASSUME IInv, NEW p \in Params, CreateRejected(p)
  PROVE  IInv'
<1>1. broken \subseteq broken' /\ broken' \subseteq Rules /\ fault' \in BOOLEAN
  BY RulesAssumption DEF IInv, CreateRejected, Breaks, TypeOK
<1>2. error' # "invalid_format" /\ UNCHANGED <<madeVars, buffer, leaseVars, poolVars, open>>
  BY DEF CreateRejected
<1> QED BY <1>1, <1>2, ErrorInv

LEMMA CreateImmedInv ==
  ASSUME IInv, NEW p \in Params, NEW im \in Images, CreateImmed(p, im)
  PROVE  IInv'
<1> USE NoneAssumption DEF IInv, CreateImmed, leaseVars, poolVars, endVars
<1>1. plane[p] \in Planes /\ ~Unlisted(plane[p], im)
  BY AcceptedSound DEF TypeOK
<1>2. broken \subseteq broken' /\ broken' \subseteq Rules
  BY RulesAssumption DEF Breaks, TypeOK
<1>3. buffer[p] = "none" /\ (Representable(im) \/ "fits_parent" \in broken')
  BY DEF PlanesPaired, Breaks, When
<1>4. (TypeOK /\ PlanesPaired)'
  BY <1>1, <1>2 DEF TypeOK, PlanesPaired
<1>5. \A q \in Params : /\ image'[q] = IF q = p THEN im ELSE image[q]
                        /\ buffer'[q] = IF q = p THEN "live" ELSE buffer[q]
                        /\ plane'[q] = plane[q]
  BY DEF TypeOK
<1>6. Accepted'
  BY <1>2, <1>3, <1>5 DEF Accepted
<1>7. Waiting'
  BY <1>3, <1>5 DEF Waiting, TypeOK
<1>8. (Leases /\ PoolCut)'
  BY <1>2 DEF Leases, LeasedOnce, PoolCut
<1>9. FeedbackHonest'
  BY <1>1, <1>2, <1>5 DEF FeedbackHonest
<1>10. \A q \in Params : Reachable(q)' = Reachable(q)
  BY DEF Reachable, TypeOK
<1>11. FdsHeld'
  BY <1>10 DEF FdsHeld
<1>12. FdsOwned'
  BY <1>2, <1>10 DEF FdsOwned, Broke
<1> QED BY <1>4, <1>6, <1>7, <1>8, <1>9, <1>11, <1>12

LEMMA CreateRefusedInv ==
  ASSUME IInv, NEW p \in Params, NEW im \in Images, CreateRefused(p, im)
  PROVE  IInv'
<1>1. broken \subseteq broken' /\ broken' \subseteq Rules /\ fault' \in BOOLEAN
  BY RulesAssumption DEF IInv, CreateRefused, Breaks, TypeOK
<1>2. ASSUME error' = "invalid_format" PROVE "listed_formats" \in broken'
  <2>1. ParamsError(plane[p], im) = "invalid_format"
    BY <1>2 DEF CreateRefused
  <2>2. plane[p] # None
    BY <2>1 DEF ParamsError
  <2>3. plane[p] \in Planes
    BY <2>2 DEF IInv, TypeOK
  <2>4. im.flags # 0 \/ plane[p].modifier # "LINEAR" \/ ~Presentable(im.format)
    BY <2>1, <2>2, ErrorAssumption DEF ParamsError
  <2>5. Unlisted(plane[p], im)
    BY <2>3, <2>4, TranchePresentable
  <2> QED BY <2>2, <2>5 DEF CreateRefused, Breaks
<1>3. UNCHANGED <<madeVars, buffer, leaseVars, poolVars, open>>
  BY DEF CreateRefused
<1> QED BY <1>1, <1>2, <1>3, ErrorInv

LEMMA SpentFaultsInv ==
  ASSUME IInv, NEW p \in Params, SpentFaults(p)
  PROVE  IInv'
<1>1. broken \subseteq broken' /\ broken' \subseteq Rules /\ fault' \in BOOLEAN
  BY RulesAssumption DEF IInv, SpentFaults, Breaks, TypeOK
<1>2. error' = error /\ UNCHANGED <<madeVars, buffer, leaseVars, poolVars, open>>
  BY DEF SpentFaults
<1> QED BY <1>1, <1>2, ErrorInv DEF IInv, FeedbackHonest

LEMMA ParamsDestroyInv ==
  ASSUME IInv, NEW p \in Params, ParamsDestroy(p)
  PROVE  IInv'
<1> USE DEF IInv, ParamsDestroy, leaseVars, poolVars, endVars
<1>1. broken \subseteq broken' /\ broken' \subseteq Rules
  BY RulesAssumption DEF Breaks, TypeOK
<1>2. (TypeOK /\ PlanesPaired)'
  BY <1>1 DEF TypeOK, PlanesPaired
<1>3. (Accepted /\ FeedbackHonest)'
  BY <1>1 DEF Accepted, FeedbackHonest
<1>4. (Waiting /\ Leases /\ PoolCut)'
  BY <1>1, KeptInv
<1>5. \A q \in Params : /\ q # p => Reachable(q)' = Reachable(q)
                        /\ Reachable(q)' => Reachable(q)
  BY DEF Reachable, TypeOK
<1>6. FdsHeld'
  BY <1>5 DEF FdsHeld
<1>7. FdsOwned'
  <2>1. CASE params[p] = "open" /\ plane[p] # None
    BY <2>1 DEF FdsOwned, Broke, Breaks, When
  <2>2. CASE params[p] = "open" /\ plane[p] = None
    <3>1. fd[p] = None
      BY <2>2 DEF PlanesPaired
    <3>2. None \notin open
      BY NoneAssumption DEF TypeOK
    <3>3. open \subseteq {pool} \cup {fd[q] : q \in {r \in Params : Reachable(r)}}
          => open \subseteq {pool} \cup {fd[q] : q \in {r \in Params : Reachable(r)'}}
      BY <3>1, <3>2, <1>5
    <3> QED BY <3>3, <1>1 DEF FdsOwned, Broke
  <2>3. CASE params[p] = "spent"
    <3>1. \A q \in Params : Reachable(q)' = Reachable(q)
      BY <2>3 DEF Reachable, TypeOK
    <3> QED BY <3>1, <1>1 DEF FdsOwned, Broke
  <2> QED BY <2>1, <2>2, <2>3
<1> QED BY <1>2, <1>3, <1>4, <1>6, <1>7

-----------------------------------------------------------------------------
(* The inductive invariant: buffers                                        *)

LEMMA BufferDestroyInv ==
  ASSUME IInv, NEW p \in Params, BufferDestroy(p)
  PROVE  IInv'
<1> USE DEF IInv, BufferDestroy, leaseVars, poolVars, endVars, madeVars
<1>1. \A q \in Params : buffer'[q] = IF q = p THEN "freed" ELSE buffer[q]
  BY DEF TypeOK
<1>2. (TypeOK /\ PlanesPaired)'
  BY DEF TypeOK, PlanesPaired, CloseFd
<1>3. (Accepted /\ FeedbackHonest)'
  BY <1>1 DEF Accepted, FeedbackHonest
<1>4. Waiting'
  <2>1. queued # p
    BY NoneAssumption DEF Waiting
  <2> QED BY <1>1, <2>1 DEF Waiting, Pending, TypeOK
<1>5. (Leases /\ PoolCut)'
  BY DEF Leases, LeasedOnce, PoolCut
<1>6. queued # p /\ params[p] # "open" /\ fd[p] # None
  BY NoneAssumption DEF Waiting, PlanesPaired, TypeOK
<1>7. \A q \in Params : Reachable(q)' = (Reachable(q) /\ q # p)
  BY <1>1, <1>6 DEF Reachable
<1>8. Reachable(p)
  BY DEF Reachable
<1>9. FdsHeld'
  BY <1>6, <1>7, <1>8 DEF FdsHeld, CloseFd
<1>10. FdsOwned'
  BY <1>7 DEF FdsOwned, Broke, CloseFd
<1> QED BY <1>2, <1>3, <1>4, <1>5, <1>9, <1>10

LEMMA BufferDestroyBusyInv ==
  ASSUME IInv, NEW p \in Params, BufferDestroyBusy(p)
  PROVE  IInv'
<1> USE DEF IInv, BufferDestroyBusy, leaseVars, poolVars, endVars, madeVars
<1>1. \A q \in Params : buffer'[q] = IF q = p THEN "zombie" ELSE buffer[q]
  BY DEF TypeOK
<1>2. (TypeOK /\ PlanesPaired)'
  BY DEF TypeOK, PlanesPaired
<1>3. (Accepted /\ FeedbackHonest)'
  BY <1>1 DEF Accepted, FeedbackHonest
<1>4. Waiting'
  BY <1>1 DEF Waiting, Pending, TypeOK
<1>5. (Leases /\ PoolCut)'
  BY DEF Leases, LeasedOnce, PoolCut
<1>6. \A q \in Params : /\ Reachable(q)' => Reachable(q)
                        /\ q # p => Reachable(q)' = Reachable(q)
  BY <1>1 DEF Reachable
<1>7. FdsHeld'
  BY <1>6 DEF FdsHeld
<1>8. FdsOwned'
  <2>1. CASE Leases /\ "pends_once" \in broken
    BY <2>1 DEF FdsOwned, Broke
  <2>2. CASE LeasedOnce
    <3>1. queued = p
      BY <2>2 DEF LeasedOnce
    <3>2. \A q \in Params : Reachable(q)' = Reachable(q)
      BY <3>1, <1>6 DEF Reachable
    <3> QED BY <3>2 DEF FdsOwned, Broke
  <2> QED BY <2>1, <2>2 DEF Leases
<1> QED BY <1>2, <1>3, <1>4, <1>5, <1>7, <1>8

LEMMA ClientLeavesInv ==
  ASSUME IInv, ClientLeaves
  PROVE  IInv'
<1> USE DEF IInv, ClientLeaves, poolVars, endVars
<1>1. broken \subseteq broken' /\ broken' \subseteq Rules /\ "stays" \in broken'
  BY RulesAssumption DEF Breaks, TypeOK
<1>2. \A q \in Params : /\ params'[q] = IF params[q] = "unmade" THEN "unmade" ELSE "destroyed"
                        /\ buffer'[q] = IF buffer[q] = "live" THEN "lost" ELSE buffer[q]
  BY DEF TypeOK
<1>3. TypeOK'
  BY <1>1 DEF TypeOK
<1>4. PlanesPaired'
  BY <1>2 DEF PlanesPaired, TypeOK
<1>5. (Accepted /\ FeedbackHonest)'
  BY <1>1, <1>2 DEF Accepted, FeedbackHonest
<1>6. \A s \in Surfaces : pending'[s] = None
  OBVIOUS
<1>7. Waiting'
  BY <1>2, <1>6 DEF Waiting, TypeOK
<1>8. Leases'
  BY <1>1, <1>6 DEF Leases, LeasedOnce
<1>9. PoolCut'
  BY <1>1 DEF PoolCut
<1>10. \A q \in Params : Reachable(q)' => Reachable(q)
  BY <1>2 DEF Reachable
<1>11. FdsHeld'
  BY <1>10 DEF FdsHeld
<1>12. FdsOwned'
  BY <1>1 DEF FdsOwned, Broke
<1> QED BY <1>3, <1>4, <1>5, <1>7, <1>8, <1>9, <1>11, <1>12

LEMMA AttachInv ==
  ASSUME IInv, NEW s \in Surfaces, NEW p \in Params, Attach(s, p)
  PROVE  IInv'
<1> USE NoneAssumption DEF IInv, Attach, poolVars, endVars, madeVars
<1>1. broken \subseteq broken' /\ broken' \subseteq Rules
  BY RulesAssumption DEF Breaks, TypeOK
<1>2. \A t \in Surfaces : pending'[t] = IF t = s THEN p ELSE pending[t]
  BY DEF TypeOK
<1>3. (TypeOK /\ PlanesPaired)'
  BY <1>1 DEF TypeOK, PlanesPaired
<1>4. (Accepted /\ FeedbackHonest)'
  BY <1>1 DEF Accepted, FeedbackHonest
<1>5. Waiting'
  BY <1>2 DEF Waiting
<1>6. Leases'
  <2>1. CASE "pends_once" \in broken
    BY <2>1, <1>1 DEF Leases
  <2>2. CASE \E other \in Surfaces \ {s} : pending[other] = p
    BY <2>2 DEF Leases, Breaks, When
  <2>3. CASE LeasedOnce /\ ~\E other \in Surfaces \ {s} : pending[other] = p
    <3>1. queued # p
      BY DEF Waiting
    <3>2. LeasedOnce'
      BY <2>3, <3>1, <1>2 DEF LeasedOnce
    <3> QED BY <3>2 DEF Leases
  <2> QED BY <2>1, <2>2, <2>3 DEF Leases
<1>7. PoolCut'
  BY <1>1 DEF PoolCut
<1>8. \A q \in Params : Reachable(q)' = Reachable(q)
  BY DEF Reachable
<1>9. (FdsHeld /\ FdsOwned)'
  BY <1>1, <1>8 DEF FdsHeld, FdsOwned, Broke
<1> QED BY <1>3, <1>4, <1>5, <1>6, <1>7, <1>9

LEMMA TopConfigureInv ==
  ASSUME IInv, NEW im \in Images, TopConfigure(im)
  PROVE  IInv'
<1> USE DEF IInv, TopConfigure, leaseVars, endVars, madeVars
<1>1. broken \subseteq broken' /\ broken' \subseteq Rules
  BY RulesAssumption DEF Breaks, TypeOK
<1>2. size' \in Int \X Int
  BY ImagesAssumption, WordAssumption DEF SizeOf, Half
<1>3. (TypeOK /\ PlanesPaired)'
  BY <1>1, <1>2 DEF TypeOK, PlanesPaired
<1>4. (Accepted /\ FeedbackHonest)'
  BY <1>1 DEF Accepted, FeedbackHonest
<1>5. (Waiting /\ Leases)'
  BY <1>1 DEF Waiting, Leases, LeasedOnce
<1>6. PoolCut'
  <2>1. size' = size \/ "keeps_size" \in broken' \/ pool = None
    BY DEF Breaks, When
  <2> QED BY <2>1, <1>1 DEF PoolCut, TypeOK
<1>7. \A q \in Params : Reachable(q)' = Reachable(q)
  BY DEF Reachable
<1>8. (FdsHeld /\ FdsOwned)'
  BY <1>1, <1>7 DEF FdsHeld, FdsOwned, Broke
<1> QED BY <1>3, <1>4, <1>5, <1>6, <1>8

-----------------------------------------------------------------------------
(* The inductive invariant: the pool                                       *)

\* The descriptors that are open once the pool is seen to, before any buffer is
\* freed, are those in use, and those in use are open.
HeldBy(opened) ==
  /\ \A q \in Params : Reachable(q) /\ fd[q] # None => fd[q] \in opened \ {pool'}
  /\ pool' # None => pool' \in opened
OwnedBy(opened) ==
  opened \subseteq {pool'} \cup {fd[q] : q \in {r \in Params : Reachable(r)}}
  \/ Broke({"uses_params", "stays", "pends_once", "ftruncate", "fits_parent"})'
PoolTyped ==
  /\ pool' \in Fds \cup {None} /\ cut' \in Images \cup {None} /\ size' \in Int \X Int
  /\ pool' = None <=> cut' = None

\* What surface_commit and pump_queue find of the buffer they stage.
LEMMA AcceptedImage ==
  ASSUME IInv, NEW p \in Params, buffer[p] # "none"
  PROVE  /\ plane[p] \in Planes /\ image[p] \in Images
         /\ image[p].width > 0 /\ image[p].height > 0
         /\ plane[p].stride >= RowBytes(image[p].width)
         /\ Representable(image[p]) \/ "fits_parent" \in broken
<1>1. plane[p] \in Planes /\ image[p] \in Images
  BY DEF IInv, TypeOK
<1>2. ParamsError(plane[p], image[p]) = None
  BY DEF IInv, Accepted
<1>3. Representable(image[p]) \/ "fits_parent" \in broken
  BY DEF IInv, Accepted
<1> QED BY <1>1, <1>2, <1>3, AcceptedSound

LEMMA PoolKept ==
  ASSUME IInv, UNCHANGED poolVars, broken \subseteq broken'
  PROVE  HeldBy(open) /\ OwnedBy(open) /\ PoolTyped /\ PoolCut'
<1> USE DEF IInv, poolVars
<1>1. HeldBy(open)
  BY DEF HeldBy, FdsHeld
<1>2. OwnedBy(open)
  BY DEF OwnedBy, FdsOwned, Broke
<1>3. PoolTyped /\ PoolCut'
  BY DEF PoolTyped, TypeOK, PoolCut
<1> QED BY <1>1, <1>2, <1>3

LEMMA PoolNew ==
  ASSUME IInv, NEW p \in Params, buffer[p] # "none", broken' = broken,
         cut' = image[p], size' = SizeOf(image[p]), Mappable(image[p]),
         NEW f \in Fds \ PoolDestroyed, pool' = f
  PROVE  /\ HeldBy(PoolDestroyed \cup {f}) /\ OwnedBy(PoolDestroyed \cup {f})
         /\ PoolTyped /\ PoolCut'
<1>1. /\ image[p] \in Images /\ image[p].width > 0 /\ image[p].height > 0
      /\ Representable(image[p]) \/ "fits_parent" \in broken
  BY AcceptedImage
<1>2. HeldBy(PoolDestroyed \cup {f})
  BY DEF IInv, FdsHeld, HeldBy, PoolDestroyed
<1>3. OwnedBy(PoolDestroyed \cup {f})
  BY DEF IInv, FdsOwned, Broke, OwnedBy, PoolDestroyed
<1>4. size' \in Int \X Int
  BY <1>1, ImagesAssumption, WordAssumption DEF SizeOf, Half
<1>5. PoolTyped
  BY <1>1, <1>4, NoneAssumption DEF PoolTyped
<1>6. PoolCut'
  <2>1. size' = SizeOf(cut')
    BY DEF SizeOf
  <2> QED BY <1>1, <2>1 DEF PoolCut, Mappable, PoolBytes, FrameBytes, Stride, Signed, Representable,
       SizeOf
<1> QED BY <1>2, <1>3, <1>5, <1>6

\* Staging fails only without the pool or with one it keeps; a descriptor stays
\* open where ftruncate refuses what 32 bits cannot hold.
LEMMA StageFailsSound ==
  ASSUME IInv, NEW p \in Params, buffer[p] # "none", NEW opened \in SUBSET Fds,
         StageFails(image[p], opened)
  PROVE  /\ HeldBy(opened) /\ OwnedBy(opened) /\ PoolTyped /\ PoolCut'
         /\ broken \subseteq broken' /\ broken' \subseteq Rules
<1>1. broken \subseteq broken' /\ broken' \subseteq Rules
  BY RulesAssumption DEF IInv, TypeOK, StageFails, PoolLost, Breaks
<1>2. CASE opened = open /\ UNCHANGED <<poolVars, broken>>
  BY <1>1, <1>2, PoolKept
<1>3. CASE PoolLost(image[p], opened)
  <2>1. pool' = None /\ cut' = None /\ size' = size
    BY <1>3 DEF PoolLost
  <2>2. PoolTyped /\ PoolCut'
    BY <2>1 DEF PoolTyped, PoolCut, IInv, TypeOK
  <2>3. \A q \in Params : Reachable(q) /\ fd[q] # None => fd[q] \in PoolDestroyed
    BY DEF IInv, FdsHeld, PoolDestroyed
  <2>4. PoolDestroyed \subseteq opened
    BY <1>3 DEF PoolLost
  <2>5. HeldBy(opened)
    BY <2>1, <2>3, <2>4 DEF HeldBy
  <2>6. OwnedBy(opened)
    <3>1. CASE opened = PoolDestroyed
      BY <3>1, <1>1 DEF IInv, FdsOwned, Broke, OwnedBy, PoolDestroyed
    <3>2. CASE Breaks(When(Sizable(image[p]), "ftruncate"))
      <4>1. CASE Sizable(image[p])
        BY <3>2, <4>1 DEF Breaks, When, OwnedBy, Broke
      <4>2. CASE ~Sizable(image[p])
        <5>1. "fits_parent" \in broken
          BY <4>2, AcceptedImage, RepresentableExact
        <5> QED BY <5>1, <1>1 DEF OwnedBy, Broke
      <4> QED BY <4>1, <4>2
    <3> QED BY <1>3, <3>1, <3>2 DEF PoolLost
  <2> QED BY <1>1, <2>2, <2>5, <2>6
<1> QED BY <1>2, <1>3 DEF StageFails

-----------------------------------------------------------------------------
(* The inductive invariant: commits                                        *)

\* What release_client leaves of the buffers.
LEMMA ReleaseBuffers ==
  ASSUME IInv, NEW p \in Params, NEW opened \in SUBSET Fds, NEW held \in SUBSET Params,
         ReleaseClient(p, opened, held)
  PROVE  /\ \A q \in Params : buffer'[q] = IF q = p /\ Frees(p) THEN "freed" ELSE buffer[q]
         /\ buffer' \in [Params -> {"none", "live", "zombie", "lost", "freed"}]
         /\ open' \subseteq Fds /\ busy' \subseteq Params /\ released' \subseteq Params
  BY DEF IInv, TypeOK, ReleaseClient

\* The types and what the buffers were made of, when only leases and the pool
\* change.
LEMMA LeaseMade ==
  ASSUME IInv, UNCHANGED <<madeVars, endVars>>, broken \subseteq broken', broken' \subseteq Rules,
         PoolTyped, open' \subseteq Fds, busy' \subseteq Params, released' \subseteq Params,
         pending' \in [Surfaces -> Params \cup {None}], queued' \in Params \cup {None},
         buffer' \in [Params -> {"none", "live", "zombie", "lost", "freed"}],
         \A q \in Params : buffer'[q] \in {buffer[q], "freed"},
         \A q \in Params : buffer[q] = "none" => buffer'[q] = "none"
  PROVE  (TypeOK /\ PlanesPaired /\ Accepted /\ FeedbackHonest)'
<1> USE DEF IInv, madeVars, endVars
<1>1. TypeOK'
  BY DEF TypeOK, PoolTyped
<1>2. PlanesPaired'
  BY DEF PlanesPaired
<1>3. Accepted'
  BY DEF Accepted
<1>4. FeedbackHonest'
  BY DEF FeedbackHonest
<1> QED BY <1>1, <1>2, <1>3, <1>4

\* A buffer that release_client frees is the one that waits, and no longer does.
LEMMA ReleaseFds ==
  ASSUME IInv, NEW p \in Params, NEW opened \in SUBSET Fds, NEW held \in SUBSET Params,
         ReleaseClient(p, opened, held), HeldBy(opened), OwnedBy(opened),
         UNCHANGED madeVars, broken \subseteq broken',
         buffer[p] \in {"live", "zombie"}, buffer[p] = "zombie" => queued = p /\ queued' # p,
         queued' \in {None, queued} \/ (queued' \in Params /\ buffer[queued'] = "live"),
         queued' = queued \/ queued \in {None, p}
  PROVE  (FdsHeld /\ FdsOwned)'
<1> USE NoneAssumption DEF madeVars
<1>1. \A q \in Params : buffer'[q] = IF q = p /\ Frees(p) THEN "freed" ELSE buffer[q]
  BY ReleaseBuffers
<1>2. params[p] # "open" /\ fd[p] # None
  BY DEF IInv, PlanesPaired, TypeOK
<1>3. Reachable(p)
  BY DEF Reachable
<1>4. \A q \in Params : Reachable(q)' => Reachable(q) /\ ~(q = p /\ Frees(p))
  BY <1>1, <1>2 DEF Reachable, Frees
<1>5. FdsHeld'
  <2>1. \A q, r \in Params : Reachable(q) /\ Reachable(r) /\ fd[q] = fd[r] /\ fd[q] # None => q = r
    BY DEF IInv, FdsHeld
  <2>2. \A q \in Params : Reachable(q) /\ fd[q] # None => fd[q] \in opened \ {pool'}
    BY DEF HeldBy
  <2>3. pool' # None => pool' \in opened
    BY DEF HeldBy
  <2>4. open' = IF Frees(p) THEN opened \ {fd[p]} ELSE opened
    BY DEF ReleaseClient
  <2>5. fd[p] # pool'
    BY <1>2, <1>3, <2>2
  <2>6. \A q \in Params : Reachable(q)' /\ fd[q] # None => fd[q] \in open' \ {pool'}
    BY <1>3, <1>4, <2>1, <2>2, <2>4
  <2>7. pool' # None => pool' \in open'
    BY <2>3, <2>4, <2>5
  <2> QED BY <1>4, <2>1, <2>6, <2>7 DEF FdsHeld
<1>6. FdsOwned'
  <2>1. CASE Broke({"uses_params", "stays", "pends_once", "ftruncate", "fits_parent"})'
    BY <2>1 DEF FdsOwned
  <2>2. CASE /\ opened \subseteq {pool'} \cup {fd[q] : q \in {r \in Params : Reachable(r)}}
             /\ "pends_once" \notin broken'
    <3>1. LeasedOnce
      BY <2>2 DEF IInv, Leases
    <3>2. buffer[p] = "zombie" => Frees(p)
      BY <3>1 DEF LeasedOnce, Frees
    <3>3. \A q \in Params : Reachable(q) /\ ~(q = p /\ Frees(p)) => Reachable(q)'
      <4>1. SUFFICES ASSUME NEW q \in Params, Reachable(q), ~(q = p /\ Frees(p))
                     PROVE  Reachable(q)'
        OBVIOUS
      <4>2. CASE params[q] = "open" \/ buffer[q] = "live"
        BY <4>1, <4>2, <1>1 DEF Reachable
      <4>3. CASE queued = q /\ buffer[q] # "live" /\ queued' # q
        BY <4>1, <4>3, <3>2
      <4>4. CASE queued' = q
        BY <4>4 DEF Reachable
      <4> QED BY <4>1, <4>2, <4>3, <4>4 DEF Reachable
    <3>4. open' = IF Frees(p) THEN opened \ {fd[p]} ELSE opened
      BY DEF ReleaseClient
    <3>5. open' \subseteq {pool'} \cup {fd[q] : q \in {r \in Params : Reachable(r)'}}
      BY <2>2, <3>3, <3>4
    <3> QED BY <3>5 DEF FdsOwned
  <2> QED BY <2>1, <2>2 DEF OwnedBy, Broke
<1> QED BY <1>5, <1>6

\* Commit takes the buffer from its surface.
LEMMA CommitTakes ==
  ASSUME IInv, NEW s \in Surfaces, Commit(s)
  PROVE  /\ pending[s] \in Params /\ buffer[pending[s]] = "live"
         /\ pending' \in [Surfaces -> Params \cup {None}]
         /\ \A t \in Surfaces : pending'[t] = IF t = s THEN None ELSE pending[t]
         /\ UNCHANGED <<madeVars, endVars>>
  BY DEF IInv, TypeOK, Waiting, Commit

\* A buffer that is staged is released, with the descriptors as the pool leaves
\* them.
LEMMA StageSound ==
  ASSUME IInv, NEW p \in Params, buffer[p] # "none", Stage(p), broken' = broken
  PROVE  /\ PoolTyped /\ PoolCut'
         /\ \E opened \in SUBSET Fds :
              ReleaseClient(p, opened, busy) /\ HeldBy(opened) /\ OwnedBy(opened)
<1>1. CASE StageKept(p)
  <2>1. HeldBy(open) /\ OwnedBy(open) /\ PoolTyped /\ PoolCut'
    BY <1>1, PoolKept DEF StageKept
  <2>2. ReleaseClient(p, open, busy) /\ open \in SUBSET Fds
    BY <1>1 DEF StageKept, IInv, TypeOK
  <2> QED BY <2>1, <2>2
<1>2. CASE StageNew(p)
  <2>1. PICK f \in Fds \ PoolDestroyed :
          pool' = f /\ ReleaseClient(p, PoolDestroyed \cup {f}, busy)
    BY <1>2 DEF StageNew
  <2>2. cut' = image[p] /\ size' = SizeOf(image[p]) /\ Mappable(image[p])
    BY <1>2 DEF StageNew
  <2>3. /\ HeldBy(PoolDestroyed \cup {f}) /\ OwnedBy(PoolDestroyed \cup {f})
        /\ PoolTyped /\ PoolCut'
    BY <2>1, <2>2, PoolNew
  <2>4. PoolDestroyed \cup {f} \in SUBSET Fds
    BY DEF PoolDestroyed, IInv, TypeOK
  <2> QED BY <2>1, <2>3, <2>4
<1> QED BY <1>1, <1>2 DEF Stage

LEMMA CommitShownInv ==
  ASSUME IInv, NEW s \in Surfaces, CommitShown(s)
  PROVE  IInv'
<1> DEFINE p == pending[s]
<1>1. /\ p \in Params /\ buffer[p] = "live" /\ pending' \in [Surfaces -> Params \cup {None}]
      /\ \A t \in Surfaces : pending'[t] = IF t = s THEN None ELSE pending[t]
      /\ UNCHANGED <<madeVars, endVars>>
  BY CommitTakes DEF CommitShown
<1>2. /\ Stage(p) /\ broken' = broken
      /\ queued' = IF queued = p /\ queued \notin released THEN None ELSE queued
  BY DEF CommitShown
<1>3. PoolTyped /\ PoolCut'
  BY <1>1, <1>2, StageSound
<1>4. PICK opened \in SUBSET Fds :
        ReleaseClient(p, opened, busy) /\ HeldBy(opened) /\ OwnedBy(opened)
  BY <1>1, <1>2, StageSound
<1> HIDE DEF p
<1>5. /\ buffer' = buffer /\ open' \subseteq Fds /\ busy' \subseteq Params
      /\ released' \subseteq Params
  <2>1. ~Frees(p)
    BY <1>1 DEF Frees
  <2>2. busy \in SUBSET Params
    BY DEF IInv, TypeOK
  <2> QED BY <1>1, <1>4, <2>1, <2>2, ReleaseBuffers DEF ReleaseClient
<1>6. queued' \in Params \cup {None}
  BY <1>2 DEF IInv, TypeOK
<1>7. (TypeOK /\ PlanesPaired /\ Accepted /\ FeedbackHonest)'
  <2>1. broken' \subseteq Rules /\ buffer' \in [Params -> {"none", "live", "zombie", "lost", "freed"}]
    BY <1>2, <1>5 DEF IInv, TypeOK
  <2> QED BY <1>1, <1>2, <1>3, <1>5, <1>6, <2>1, LeaseMade
<1>8. busy' = (IF p \in released THEN busy ELSE busy \ {p}) /\ released' = released \cup {p}
  BY <1>4 DEF ReleaseClient
<1>9. Waiting'
  <2>1. \A t \in Surfaces : pending'[t] # None => buffer'[pending'[t]] = "live"
    BY <1>1, <1>5 DEF IInv, Waiting
  <2>2. queued' # None => queued' \in busy' /\ buffer'[queued'] \in {"live", "zombie", "lost"}
    BY <1>2, <1>5, <1>8 DEF IInv, Waiting
  <2>3. \A q \in Params : buffer'[q] = "zombie" => q \in busy'
    BY <1>1, <1>5, <1>8 DEF IInv, Waiting
  <2> QED BY <2>1, <2>2, <2>3 DEF Waiting
<1>10. Leases'
  <2>1. SUFFICES ASSUME LeasedOnce PROVE LeasedOnce'
    BY <1>2 DEF IInv, Leases
  <2>2. p \notin released /\ p # queued
    BY <2>1, <1>1, NoneAssumption DEF LeasedOnce, p
  <2>3. queued' = queued /\ busy' = busy \ {p}
    BY <2>2, <1>2, <1>8
  <2>4. \A t \in Surfaces : pending'[t] # None => pending'[t] = pending[t] /\ pending[t] # p
    BY <2>1, <1>1, NoneAssumption DEF LeasedOnce, p
  <2> QED BY <2>1, <2>2, <2>3, <2>4, <1>8 DEF LeasedOnce
<1>11. (FdsHeld /\ FdsOwned)'
  <2>1. busy \in SUBSET Params /\ UNCHANGED madeVars
    BY <1>1 DEF IInv, TypeOK
  <2>2. queued' \in {None, queued} /\ (queued' = queued \/ queued \in {None, p})
    BY <1>2
  <2> QED BY <1>1, <1>2, <1>4, <2>1, <2>2, ReleaseFds
<1> QED BY <1>3, <1>7, <1>9, <1>10, <1>11 DEF IInv

LEMMA CommitBareInv ==
  ASSUME IInv, NEW s \in Surfaces, CommitBare(s)
  PROVE  IInv'
<1> DEFINE p == pending[s]
<1>1. /\ p \in Params /\ buffer[p] = "live" /\ pending' \in [Surfaces -> Params \cup {None}]
      /\ \A t \in Surfaces : pending'[t] = IF t = s THEN None ELSE pending[t]
      /\ UNCHANGED <<madeVars, endVars>>
  BY CommitTakes DEF CommitBare
<1>2. UNCHANGED <<queued, poolVars, broken>>
  BY DEF CommitBare
<1>3. HeldBy(open) /\ OwnedBy(open) /\ PoolTyped /\ PoolCut'
  BY <1>2, PoolKept
<1> HIDE DEF p
<1>4. \/ p \in busy /\ UNCHANGED <<busy, released, open>>
      \/ p \notin busy /\ ReleaseClient(p, open, busy)
  BY DEF CommitBare, p
<1>5. /\ buffer' = buffer /\ busy' \subseteq busy /\ busy \ {p} \subseteq busy'
      /\ released \subseteq released' /\ released' \subseteq released \cup {p}
      /\ p \notin busy => busy' = busy
      /\ open' = open
  BY <1>1, <1>4 DEF CommitBare, ReleaseClient, Frees, p
<1>6. (TypeOK /\ PlanesPaired /\ Accepted /\ FeedbackHonest)'
  <2>1. /\ broken' \subseteq Rules /\ queued' \in Params \cup {None} /\ open' \subseteq Fds
        /\ buffer' \in [Params -> {"none", "live", "zombie", "lost", "freed"}]
        /\ busy' \subseteq Params /\ released' \subseteq Params
    BY <1>1, <1>2, <1>5 DEF IInv, TypeOK
  <2> QED BY <1>1, <1>2, <1>3, <1>5, <2>1, LeaseMade
<1>7. busy' = busy
  BY <1>4, <1>5
<1>8. Waiting'
  BY <1>1, <1>2, <1>5, <1>7 DEF IInv, Waiting
<1>9. Leases'
  <2>1. SUFFICES ASSUME LeasedOnce PROVE LeasedOnce'
    BY <1>2 DEF IInv, Leases
  <2>2. \A t \in Surfaces : pending'[t] # None => pending'[t] = pending[t] /\ pending[t] # p
    BY <2>1, <1>1, NoneAssumption DEF LeasedOnce, p
  <2>3. queued # p
    BY <2>1, <1>1, NoneAssumption DEF LeasedOnce, p
  <2> QED BY <2>1, <2>2, <2>3, <1>2, <1>5, <1>7 DEF LeasedOnce
<1>10. \A q \in Params : Reachable(q)' = Reachable(q)
  BY <1>1, <1>2, <1>5 DEF Reachable, madeVars
<1>11. (FdsHeld /\ FdsOwned)'
  BY <1>1, <1>2, <1>5, <1>10 DEF IInv, FdsHeld, FdsOwned, Broke, madeVars, poolVars
<1> QED BY <1>3, <1>6, <1>8, <1>9, <1>11 DEF IInv

LEMMA CommitWaitsInv ==
  ASSUME IInv, NEW s \in Surfaces, CommitWaits(s)
  PROVE  IInv'
<1> DEFINE p == pending[s]
<1>1. /\ p \in Params /\ buffer[p] = "live" /\ pending' \in [Surfaces -> Params \cup {None}]
      /\ \A t \in Surfaces : pending'[t] = IF t = s THEN None ELSE pending[t]
      /\ UNCHANGED <<madeVars, endVars>>
  BY CommitTakes DEF CommitWaits
<1>2. PICK opened \in SUBSET Fds :
        /\ StageFails(image[p], opened)
        /\ IF queued \in {None, p}
           THEN busy' = busy \cup {p} /\ open' = opened /\ UNCHANGED <<released, buffer>>
           ELSE ReleaseClient(queued, opened, busy \cup {p})
  BY DEF CommitWaits
<1>3. queued' = p /\ (queued # None => buffer[queued] # "lost")
  BY DEF CommitWaits
<1>4. /\ HeldBy(opened) /\ OwnedBy(opened) /\ PoolTyped /\ PoolCut'
      /\ broken \subseteq broken' /\ broken' \subseteq Rules
  BY <1>1, <1>2, StageFailsSound
<1> HIDE DEF p
<1>5. CASE queued \in {None, p}
  <2>1. busy' = busy \cup {p} /\ open' = opened /\ UNCHANGED <<released, buffer>>
    BY <1>2, <1>5
  <2>2. (TypeOK /\ PlanesPaired /\ Accepted /\ FeedbackHonest)'
    <3>1. /\ queued' \in Params \cup {None} /\ open' \subseteq Fds
          /\ buffer' \in [Params -> {"none", "live", "zombie", "lost", "freed"}]
          /\ busy' \subseteq Params /\ released' \subseteq Params
      BY <1>1, <1>3, <2>1 DEF IInv, TypeOK
    <3> QED BY <1>1, <1>4, <2>1, <3>1, LeaseMade
  <2>3. Waiting'
    BY <1>1, <1>3, <2>1 DEF IInv, Waiting
  <2>4. Leases'
    <3>1. SUFFICES ASSUME LeasedOnce PROVE LeasedOnce'
      BY <1>4 DEF IInv, Leases
    <3>2. queued = None /\ busy = {} /\ p \notin released
      BY <3>1, <1>1, <1>5, NoneAssumption DEF LeasedOnce, IInv, TypeOK, p
    <3>3. \A t \in Surfaces : pending'[t] # None => pending'[t] = pending[t] /\ pending[t] # p
      BY <3>1, <1>1, NoneAssumption DEF LeasedOnce, p
    <3> QED BY <3>1, <3>2, <3>3, <1>3, <2>1 DEF LeasedOnce
  <2>5. \A q \in Params : Reachable(q)' = Reachable(q)
    BY <1>1, <1>3, <1>5, <2>1, NoneAssumption DEF Reachable, madeVars
  <2>6. FdsHeld'
    BY <1>1, <1>4, <2>1, <2>5 DEF IInv, FdsHeld, HeldBy, madeVars
  <2>7. FdsOwned'
    BY <1>1, <1>4, <2>1, <2>5 DEF FdsOwned, OwnedBy, Broke, madeVars
  <2> QED BY <1>4, <2>2, <2>3, <2>4, <2>6, <2>7 DEF IInv
<1>6. CASE queued \notin {None, p}
  <2> DEFINE w == queued
  <2>1. /\ ReleaseClient(w, opened, busy \cup {p}) /\ w \in Params /\ w # p
        /\ buffer[w] \in {"live", "zombie"} /\ busy \cup {p} \in SUBSET Params
    BY <1>1, <1>2, <1>3, <1>6 DEF IInv, TypeOK, Waiting
  <2>2. queued = w
    OBVIOUS
  <2> HIDE DEF w
  <2>3. /\ \A q \in Params : buffer'[q] = IF q = w /\ Frees(w) THEN "freed" ELSE buffer[q]
        /\ buffer' \in [Params -> {"none", "live", "zombie", "lost", "freed"}]
        /\ open' \subseteq Fds /\ busy' \subseteq Params /\ released' \subseteq Params
    BY <2>1, ReleaseBuffers
  <2>4. (TypeOK /\ PlanesPaired /\ Accepted /\ FeedbackHonest)'
    <3>1. queued' \in Params \cup {None}
      BY <1>1, <1>3
    <3>2. /\ \A q \in Params : buffer'[q] \in {buffer[q], "freed"}
          /\ \A q \in Params : buffer[q] = "none" => buffer'[q] = "none"
      BY <2>1, <2>3
    <3> QED BY <1>1, <1>4, <2>3, <3>1, <3>2, LeaseMade
  <2>5. /\ busy' = IF w \in released THEN busy \cup {p} ELSE (busy \cup {p}) \ {w}
        /\ released' = released \cup {w}
    BY <2>1 DEF ReleaseClient
  <2>6. Waiting'
    <3>1. \A t \in Surfaces : pending'[t] # None => buffer'[pending'[t]] = "live"
      BY <1>1, <2>3 DEF IInv, Waiting, TypeOK, Frees
    <3>2. queued' \in busy' /\ buffer'[queued'] = "live"
      BY <1>1, <1>3, <2>1, <2>3, <2>5
    <3>3. \A q \in Params : buffer'[q] = "zombie" => q \in busy'
      BY <2>1, <2>3, <2>5 DEF IInv, Waiting, Frees
    <3> QED BY <3>1, <3>2, <3>3 DEF Waiting
  <2>7. Leases'
    <3>1. SUFFICES ASSUME LeasedOnce PROVE LeasedOnce'
      BY <1>4 DEF IInv, Leases
    <3>2. w \notin released /\ busy \subseteq {w} /\ p \notin released
      BY <3>1, <2>2, <1>1, NoneAssumption DEF LeasedOnce, p
    <3>3. \A t \in Surfaces : pending'[t] # None =>
            pending'[t] = pending[t] /\ pending[t] # p /\ pending[t] # w
      BY <3>1, <2>2, <1>1, NoneAssumption DEF LeasedOnce, p
    <3> QED BY <3>1, <3>2, <3>3, <1>3, <2>1, <2>5 DEF LeasedOnce
  <2>8. (FdsHeld /\ FdsOwned)'
    <3>1. /\ queued' \in Params /\ buffer[queued'] = "live" /\ queued' # w
          /\ UNCHANGED madeVars /\ queued \in {None, w}
      BY <1>1, <1>3, <2>1, <2>2
    <3> QED BY <3>1, <1>4, <2>1, <2>2, ReleaseFds
  <2> QED BY <1>4, <2>4, <2>6, <2>7, <2>8 DEF IInv
<1> QED BY <1>5, <1>6

LEMMA PumpShowsInv ==
  ASSUME IInv, PumpShows
  PROVE  IInv'
<1> DEFINE p == queued
<1>1. /\ p \in Params /\ p # None /\ buffer[p] \in {"live", "zombie"} /\ Stage(p)
      /\ queued' = None /\ UNCHANGED <<madeVars, pending, endVars, broken>>
  BY DEF PumpShows, IInv, TypeOK, Waiting
<1>2. PoolTyped /\ PoolCut'
  BY <1>1, StageSound
<1>3. PICK opened \in SUBSET Fds :
        ReleaseClient(p, opened, busy) /\ HeldBy(opened) /\ OwnedBy(opened)
  BY <1>1, StageSound
<1>4. queued = p
  OBVIOUS
<1> HIDE DEF p
<1>5. busy \in SUBSET Params
  BY DEF IInv, TypeOK
<1>6. /\ \A q \in Params : buffer'[q] = IF q = p /\ Frees(p) THEN "freed" ELSE buffer[q]
      /\ buffer' \in [Params -> {"none", "live", "zombie", "lost", "freed"}]
      /\ open' \subseteq Fds /\ busy' \subseteq Params /\ released' \subseteq Params
  BY <1>1, <1>3, <1>5, ReleaseBuffers
<1>7. (TypeOK /\ PlanesPaired /\ Accepted /\ FeedbackHonest)'
  <2>1. /\ queued' \in Params \cup {None} /\ broken' \subseteq Rules
        /\ pending' \in [Surfaces -> Params \cup {None}] /\ broken \subseteq broken'
    BY <1>1 DEF IInv, TypeOK
  <2>2. /\ \A q \in Params : buffer'[q] \in {buffer[q], "freed"}
        /\ \A q \in Params : buffer[q] = "none" => buffer'[q] = "none"
    BY <1>1, <1>6
  <2> QED BY <1>1, <1>2, <1>6, <2>1, <2>2, LeaseMade
<1>8. /\ busy' = IF p \in released THEN busy ELSE busy \ {p}
      /\ released' = released \cup {p}
  BY <1>3 DEF ReleaseClient
<1>9. Waiting'
  <2>1. \A t \in Surfaces : pending'[t] # None => buffer'[pending'[t]] = "live"
    BY <1>1, <1>6 DEF IInv, Waiting, TypeOK, Frees
  <2>2. \A q \in Params : buffer'[q] = "zombie" => q \in busy'
    BY <1>6, <1>8 DEF IInv, Waiting, Frees
  <2> QED BY <1>1, <2>1, <2>2 DEF Waiting
<1>10. Leases'
  <2>1. SUFFICES ASSUME LeasedOnce PROVE LeasedOnce'
    BY <1>1 DEF IInv, Leases
  <2>2. p \notin released /\ busy \subseteq {p} /\ None \notin released
    BY <2>1, <1>4, NoneAssumption DEF LeasedOnce, IInv, TypeOK
  <2>3. \A t \in Surfaces : pending[t] # None => pending[t] # p
    BY <2>1, <1>4 DEF LeasedOnce
  <2>4. busy' = {} /\ released' = released \cup {p}
    BY <2>2, <1>8
  <2> QED BY <2>1, <2>2, <2>3, <2>4, <1>1 DEF LeasedOnce
<1>11. (FdsHeld /\ FdsOwned)'
  <2>1. UNCHANGED madeVars /\ broken \subseteq broken' /\ queued' # p
    BY <1>1
  <2> QED BY <1>1, <1>3, <1>4, <1>5, <2>1, ReleaseFds
<1> QED BY <1>2, <1>7, <1>9, <1>10, <1>11 DEF IInv

LEMMA PumpFailsInv ==
  ASSUME IInv, PumpFails
  PROVE  IInv'
<1>1. PICK opened \in SUBSET Fds : StageFails(image[queued], opened) /\ open' = opened
  BY DEF PumpFails
<1>2. queued \in Params /\ buffer[queued] # "none" /\ UNCHANGED <<madeVars, buffer, leaseVars, endVars>>
  BY DEF PumpFails, IInv, TypeOK, Waiting
<1>3. /\ HeldBy(opened) /\ OwnedBy(opened) /\ PoolTyped /\ PoolCut'
      /\ broken \subseteq broken' /\ broken' \subseteq Rules
  BY <1>1, <1>2, StageFailsSound
<1>4. (TypeOK /\ PlanesPaired /\ Accepted /\ FeedbackHonest)'
  <2>1. /\ queued' \in Params \cup {None} /\ open' \subseteq Fds
        /\ pending' \in [Surfaces -> Params \cup {None}]
        /\ buffer' \in [Params -> {"none", "live", "zombie", "lost", "freed"}]
        /\ busy' \subseteq Params /\ released' \subseteq Params
    BY <1>1, <1>2 DEF IInv, TypeOK, leaseVars
  <2> QED BY <1>2, <1>3, <2>1, LeaseMade
<1>5. Waiting'
  BY <1>2 DEF IInv, Waiting, leaseVars
<1>6. Leases'
  BY <1>2, <1>3 DEF IInv, Leases, LeasedOnce, leaseVars
<1>7. \A q \in Params : Reachable(q)' = Reachable(q)
  BY <1>2 DEF Reachable, madeVars, leaseVars
<1>8. FdsHeld'
  BY <1>1, <1>2, <1>3, <1>7 DEF IInv, FdsHeld, HeldBy, madeVars
<1>9. FdsOwned'
  BY <1>1, <1>2, <1>3, <1>7 DEF FdsOwned, OwnedBy, Broke, madeVars
<1> QED BY <1>3, <1>4, <1>5, <1>6, <1>8, <1>9 DEF IInv

LEMMA InvNext == IInv /\ [Next]_vars => IInv'
<1> SUFFICES ASSUME IInv, [Next]_vars PROVE IInv'
  OBVIOUS
<1>1. CASE UNCHANGED vars
  <2>1. UNCHANGED <<madeVars, buffer, leaseVars, poolVars, open, error, fault, broken>>
    BY <1>1 DEF vars, madeVars, leaseVars, poolVars
  <2>2. fault' \in BOOLEAN /\ broken' \subseteq Rules
    BY <2>1 DEF IInv, TypeOK
  <2> QED BY <2>1, <2>2, ErrorInv DEF IInv, FeedbackHonest
<1>2. ASSUME NEW p \in Params, CreateParams(p) PROVE IInv'
  BY <1>2, CreateParamsInv
<1>3. ASSUME NEW p \in Params, CreateRejected(p) PROVE IInv'
  BY <1>3, CreateRejectedInv
<1>4. ASSUME NEW p \in Params, SpentFaults(p) PROVE IInv'
  BY <1>4, SpentFaultsInv
<1>5. ASSUME NEW p \in Params, ParamsDestroy(p) PROVE IInv'
  BY <1>5, ParamsDestroyInv
<1>6. ASSUME NEW p \in Params, BufferDestroy(p) PROVE IInv'
  BY <1>6, BufferDestroyInv
<1>7. ASSUME NEW p \in Params, BufferDestroyBusy(p) PROVE IInv'
  BY <1>7, BufferDestroyBusyInv
<1>8. ASSUME NEW p \in Params, NEW f \in Fds, AddRefused(p, f) PROVE IInv'
  BY <1>8, AddRefusedInv
<1>9. ASSUME NEW p \in Params, NEW f \in Fds, NEW pl \in Planes, AddPlane(p, f, pl) PROVE IInv'
  BY <1>9, AddPlaneInv
<1>10. ASSUME NEW p \in Params, NEW im \in Images, CreateImmed(p, im) PROVE IInv'
  BY <1>10, CreateImmedInv
<1>11. ASSUME NEW p \in Params, NEW im \in Images, CreateRefused(p, im) PROVE IInv'
  BY <1>11, CreateRefusedInv
<1>12. ASSUME NEW p \in Params, NEW s \in Surfaces, Attach(s, p) PROVE IInv'
  BY <1>12, AttachInv
<1>13. ASSUME NEW s \in Surfaces, CommitShown(s) PROVE IInv'
  BY <1>13, CommitShownInv
<1>14. ASSUME NEW s \in Surfaces, CommitWaits(s) PROVE IInv'
  BY <1>14, CommitWaitsInv
<1>15. ASSUME NEW s \in Surfaces, CommitBare(s) PROVE IInv'
  BY <1>15, CommitBareInv
<1>16. CASE PumpShows
  BY <1>16, PumpShowsInv
<1>17. CASE PumpFails
  BY <1>17, PumpFailsInv
<1>18. CASE ClientLeaves
  BY <1>18, ClientLeavesInv
<1>19. ASSUME NEW im \in Images, TopConfigure(im) PROVE IInv'
  BY <1>19, TopConfigureInv
<1> QED
  BY <1>1, <1>2, <1>3, <1>4, <1>5, <1>6, <1>7, <1>8, <1>9, <1>10, <1>11, <1>12, <1>13, <1>14,
     <1>15, <1>16, <1>17, <1>18, <1>19 DEF Next

LEMMA InvHolds == Spec => []IInv
<1>1. Init => IInv
  BY InvInit
<1>2. IInv /\ [Next]_vars => IInv'
  BY InvNext
<1> QED BY <1>1, <1>2, PTL DEF Spec

\* A pool that is kept was cut for the size of the image, and a new one is.
LEMMA CopyStep ==
  ASSUME IInv, NEW p \in Params, Copies(p), ~Broke({"keeps_size"})
  PROVE  CopyFits(plane[p], image[p], cut')
<1>1. buffer[p] # "none" /\ Stage(p)
  <2>1. CASE \E s \in Surfaces : pending[s] = p /\ CommitShown(s)
    BY <2>1, NoneAssumption DEF IInv, Waiting, CommitShown
  <2>2. CASE queued = p /\ PumpShows
    BY <2>2 DEF IInv, Waiting, PumpShows
  <2> QED BY <2>1, <2>2 DEF Copies
<1>2. /\ plane[p] \in Planes /\ image[p] \in Images
      /\ image[p].width > 0 /\ image[p].height > 0
      /\ plane[p].stride >= RowBytes(image[p].width)
  BY <1>1, AcceptedImage
<1>3. CASE StageKept(p)
  <2>1. cut' = cut /\ size = SizeOf(image[p]) /\ pool # None
    BY <1>3 DEF StageKept, PoolMatches, poolVars
  <2>2. cut \in Images /\ cut # None
    BY <2>1 DEF IInv, TypeOK
  <2>3. Mappable(cut) /\ size = SizeOf(cut)
    BY <2>2 DEF IInv, PoolCut, Broke
  <2> QED BY <1>2, <2>1, <2>2, <2>3, AcceptedCopyFits
<1>4. CASE StageNew(p)
  <2>1. cut' = image[p] /\ Mappable(image[p])
    BY <1>4 DEF StageNew
  <2>2. CopyFits(plane[p], image[p], image[p])
    BY <1>2, <2>1, AcceptedCopyFits
  <2> QED BY <2>1, <2>2
<1> QED BY <1>1, <1>3, <1>4 DEF Stage

-----------------------------------------------------------------------------
(* The theorems                                                            *)

\* Every variable has its type, and a buffer has a plane and an image.
THEOREM ParamsTypeCorrect == Spec => []TypeOK
<1>1. IInv => TypeOK
  BY DEF IInv
<1> QED BY <1>1, InvHolds, PTL

\* No descriptor in use is closed or shared, whatever clients, the parent and the
\* kernel do: buffer_destroy, release_client, params_add and ensure_pool each
\* close only what is theirs.  One is lost only where one of the five rules that
\* FdsOwned names was broken.
THEOREM DescriptorsSound == Spec => []FdsSound
<1>1. IInv => FdsSound
  BY DEF IInv, FdsSound
<1> QED BY <1>1, InvHolds, PTL

\* What the feedback lists, params_ok accepts, and nothing else.
THEOREM FeedbackCorrect == Spec => []FeedbackHonest
<1>1. IInv => FeedbackHonest
  BY DEF IInv
<1> QED BY <1>1, InvHolds, PTL

\* The rows of any accepted image, also of one whose rows or pool wrap, are copied
\* within the mapping and the slot, for every word size, unless the parent has
\* configured another size than the pool's.
THEOREM CopyCorrect == Spec => CopyInBounds
<1>1. IInv /\ [Next]_vars
      => [\A p \in Params :
            Copies(p) => CopyFits(plane[p], image[p], cut') \/ Broke({"keeps_size"})]_vars
  BY CopyStep
<1> QED BY <1>1, InvHolds, PTL DEF Spec, CopyInBounds

\* Whenever 32 bits hold the pool, the parent is told of the slots where they are.
THEOREM SlotsCorrect == Spec => []SlotsTold
<1>1. IInv => SlotsTold
  <2>1. SUFFICES ASSUME IInv, cut # None, ~Broke({"fits_parent"}), NEW i \in 1..STAGING
                 PROVE  /\ SlotStart(i, cut) = (i - 1) * FrameBytes(cut)
                        /\ SlotStart(i, cut) + FrameBytes(cut) <= PoolSize(cut)
    BY DEF SlotsTold
  <2>2. /\ cut \in Images /\ cut.width > 0 /\ cut.height > 0 /\ Representable(cut)
    BY <2>1 DEF IInv, TypeOK, PoolCut, Broke
  <2> QED BY <2>1, <2>2, RepresentableTold
<1> QED BY <1>1, InvHolds, PTL
=============================================================================
