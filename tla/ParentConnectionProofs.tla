------------------------ MODULE ParentConnectionProofs -------------------------
(***************************************************************************)
(* Theorems about ParentConnection, for every parent, every set of seats   *)
(* and any number of messages in flight.                                   *)
(***************************************************************************)
EXTENDS ParentConnection, Integers, SequenceTheorems, FiniteSetTheorems, TLAPS

-----------------------------------------------------------------------------
(* Queues of messages: what the proofs say of one, and what taking its     *)
(* head and adding to its end do to that.                                  *)

\* Queue q holds a message of kind X (a set of messages).
Has(q, X) == \E k \in DOMAIN q : q[k] \in X

\* It holds at most one.
Once(q, X) == \A j, k \in DOMAIN q : q[j] \in X /\ q[k] \in X => j = k

\* One of kind X is ahead of every one of kind Y.
Ahead(q, X, Y) == \E k \in DOMAIN q : q[k] \in X /\ \A j \in DOMAIN q : q[j] \in Y => k < j

-----------------------------------------------------------------------------
(* The head is taken                                                       *)

\* The head is the first message, and the tail has the rest in order.
LEMMA HeadAndTail ==
  ASSUME NEW S, NEW q \in Seq(S), q # <<>>
  PROVE  /\ Tail(q) \in Seq(S) /\ Head(q) \in S
         /\ Len(q) \in Nat \ {0} /\ DOMAIN q = 1..Len(q)
         /\ Head(q) = q[1] /\ Len(Tail(q)) = Len(q) - 1
         /\ DOMAIN Tail(q) = 1..(Len(q) - 1)
         /\ \A k \in DOMAIN Tail(q) : Tail(q)[k] = q[k + 1]
         /\ \A k \in DOMAIN q : k = 1 \/ k - 1 \in DOMAIN Tail(q)
<1>1. Tail(q) \in Seq(S) /\ Head(q) \in S /\ Len(Tail(q)) = Len(q) - 1
  BY HeadTailProperties
<1>2. \A k \in 1..Len(Tail(q)) : Tail(q)[k] = q[k + 1]
  BY HeadTailProperties
<1>3. DOMAIN q = 1..Len(q) /\ DOMAIN Tail(q) = 1..Len(Tail(q)) /\ Len(q) \in Nat
  BY <1>1, LenProperties
<1>4. Len(q) # 0
  BY EmptySeq
<1>5. Head(q) = q[1]
  OBVIOUS
<1> QED
  BY <1>1, <1>2, <1>3, <1>4, <1>5

\* What the queue holds is its head or in its tail.
LEMMA HasTail ==
  ASSUME NEW S, NEW q \in Seq(S), q # <<>>, NEW X
  PROVE  Has(q, X) <=> Head(q) \in X \/ Has(Tail(q), X)
<1>1. ASSUME Has(q, X), Head(q) \notin X PROVE Has(Tail(q), X)
  <2>1. PICK k \in DOMAIN q : q[k] \in X
    BY <1>1 DEF Has
  <2>2. k - 1 \in DOMAIN Tail(q)
    BY <1>1, <2>1, HeadAndTail
  <2>3. Tail(q)[k - 1] = q[k]
    BY <2>1, <2>2, HeadAndTail
  <2> QED
    BY <2>1, <2>2, <2>3 DEF Has
<1>2. ASSUME Head(q) \in X PROVE Has(q, X)
  <2>1. 1 \in DOMAIN q
    BY HeadAndTail
  <2> QED
    BY <1>2, <2>1, HeadAndTail DEF Has
<1>3. ASSUME Has(Tail(q), X) PROVE Has(q, X)
  <2>1. PICK k \in DOMAIN Tail(q) : Tail(q)[k] \in X
    BY <1>3 DEF Has
  <2>2. k + 1 \in DOMAIN q
    BY <2>1, HeadAndTail
  <2> QED
    BY <2>1, <2>2, HeadAndTail DEF Has
<1> QED
  BY <1>1, <1>2, <1>3

\* Of what there is once, the tail has none if the head is one.
LEMMA OnceTail ==
  ASSUME NEW S, NEW q \in Seq(S), q # <<>>, NEW X, Once(q, X)
  PROVE  /\ Once(Tail(q), X)
         /\ Head(q) \in X => ~Has(Tail(q), X)
<1>1. \A k \in DOMAIN Tail(q) : k + 1 \in DOMAIN q /\ k + 1 # 1 /\ k \in Int
                                /\ Tail(q)[k] = q[k + 1]
  BY HeadAndTail
<1>2. 1 \in DOMAIN q /\ Head(q) = q[1]
  BY HeadAndTail
<1>3. Once(Tail(q), X)
  <2> SUFFICES ASSUME NEW j \in DOMAIN Tail(q), NEW k \in DOMAIN Tail(q),
                      Tail(q)[j] \in X, Tail(q)[k] \in X
               PROVE  j = k
    BY DEF Once
  <2>1. j + 1 = k + 1
    BY <1>1 DEF Once
  <2> QED
    BY <1>1, <2>1
<1>4. Head(q) \in X => ~Has(Tail(q), X)
  BY <1>1, <1>2 DEF Has, Once
<1> QED
  BY <1>3, <1>4

\* What is ahead stays ahead until it is the head.
LEMMA AheadTail ==
  ASSUME NEW S, NEW q \in Seq(S), q # <<>>, NEW X, NEW Y, Ahead(q, X, Y)
  PROVE  /\ Head(q) \notin X => Ahead(Tail(q), X, Y)
         /\ Head(q) \notin Y
<1>1. PICK k \in DOMAIN q : q[k] \in X /\ \A j \in DOMAIN q : q[j] \in Y => k < j
  BY DEF Ahead
<1>2. 1 \in DOMAIN q /\ Head(q) = q[1] /\ k \in Nat /\ k >= 1
  BY HeadAndTail
<1>3. Head(q) \notin Y
  BY <1>1, <1>2
<1>4. ASSUME Head(q) \notin X PROVE Ahead(Tail(q), X, Y)
  <2>1. k - 1 \in DOMAIN Tail(q) /\ Tail(q)[k - 1] = q[k]
    <3>1. k - 1 \in DOMAIN Tail(q)
      BY <1>1, <1>2, <1>4, HeadAndTail
    <3> QED
      BY <3>1, <1>2, HeadAndTail
  <2>2. ASSUME NEW j \in DOMAIN Tail(q), Tail(q)[j] \in Y PROVE k - 1 < j
    <3>1. j + 1 \in DOMAIN q /\ q[j + 1] \in Y /\ j \in Nat
      BY <2>2, HeadAndTail
    <3>2. k < j + 1
      BY <1>1, <3>1
    <3> QED
      BY <1>2, <3>1, <3>2
  <2> QED
    BY <1>1, <2>1, <2>2 DEF Ahead
<1> QED
  BY <1>3, <1>4

-----------------------------------------------------------------------------
(* Messages are added                                                      *)

\* The messages of two queues in a row.
LEMMA ConcatIndices ==
  ASSUME NEW S, NEW q \in Seq(S), NEW r \in Seq(S)
  PROVE  /\ q \o r \in Seq(S)
         /\ Len(q) \in Nat /\ Len(r) \in Nat
         /\ DOMAIN q = 1..Len(q) /\ DOMAIN r = 1..Len(r)
         /\ DOMAIN (q \o r) = 1..(Len(q) + Len(r))
         /\ \A k \in DOMAIN q : k \in DOMAIN (q \o r) /\ (q \o r)[k] = q[k]
         /\ \A k \in DOMAIN r : Len(q) + k \in DOMAIN (q \o r) /\ (q \o r)[Len(q) + k] = r[k]
         /\ \A k \in DOMAIN (q \o r) :
              \/ k \in DOMAIN q
              \/ k > Len(q) /\ k - Len(q) \in DOMAIN r /\ (q \o r)[k] = r[k - Len(q)]
<1>1. Len(q) \in Nat /\ Len(r) \in Nat /\ DOMAIN q = 1..Len(q) /\ DOMAIN r = 1..Len(r)
  BY LenProperties
<1>2. /\ q \o r \in Seq(S) /\ Len(q \o r) = Len(q) + Len(r)
      /\ \A k \in 1..Len(q) + Len(r) : (q \o r)[k] = IF k <= Len(q) THEN q[k] ELSE r[k - Len(q)]
  BY ConcatProperties
<1>3. DOMAIN (q \o r) = 1..(Len(q) + Len(r))
  BY <1>2, LenProperties
<1>4. ASSUME NEW k \in DOMAIN r
      PROVE  Len(q) + k \in DOMAIN (q \o r) /\ (q \o r)[Len(q) + k] = r[k]
  <2>1. Len(q) + k \in 1..(Len(q) + Len(r)) /\ ~(Len(q) + k <= Len(q)) /\ Len(q) + k - Len(q) = k
    BY <1>1
  <2> QED
    BY <1>2, <1>3, <2>1
<1> QED
  BY <1>1, <1>2, <1>3, <1>4

LEMMA HasConcat ==
  ASSUME NEW S, NEW q \in Seq(S), NEW r \in Seq(S), NEW X
  PROVE  Has(q \o r, X) <=> Has(q, X) \/ Has(r, X)
<1>1. \A k \in DOMAIN q : k \in DOMAIN (q \o r) /\ (q \o r)[k] = q[k]
  BY ConcatIndices
<1>2. \A k \in DOMAIN r : Len(q) + k \in DOMAIN (q \o r) /\ (q \o r)[Len(q) + k] = r[k]
  BY ConcatIndices
<1>3. \A k \in DOMAIN (q \o r) :
        k \in DOMAIN q \/ (k - Len(q) \in DOMAIN r /\ (q \o r)[k] = r[k - Len(q)])
  BY ConcatIndices
<1> QED
  BY <1>1, <1>2, <1>3, Zenon DEF Has

\* What there is once in both is once in all when one of them has none.
LEMMA OnceConcat ==
  ASSUME NEW S, NEW q \in Seq(S), NEW r \in Seq(S), NEW X,
         Once(q, X), Once(r, X), ~Has(q, X) \/ ~Has(r, X)
  PROVE  Once(q \o r, X)
<1> SUFFICES ASSUME NEW j \in DOMAIN (q \o r), NEW k \in DOMAIN (q \o r),
                    (q \o r)[j] \in X, (q \o r)[k] \in X
             PROVE  j = k
  BY DEF Once
<1>0. \A i \in DOMAIN (q \o r) :
        i \in DOMAIN q \/ (i - Len(q) \in DOMAIN r /\ (q \o r)[i] = r[i - Len(q)])
  BY ConcatIndices
<1>9. \A i \in DOMAIN q : (q \o r)[i] = q[i]
  BY ConcatIndices
<1>1. CASE ~Has(r, X)
  <2>1. j \in DOMAIN q /\ k \in DOMAIN q
    BY <1>0, <1>1, Zenon DEF Has
  <2>2. q[j] \in X /\ q[k] \in X
    BY <2>1, ConcatIndices
  <2> QED
    BY <2>1, <2>2 DEF Once
<1>2. CASE ~Has(q, X)
  <2>1. j \notin DOMAIN q /\ k \notin DOMAIN q
    BY <1>2, <1>9, Zenon DEF Has
  <2>2. /\ j - Len(q) \in DOMAIN r /\ r[j - Len(q)] \in X
        /\ k - Len(q) \in DOMAIN r /\ r[k - Len(q)] \in X
    BY <2>1, ConcatIndices
  <2>3. j - Len(q) = k - Len(q)
    BY <2>2 DEF Once
  <2> QED
    BY <2>3, ConcatIndices
<1> QED
  BY <1>1, <1>2

\* What is ahead stays ahead when messages are added.
LEMMA AheadConcat ==
  ASSUME NEW S, NEW q \in Seq(S), NEW r \in Seq(S), NEW X, NEW Y
  PROVE  /\ Ahead(q, X, Y) => Ahead(q \o r, X, Y)
         /\ Has(q, X) /\ ~Has(q, Y) => Ahead(q \o r, X, Y)
<1> SUFFICES ASSUME NEW k \in DOMAIN q, q[k] \in X,
                    \A j \in DOMAIN q : q[j] \in Y => k < j
             PROVE  Ahead(q \o r, X, Y)
  BY Zenon DEF Ahead, Has
<1>1. k \in DOMAIN (q \o r) /\ (q \o r)[k] \in X /\ k \in Nat /\ k <= Len(q) /\ Len(q) \in Nat
  BY ConcatIndices
<1>2. ASSUME NEW j \in DOMAIN (q \o r), (q \o r)[j] \in Y PROVE k < j
  <2>1. CASE j \in DOMAIN q
    BY <1>2, <2>1, ConcatIndices
  <2>2. CASE j \notin DOMAIN q
    <3>1. j > Len(q) /\ j \in Nat
      BY <2>2, ConcatIndices
    <3> QED
      BY <1>1, <3>1
  <2> QED
    BY <2>1, <2>2
<1> QED
  BY <1>1, <1>2, Zenon DEF Ahead

\* A queue without one of kind Y has any of kind X ahead of them.
LEMMA AheadOfNone ==
  ASSUME NEW q, NEW X, NEW Y, Has(q, X), ~Has(q, Y)
  PROVE  Ahead(q, X, Y)
BY DEF Has, Ahead

\* One message and none.
LEMMA HasOne ==
  ASSUME NEW X
  PROVE  /\ ~Has(<<>>, X) /\ Once(<<>>, X)
         /\ \A a : (Has(<<a>>, X) <=> a \in X) /\ Once(<<a>>, X)
         /\ \A a, b : Has(<<a, b>>, X) <=> a \in X \/ b \in X
BY DEF Has, Once

-----------------------------------------------------------------------------
(* Messages of a kind that a step leaves alone                             *)

\* From queue q to queue p, what there is of kind X stays, ahead of kind Y too;
\* and nothing of kind X comes.
Kept(q, p, X, Y) == (Has(q, X) => Has(p, X)) /\ (Ahead(q, X, Y) => Ahead(p, X, Y))

Unmoved(q, p, X) == (Has(p, X) <=> Has(q, X)) /\ (Once(q, X) => Once(p, X))

LEMMA TailUnmoved ==
  ASSUME NEW S, NEW q \in Seq(S), q # <<>>, NEW X, Head(q) \notin X
  PROVE  Unmoved(q, Tail(q), X) /\ \A Y : Kept(q, Tail(q), X, Y)
<1>1. Has(Tail(q), X) <=> Has(q, X)
  BY HasTail
<1>2. Once(q, X) => Once(Tail(q), X)
  BY OnceTail
<1>3. ASSUME NEW Y, Ahead(q, X, Y) PROVE Ahead(Tail(q), X, Y)
  BY <1>3, AheadTail
<1> QED
  BY <1>1, <1>2, <1>3 DEF Unmoved, Kept

LEMMA AddedUnmoved ==
  ASSUME NEW S, NEW q \in Seq(S), NEW r \in Seq(S), NEW X
  PROVE  /\ \A Y : Kept(q, q \o r, X, Y)
         /\ ~Has(r, X) => Unmoved(q, q \o r, X)
<1>1. Has(q \o r, X) <=> Has(q, X) \/ Has(r, X)
  BY HasConcat
<1>2. ASSUME ~Has(r, X), Once(q, X) PROVE Once(q \o r, X)
  <2>1. Once(r, X)
    BY <1>2 DEF Once, Has
  <2> QED
    BY <1>2, <2>1, OnceConcat
<1>3. ASSUME NEW Y, Ahead(q, X, Y) PROVE Ahead(q \o r, X, Y)
  BY <1>3, AheadConcat
<1> QED
  BY <1>1, <1>2, <1>3 DEF Unmoved, Kept

LEMMA SameUnmoved ==
  ASSUME NEW q, NEW X
  PROVE  Unmoved(q, q, X) /\ \A Y : Kept(q, q, X, Y)
BY DEF Unmoved, Kept

\* Nothing of one kind is in a queue of another.
LEMMA NoneOf ==
  ASSUME NEW S, NEW q \in Seq(S), NEW X, \A a \in S : a \notin X
  PROVE  ~Has(q, X)
<1>1. \A k \in DOMAIN q : q[k] \in S
  BY LenProperties, ElementOfSeq
<1> QED
  BY <1>1 DEF Has

-----------------------------------------------------------------------------
(* The tables: what the messages of an object need                         *)

\* The requests the bridge sends, besides those of wl_display and wl_registry.
Asked(o, name) ==
  \/ o = "wl_compositor" /\ name = "create_surface"
  \/ o = "wl_surface" /\ name \in {"attach", "damage_buffer", "frame", "commit"}
  \/ o = "wl_seat" /\ name \in {"get_pointer", "get_keyboard"}
  \/ o = "wl_pointer" /\ name = "set_cursor"
  \/ o = "wl_shm" /\ name = "create_pool"
  \/ o = "xdg_wm_base" /\ name \in {"get_xdg_surface", "pong"}
  \/ o = "xdg_surface" /\ name \in {"get_toplevel", "ack_configure"}
  \/ o = "xdg_toplevel" /\ name \in {"set_title", "set_app_id", "set_fullscreen"}

\* An interface has the request, since a version no later than this.
HasRequest(o, name, since) ==
  \E k \in DOMAIN Messages(o).requests : /\ Messages(o).requests[k].name = name
                                         /\ Messages(o).requests[k].since \in 0..since

LEMMA RequestRow ==
  ASSUME NEW o, NEW k \in DOMAIN Messages(o).requests, NEW name, NEW v \in Nat,
         Messages(o).requests[k] = Row(name, v)
  PROVE  HasRequest(o, name, v)
BY DEF HasRequest, Row

\* Every request of Asked came with the first version, but damage_buffer, which
\* came with the fourth of wl_surface.
LEMMA AskedSince ==
  ASSUME NEW o, NEW name, Asked(o, name)
  PROVE  HasRequest(o, name, IF name = "damage_buffer" THEN 4 ELSE 1)
<1>1. CASE o = "wl_compositor"
  <2> DEFINE rows == Messages(o).requests
  <2>1. rows = First(<<"create_surface", "create_region">>)
    BY <1>1 DEF Messages, WlRequests
  <2>2. 1 \in DOMAIN rows /\ rows[1] = Row("create_surface", 1)
    BY <2>1 DEF First
  <2>3. HasRequest(o, "create_surface", 1)
    BY <2>2, RequestRow
  <2> QED
    BY <1>1, <2>3 DEF Asked
<1>2. CASE o = "wl_seat"
  <2> DEFINE rows == Messages(o).requests
             old == First(<<"get_pointer", "get_keyboard", "get_touch">>)
             new == <<Row("release", 5)>>
  <2>1. rows = old \o new
    BY <1>2 DEF Messages, WlRequests
  <2>2. /\ 1 \in DOMAIN rows /\ rows[1] = Row("get_pointer", 1)
        /\ 2 \in DOMAIN rows /\ rows[2] = Row("get_keyboard", 1)
    <3>1. /\ 1 \in DOMAIN (old \o new) /\ (old \o new)[1] = Row("get_pointer", 1)
          /\ 2 \in DOMAIN (old \o new) /\ (old \o new)[2] = Row("get_keyboard", 1)
      BY DEF First
    <3> HIDE DEF old, new
    <3> QED
      BY <2>1, <3>1
  <2>3. HasRequest(o, "get_pointer", 1)
    BY <2>2, RequestRow
  <2>4. HasRequest(o, "get_keyboard", 1)
    BY <2>2, RequestRow
  <2> QED
    BY <1>2, <2>3, <2>4 DEF Asked
<1>3. CASE o = "wl_pointer"
  <2> DEFINE rows == Messages(o).requests
  <2>1. rows = <<Row("set_cursor", 1), Row("release", 3)>>
    BY <1>3 DEF Messages, WlRequests
  <2>2. 1 \in DOMAIN rows /\ rows[1] = Row("set_cursor", 1)
    BY <2>1 DEF First
  <2>3. HasRequest(o, "set_cursor", 1)
    BY <2>2, RequestRow
  <2> QED
    BY <1>3, <2>3 DEF Asked
<1>4. CASE o = "wl_shm"
  <2> DEFINE rows == Messages(o).requests
  <2>1. rows = First(<<"create_pool">>)
    BY <1>4 DEF Messages
  <2>2. 1 \in DOMAIN rows /\ rows[1] = Row("create_pool", 1)
    BY <2>1 DEF First
  <2>3. HasRequest(o, "create_pool", 1)
    BY <2>2, RequestRow
  <2> QED
    BY <1>4, <2>3 DEF Asked
<1>5. CASE o = "xdg_wm_base"
  <2> DEFINE rows == Messages(o).requests
  <2>1. rows = First(<<"destroy", "create_positioner", "get_xdg_surface", "pong">>)
    BY <1>5 DEF Messages, XdgWmBaseMessages
  <2>2. /\ 3 \in DOMAIN rows /\ rows[3] = Row("get_xdg_surface", 1)
        /\ 4 \in DOMAIN rows /\ rows[4] = Row("pong", 1)
    BY <2>1 DEF First
  <2>3. HasRequest(o, "get_xdg_surface", 1)
    BY <2>2, RequestRow
  <2>4. HasRequest(o, "pong", 1)
    BY <2>2, RequestRow
  <2> QED
    BY <1>5, <2>3, <2>4 DEF Asked
<1>6. CASE o = "xdg_surface"
  <2> DEFINE rows == Messages(o).requests
  <2>1. rows = First(<<"destroy", "get_toplevel", "get_popup",
                                   "set_window_geometry", "ack_configure">>)
    BY <1>6 DEF Messages, XdgSurfaceMessages
  <2>2. /\ 2 \in DOMAIN rows /\ rows[2] = Row("get_toplevel", 1)
        /\ 5 \in DOMAIN rows /\ rows[5] = Row("ack_configure", 1)
    BY <2>1 DEF First
  <2>3. HasRequest(o, "get_toplevel", 1)
    BY <2>2, RequestRow
  <2>4. HasRequest(o, "ack_configure", 1)
    BY <2>2, RequestRow
  <2> QED
    BY <1>6, <2>3, <2>4 DEF Asked
<1>7. CASE o = "xdg_toplevel"
  <2> DEFINE rows == Messages(o).requests
  <2>1. rows = First(<<"destroy", "set_parent", "set_title", "set_app_id", "show_window_menu",
                                   "move", "resize", "set_max_size", "set_min_size",
                                    "set_maximized",
                                   "unset_maximized", "set_fullscreen", "unset_fullscreen",
                                   "set_minimized">>)
    BY <1>7 DEF Messages, XdgToplevelMessages
  <2>2. /\ 3 \in DOMAIN rows /\ rows[3] = Row("set_title", 1)
        /\ 4 \in DOMAIN rows /\ rows[4] = Row("set_app_id", 1)
        /\ 12 \in DOMAIN rows /\ rows[12] = Row("set_fullscreen", 1)
    BY <2>1 DEF First
  <2>3. HasRequest(o, "set_title", 1)
    BY <2>2, RequestRow
  <2>4. HasRequest(o, "set_app_id", 1)
    BY <2>2, RequestRow
  <2>5. HasRequest(o, "set_fullscreen", 1)
    BY <2>2, RequestRow
  <2> QED
    BY <1>7, <2>3, <2>4, <2>5 DEF Asked
<1>8. CASE o = "wl_surface"
  <2> DEFINE rows == Messages(o).requests
             old == First(<<"destroy", "attach", "damage", "frame", "set_opaque_region",
                          "set_input_region", "commit">>)
             new == <<Row("set_buffer_transform", 2), Row("set_buffer_scale", 3),
                      Row("damage_buffer", 4), Row("offset", 5)>>
  <2>1. rows = old \o new
    BY <1>8 DEF Messages, WlRequests
  <2>2. /\ 2 \in DOMAIN rows /\ rows[2] = Row("attach", 1)
        /\ 4 \in DOMAIN rows /\ rows[4] = Row("frame", 1)
        /\ 7 \in DOMAIN rows /\ rows[7] = Row("commit", 1)
        /\ 10 \in DOMAIN rows /\ rows[10] = Row("damage_buffer", 4)
    <3>1. /\ 2 \in DOMAIN (old \o new) /\ (old \o new)[2] = Row("attach", 1)
          /\ 4 \in DOMAIN (old \o new) /\ (old \o new)[4] = Row("frame", 1)
          /\ 7 \in DOMAIN (old \o new) /\ (old \o new)[7] = Row("commit", 1)
          /\ 10 \in DOMAIN (old \o new) /\ (old \o new)[10] = Row("damage_buffer", 4)
      BY DEF First
    <3> HIDE DEF old, new
    <3> QED
      BY <2>1, <3>1
  <2>3. HasRequest(o, "attach", 1)
    BY <2>2, RequestRow
  <2>4. HasRequest(o, "frame", 1)
    BY <2>2, RequestRow
  <2>5. HasRequest(o, "commit", 1)
    BY <2>2, RequestRow
  <2>6. HasRequest(o, "damage_buffer", 4)
    BY <2>2, RequestRow
  <2> QED
    BY <1>8, <2>3, <2>4, <2>5, <2>6 DEF Asked
<1> QED
  BY <1>1, <1>2, <1>3, <1>4, <1>5, <1>6, <1>7, <1>8 DEF Asked

\* The events of the tables, and the rows the bridge has a function for: all but
\* the one that came with version 8 of wl_pointer.
EventNames ==
  {"done", "format", "ping", "capabilities", "name", "enter", "leave", "motion", "button", "axis",
   "frame", "axis_source", "axis_stop", "axis_discrete", "axis_value120", "keymap", "key",
   "modifiers", "repeat_info", "configure", "close", "configure_bounds", "wm_capabilities",
   "release", "global", "global_remove"}
RowsFor(o) ==
  {row \in [name : EventNames, since : Nat \ {0}] :
     Takes(o, row.name) \/ (o = "wl_pointer" /\ row.since = 8)}

LEMMA ListenerSets ==
  /\ DOMAIN Listeners = {"wl_registry", "wl_callback", "wl_seat", "wl_pointer", "wl_keyboard",
                         "wl_buffer", "xdg_wm_base", "xdg_surface", "xdg_toplevel"}
  /\ Listeners["wl_registry"] = {"global", "global_remove"}
  /\ Listeners["wl_callback"] = {"done"}
  /\ Listeners["wl_seat"] = {"capabilities", "name"}
  /\ Listeners["wl_pointer"] = {"enter", "leave", "motion", "button", "axis", "frame",
                                "axis_source", "axis_stop", "axis_discrete"}
  /\ Listeners["wl_keyboard"] = {"keymap", "enter", "leave", "key", "modifiers", "repeat_info"}
  /\ Listeners["wl_buffer"] = {"release"}
  /\ Listeners["xdg_wm_base"] = {"ping"}
  /\ Listeners["xdg_surface"] = {"configure"}
  /\ Listeners["xdg_toplevel"] = {"configure", "close", "configure_bounds", "wm_capabilities"}
BY DEF Listeners, RegistryListener, SeatListener, PointerListener, KeyboardListener, ToplevelListener

LEMMA RowFor ==
  ASSUME NEW o, NEW name \in EventNames, Takes(o, name), NEW v \in Nat \ {0}
  PROVE  Row(name, v) \in RowsFor(o)
BY DEF Row, RowsFor

\* The bridge takes every event that the tables give its objects.
LEMMA EventsTabled ==
  ASSUME NEW o \in Objects
  PROVE  Messages(o).events \in Seq(RowsFor(o)) /\ (o = "wl_registry" => Messages(o).events = <<>>)
<1> DEFINE R == RowsFor(o)
<1>1. CASE o \in {"wl_compositor", "wl_registry"}
  <2>1. Messages(o).events = <<>>
    BY <1>1 DEF Messages, WlEvents
  <2> QED
    BY <2>1
<1>2. CASE o = "wl_shm"
  <2>1. Messages(o).events = <<Row("format", 1)>>
    BY <1>2 DEF Messages, First
  <2>2. Row("format", 1) \in R
    BY <1>2, RowFor, ListenerSets DEF Takes, EventNames
  <2>3. <<Row("format", 1)>> \in Seq(R)
    BY <2>2
  <2> QED
    BY <1>2, <2>1, <2>3
<1>3. CASE o = "xdg_wm_base"
  <2>1. Messages(o).events = <<Row("ping", 1)>>
    BY <1>3 DEF Messages, XdgWmBaseMessages, First
  <2>2. Row("ping", 1) \in R
    BY <1>3, RowFor, ListenerSets DEF Takes, EventNames
  <2>3. <<Row("ping", 1)>> \in Seq(R)
    BY <2>2
  <2> QED
    BY <1>3, <2>1, <2>3
<1>4. CASE o = "wl_seat"
  <2>1. Messages(o).events = <<Row("capabilities", 1), Row("name", 2)>>
    BY <1>4 DEF Messages, WlEvents
  <2>2. Row("capabilities", 1) \in R /\ Row("name", 2) \in R
    BY <1>4, RowFor, ListenerSets DEF Takes, EventNames
  <2>3. <<Row("capabilities", 1), Row("name", 2)>> \in Seq(R)
    BY <2>2
  <2> QED
    BY <1>4, <2>1, <2>3
<1>5. CASE o = "wl_pointer"
  <2> DEFINE old == <<Row("enter", 1), Row("leave", 1), Row("motion", 1), Row("button", 1),
                      Row("axis", 1)>>
             new == <<Row("frame", 5), Row("axis_source", 5), Row("axis_stop", 5),
                      Row("axis_discrete", 5), Row("axis_value120", 8)>>
  <2>1. Messages(o).events = First(<<"enter", "leave", "motion", "button", "axis">>) \o new
    BY <1>5 DEF Messages, WlEvents
  <2>2. First(<<"enter", "leave", "motion", "button", "axis">>) = old
    BY DEF First
  <2>3. /\ \A n \in {"enter", "leave", "motion", "button", "axis"} : Row(n, 1) \in R
        /\ \A n \in {"frame", "axis_source", "axis_stop", "axis_discrete"} : Row(n, 5) \in R
    BY <1>5, RowFor, ListenerSets DEF Takes, EventNames
  <2>4. Row("axis_value120", 8) \in R
    BY <1>5 DEF Row, RowsFor, EventNames
  <2>5. old \in Seq(R)
    BY <2>3
  <2>6. new \in Seq(R)
    BY <2>3, <2>4
  <2>7. old \o new \in Seq(R)
    BY <2>5, <2>6, ConcatProperties
  <2> HIDE DEF old, new
  <2> QED
    BY <1>5, <2>1, <2>2, <2>7
<1>6. CASE o = "wl_keyboard"
  <2> DEFINE old == <<Row("keymap", 1), Row("enter", 1), Row("leave", 1), Row("key", 1),
                      Row("modifiers", 1)>>
             new == <<Row("repeat_info", 4)>>
  <2>1. Messages(o).events = First(<<"keymap", "enter", "leave", "key", "modifiers">>) \o new
    BY <1>6 DEF Messages, WlEvents
  <2>2. First(<<"keymap", "enter", "leave", "key", "modifiers">>) = old
    BY DEF First
  <2>3. /\ \A n \in {"keymap", "enter", "leave", "key", "modifiers"} : Row(n, 1) \in R
        /\ Row("repeat_info", 4) \in R
    BY <1>6, RowFor, ListenerSets DEF Takes, EventNames
  <2>4. old \in Seq(R)
    BY <2>3
  <2>5. new \in Seq(R)
    BY <2>3
  <2>6. old \o new \in Seq(R)
    BY <2>4, <2>5, ConcatProperties
  <2> HIDE DEF old, new
  <2> QED
    BY <1>6, <2>1, <2>2, <2>6
<1>7. CASE o = "wl_surface"
  <2>1. Messages(o).events = <<Row("enter", 1), Row("leave", 1)>>
    BY <1>7 DEF Messages, WlEvents, First
  <2>2. Row("enter", 1) \in R /\ Row("leave", 1) \in R
    BY <1>7, RowFor, ListenerSets DEF Takes, EventNames
  <2>3. <<Row("enter", 1), Row("leave", 1)>> \in Seq(R)
    BY <2>2
  <2> QED
    BY <1>7, <2>1, <2>3
<1>8. CASE o = "xdg_surface"
  <2>1. Messages(o).events = <<Row("configure", 1)>>
    BY <1>8 DEF Messages, XdgSurfaceMessages, First
  <2>2. Row("configure", 1) \in R
    BY <1>8, RowFor, ListenerSets DEF Takes, EventNames
  <2>3. <<Row("configure", 1)>> \in Seq(R)
    BY <2>2
  <2> QED
    BY <1>8, <2>1, <2>3
<1>9. CASE o = "xdg_toplevel"
  <2> DEFINE rows == <<Row("configure", 1), Row("close", 1), Row("configure_bounds", 4),
                       Row("wm_capabilities", 5)>>
  <2>1. Messages(o).events = rows
    BY <1>9 DEF Messages, XdgToplevelMessages
  <2>2. /\ Row("configure", 1) \in R /\ Row("close", 1) \in R
        /\ Row("configure_bounds", 4) \in R /\ Row("wm_capabilities", 5) \in R
    BY <1>9, RowFor, ListenerSets DEF Takes, EventNames
  <2>3. rows \in Seq(R)
    BY <2>2
  <2> HIDE DEF rows
  <2> QED
    BY <1>9, <2>1, <2>3
<1>10. CASE o = "wl_callback"
  <2>1. Messages(o).events = <<Row("done", 1)>>
    BY <1>10 DEF Messages, WlEvents, First
  <2>2. Row("done", 1) \in R
    BY <1>10, RowFor, ListenerSets DEF Takes, EventNames
  <2>3. <<Row("done", 1)>> \in Seq(R)
    BY <2>2
  <2> QED
    BY <1>10, <2>1, <2>3
<1>11. CASE o = "wl_buffer"
  <2>1. Messages(o).events = <<Row("release", 1)>>
    BY <1>11 DEF Messages, WlEvents, First
  <2>2. Row("release", 1) \in R
    BY <1>11, RowFor, ListenerSets DEF Takes, EventNames
  <2>3. <<Row("release", 1)>> \in Seq(R)
    BY <2>2
  <2> QED
    BY <1>11, <2>1, <2>3
<1> QED
  BY <1>1, <1>2, <1>3, <1>4, <1>5, <1>6, <1>7, <1>8, <1>9, <1>10, <1>11
     DEF Objects, Globals, Needed, Devices, Windows

\* A row of an object's events is one the bridge takes, unless it is of version 8.
LEMMA EventRow ==
  ASSUME NEW o \in Objects, NEW k \in DOMAIN Messages(o).events
  PROVE  /\ Messages(o).events[k] \in RowsFor(o)
         /\ o # "wl_registry"
<1>1. Messages(o).events \in Seq(RowsFor(o))
  BY EventsTabled
<1>2. Messages(o).events[k] \in RowsFor(o)
  BY <1>1, ElementOfSeq, LenProperties
<1>3. o = "wl_registry" => Messages(o).events = <<>>
  BY EventsTabled
<1> QED
  BY <1>2, <1>3
-----------------------------------------------------------------------------
(* The inductive invariant: messages and the versions they need            *)

RequestNames ==
  {"get_registry", "sync", "bind", "create_surface", "attach", "damage_buffer", "frame", "commit",
   "get_pointer", "get_keyboard", "set_cursor", "create_pool", "get_xdg_surface", "pong",
   "get_toplevel", "ack_configure", "set_title", "set_app_id", "set_fullscreen"}

EventKinds ==
  [object : Objects \cup {"sync"}, name : EventNames, seat : Seats \cup {NoSeat},
   global : Globals \cup {""}, caps : SUBSET Devices]
RequestKinds ==
  [object : Objects \cup {"wl_display"}, name : RequestNames, seat : Seats \cup {NoSeat},
   makes : Objects \cup {""}]

IsGlobal(e) == e.object = "wl_registry" /\ e.name = "global"
IsCaps(e) == e.object = "wl_seat" /\ e.name = "capabilities"
IsBind(r) == r.object = "wl_registry" /\ r.name = "bind"

\* What is so of an event in flight: the bridge has a function for it, the
\* global it announces is offered, its object has been made.
EventOK(e) ==
  /\ Takes(e.object, e.name)
  /\ IsGlobal(e) => /\ e.global \in Globals /\ offered[e.global] # 0
                    /\ e.seat \in Seats <=> e.global = "wl_seat"
  /\ IsCaps(e) => e.seat \in Seats
  /\ ~IsGlobal(e) /\ ~IsCaps(e) => e.seat = NoSeat
  /\ ~IsCaps(e) => e.caps = {}
  /\ e.object \in Objects \ {"wl_registry"} => version[e.object] # 0

\* What is so of a request in flight: it is one the bridge knows to send, of an
\* object it has made; a device is asked of the seat it belongs to.
RequestOK(r) ==
  \/ /\ r.object = "wl_display" /\ r.name \in {"get_registry", "sync"}
     /\ r.seat = NoSeat /\ r.makes = ""
  \/ /\ IsBind(r) /\ r.makes \in Globals /\ version[r.makes] # 0
     /\ r.seat \in Seats <=> r.makes = "wl_seat"
  \/ /\ Asked(r.object, r.name) /\ r.object \in Objects /\ version[r.object] # 0
     /\ IF r.makes \in Devices THEN r.seat \in Seats /\ r.seat = device[r.makes]
        ELSE r.seat = NoSeat

GoodEvents == {e \in EventKinds : EventOK(e)}
GoodRequests == {r \in RequestKinds : RequestOK(r)}
Queued == toBridge \in Seq(GoodEvents) /\ toParent \in Seq(GoodRequests)

\* The version of an object is that of its global, which is the one the bridge
\* binds it at.
GlobalOf(o) ==
  CASE o \in {"wl_surface", "wl_callback"}      -> "wl_compositor"
    [] o = "wl_buffer"                          -> "wl_shm"
    [] o \in Devices                            -> "wl_seat"
    [] o \in {"xdg_surface", "xdg_toplevel"}    -> "xdg_wm_base"
    [] OTHER                                    -> o
BoundAt(o) == BindVersion(GlobalOf(o), offered[GlobalOf(o)])

VersionsOK ==
  /\ \A o \in Objects : version[o] # 0 => o # "wl_registry" /\ version[o] = BoundAt(o)
  /\ phase \in {"window", "running"} => \A o \in Needed \cup Windows : version[o] # 0
  /\ \A d \in Devices : device[d] # NoSeat => version[d] # 0
  /\ Here # {} => offered["wl_seat"] # 0
  /\ knows \cap Seats # {} => version["wl_seat"] # 0

TroubleOK ==
  \A t \in trouble : t[1] = "request" /\ t[3] = "damage_buffer" /\ offered["wl_compositor"] < 4

\* Before the bridge connects there is nothing.
StartOK == phase = "connect" => knows = {} /\ toBridge = <<>> /\ toParent = <<>>

ConnectionInv == TypeOK /\ Queued /\ VersionsOK /\ TroubleOK

-----------------------------------------------------------------------------
(* The inductive invariant: round trips and seats                          *)

\* The messages about seat s, and those of a round trip.
GlobalsOf(s) == {e \in EventKinds : IsGlobal(e) /\ e.seat = s}
CapsOf(s) == {e \in EventKinds : IsCaps(e) /\ e.seat = s}
BindsOf(s) == {r \in RequestKinds : IsBind(r) /\ r.seat = s}
IsDone(e) == e.object = "sync" /\ e.name = "done"
Dones == {e \in EventKinds : IsDone(e)}
Syncs == {r \in RequestKinds : r.name = "sync"}
Registries == {r \in RequestKinds : r.name = "get_registry"}

\* There is one round trip at a time, and nothing before the first.
TripsOK ==
  /\ phase = "connect" => knows = {} /\ unheard = {} /\ toParent = <<>>
  /\ phase \notin {"connect", "globals"} => "wl_registry" \in knows
  /\ IF "wl_registry" \in knows THEN ~Has(toParent, Registries)
     ELSE /\ knows = {} /\ toBridge = <<>> /\ unheard = {}
          /\ toParent \in {<<>>, <<Request("wl_display", "get_registry"), Sync>>}
  /\ Once(toParent, Syncs) /\ Once(toBridge, Dones)
  /\ ~(Has(toParent, Syncs) /\ Has(toBridge, Dones))
  /\ phase \in {"running", "failed"} => ~Has(toParent, Syncs) /\ ~Has(toBridge, Dones)

\* A seat is announced and bound once, and until then the parent does not know
\* that the bridge has it.
Announced(s) == Has(toBridge, GlobalsOf(s)) \/ Has(toParent, BindsOf(s))
SeatsOK ==
  \A s \in Seats :
    /\ Once(toBridge, GlobalsOf(s)) /\ Once(toParent, BindsOf(s))
    /\ ~(Has(toBridge, GlobalsOf(s)) /\ Has(toParent, BindsOf(s)))
    /\ Announced(s) => s \notin knows
    /\ s \in knows => s \in Here
    /\ s \in Here /\ s \notin knows /\ "wl_registry" \in knows => Announced(s)

\* The capabilities of an unheard seat that is still there come before the round trip of "seats" ends.
HeardOK ==
  /\ phase = "globals" =>
       \A s \in unheard : s \in Here => Has(toBridge, CapsOf(s)) \/ Has(toParent, BindsOf(s))
  /\ phase = "seats" =>
       \A s \in unheard : s \in Here =>
         \/ Ahead(toBridge, CapsOf(s), Dones)
         \/ Has(toParent, Syncs) /\ Ahead(toParent, BindsOf(s), Syncs)
  /\ SeatsHeard

TripInv == TripsOK /\ SeatsOK /\ HeardOK

-----------------------------------------------------------------------------
(* The inductive invariant: devices                                        *)

\* The capabilities of seat s with device d, and the requests for it.
DeviceCaps(s, d) == {e \in CapsOf(s) : d \in e.caps}
DeviceAsks(d) == {r \in RequestKinds : r.makes = d}

\* The bridge has each device of a seat it has bound, or hears of it.
DevicesHeard ==
  \A s \in Here \cap knows : \A d \in caps[s] :
    device[d] # NoSeat \/ Has(toBridge, DeviceCaps(s, d))

\* What the bridge takes a device of has it, and the parent has been asked.
DevicesAsked ==
  \A d \in Devices : device[d] # NoSeat =>
    /\ device[d] \in Here /\ d \in caps[device[d]]
    /\ d \in knows \/ Has(toParent, DeviceAsks(d))

\* Capabilities in flight are those of a seat that is there and still has them.
CapsHonest ==
  \A s \in Seats, d \in Devices : Has(toBridge, DeviceCaps(s, d)) => s \in Here /\ d \in caps[s]

DevicesInv == DevicesHeard /\ DevicesAsked /\ CapsHonest
-----------------------------------------------------------------------------
(* What the operators return                                               *)

\* SetToSeq lists every element of a finite set once.
LEMMA ListOfSet ==
  ASSUME NEW S, IsFiniteSet(S)
  PROVE  /\ SetToSeq(S) \in Seq(S)
         /\ \A j, k \in DOMAIN SetToSeq(S) : SetToSeq(S)[j] = SetToSeq(S)[k] => j = k
         /\ \A x \in S : \E k \in DOMAIN SetToSeq(S) : SetToSeq(S)[k] = x
<1> DEFINE n == Cardinality(S)
           q == SetToSeq(S)
<1>1. n \in Nat /\ ExistsBijection(1..n, S)
  BY FS_CardinalityType
<1>2. \E f \in [1..n -> S] : IsInjective(f)
  BY <1>1 DEF ExistsBijection, Bijection, Injection
<1>3. q \in [1..n -> S] /\ IsInjective(q)
  BY <1>2, Zenon DEF SetToSeq
<1>4. IsFiniteSet(1..n) /\ Cardinality(1..n) = n
  <2>1. Cardinality(1..n) = IF 1 > n THEN 0 ELSE n - 1 + 1
    BY <1>1, FS_Interval
  <2> QED
    BY <1>1, <2>1, FS_Interval
<1> HIDE DEF q
<1>5. q \in Surjection(1..n, S)
  <2>1. q \in Injection(1..n, S)
    BY <1>3 DEF Injection
  <2> QED
    BY <1>4, <2>1, FS_Injection
<1>6. q \in Seq(S) /\ DOMAIN q = 1..n
  BY <1>1, <1>3
<1>7. \A j, k \in DOMAIN q : q[j] = q[k] => j = k
  BY <1>3 DEF IsInjective
<1>8. \A x \in S : \E k \in DOMAIN q : q[k] = x
  BY <1>5, <1>6, Zenon DEF Surjection
<1> QED
  BY <1>6, <1>7, <1>8 DEF q

\* A list of a set holds what the set holds.
LEMMA HasListed ==
  ASSUME NEW S, IsFiniteSet(S), NEW X
  PROVE  Has(SetToSeq(S), X) <=> S \cap X # {}
<1>1. SetToSeq(S) \in Seq(S)
  BY ListOfSet
<1>2. \A k \in DOMAIN SetToSeq(S) : SetToSeq(S)[k] \in S
  BY <1>1, LenProperties, ElementOfSeq
<1>3. \A x \in S : \E k \in DOMAIN SetToSeq(S) : SetToSeq(S)[k] = x
  BY ListOfSet
<1> QED
  BY <1>2, <1>3, Zenon DEF Has

\* Of what there is one in the set there is one in the list.
LEMMA OnceListed ==
  ASSUME NEW S, IsFiniteSet(S), NEW X, \A x, y \in S \cap X : x = y
  PROVE  Once(SetToSeq(S), X)
<1>1. SetToSeq(S) \in Seq(S)
  BY ListOfSet
<1>2. \A k \in DOMAIN SetToSeq(S) : SetToSeq(S)[k] \in S
  BY <1>1, LenProperties, ElementOfSeq
<1>3. \A j, k \in DOMAIN SetToSeq(S) : SetToSeq(S)[j] = SetToSeq(S)[k] => j = k
  BY ListOfSet
<1>4. \A x, y \in S : x \in X /\ y \in X => x = y
  OBVIOUS
<1> QED
  BY <1>2, <1>3, <1>4, Zenon DEF Once

\* The messages and their fields.
LEMMA EventFields ==
  ASSUME NEW o \in Objects \cup {"sync"}, NEW name \in EventNames
  PROVE  LET e == Event(o, name)
         IN  /\ e \in EventKinds
             /\ e.object = o /\ e.name = name /\ e.seat = NoSeat /\ e.global = "" /\ e.caps = {}
BY DEF Event, EventKinds

LEMMA GlobalEventFields ==
  ASSUME NEW g \in Globals, NEW s \in Seats \cup {NoSeat}
  PROVE  LET e == GlobalEvent(g, s)
         IN  /\ e \in EventKinds
             /\ e.object = "wl_registry" /\ e.name = "global"
             /\ e.seat = s /\ e.global = g /\ e.caps = {}
BY DEF Event, GlobalEvent, EventKinds, Objects, EventNames

LEMMA CapsEventFields ==
  ASSUME NEW s \in Seats, NEW c \in SUBSET Devices
  PROVE  LET e == CapsEvent(s, c)
         IN  /\ e \in EventKinds
             /\ e.object = "wl_seat" /\ e.name = "capabilities"
             /\ e.seat = s /\ e.global = "" /\ e.caps = c
BY DEF Event, CapsEvent, EventKinds, Objects, Globals, EventNames

LEMMA RequestFields ==
  ASSUME NEW o \in Objects \cup {"wl_display"}, NEW name \in RequestNames
  PROVE  LET r == Request(o, name)
         IN  /\ r \in RequestKinds
             /\ r.object = o /\ r.name = name /\ r.seat = NoSeat /\ r.makes = ""
BY DEF Request, RequestKinds

LEMMA MakeFields ==
  ASSUME NEW o \in Objects, NEW name \in RequestNames, NEW new \in Objects
  PROVE  LET r == Make(o, name, new)
         IN  /\ r \in RequestKinds
             /\ r.object = o /\ r.name = name /\ r.seat = NoSeat /\ r.makes = new
BY DEF Make, Request, RequestKinds

LEMMA BindFields ==
  ASSUME NEW g \in Globals, NEW s \in Seats \cup {NoSeat}
  PROVE  LET r == Bind(g, s)
         IN  /\ r \in RequestKinds
             /\ r.object = "wl_registry" /\ r.name = "bind" /\ r.seat = s /\ r.makes = g
BY DEF Bind, Request, RequestKinds, Objects, RequestNames

LEMMA GetDeviceFields ==
  ASSUME NEW d \in Devices, NEW s \in Seats
  PROVE  LET r == GetDevice(d, s)
         IN  /\ r \in RequestKinds /\ Asked("wl_seat", r.name)
             /\ r.object = "wl_seat" /\ r.seat = s /\ r.makes = d
             /\ r.name # "sync" /\ r.name # "get_registry" /\ r.name # "bind"
<1>1. Get[d] \in {"get_pointer", "get_keyboard"}
  BY DEF Get, Devices
<1>2. GetDevice(d, s) \in RequestKinds
  BY <1>1 DEF GetDevice, Make, Request, RequestKinds, Objects, Globals, Devices, RequestNames
<1> QED
  BY <1>1, <1>2 DEF GetDevice, Make, Request, Asked

\* A version is bound of every global that is offered, and of a compositor that
\* is new enough one that has damage_buffer.
LEMMA BindVersionOf ==
  ASSUME NEW g \in Globals, NEW v \in Nat
  PROVE  /\ BindVersion(g, v) \in Nat
         /\ v # 0 => BindVersion(g, v) # 0
         /\ BindVersion(g, v) <= 7
         /\ g = "wl_compositor" /\ v >= 4 => BindVersion(g, v) >= 4
BY DEF BindVersion, Highest, Globals, Needed

LEMMA GlobalOfObject ==
  ASSUME NEW o \in Objects, o # "wl_registry"
  PROVE  /\ GlobalOf(o) \in Globals
         /\ o \in Globals => GlobalOf(o) = o
         /\ o = "wl_surface" => GlobalOf(o) = "wl_compositor"
         /\ o \in Devices => GlobalOf(o) = "wl_seat"
         /\ o \in {"xdg_surface", "xdg_toplevel"} => GlobalOf(o) = "xdg_wm_base"
         /\ o = "wl_buffer" => GlobalOf(o) = "wl_shm"
         /\ o = "wl_callback" => GlobalOf(o) = "wl_compositor"
BY DEF GlobalOf, Objects, Globals, Needed, Devices, Windows

-----------------------------------------------------------------------------
(* Objects are only made                                                   *)

\* No step takes an object or a device away from the bridge.
Grows ==
  /\ offered' = offered
  /\ \A o \in Objects : version[o] # 0 => version'[o] = version[o]
  /\ \A d \in Devices : device[d] # NoSeat => device'[d] = device[d]

\* So what was so of a message stays so.
LEMMA GoodStays ==
  ASSUME ParentAssumption, Grows, TypeOK
  PROVE  GoodEvents \subseteq GoodEvents' /\ GoodRequests \subseteq GoodRequests'
<1>1. ASSUME NEW e \in EventKinds, EventOK(e) PROVE EventOK(e)'
  BY <1>1 DEF EventOK, Grows, IsGlobal, IsCaps, Takes
<1>2. ASSUME NEW r \in RequestKinds, RequestOK(r) PROVE RequestOK(r)'
  <2>1. NoSeat \notin Seats /\ Globals \subseteq Objects
    BY ParentAssumption DEF Objects
  <2>2. CASE r.object = "wl_display"
    BY <1>2, <2>2 DEF RequestOK, Asked, IsBind
  <2>3. CASE IsBind(r)
    BY <1>2, <2>1, <2>3 DEF RequestOK, Asked, IsBind, Grows
  <2>4. CASE Asked(r.object, r.name)
    BY <1>2, <2>1, <2>4 DEF RequestOK, Asked, IsBind, Grows
  <2> QED
    BY <1>2, <2>2, <2>3, <2>4 DEF RequestOK
<1> QED
  BY <1>1, <1>2 DEF GoodEvents, GoodRequests, EventKinds, RequestKinds

\* A queue of good messages stays one when its head is taken or good messages
\* are added.
LEMMA EventsStay ==
  ASSUME ParentAssumption, Grows, TypeOK, Queued,
         toBridge' = toBridge \/ (toBridge # <<>> /\ toBridge' = Tail(toBridge))
  PROVE  toBridge' \in Seq(GoodEvents')
<1>1. toBridge \in Seq(GoodEvents')
  BY GoodStays, SeqMonotonic DEF Queued
<1>2. toBridge # <<>> => Tail(toBridge) \in Seq(GoodEvents')
  BY <1>1, HeadAndTail
<1> QED
  BY <1>1, <1>2

LEMMA EventsAdded ==
  ASSUME ParentAssumption, Grows, TypeOK, Queued,
         NEW E \in Seq(GoodEvents'), toBridge' = toBridge \o E
  PROVE  toBridge' \in Seq(GoodEvents')
<1>1. toBridge \in Seq(GoodEvents')
  BY GoodStays, SeqMonotonic DEF Queued
<1> QED
  BY <1>1, ConcatProperties

LEMMA RequestsStay ==
  ASSUME ParentAssumption, Grows, TypeOK, Queued,
         toParent' = toParent \/ (toParent # <<>> /\ toParent' = Tail(toParent))
  PROVE  toParent' \in Seq(GoodRequests')
<1>1. toParent \in Seq(GoodRequests')
  BY GoodStays, SeqMonotonic DEF Queued
<1>2. toParent # <<>> => Tail(toParent) \in Seq(GoodRequests')
  BY <1>1, HeadAndTail
<1> QED
  BY <1>1, <1>2

LEMMA RequestsAdded ==
  ASSUME ParentAssumption, Grows, TypeOK, Queued,
         NEW R \in Seq(GoodRequests'), toParent' = toParent \o R
  PROVE  toParent' \in Seq(GoodRequests')
<1>1. toParent \in Seq(GoodRequests')
  BY GoodStays, SeqMonotonic DEF Queued
<1> QED
  BY <1>1, ConcatProperties

\* The requests of wl_display, of the registry and of the bridge's objects.
LEMMA TripGood ==
  /\ Request("wl_display", "get_registry") \in GoodRequests'
  /\ Sync \in GoodRequests'
<1>1. ASSUME NEW n \in {"get_registry", "sync"}
      PROVE  Request("wl_display", n) \in GoodRequests'
  <2>1. n \in RequestNames
    BY DEF RequestNames
  <2>2. LET r == Request("wl_display", n)
        IN  r \in RequestKinds /\ r.object = "wl_display" /\ r.name = n
            /\ r.seat = NoSeat /\ r.makes = ""
    BY <2>1, RequestFields
  <2> QED
    BY <2>2 DEF GoodRequests, RequestOK
<1> QED
  BY <1>1 DEF Sync

LEMMA BindGood ==
  ASSUME NEW g \in Globals, NEW s \in Seats \cup {NoSeat}, s \in Seats <=> g = "wl_seat",
         version'[g] # 0
  PROVE  Bind(g, s) \in GoodRequests'
<1> DEFINE r == Bind(g, s)
<1>1. /\ r \in RequestKinds /\ IsBind(r) /\ r.makes = g /\ r.seat = s
      /\ r.makes \in Globals
  BY BindFields DEF IsBind
<1> HIDE DEF r
<1>2. r \in GoodRequests'
  BY <1>1 DEF GoodRequests, RequestOK
<1> QED
  BY <1>2 DEF r

LEMMA AskGood ==
  ASSUME NEW o \in Objects, NEW name \in RequestNames, Asked(o, name), version'[o] # 0
  PROVE  /\ Request(o, name) \in GoodRequests'
         /\ \A new \in Objects \ Devices : Make(o, name, new) \in GoodRequests'
<1>1. ASSUME NEW r \in RequestKinds, r.object = o, r.name = name, r.seat = NoSeat,
             r.makes \notin Devices
      PROVE  r \in GoodRequests'
  BY <1>1 DEF GoodRequests, RequestOK
<1>2. "" \notin Devices
  BY DEF Devices
<1>3. Request(o, name) \in GoodRequests'
  <2> DEFINE r == Request(o, name)
  <2>1. r \in RequestKinds /\ r.object = o /\ r.name = name /\ r.seat = NoSeat
        /\ r.makes \notin Devices
    BY <1>2, RequestFields
  <2> HIDE DEF r
  <2>2. r \in GoodRequests'
    BY <1>1, <2>1
  <2> QED
    BY <2>2 DEF r
<1>4. ASSUME NEW new \in Objects \ Devices PROVE Make(o, name, new) \in GoodRequests'
  <2> DEFINE r == Make(o, name, new)
  <2>1. r \in RequestKinds /\ r.object = o /\ r.name = name /\ r.seat = NoSeat
        /\ r.makes \notin Devices
    BY MakeFields
  <2> HIDE DEF r
  <2>2. r \in GoodRequests'
    BY <1>1, <2>1
  <2> QED
    BY <2>2 DEF r
<1> QED
  BY <1>3, <1>4

LEMMA GetDeviceGood ==
  ASSUME NEW d \in Devices, NEW s \in Seats, version'["wl_seat"] # 0, device'[d] = s
  PROVE  GetDevice(d, s) \in GoodRequests'
<1> DEFINE r == GetDevice(d, s)
<1>1. /\ r \in RequestKinds /\ r.object = "wl_seat" /\ Asked(r.object, r.name)
      /\ r.seat = s /\ r.makes = d
  BY GetDeviceFields
<1>2. "wl_seat" \in Objects
  BY DEF Objects, Globals
<1> HIDE DEF r
<1>3. r \in GoodRequests'
  BY <1>1, <1>2 DEF GoodRequests, RequestOK
<1> QED
  BY <1>3 DEF r

\* The head of a queue is a good message.
LEMMA HeadsGood ==
  ASSUME Queued
  PROVE  /\ toBridge # <<>> => /\ Head(toBridge) \in GoodEvents
                               /\ Head(toBridge) \in EventKinds /\ EventOK(Head(toBridge))
         /\ toParent # <<>> => /\ Head(toParent) \in GoodRequests
                               /\ Head(toParent) \in RequestKinds /\ RequestOK(Head(toParent))
BY HeadAndTail DEF Queued, GoodEvents, GoodRequests

-----------------------------------------------------------------------------
(* Every step keeps ConnectionInv                                          *)

LEMMA CapsTyped ==
  /\ TypeOK => Here \subseteq Seats /\ caps \in [Here -> SUBSET Devices]
  /\ \A S \in SUBSET Seats : [S -> SUBSET Devices]
                               \subseteq UNION {[T -> SUBSET Devices] : T \in SUBSET Seats}
BY DEF TypeOK, Here

LEMMA ConnectionInit ==
  ASSUME ParentAssumption, Init
  PROVE  ConnectionInv
<1>1. TypeOK
  <2>1. caps \in UNION {[T -> SUBSET Devices] : T \in SUBSET Seats}
    BY CapsTyped DEF Init
  <2> QED
    BY <2>1 DEF Init, TypeOK
<1>2. Queued
  BY DEF Init, Queued
<1>3. VersionsOK
  BY DEF Init, VersionsOK, Here
<1>4. TroubleOK
  BY DEF Init, TroubleOK
<1> QED
  BY <1>1, <1>2, <1>3, <1>4 DEF ConnectionInv

\* A step that changes no version and no device of the bridge.
LEMMA OnlyTalks ==
  ASSUME ConnectionInv, UNCHANGED <<version, device, offered>>,
         phase' = phase \/ phase' \notin {"window", "running"}
                        \/ (phase = "window" /\ phase' = "running"),
         TypeOK', TroubleOK', Queued',
         Here' # {} => offered["wl_seat"] # 0,
         knows' \cap Seats # {} => version["wl_seat"] # 0
  PROVE  ConnectionInv'
BY DEF ConnectionInv, VersionsOK, BoundAt

\* One that changes neither version nor device lets good messages be good.
LEMMA SameGrows ==
  ASSUME UNCHANGED <<version, device, offered>>
  PROVE  Grows
BY DEF Grows

LEMMA ConnectKeeps ==
  ASSUME ParentAssumption, ConnectionInv, Connect
  PROVE  ConnectionInv'
<1>1. Grows
  BY DEF Grows, Connect, parentVars
<1>2. toParent' \in Seq(GoodRequests')
  <2>1. <<Request("wl_display", "get_registry"), Sync>> \in Seq(GoodRequests')
    BY TripGood
  <2> QED
    BY <2>1 DEF Connect
<1>3. toBridge' \in Seq(GoodEvents')
  BY <1>1, GoodStays, SeqMonotonic DEF Queued, ConnectionInv, Connect
<1>4. TypeOK' /\ TroubleOK'
  BY DEF Connect, parentVars, ConnectionInv, TypeOK, TroubleOK
<1>5. VersionsOK'
  BY DEF Connect, parentVars, ConnectionInv, VersionsOK, BoundAt, Here
<1> QED
  BY <1>2, <1>3, <1>4, <1>5 DEF ConnectionInv, Queued

LEMMA RegistryGlobalKeeps ==
  ASSUME ParentAssumption, ConnectionInv, RegistryGlobal
  PROVE  ConnectionInv'
<1> DEFINE e == Head(toBridge)
           g == e.global
<1>0. TypeOK /\ Queued /\ VersionsOK /\ TroubleOK
  BY DEF ConnectionInv
<1>1. /\ toBridge # <<>> /\ toBridge' = Tail(toBridge) /\ IsGlobal(e)
      /\ version' = [version EXCEPT ![g] = BindVersion(g, offered[g])]
      /\ toParent' = toParent \o <<Bind(g, e.seat)>>
      /\ seat' = (IF g = "wl_seat" THEN e.seat ELSE seat)
      /\ unheard' = IF g = "wl_seat" /\ phase = "globals" THEN unheard \cup {e.seat} ELSE unheard
      /\ UNCHANGED <<phase, device, offered, caps, knows, trouble>>
  BY DEF RegistryGlobal, Hears, Asks, IsGlobal, parentVars
<1>2. /\ e \in EventKinds /\ g \in Globals /\ offered[g] # 0
      /\ e.seat \in Seats \cup {NoSeat} /\ (e.seat \in Seats <=> g = "wl_seat")
  BY <1>0, <1>1, HeadsGood DEF EventOK, EventKinds
<1>3. offered \in [Globals -> Nat] /\ Globals \subseteq Objects /\ "wl_registry" \notin Globals
  BY <1>0, ParentAssumption DEF TypeOK, Objects, Globals, Needed
<1>4. /\ BindVersion(g, offered[g]) \in Nat /\ BindVersion(g, offered[g]) # 0
      /\ BoundAt(g) = BindVersion(g, offered[g])
  BY <1>2, <1>3, BindVersionOf, GlobalOfObject DEF BoundAt
<1>5. /\ version' \in [Objects -> Nat] /\ version'[g] = BoundAt(g)
      /\ \A o \in Objects : o # g => version'[o] = version[o]
  BY <1>0, <1>1, <1>2, <1>3, <1>4 DEF TypeOK
<1>6. \A o \in Objects : version[o] # 0 => version[o] = BoundAt(o)
  BY <1>0 DEF VersionsOK
<1>7. Grows
  BY <1>1, <1>5, <1>6 DEF Grows
<1>8. Queued'
  <2>1. Bind(g, e.seat) \in GoodRequests'
    BY <1>2, <1>4, <1>5, BindGood
  <2>2. <<Bind(g, e.seat)>> \in Seq(GoodRequests')
    BY <2>1
  <2> QED
    BY <1>0, <1>1, <1>7, <2>2, EventsStay, RequestsAdded DEF Queued
<1>9. TypeOK'
  BY <1>0, <1>1, <1>2, <1>5 DEF TypeOK
<1>10. VersionsOK'
  <2>1. \A o \in Objects : version'[o] # 0 => o # "wl_registry" /\ version'[o] = BoundAt(o)'
    BY <1>0, <1>1, <1>2, <1>3, <1>5 DEF VersionsOK, BoundAt
  <2>2. \A o \in Objects : version[o] # 0 => version'[o] # 0
    BY <1>4, <1>5
  <2>3. Devices \subseteq Objects /\ Needed \cup Windows \subseteq Objects /\ "wl_seat" \in Objects
    BY DEF Objects, Globals
  <2>4. Here' = Here
    BY <1>1 DEF Here
  <2> QED
    BY <1>0, <1>1, <2>1, <2>2, <2>3, <2>4 DEF VersionsOK
<1>11. TroubleOK'
  BY <1>0, <1>1 DEF TroubleOK
<1> QED
  BY <1>8, <1>9, <1>10, <1>11 DEF ConnectionInv

LEMMA RegistryRemoveKeeps ==
  ASSUME ParentAssumption, ConnectionInv, RegistryRemove
  PROVE  ConnectionInv'
<1>1. /\ toBridge # <<>> /\ toBridge' = Tail(toBridge)
      /\ UNCHANGED <<phase, version, device, unheard, seat, offered, caps, knows, trouble,
                    toParent>>
  BY DEF RegistryRemove, Hears, parentVars, bridgeVars
<1>2. TypeOK' /\ TroubleOK'
  BY <1>1 DEF ConnectionInv, TypeOK, TroubleOK
<1>3. Queued'
  BY <1>1, SameGrows, EventsStay, RequestsStay DEF ConnectionInv, Queued
<1> QED
  BY <1>1, <1>2, <1>3, OnlyTalks DEF ConnectionInv, VersionsOK, Here

LEMMA PingKeeps ==
  ASSUME ParentAssumption, ConnectionInv, Ping \/ Configured
  PROVE  ConnectionInv'
<1> DEFINE o == Head(toBridge).object
<1>1. PICK name \in {"pong", "ack_configure"} :
        /\ toBridge # <<>> /\ toBridge' = Tail(toBridge)
        /\ toParent' = toParent \o <<Request(o, name)>> /\ Asked(o, name)
        /\ o \in Objects \ {"wl_registry"}
        /\ UNCHANGED <<phase, version, device, unheard, seat, offered, caps, knows, trouble>>
  <2>1. CASE Ping
    BY <2>1 DEF Ping, Hears, Asks, parentVars, bridgeVars, Asked, Objects, Globals, Needed
  <2>2. CASE Configured
    BY <2>2 DEF Configured, Hears, Asks, parentVars, bridgeVars, Asked, Objects, Windows
  <2> QED
    BY <2>1, <2>2
<1>2. TypeOK' /\ TroubleOK'
  BY <1>1 DEF ConnectionInv, TypeOK, TroubleOK
<1>3. Queued'
  <2>1. version[o] # 0
    BY <1>1, HeadsGood DEF ConnectionInv, EventOK
  <2>2. name \in RequestNames
    BY DEF RequestNames
  <2>3. Request(o, name) \in GoodRequests'
    BY <1>1, <2>1, <2>2, AskGood
  <2>4. <<Request(o, name)>> \in Seq(GoodRequests')
    BY <2>3
  <2> QED
    BY <1>1, <2>4, SameGrows, EventsStay, RequestsAdded DEF ConnectionInv, Queued
<1> QED
  BY <1>1, <1>2, <1>3, OnlyTalks DEF ConnectionInv, VersionsOK, Here

\* The devices asked for are at most two.
LEMMA DeviceList ==
  ASSUME NEW D \in SUBSET Devices, NEW s
  PROVE  IsFiniteSet({GetDevice(d, s) : d \in D})
<1>1. IsFiniteSet({GetDevice("wl_pointer", s), GetDevice("wl_keyboard", s)})
  <2>1. IsFiniteSet({GetDevice("wl_keyboard", s)})
    BY FS_Singleton
  <2>2. IsFiniteSet({GetDevice("wl_keyboard", s)} \cup {GetDevice("wl_pointer", s)})
    BY <2>1, FS_AddElement
  <2>3. {GetDevice("wl_keyboard", s)} \cup {GetDevice("wl_pointer", s)}
          = {GetDevice("wl_pointer", s), GetDevice("wl_keyboard", s)}
    OBVIOUS
  <2> QED
    BY <2>2, <2>3
<1>2. {GetDevice(d, s) : d \in D}
        \subseteq {GetDevice("wl_pointer", s), GetDevice("wl_keyboard", s)}
  BY DEF Devices
<1> QED
  BY <1>1, <1>2, FS_Subset

LEMMA SeatCapsKeeps ==
  ASSUME ParentAssumption, ConnectionInv, SeatCaps
  PROVE  ConnectionInv'
<1> DEFINE e == Head(toBridge)
           new == NewDevices(e.caps)
           asks == {GetDevice(d, e.seat) : d \in new}
<1>0. TypeOK /\ Queued /\ VersionsOK /\ TroubleOK
  BY DEF ConnectionInv
<1>1. /\ toBridge # <<>> /\ toBridge' = Tail(toBridge) /\ IsCaps(e)
      /\ device' = [d \in Devices |-> IF d \in new THEN e.seat ELSE device[d]]
      /\ version' = [o \in Objects |-> IF o \in new THEN version["wl_seat"] ELSE version[o]]
      /\ toParent' = toParent \o SetToSeq(asks)
      /\ unheard' = unheard \ {e.seat}
      /\ UNCHANGED <<phase, seat, offered, caps, knows, trouble>>
  BY DEF SeatCaps, Hears, Asks, IsCaps, parentVars
<1>2. /\ e.seat \in Seats /\ version["wl_seat"] # 0 /\ e.caps \in SUBSET Devices
      /\ new \subseteq Devices /\ \A d \in new : device[d] = NoSeat
  <2>1. e \in EventKinds /\ EventOK(e)
    BY <1>0, <1>1, HeadsGood
  <2>2. "wl_seat" \in Objects \ {"wl_registry"}
    BY DEF Objects, Globals
  <2> QED
    BY <1>1, <2>1, <2>2 DEF EventOK, EventKinds, IsCaps, NewDevices
<1>3. /\ "wl_seat" \in Objects /\ "wl_seat" \notin Devices /\ Devices \subseteq Objects
      /\ Needed \cup Windows \subseteq Objects
      /\ "wl_registry" \notin Devices /\ e.seat # NoSeat
  BY <1>2, ParentAssumption DEF Objects, Globals, Devices
<1>4. \A d \in Devices : BoundAt(d) = version["wl_seat"]
  <2>1. version["wl_seat"] = BoundAt("wl_seat")
    BY <1>0, <1>2, <1>3 DEF VersionsOK
  <2>2. GlobalOf("wl_seat") = "wl_seat" /\ \A d \in Devices : GlobalOf(d) = "wl_seat"
    BY GlobalOfObject, <1>3 DEF Globals
  <2> QED
    BY <2>1, <2>2 DEF BoundAt
<1>5. /\ \A o \in Objects : version'[o] = IF o \in new THEN version["wl_seat"] ELSE version[o]
      /\ \A d \in Devices : device'[d] = IF d \in new THEN e.seat ELSE device[d]
      /\ version' \in [Objects -> Nat] /\ device' \in [Devices -> Seats \cup {NoSeat}]
  <2>1. version["wl_seat"] \in Nat
    BY <1>0, <1>3 DEF TypeOK
  <2> QED
    BY <1>0, <1>1, <1>2, <2>1 DEF TypeOK
<1> HIDE DEF new, e
<1>6. Grows
  <2>1. \A o \in Objects : version[o] # 0 => version'[o] = version[o]
    BY <1>0, <1>2, <1>4, <1>5 DEF VersionsOK
  <2>2. \A d \in Devices : device[d] # NoSeat => device'[d] = device[d]
    BY <1>2, <1>5
  <2> QED
    BY <1>1, <2>1, <2>2 DEF Grows
<1>7. Queued'
  <2>1. \A d \in new : GetDevice(d, e.seat) \in GoodRequests'
    <3> SUFFICES ASSUME NEW d \in new PROVE GetDevice(d, e.seat) \in GoodRequests'
      OBVIOUS
    <3>1. d \in Devices /\ version'["wl_seat"] # 0 /\ device'[d] = e.seat
      BY <1>2, <1>3, <1>5
    <3> QED
      BY <1>2, <3>1, GetDeviceGood
  <2>2. asks \subseteq GoodRequests'
    BY <2>1
  <2>3. SetToSeq(asks) \in Seq(asks)
    <3>1. IsFiniteSet(asks)
      <4>1. new \in SUBSET Devices
        BY <1>2
      <4> QED
        BY <4>1, DeviceList
    <3> HIDE DEF asks
    <3> QED
      BY <3>1, ListOfSet
  <2>4. SetToSeq(asks) \in Seq(GoodRequests')
    BY <2>2, <2>3, SeqMonotonic
  <2> HIDE DEF asks
  <2> QED
    BY <1>0, <1>1, <1>6, <2>4, EventsStay, RequestsAdded DEF Queued
<1>8. TypeOK'
  BY <1>0, <1>1, <1>5 DEF TypeOK
<1>9. VersionsOK'
  <2>1. \A o \in Objects : version'[o] # 0 => o # "wl_registry" /\ version'[o] = BoundAt(o)'
    BY <1>0, <1>1, <1>2, <1>3, <1>4, <1>5 DEF VersionsOK, BoundAt
  <2>2. \A o \in Objects : version[o] # 0 => version'[o] # 0
    BY <1>2, <1>5
  <2>3. \A d \in Devices : device'[d] # NoSeat => version'[d] # 0
    BY <1>0, <1>2, <1>3, <1>5, <2>2 DEF VersionsOK
  <2>4. Here' = Here
    BY <1>1 DEF Here
  <2> QED
    BY <1>0, <1>1, <1>3, <2>1, <2>2, <2>3, <2>4 DEF VersionsOK
<1>10. TroubleOK'
  BY <1>0, <1>1 DEF TroubleOK
<1> QED
  BY <1>7, <1>8, <1>9, <1>10 DEF ConnectionInv

\* Before the bridge connects nothing is in flight, and the parent knows nothing of it.
LEMMA StartKeeps ==
  ASSUME StartOK, [Next]_vars
  PROVE  StartOK'
<1> SUFFICES ASSUME phase' = "connect"
             PROVE  knows' = {} /\ toBridge' = <<>> /\ toParent' = <<>>
  BY DEF StartOK
<1>1. CASE Connect \/ RoundTrip
  BY <1>1 DEF Connect, RoundTrip, AfterGlobals
<1>2. CASE \/ RegistryGlobal \/ RegistryRemove \/ SeatCaps \/ Ping \/ Configured \/ OtherEvent
  BY <1>2 DEF RegistryGlobal, RegistryRemove, SeatCaps, Ping, Configured, OtherEvent, Hears,
              bridgeVars, StartOK
<1>3. CASE StageBuffer \/ RelayRequest
  BY <1>3 DEF StageBuffer, RelayRequest, bridgeVars
<1>4. CASE Announces \/ Answers \/ BindDone \/ HandleRequest
  BY <1>4 DEF Announces, Answers, BindDone, HandleRequest, Handles, bridgeVars, StartOK
<1>5. CASE ParentEvent
  BY <1>5 DEF ParentEvent, bridgeVars, StartOK
<1>6. CASE \E s \in Seats : CapsChange(s) \/ SeatAppears(s) \/ SeatRemoved(s)
  BY <1>6 DEF CapsChange, SeatAppears, SeatRemoved, bridgeVars, StartOK
<1>7. CASE UNCHANGED vars
  BY <1>7 DEF vars, bridgeVars, parentVars, StartOK
<1> QED
  BY <1>1, <1>2, <1>3, <1>4, <1>5, <1>6, <1>7 DEF Next

LEMMA RoundTripKeeps ==
  ASSUME ParentAssumption, ConnectionInv, StartOK, RoundTrip
  PROVE  ConnectionInv'
<1> DEFINE made == <<Make("wl_compositor", "create_surface", "wl_surface"),
                     Make("xdg_wm_base", "get_xdg_surface", "xdg_surface"),
                     Make("xdg_surface", "get_toplevel", "xdg_toplevel"),
                     Request("xdg_toplevel", "set_title"), Request("xdg_toplevel", "set_app_id"),
                     Request("xdg_toplevel", "set_fullscreen"), Request("wl_surface", "commit"),
                     Sync>>
<1>0. TypeOK /\ Queued /\ VersionsOK /\ TroubleOK
  BY DEF ConnectionInv
<1>1. /\ toBridge # <<>> /\ toBridge' = Tail(toBridge) /\ phase # "failed"
      /\ UNCHANGED <<seat, device, unheard, offered, caps, knows, trouble>>
  BY DEF RoundTrip, Hears, Running, parentVars
<1>2. \/ phase = "globals" /\ phase' = "seats"
      \/ phase = "seats" /\ phase' = "window" /\ \A g \in Needed : version[g] # 0
      \/ phase = "seats" /\ phase' = "failed"
      \/ phase' = "running" /\ phase \notin {"globals", "seats"}
  BY DEF RoundTrip, AfterGlobals
<1>3. CASE phase' = "seats"
  <2>1. toParent' = toParent \o <<Sync>> /\ version' = version
    BY <1>3 DEF RoundTrip, Asks
  <2>2. <<Sync>> \in Seq(GoodRequests')
    BY TripGood
  <2>3. Queued'
    BY <1>0, <1>1, <2>1, <2>2, SameGrows, EventsStay, RequestsAdded DEF Queued
  <2>4. TypeOK' /\ TroubleOK'
    BY <1>0, <1>1, <1>3, <2>1 DEF TypeOK, TroubleOK
  <2> QED
    BY <1>0, <1>1, <1>3, <2>1, <2>3, <2>4, OnlyTalks DEF VersionsOK, Here
<1>4. CASE phase' = "failed" \/ phase' = "running"
  <2>1. UNCHANGED <<version, toParent>>
    BY <1>2, <1>4 DEF RoundTrip
  <2>2. Queued'
    BY <1>0, <1>1, <2>1, SameGrows, EventsStay, RequestsStay DEF Queued
  <2>3. TypeOK' /\ TroubleOK'
    BY <1>0, <1>1, <1>4, <2>1 DEF TypeOK, TroubleOK
  <2>4. phase' = "running" => phase \in {"window", "running", "connect"}
    BY <1>0, <1>1, <1>2 DEF TypeOK
  <2>5. phase # "connect"
    BY <1>1 DEF StartOK
  <2> QED
    BY <1>0, <1>1, <1>4, <2>1, <2>2, <2>3, <2>4, <2>5, OnlyTalks DEF VersionsOK, Here
<1>5. CASE phase' = "window"
  <2>1. /\ toParent' = toParent \o made
        /\ version' = [o \in Objects |-> CASE o = "wl_surface" -> version["wl_compositor"]
                                           [] o \in {"xdg_surface", "xdg_toplevel"} ->
                                                version["xdg_wm_base"]
                                           [] OTHER -> version[o]]
    BY <1>5 DEF RoundTrip, MakeWindow, Asks
  <2>2. /\ \A o \in Needed : version[o] # 0
        /\ Needed \cup Windows \subseteq Objects /\ Devices \subseteq Objects
        /\ "wl_seat" \in Objects
    BY <1>2, <1>5 DEF Objects, Globals
  <2>3. /\ version' \in [Objects -> Nat]
        /\ version'["wl_surface"] = version["wl_compositor"]
        /\ version'["xdg_surface"] = version["xdg_wm_base"]
        /\ version'["xdg_toplevel"] = version["xdg_wm_base"]
        /\ \A o \in Objects : o \notin Windows => version'[o] = version[o]
    BY <1>0, <2>1, <2>2 DEF TypeOK, Needed, Windows
  <2>4. /\ BoundAt("wl_surface") = version["wl_compositor"]
        /\ BoundAt("xdg_surface") = version["xdg_wm_base"]
        /\ BoundAt("xdg_toplevel") = version["xdg_wm_base"]
    <3>1. /\ version["wl_compositor"] = BoundAt("wl_compositor")
          /\ version["xdg_wm_base"] = BoundAt("xdg_wm_base")
      BY <1>0, <2>2 DEF VersionsOK, Needed
    <3> QED
      BY <3>1 DEF BoundAt, GlobalOf, Devices
  <2>5. \A o \in Windows : o # "wl_registry" /\ version'[o] = BoundAt(o)
    BY <2>3, <2>4 DEF Windows
  <2>6. Grows
    <3>1. \A o \in Objects : version[o] # 0 => version'[o] = version[o]
      BY <1>0, <2>3, <2>5 DEF VersionsOK
    <3> QED
      BY <1>1, <3>1 DEF Grows
  <2>7. \A o \in Needed \cup Windows : version'[o] # 0
    BY <2>2, <2>3 DEF Needed, Windows
  <2>8. made \in Seq(GoodRequests')
    <3>1. /\ Make("wl_compositor", "create_surface", "wl_surface") \in GoodRequests'
          /\ Make("xdg_wm_base", "get_xdg_surface", "xdg_surface") \in GoodRequests'
          /\ Make("xdg_surface", "get_toplevel", "xdg_toplevel") \in GoodRequests'
      <4>1. \A o \in Needed \cup Windows, name \in RequestNames, new \in Windows :
              Asked(o, name) => Make(o, name, new) \in GoodRequests'
        <5>1. Windows \subseteq Objects \ Devices
          BY DEF Objects, Windows, Devices
        <5> QED
          BY <2>2, <2>7, <5>1, AskGood
      <4> QED
        BY <4>1 DEF Asked, Needed, Windows, RequestNames
    <3>2. /\ Request("xdg_toplevel", "set_title") \in GoodRequests'
          /\ Request("xdg_toplevel", "set_app_id") \in GoodRequests'
          /\ Request("xdg_toplevel", "set_fullscreen") \in GoodRequests'
          /\ Request("wl_surface", "commit") \in GoodRequests'
      <4>1. \A o \in Windows, name \in RequestNames :
              Asked(o, name) => Request(o, name) \in GoodRequests'
        BY <2>2, <2>7, AskGood
      <4> QED
        BY <4>1 DEF Asked, Windows, RequestNames
    <3> QED
      BY <3>1, <3>2, TripGood
  <2> HIDE DEF made
  <2>9. Queued'
    BY <1>0, <1>1, <2>1, <2>6, <2>8, EventsStay, RequestsAdded DEF Queued
  <2>10. TypeOK' /\ TroubleOK'
    BY <1>0, <1>1, <1>5, <2>3 DEF TypeOK, TroubleOK
  <2>11. VersionsOK'
    <3>1. \A o \in Objects : version'[o] # 0 => o # "wl_registry" /\ version'[o] = BoundAt(o)'
      BY <1>0, <1>1, <2>3, <2>5 DEF VersionsOK, BoundAt
    <3>2. \A d \in Devices : device'[d] # NoSeat => version'[d] # 0
      BY <1>0, <1>1, <2>2, <2>6 DEF VersionsOK, Grows
    <3>3. knows' \cap Seats # {} => version'["wl_seat"] # 0
      BY <1>0, <1>1, <2>2, <2>6 DEF VersionsOK, Grows
    <3>4. Here' = Here
      BY <1>1 DEF Here
    <3> QED
      BY <1>0, <1>1, <2>7, <3>1, <3>2, <3>3, <3>4 DEF VersionsOK
  <2> QED
    BY <2>9, <2>10, <2>11 DEF ConnectionInv
<1> QED
  BY <1>2, <1>3, <1>4, <1>5

\* The events the parent sends are good ones.
LEMMA EventGood ==
  ASSUME NEW o \in Objects \ {"wl_registry"}, NEW name \in EventNames, name # "capabilities",
         Takes(o, name), version'[o] # 0
  PROVE  Event(o, name) \in GoodEvents'
<1> DEFINE e == Event(o, name)
<1>1. e \in EventKinds /\ e.object = o /\ e.name = name /\ e.seat = NoSeat /\ e.caps = {}
  BY EventFields
<1> HIDE DEF e
<1>2. e \in GoodEvents'
  BY <1>1 DEF GoodEvents, EventOK, IsGlobal, IsCaps, Takes
<1> QED
  BY <1>2 DEF e

LEMMA OwnEventsGood ==
  /\ Done \in GoodEvents'
  /\ Event("wl_registry", "global_remove") \in GoodEvents'
<1>1. ASSUME NEW e \in EventKinds, Takes(e.object, e.name), e.seat = NoSeat, e.caps = {},
             \/ e.object = "sync"
             \/ e.object = "wl_registry" /\ e.name = "global_remove"
      PROVE  e \in GoodEvents'
  <2>1. e.object \notin Objects \ {"wl_registry"} /\ ~IsGlobal(e) /\ ~IsCaps(e)
    BY <1>1 DEF IsGlobal, IsCaps, Objects, Globals, Needed, Devices, Windows
  <2> QED
    BY <1>1, <2>1 DEF GoodEvents, EventOK, IsGlobal, IsCaps, Takes
<1>2. Done \in GoodEvents'
  <2> DEFINE e == Event("sync", "done")
  <2>1. "done" \in EventNames
    BY DEF EventNames
  <2>2. e \in EventKinds /\ e.object = "sync" /\ e.name = "done" /\ e.seat = NoSeat /\ e.caps = {}
    BY <2>1 DEF Event, EventKinds
  <2>3. Takes("sync", "done")
    BY ListenerSets DEF Takes
  <2> HIDE DEF e
  <2>4. e \in GoodEvents'
    BY <1>1, <2>2, <2>3
  <2> QED
    BY <2>4 DEF e, Done
<1>3. Event("wl_registry", "global_remove") \in GoodEvents'
  <2> DEFINE e == Event("wl_registry", "global_remove")
  <2>1. "global_remove" \in EventNames /\ "wl_registry" \in Objects
    BY DEF EventNames, Objects
  <2>2. /\ e \in EventKinds /\ e.object = "wl_registry" /\ e.name = "global_remove"
        /\ e.seat = NoSeat /\ e.caps = {}
    BY <2>1 DEF Event, EventKinds
  <2>3. Takes("wl_registry", "global_remove")
    BY ListenerSets DEF Takes
  <2> HIDE DEF e
  <2>4. e \in GoodEvents'
    BY <1>1, <2>2, <2>3
  <2> QED
    BY <2>4 DEF e
<1> QED
  BY <1>2, <1>3

LEMMA GlobalGood ==
  ASSUME NEW g \in Globals, NEW s \in Seats \cup {NoSeat}, s \in Seats <=> g = "wl_seat",
         offered'[g] # 0
  PROVE  GlobalEvent(g, s) \in GoodEvents'
<1> DEFINE e == GlobalEvent(g, s)
<1>1. /\ e \in EventKinds /\ e.object = "wl_registry" /\ e.name = "global"
      /\ e.seat = s /\ e.global = g /\ e.caps = {}
  BY GlobalEventFields
<1>2. Takes("wl_registry", "global")
  BY ListenerSets DEF Takes
<1> HIDE DEF e
<1>3. IsGlobal(e) /\ ~IsCaps(e)
  BY <1>1 DEF IsGlobal, IsCaps
<1>4. e \in GoodEvents'
  BY <1>1, <1>2, <1>3 DEF GoodEvents, EventOK, IsGlobal, IsCaps, Takes
<1> QED
  BY <1>4 DEF e

LEMMA CapsGood ==
  ASSUME NEW s \in Seats, NEW c \in SUBSET Devices, version'["wl_seat"] # 0
  PROVE  CapsEvent(s, c) \in GoodEvents'
<1> DEFINE e == CapsEvent(s, c)
<1>1. /\ e \in EventKinds /\ e.object = "wl_seat" /\ e.name = "capabilities" /\ e.seat = s
  BY CapsEventFields
<1>2. Takes("wl_seat", "capabilities")
  BY ListenerSets DEF Takes
<1> HIDE DEF e
<1>3. e \in GoodEvents'
  BY <1>1, <1>2 DEF GoodEvents, EventOK, IsGlobal, IsCaps, Takes
<1> QED
  BY <1>3 DEF e

LEMMA OtherEventKeeps ==
  ASSUME ParentAssumption, ConnectionInv, OtherEvent
  PROVE  ConnectionInv'
<1> DEFINE e == Head(toBridge)
<1>1. /\ toBridge # <<>> /\ toBridge' = Tail(toBridge)
      /\ trouble' = IF Takes(e.object, e.name) THEN {} ELSE {<<"event", e.object, e.name>>}
      /\ UNCHANGED <<phase, version, device, unheard, seat, offered, caps, knows, toParent>>
  BY DEF OtherEvent, parentVars, bridgeVars
<1>2. trouble' = {}
  BY <1>1, HeadsGood DEF ConnectionInv, EventOK
<1>3. TypeOK' /\ TroubleOK'
  BY <1>1, <1>2 DEF ConnectionInv, TypeOK, TroubleOK
<1>4. Queued'
  BY <1>1, SameGrows, EventsStay, RequestsStay DEF ConnectionInv, Queued
<1> QED
  BY <1>1, <1>3, <1>4, OnlyTalks DEF ConnectionInv, VersionsOK, Here

LEMMA StageBufferKeeps ==
  ASSUME ParentAssumption, ConnectionInv, StageBuffer
  PROVE  ConnectionInv'
<1> DEFINE asks == <<Make("wl_shm", "create_pool", "wl_buffer"), Request("wl_surface", "attach"),
                     Request("wl_surface", "damage_buffer"),
                     Make("wl_surface", "frame", "wl_callback"), Request("wl_surface", "commit")>>
<1>0. TypeOK /\ Queued /\ VersionsOK /\ TroubleOK
  BY DEF ConnectionInv
<1>1. /\ phase = "running"
      /\ version' = [version EXCEPT !["wl_buffer"] = version["wl_shm"],
                                    !["wl_callback"] = version["wl_surface"]]
      /\ toParent' = toParent \o asks
      /\ UNCHANGED <<phase, seat, device, unheard, offered, caps, knows, toBridge, trouble>>
  BY DEF StageBuffer, Asks, parentVars
<1>2. /\ {"wl_shm", "wl_surface", "wl_buffer", "wl_callback", "wl_seat"} \subseteq Objects
      /\ version["wl_shm"] # 0 /\ version["wl_surface"] # 0
      /\ Needed \cup Windows \subseteq Objects /\ Devices \subseteq Objects
      /\ {"wl_buffer", "wl_callback"} \cap (Needed \cup Windows \cup Devices \cup {"wl_seat"}) = {}
  BY <1>0, <1>1 DEF VersionsOK, Objects, Globals, Needed, Windows, Devices
<1>3. /\ version' \in [Objects -> Nat]
      /\ version'["wl_buffer"] = version["wl_shm"]
       /\ version'["wl_callback"] = version["wl_surface"]
      /\ \A o \in Objects \ {"wl_buffer", "wl_callback"} : version'[o] = version[o]
  BY <1>0, <1>1, <1>2 DEF TypeOK
<1>4. /\ BoundAt("wl_buffer") = version["wl_shm"] /\ BoundAt("wl_callback") = version["wl_surface"]
  <2>1. version["wl_shm"] = BoundAt("wl_shm") /\ version["wl_surface"] = BoundAt("wl_surface")
    BY <1>0, <1>2 DEF VersionsOK
  <2> QED
    BY <2>1 DEF BoundAt, GlobalOf, Devices
<1>5. \A o \in Objects : version'[o] # 0 => o # "wl_registry" /\ version'[o] = BoundAt(o)
  BY <1>0, <1>3, <1>4 DEF VersionsOK
<1>6. \A o \in Objects : version[o] # 0 => version'[o] = version[o]
  BY <1>0, <1>3, <1>4 DEF VersionsOK
<1>7. Grows
  BY <1>1, <1>6 DEF Grows
<1>8. Queued'
  <2>1. version'["wl_shm"] # 0 /\ version'["wl_surface"] # 0
    BY <1>2, <1>6
  <2>2. {"wl_buffer", "wl_callback"} \subseteq Objects \ Devices
    BY <1>2
  <2>3. /\ {"create_pool", "attach", "damage_buffer", "frame", "commit"} \subseteq RequestNames
        /\ Asked("wl_shm", "create_pool") /\ Asked("wl_surface", "attach")
        /\ Asked("wl_surface", "damage_buffer") /\ Asked("wl_surface", "frame")
        /\ Asked("wl_surface", "commit")
    BY DEF RequestNames, Asked
  <2>4. Make("wl_shm", "create_pool", "wl_buffer") \in GoodRequests'
    BY <1>2, <2>1, <2>2, <2>3, AskGood
  <2>5. Make("wl_surface", "frame", "wl_callback") \in GoodRequests'
    BY <1>2, <2>1, <2>2, <2>3, AskGood
  <2>6. /\ Request("wl_surface", "attach") \in GoodRequests'
        /\ Request("wl_surface", "damage_buffer") \in GoodRequests'
        /\ Request("wl_surface", "commit") \in GoodRequests'
    BY <1>2, <2>1, <2>3, AskGood
  <2>7. asks \in Seq(GoodRequests')
    BY <2>4, <2>5, <2>6
  <2> HIDE DEF asks
  <2> QED
    BY <1>0, <1>1, <1>7, <2>7, EventsStay, RequestsAdded DEF Queued
<1>9. TypeOK' /\ TroubleOK'
  BY <1>0, <1>1, <1>3 DEF TypeOK, TroubleOK
<1>10. VersionsOK'
  <2>1. \A o \in Objects : version'[o] # 0 => o # "wl_registry" /\ version'[o] = BoundAt(o)'
    BY <1>1, <1>5 DEF BoundAt
  <2>2. \A o \in Needed \cup Windows \cup Devices \cup {"wl_seat"} :
          version[o] # 0 => version'[o] # 0
    BY <1>2, <1>3
  <2>3. Here' = Here
    BY <1>1 DEF Here
  <2> QED
    BY <1>0, <1>1, <2>1, <2>2, <2>3 DEF VersionsOK
<1> QED
  BY <1>8, <1>9, <1>10 DEF ConnectionInv

LEMMA RelayRequestKeeps ==
  ASSUME ParentAssumption, ConnectionInv, RelayRequest
  PROVE  ConnectionInv'
<1>0. TypeOK /\ Queued /\ VersionsOK /\ TroubleOK
  BY DEF ConnectionInv
<1>1. /\ phase = "running"
      /\ UNCHANGED <<phase, version, device, unheard, seat, offered, caps, knows, toBridge,
                    trouble>>
  BY DEF RelayRequest, parentVars, bridgeVars
<1>2. PICK o \in {"wl_pointer", "xdg_toplevel"},
                name \in {"set_cursor", "set_title", "set_app_id"} :
        /\ toParent' = toParent \o <<Request(o, name)>> /\ Asked(o, name)
        /\ o = "wl_pointer" => device[o] # NoSeat
  BY DEF RelayRequest, Asks, Asked
<1>3. o \in Objects /\ name \in RequestNames /\ o \in Devices \cup Windows
  BY DEF Objects, Devices, Windows, RequestNames
<1>4. version[o] # 0
  <2>1. o = "wl_pointer" => o \in Devices
    BY DEF Devices
  <2>2. o = "xdg_toplevel" => o \in Windows
    BY DEF Windows
  <2> QED
    BY <1>0, <1>1, <1>2, <2>1, <2>2 DEF VersionsOK
<1>5. Queued'
  <2>1. Request(o, name) \in GoodRequests'
    BY <1>1, <1>2, <1>3, <1>4, AskGood
  <2>2. <<Request(o, name)>> \in Seq(GoodRequests')
    BY <2>1
  <2> QED
    BY <1>0, <1>1, <1>2, <2>2, SameGrows, EventsStay, RequestsAdded DEF Queued
<1>6. TypeOK' /\ TroubleOK'
  BY <1>0, <1>1 DEF TypeOK, TroubleOK
<1> QED
  BY <1>0, <1>1, <1>5, <1>6, OnlyTalks DEF VersionsOK, Here

\* The parent announces finitely many globals.
LEMMA AnnouncedFinite ==
  ASSUME ParentAssumption, TypeOK,
         NEW found, found = {GlobalEvent(g, NoSeat) : g \in {n \in Needed : offered[n] # 0}}
                              \cup {GlobalEvent("wl_seat", s) : s \in Here}
  PROVE  IsFiniteSet(found)
<1> DEFINE globals == {GlobalEvent(g, NoSeat) : g \in {n \in Needed : offered[n] # 0}}
           three == {GlobalEvent("wl_compositor", NoSeat)} \cup {GlobalEvent("wl_shm", NoSeat)}
                      \cup {GlobalEvent("xdg_wm_base", NoSeat)}
           seats == {GlobalEvent("wl_seat", s) : s \in Here}
           f == [s \in Here |-> GlobalEvent("wl_seat", s)]
<1>1. IsFiniteSet(three)
  <2> DEFINE two == {GlobalEvent("wl_compositor", NoSeat)} \cup {GlobalEvent("wl_shm", NoSeat)}
  <2>1. IsFiniteSet({GlobalEvent("wl_compositor", NoSeat)})
    BY FS_Singleton
  <2>2. IsFiniteSet(two)
    BY <2>1, FS_AddElement
  <2> HIDE DEF two
  <2>3. IsFiniteSet(two \cup {GlobalEvent("xdg_wm_base", NoSeat)})
    BY <2>2, FS_AddElement
  <2> QED
    BY <2>3 DEF two
<1>2. IsFiniteSet(globals)
  <2>1. globals \in SUBSET three
    BY DEF Needed
  <2> QED
    BY <1>1, <2>1, FS_Subset
<1>3. IsFiniteSet(Here)
  BY CapsTyped, FS_Subset, ParentAssumption
<1>4. IsFiniteSet(seats)
  <2>1. f \in Surjection(Here, seats)
    BY DEF Surjection
  <2> HIDE DEF f, seats
  <2> QED
    BY <1>3, <2>1, FS_Surjection
<1>5. found = globals \cup seats
  OBVIOUS
<1> HIDE DEF globals, seats
<1>6. IsFiniteSet(globals \cup seats)
  BY <1>2, <1>4, FS_Union
<1> QED
  BY <1>5, <1>6

LEMMA AnnouncesKeeps ==
  ASSUME ParentAssumption, ConnectionInv, Announces
  PROVE  ConnectionInv'
<1> DEFINE found == {GlobalEvent(g, NoSeat) : g \in {n \in Needed : offered[n] # 0}}
                      \cup {GlobalEvent("wl_seat", s) : s \in Here}
<1>0. TypeOK /\ Queued /\ VersionsOK /\ TroubleOK
  BY DEF ConnectionInv
<1>1. /\ toParent # <<>> /\ toParent' = Tail(toParent)
      /\ toBridge' = toBridge \o SetToSeq(found)
      /\ knows' = knows \cup {"wl_registry"}
      /\ UNCHANGED <<phase, version, device, unheard, seat, offered, caps, trouble>>
  BY DEF Announces, Handles, Tells, bridgeVars
<1>2. found \subseteq GoodEvents'
  <2>1. ASSUME NEW g \in Needed, offered[g] # 0 PROVE GlobalEvent(g, NoSeat) \in GoodEvents'
    <3>1. g \in Globals /\ g # "wl_seat" /\ NoSeat \notin Seats /\ offered'[g] # 0
      BY <1>1, <2>1, ParentAssumption DEF Globals, Needed
    <3> QED
      BY <3>1, GlobalGood
  <2>2. ASSUME NEW s \in Here PROVE GlobalEvent("wl_seat", s) \in GoodEvents'
    <3>1. s \in Seats /\ offered'["wl_seat"] # 0 /\ "wl_seat" \in Globals
      BY <1>0, <1>1, CapsTyped DEF VersionsOK, Globals
    <3> QED
      BY <3>1, GlobalGood
  <2> QED
    BY <2>1, <2>2
<1>3. SetToSeq(found) \in Seq(GoodEvents')
  <2>1. IsFiniteSet(found)
    BY <1>0, AnnouncedFinite
  <2> HIDE DEF found
  <2>2. SetToSeq(found) \in Seq(found)
    BY <2>1, ListOfSet
  <2> QED
    BY <1>2, <2>2, SeqMonotonic
<1> HIDE DEF found
<1>4. Queued'
  BY <1>0, <1>1, <1>3, SameGrows, EventsAdded, RequestsStay DEF Queued
<1>5. TypeOK' /\ TroubleOK'
  <2>1. "wl_registry" \in Objects
    BY DEF Objects
  <2> QED
    BY <1>0, <1>1, <2>1 DEF TypeOK, TroubleOK
<1>6. knows' \cap Seats = knows \cap Seats
  <2>1. "wl_registry" \notin Seats
    BY ParentAssumption DEF Objects
  <2> QED
    BY <1>1, <2>1
<1> QED
  BY <1>0, <1>1, <1>4, <1>5, <1>6, OnlyTalks DEF VersionsOK, Here

LEMMA AnswersKeeps ==
  ASSUME ParentAssumption, ConnectionInv, Answers
  PROVE  ConnectionInv'
<1>1. /\ toParent # <<>> /\ toParent' = Tail(toParent) /\ toBridge' = toBridge \o <<Done>>
      /\ UNCHANGED <<phase, version, device, unheard, seat, offered, caps, knows, trouble>>
  BY DEF Answers, Handles, Tells, bridgeVars
<1>2. <<Done>> \in Seq(GoodEvents')
  BY OwnEventsGood
<1>3. Queued'
  BY <1>1, <1>2, SameGrows, EventsAdded, RequestsStay DEF ConnectionInv, Queued
<1>4. TypeOK' /\ TroubleOK'
  BY <1>1 DEF ConnectionInv, TypeOK, TroubleOK
<1> QED
  BY <1>1, <1>3, <1>4, OnlyTalks DEF ConnectionInv, VersionsOK, Here

LEMMA BindDoneKeeps ==
  ASSUME ParentAssumption, ConnectionInv, BindDone
  PROVE  ConnectionInv'
<1> DEFINE r == Head(toParent)
           s == r.seat
           told == IF s \notin Here THEN <<>>
                   ELSE <<CapsEvent(s, caps[s])>> \o
                        (IF version["wl_seat"] >= 2 THEN <<Event("wl_seat", "name")>> ELSE <<>>)
<1>0. TypeOK /\ Queued /\ VersionsOK /\ TroubleOK
  BY DEF ConnectionInv
<1>1. /\ toParent # <<>> /\ r.name = "bind" /\ toParent' = Tail(toParent)
      /\ toBridge' = toBridge \o told
      /\ knows' = knows \cup {r.makes} \cup ({s} \cap Here)
      /\ UNCHANGED <<phase, version, device, unheard, seat, offered, caps, trouble>>
  BY DEF BindDone, Handles, Tells, bridgeVars
<1>2. /\ r.makes \in Globals /\ version[r.makes] # 0 /\ (s \in Seats <=> r.makes = "wl_seat")
      /\ s \in Seats \cup {NoSeat}
  <2>1. r \in RequestKinds /\ RequestOK(r)
    BY <1>0, <1>1, HeadsGood
  <2> QED
    BY <1>1, <2>1 DEF RequestOK, RequestKinds, Asked
<1> HIDE DEF r, s
<1>3. s \in Seats => version["wl_seat"] # 0 /\ version'["wl_seat"] # 0
  BY <1>1, <1>2
<1>4. told \in Seq(GoodEvents')
  <2>1. CASE s \notin Here
    BY <2>1
  <2>2. CASE s \in Here
    <3>1. s \in Seats /\ caps[s] \in SUBSET Devices
      BY <1>0, <2>2, CapsTyped
    <3>2. CapsEvent(s, caps[s]) \in GoodEvents'
      BY <1>3, <3>1, CapsGood
    <3>3. <<CapsEvent(s, caps[s])>> \in Seq(GoodEvents')
      BY <3>2
    <3>4. Event("wl_seat", "name") \in GoodEvents'
      <4>1. "wl_seat" \in Objects \ {"wl_registry"} /\ "name" \in EventNames
        BY DEF Objects, Globals, EventNames
      <4>2. Takes("wl_seat", "name")
        BY ListenerSets DEF Takes
      <4> QED
        BY <1>3, <3>1, <4>1, <4>2, EventGood
    <3>5. <<Event("wl_seat", "name")>> \in Seq(GoodEvents') /\ <<>> \in Seq(GoodEvents')
      BY <3>4
    <3> QED
      BY <2>2, <3>3, <3>5, ConcatProperties
  <2> QED
    BY <2>1, <2>2
<1> HIDE DEF told
<1>5. Queued'
  BY <1>0, <1>1, <1>4, SameGrows, EventsAdded, RequestsStay DEF Queued
<1>6. TypeOK' /\ TroubleOK'
  <2>1. Globals \subseteq Objects /\ Here \subseteq Seats
    BY <1>0, CapsTyped DEF Objects
  <2> QED
    BY <1>0, <1>1, <1>2, <2>1 DEF TypeOK, TroubleOK
<1>7. knows' \cap Seats # {} => version["wl_seat"] # 0
  <2>1. r.makes \notin Seats /\ Here \subseteq Seats
    BY <1>0, <1>2, CapsTyped, ParentAssumption DEF Objects
  <2> QED
    <3>1. knows' \cap Seats # {} => knows \cap Seats # {} \/ s \in Here
      BY <1>1, <2>1
    <3> QED
      BY <1>0, <1>3, <2>1, <3>1 DEF VersionsOK
<1> QED
  BY <1>0, <1>1, <1>5, <1>6, <1>7, OnlyTalks DEF VersionsOK, Here

\* What a request other than those of the round trips and the seats does.
LEMMA HandledRequest ==
  ASSUME TypeOK, HandleRequest
  PROVE  LET r == Head(toParent)
         IN  /\ toParent # <<>> /\ r.name \notin {"get_registry", "sync", "bind"}
             /\ toParent' = Tail(toParent)
             /\ knows' = knows \/ (r.makes # "" /\ knows' = knows \cup {r.makes})
             /\ UNCHANGED <<phase, version, device, unheard, seat, offered, caps, toBridge>>
<1> DEFINE r == Head(toParent)
<1>1. /\ toParent # <<>> /\ r.name \notin {"get_registry", "sync", "bind"} /\ Handles(r.name)
      /\ UNCHANGED toBridge
  BY Zenon DEF HandleRequest
<1>2. knows' = IF /\ r.makes \in {""} \cup Devices
                  /\ (r.seat \in Here => r.makes \notin caps[r.seat])
               THEN knows ELSE knows \cup {r.makes}
  BY Zenon DEF HandleRequest
<1>3. \A s \in Here : "" \notin caps[s]
  <2>1. \A s \in Here : caps[s] \in SUBSET Devices
    BY CapsTyped
  <2>2. "" \notin Devices
    BY DEF Devices
  <2> QED
    BY <2>1, <2>2
<1> HIDE DEF r
<1>4. /\ toParent # <<>> /\ r.name \notin {"get_registry", "sync", "bind"}
      /\ toParent' = Tail(toParent)
      /\ knows' = knows \/ (r.makes # "" /\ knows' = knows \cup {r.makes})
      /\ UNCHANGED <<phase, version, device, unheard, seat, offered, caps, toBridge>>
  BY <1>1, <1>2, <1>3 DEF Handles, bridgeVars
<1> QED
  BY <1>4, Zenon DEF r

\* The parent handles what the bridge asks: every request it has in flight is as
\* old as the object, but for damage_buffer of an old surface.
LEMMA HandleRequestKeeps ==
  ASSUME ParentAssumption, ConnectionInv, HandleRequest
  PROVE  ConnectionInv'
<1> DEFINE r == Head(toParent)
           rows == Messages(r.object).requests
           taken == \E k \in DOMAIN rows : rows[k].name = r.name
                                           /\ rows[k].since <= version[r.object]
<1>0. TypeOK /\ Queued /\ VersionsOK /\ TroubleOK
  BY DEF ConnectionInv
<1>1. /\ toParent # <<>> /\ r.name \notin {"get_registry", "sync", "bind"}
      /\ toParent' = Tail(toParent)
      /\ knows' = knows \/ (r.makes # "" /\ knows' = knows \cup {r.makes})
      /\ UNCHANGED <<phase, version, device, unheard, seat, offered, caps, toBridge>>
  BY <1>0, HandledRequest
<1>11. trouble' = IF taken THEN {} ELSE {<<"request", r.object, r.name>>}
  BY Zenon DEF HandleRequest
<1>2. r \in RequestKinds /\ RequestOK(r)
  BY <1>0, <1>1, HeadsGood
<1>3. /\ r.object \in Objects /\ r.name \in RequestNames /\ r.makes \in Objects \cup {""}
      /\ Asked(r.object, r.name) /\ version[r.object] # 0
  BY <1>1, <1>2 DEF RequestOK, RequestKinds, IsBind
<1>4. version[r.object] \in Nat
  BY <1>0, <1>3 DEF TypeOK
<1>5. r.name = "damage_buffer" /\ offered["wl_compositor"] >= 4 => version[r.object] >= 4
  <2> SUFFICES ASSUME r.name = "damage_buffer", offered["wl_compositor"] >= 4
               PROVE  version[r.object] >= 4
    OBVIOUS
  <2>1. r.object = "wl_surface"
    BY <1>3 DEF Asked
  <2>2. version[r.object] = BindVersion("wl_compositor", offered["wl_compositor"])
    <3>1. version["wl_surface"] = BoundAt("wl_surface")
      BY <1>0, <1>3, <2>1 DEF VersionsOK
    <3>2. BoundAt("wl_surface") = BindVersion("wl_compositor", offered["wl_compositor"])
      BY DEF BoundAt, GlobalOf, Devices
    <3> QED
      BY <2>1, <3>1, <3>2
  <2>3. "wl_compositor" \in Globals /\ offered["wl_compositor"] \in Nat
    <3>1. "wl_compositor" \in Globals
      BY DEF Globals, Needed
    <3> QED
      BY <1>0, <3>1, ParentAssumption DEF TypeOK
  <2> QED
    BY <2>2, <2>3, BindVersionOf
<1>6. taken \/ (r.name = "damage_buffer" /\ offered["wl_compositor"] < 4)
  <2>1. HasRequest(r.object, r.name, IF r.name = "damage_buffer" THEN 4 ELSE 1)
    BY <1>3, AskedSince
  <2>2. ASSUME NEW n \in Nat, HasRequest(r.object, r.name, n), version[r.object] >= n PROVE taken
    <3>1. PICK k \in DOMAIN rows : rows[k].name = r.name /\ rows[k].since \in 0..n
      BY <2>2 DEF HasRequest
    <3>2. rows[k].since <= version[r.object]
      BY <1>4, <2>2, <3>1
    <3> QED
      BY <3>1, <3>2
  <2>4. offered["wl_compositor"] >= 4 \/ offered["wl_compositor"] < 4
    <3>1. "wl_compositor" \in Globals
      BY DEF Globals, Needed
    <3>2. offered["wl_compositor"] \in Nat
      BY <1>0, <3>1, ParentAssumption DEF TypeOK
    <3> QED
      BY <3>2
  <2> HIDE DEF taken, rows, r
  <2>3. version[r.object] >= 1
    <3>1. \A v \in Nat : v # 0 => v >= 1
      OBVIOUS
    <3> QED
      BY <1>3, <1>4, <3>1, Zenon
  <2>5. CASE r.name = "damage_buffer"
    BY <1>5, <2>1, <2>2, <2>4, <2>5
  <2>6. CASE r.name # "damage_buffer"
    BY <2>1, <2>2, <2>3, <2>6
  <2> QED
    BY <2>5, <2>6
<1> HIDE DEF taken, r
<1>7. TroubleOK'
  <2>1. CASE taken
    BY <1>11, <2>1 DEF TroubleOK
  <2>2. CASE ~taken
    <3>1. \A t \in trouble' : t = <<"request", r.object, "damage_buffer">>
      BY <1>6, <1>11, <2>2
    <3>2. offered'["wl_compositor"] < 4
      BY <1>1, <1>6, <2>2
    <3> QED
      BY <3>1, <3>2 DEF TroubleOK
  <2> QED
    BY <2>1, <2>2
<1>8. TypeOK'
  BY <1>0, <1>1, <1>3 DEF TypeOK
<1>9. Queued'
  BY <1>0, <1>1, SameGrows, EventsStay, RequestsStay DEF Queued
<1>10. knows' \cap Seats # {} => version["wl_seat"] # 0
  <2>1. knows' \cap Seats = knows \cap Seats
    BY <1>1, <1>3, ParentAssumption
  <2> QED
    BY <1>0, <2>1 DEF VersionsOK
<1> QED
  BY <1>0, <1>1, <1>7, <1>8, <1>9, <1>10, OnlyTalks DEF VersionsOK, Here

\* An event the parent sends is no newer than the object, which the bridge bound
\* at version 7 at most.
LEMMA ParentEventKeeps ==
  ASSUME ParentAssumption, ConnectionInv, ParentEvent
  PROVE  ConnectionInv'
<1>0. TypeOK /\ Queued /\ VersionsOK /\ TroubleOK
  BY DEF ConnectionInv
<1>1. PICK o \in knows \cap Objects : \E k \in DOMAIN Messages(o).events :
        LET row == Messages(o).events[k]
        IN  /\ row.since <= version[o] /\ row.name # "capabilities"
            /\ Tells(<<Event(o, row.name)>>)
            /\ knows' = knows \ (IF o = "wl_callback" THEN {o} ELSE {})
  BY DEF ParentEvent
<1>2. PICK k \in DOMAIN Messages(o).events :
        LET row == Messages(o).events[k]
        IN  /\ row.since <= version[o] /\ row.name # "capabilities"
            /\ Tells(<<Event(o, row.name)>>)
            /\ knows' = knows \ (IF o = "wl_callback" THEN {o} ELSE {})
  BY <1>1
<1> DEFINE row == Messages(o).events[k]
<1>3. /\ row.since <= version[o] /\ row.name # "capabilities"
      /\ toBridge' = toBridge \o <<Event(o, row.name)>> /\ knows' \subseteq knows
      /\ UNCHANGED <<phase, version, device, unheard, seat, offered, caps, toParent, trouble>>
  BY <1>2 DEF ParentEvent, Tells, bridgeVars
<1>4. row \in RowsFor(o) /\ o \in Objects \ {"wl_registry"}
  BY EventRow
<1>5. row.name \in EventNames /\ row.since \in Nat \ {0}
      /\ (Takes(o, row.name) \/ (o = "wl_pointer" /\ row.since = 8))
  BY <1>4 DEF RowsFor
<1> HIDE DEF row
<1>6. version[o] \in Nat /\ version[o] # 0 /\ version[o] <= 7
  <2>1. version[o] \in Nat
    BY <1>0, <1>4 DEF TypeOK
  <2>2. version[o] # 0
    BY <1>3, <1>5, <2>1
  <2>3. version[o] = BindVersion(GlobalOf(o), offered[GlobalOf(o)])
    BY <1>0, <1>4, <2>2 DEF VersionsOK, BoundAt
  <2>4. GlobalOf(o) \in Globals
    BY <1>4, GlobalOfObject
  <2>5. offered[GlobalOf(o)] \in Nat
    BY <1>0, <2>4, ParentAssumption DEF TypeOK
  <2> QED
    BY <2>1, <2>2, <2>3, <2>4, <2>5, BindVersionOf
<1>7. Takes(o, row.name)
  BY <1>3, <1>5, <1>6
<1>8. Queued'
  <2>1. Event(o, row.name) \in GoodEvents'
    BY <1>3, <1>4, <1>5, <1>6, <1>7, EventGood
  <2>2. <<Event(o, row.name)>> \in Seq(GoodEvents')
    BY <2>1
  <2> QED
    BY <1>0, <1>3, <2>2, SameGrows, EventsAdded, RequestsStay DEF Queued
<1>9. TypeOK' /\ TroubleOK'
  BY <1>0, <1>3 DEF TypeOK, TroubleOK
<1> QED
  BY <1>0, <1>3, <1>8, <1>9, OnlyTalks DEF VersionsOK, Here

LEMMA CapsChangeKeeps ==
  ASSUME ParentAssumption, ConnectionInv, NEW s \in Seats, CapsChange(s)
  PROVE  ConnectionInv'
<1>0. TypeOK /\ Queued /\ VersionsOK /\ TroubleOK
  BY DEF ConnectionInv
<1>1. PICK c \in SUBSET Devices :
        /\ caps' = [caps EXCEPT ![s] = c] /\ knows' = knows \ Lost(s, c)
        /\ IF s \in knows THEN toBridge' = toBridge \o <<CapsEvent(s, c)>> ELSE UNCHANGED toBridge
  BY DEF CapsChange, Tells
<1>2. /\ s \in Here
      /\ UNCHANGED <<phase, version, device, unheard, seat, offered, toParent, trouble>>
  BY DEF CapsChange, bridgeVars
<1>3. Here' = Here /\ knows' \subseteq knows
  BY <1>1 DEF Here
<1>4. TypeOK' /\ TroubleOK'
  <2>1. caps' \in [Here -> SUBSET Devices] /\ Here \in SUBSET Seats
    BY <1>0, <1>1, CapsTyped
  <2>2. caps' \in UNION {[T -> SUBSET Devices] : T \in SUBSET Seats}
    BY <2>1, CapsTyped
  <2> QED
    BY <1>0, <1>2, <1>3, <2>2 DEF TypeOK, TroubleOK
<1>5. Queued'
  <2>1. CASE s \in knows
    <3>1. version'["wl_seat"] # 0
      BY <1>0, <1>2, <2>1 DEF VersionsOK
    <3>2. CapsEvent(s, c) \in GoodEvents'
      BY <3>1, CapsGood
    <3>3. <<CapsEvent(s, c)>> \in Seq(GoodEvents')
      BY <3>2
    <3> QED
      BY <1>0, <1>1, <1>2, <2>1, <3>3, SameGrows, EventsAdded, RequestsStay DEF Queued
  <2>2. CASE s \notin knows
    BY <1>0, <1>1, <1>2, <2>2, SameGrows, EventsStay, RequestsStay DEF Queued
  <2> QED
    BY <2>1, <2>2
<1> QED
  BY <1>0, <1>2, <1>3, <1>4, <1>5, OnlyTalks DEF VersionsOK

LEMMA SeatAppearsKeeps ==
  ASSUME ParentAssumption, ConnectionInv, NEW s \in Seats, SeatAppears(s)
  PROVE  ConnectionInv'
<1>0. TypeOK /\ Queued /\ VersionsOK /\ TroubleOK
  BY DEF ConnectionInv
<1>1. PICK c \in SUBSET Devices :
        caps' = [other \in Here \cup {s} |-> IF other = s THEN c ELSE caps[other]]
  BY DEF SeatAppears
<1>2. /\ s \notin Here /\ offered["wl_seat"] # 0
      /\ IF "wl_registry" \in knows THEN toBridge' = toBridge \o <<GlobalEvent("wl_seat", s)>>
         ELSE UNCHANGED toBridge
      /\ UNCHANGED <<phase, version, device, unheard, seat, offered, knows, toParent, trouble>>
  BY DEF SeatAppears, Tells, bridgeVars
<1>3. Here' = Here \cup {s} /\ caps' \in [Here \cup {s} -> SUBSET Devices]
  BY <1>0, <1>1, CapsTyped DEF Here
<1>4. TypeOK' /\ TroubleOK'
  <2>1. Here \cup {s} \in SUBSET Seats
    BY <1>0, CapsTyped
  <2>2. caps' \in UNION {[T -> SUBSET Devices] : T \in SUBSET Seats}
    BY <1>3, <2>1, CapsTyped
  <2> QED
    BY <1>0, <1>2, <2>2 DEF TypeOK, TroubleOK
<1>5. Queued'
  <2>1. CASE "wl_registry" \in knows
    <3>1. "wl_seat" \in Globals /\ offered'["wl_seat"] # 0
      BY <1>2 DEF Globals
    <3>2. GlobalEvent("wl_seat", s) \in GoodEvents'
      BY <3>1, GlobalGood
    <3>3. <<GlobalEvent("wl_seat", s)>> \in Seq(GoodEvents')
      BY <3>2
    <3> QED
      BY <1>0, <1>2, <2>1, <3>3, SameGrows, EventsAdded, RequestsStay DEF Queued
  <2>2. CASE "wl_registry" \notin knows
    BY <1>0, <1>2, <2>2, SameGrows, EventsStay, RequestsStay DEF Queued
  <2> QED
    BY <2>1, <2>2
<1> QED
  BY <1>0, <1>2, <1>4, <1>5, OnlyTalks DEF VersionsOK

LEMMA SeatRemovedKeeps ==
  ASSUME ParentAssumption, ConnectionInv, NEW s \in Seats, SeatRemoved(s)
  PROVE  ConnectionInv'
<1>0. TypeOK /\ Queued /\ VersionsOK /\ TroubleOK
  BY DEF ConnectionInv
<1>1. /\ s \in Here /\ caps' = [other \in Here \ {s} |-> caps[other]]
      /\ knows' \subseteq knows
      /\ \/ toBridge' = toBridge \o <<Event("wl_registry", "global_remove")>>
         \/ toBridge' = toBridge
      /\ UNCHANGED <<phase, version, device, unheard, seat, offered, toParent, trouble>>
  BY DEF SeatRemoved, Tells, bridgeVars
<1>2. Here' = Here \ {s} /\ caps' \in [Here \ {s} -> SUBSET Devices]
  BY <1>0, <1>1, CapsTyped DEF Here
<1>3. TypeOK' /\ TroubleOK'
  <2>1. Here \ {s} \in SUBSET Seats
    BY <1>0, CapsTyped
  <2>2. caps' \in UNION {[T -> SUBSET Devices] : T \in SUBSET Seats}
    BY <1>2, <2>1, CapsTyped
  <2> QED
    BY <1>0, <1>1, <2>2 DEF TypeOK, TroubleOK
<1>4. Queued'
  <2>1. <<Event("wl_registry", "global_remove")>> \in Seq(GoodEvents')
    BY OwnEventsGood
  <2>2. toBridge' \in Seq(GoodEvents')
    BY <1>0, <1>1, <2>1, SameGrows, EventsAdded, EventsStay DEF Queued
  <2> QED
    BY <1>0, <1>1, <2>2, SameGrows, RequestsStay DEF Queued
<1> QED
  BY <1>0, <1>1, <1>2, <1>3, <1>4, OnlyTalks DEF VersionsOK

LEMMA ConnectionStep ==
  ASSUME ParentAssumption, ConnectionInv, StartOK, [Next]_vars
  PROVE  ConnectionInv'
<1>1. CASE UNCHANGED vars
  BY <1>1 DEF vars, bridgeVars, parentVars, ConnectionInv, TypeOK, Queued, VersionsOK, TroubleOK,
              GoodEvents, GoodRequests, EventOK, RequestOK, BoundAt, Here
<1>2. CASE Next
  BY <1>2, ConnectKeeps, RegistryGlobalKeeps, RegistryRemoveKeeps, SeatCapsKeeps, RoundTripKeeps,
     PingKeeps, OtherEventKeeps, StageBufferKeeps, RelayRequestKeeps, AnnouncesKeeps, AnswersKeeps,
     BindDoneKeeps, HandleRequestKeeps, ParentEventKeeps, CapsChangeKeeps, SeatAppearsKeeps,
     SeatRemovedKeeps, Zenon DEF Next
<1> QED
  BY <1>1, <1>2

-----------------------------------------------------------------------------
(* The theorems about versions                                             *)

THEOREM ConnectionInvariant == Spec => [](ConnectionInv /\ StartOK)
<1>1. Init => ConnectionInv /\ StartOK
  BY ParentAssumption, ConnectionInit DEF Init, StartOK
<1>2. ConnectionInv /\ StartOK /\ [Next]_vars => (ConnectionInv /\ StartOK)'
  BY ParentAssumption, ConnectionStep, StartKeeps
<1> QED
  BY <1>1, <1>2, PTL DEF Spec

\* Every variable has its type.
THEOREM TypeCorrect == Spec => []TypeOK
<1>1. ConnectionInv => TypeOK
  BY DEF ConnectionInv
<1> QED
  BY <1>1, ConnectionInvariant, PTL

\* Whatever the parent offers, the bridge has a function for every event that can
\* reach it: registry_global binds nothing newer than the listeners.
THEOREM EventsAreTaken == Spec => []EventsTaken
<1>1. ConnectionInv => EventsTaken
  BY DEF ConnectionInv, TroubleOK, EventsTaken
<1> QED
  BY <1>1, ConnectionInvariant, PTL

\* The parent refuses no request of the bridge, but damage_buffer on a surface
\* of a compositor older than version 4.
THEOREM RequestsAreTaken == Spec => []RequestsTaken
<1>1. ConnectionInv => RequestsTaken
  BY DEF ConnectionInv, TroubleOK, RequestsTaken
<1> QED
  BY <1>1, ConnectionInvariant, PTL

-----------------------------------------------------------------------------
(* Every step keeps TripInv                                                *)

PlainEvents == {e \in EventKinds : ~IsGlobal(e) /\ ~IsCaps(e) /\ ~IsDone(e)}
PlainRequests == {r \in RequestKinds : r.name \notin {"get_registry", "sync", "bind"}}

\* What a step leaves alone of the messages of TripInv.
BridgeQuiet(q, p) ==
  /\ Unmoved(q, p, Dones)
  /\ \A s \in Seats : Unmoved(q, p, GlobalsOf(s)) /\ Kept(q, p, CapsOf(s), Dones)
ParentQuiet(q, p) ==
  /\ Unmoved(q, p, Syncs) /\ Unmoved(q, p, Registries)
  /\ \A s \in Seats : Unmoved(q, p, BindsOf(s)) /\ Kept(q, p, BindsOf(s), Syncs)

LEMMA QueuesTyped ==
  /\ Queued => toBridge \in Seq(EventKinds) /\ toParent \in Seq(RequestKinds)
  /\ PlainEvents \subseteq EventKinds /\ PlainRequests \subseteq RequestKinds
<1>1. GoodEvents \subseteq EventKinds /\ GoodRequests \subseteq RequestKinds
  BY DEF GoodEvents, GoodRequests
<1>2. Queued => toBridge \in Seq(EventKinds) /\ toParent \in Seq(RequestKinds)
  BY <1>1, SeqMonotonic DEF Queued
<1> QED
  BY <1>2 DEF PlainEvents, PlainRequests

LEMMA QuietSame ==
  ASSUME NEW q
  PROVE  BridgeQuiet(q, q) /\ ParentQuiet(q, q)
BY SameUnmoved DEF BridgeQuiet, ParentQuiet

LEMMA QuietTail ==
  /\ \A q \in Seq(EventKinds) : q # <<>> /\ Head(q) \in PlainEvents => BridgeQuiet(q, Tail(q))
  /\ \A q \in Seq(RequestKinds) : q # <<>> /\ Head(q) \in PlainRequests => ParentQuiet(q, Tail(q))
<1>1. ASSUME NEW q \in Seq(EventKinds), q # <<>>, Head(q) \in PlainEvents
      PROVE  BridgeQuiet(q, Tail(q))
  <2>1. Head(q) \notin Dones
    BY <1>1 DEF PlainEvents, Dones
  <2>2. \A s \in Seats : Head(q) \notin GlobalsOf(s) /\ Head(q) \notin CapsOf(s)
    BY <1>1 DEF PlainEvents, GlobalsOf, CapsOf
  <2>3. Unmoved(q, Tail(q), Dones)
    BY <1>1, <2>1, TailUnmoved
  <2>4. ASSUME NEW s \in Seats
        PROVE  Unmoved(q, Tail(q), GlobalsOf(s)) /\ Kept(q, Tail(q), CapsOf(s), Dones)
    BY <1>1, <2>2, TailUnmoved
  <2> QED
    BY <2>3, <2>4 DEF BridgeQuiet
<1>2. ASSUME NEW q \in Seq(RequestKinds), q # <<>>, Head(q) \in PlainRequests
      PROVE  ParentQuiet(q, Tail(q))
  <2>1. Head(q) \notin Syncs /\ Head(q) \notin Registries
    BY <1>2 DEF PlainRequests, Syncs, Registries
  <2>2. \A s \in Seats : Head(q) \notin BindsOf(s)
    BY <1>2 DEF PlainRequests, BindsOf, IsBind
  <2>3. Unmoved(q, Tail(q), Syncs) /\ Unmoved(q, Tail(q), Registries)
    BY <1>2, <2>1, TailUnmoved
  <2>4. ASSUME NEW s \in Seats
        PROVE  Unmoved(q, Tail(q), BindsOf(s)) /\ Kept(q, Tail(q), BindsOf(s), Syncs)
    BY <1>2, <2>2, TailUnmoved
  <2> QED
    BY <2>3, <2>4 DEF ParentQuiet
<1> QED
  BY <1>1, <1>2

LEMMA QuietAdded ==
  /\ \A q \in Seq(EventKinds), p \in Seq(PlainEvents) : BridgeQuiet(q, q \o p)
  /\ \A q \in Seq(RequestKinds), p \in Seq(PlainRequests) : ParentQuiet(q, q \o p)
<1>1. ASSUME NEW q \in Seq(EventKinds), NEW p \in Seq(PlainEvents)
      PROVE  BridgeQuiet(q, q \o p)
  <2>1. p \in Seq(EventKinds)
    BY QueuesTyped, SeqMonotonic
  <2>2. ~Has(p, Dones)
    <3>1. \A a \in PlainEvents : a \notin Dones
      BY DEF PlainEvents, Dones
    <3> QED
      BY <3>1, NoneOf
  <2>3. \A s \in Seats : ~Has(p, GlobalsOf(s))
    <3>1. \A s \in Seats : \A a \in PlainEvents : a \notin GlobalsOf(s)
      BY DEF PlainEvents, GlobalsOf
    <3> QED
      BY <3>1, NoneOf
  <2>4. Unmoved(q, q \o p, Dones)
    BY <2>1, <2>2, AddedUnmoved
  <2>5. ASSUME NEW s \in Seats
        PROVE  Unmoved(q, q \o p, GlobalsOf(s)) /\ Kept(q, q \o p, CapsOf(s), Dones)
    BY <2>1, <2>3, AddedUnmoved
  <2> QED
    BY <2>4, <2>5 DEF BridgeQuiet
<1>2. ASSUME NEW q \in Seq(RequestKinds), NEW p \in Seq(PlainRequests)
      PROVE  ParentQuiet(q, q \o p)
  <2>1. p \in Seq(RequestKinds)
    BY QueuesTyped, SeqMonotonic
  <2>2. ~Has(p, Syncs) /\ ~Has(p, Registries)
    <3>1. \A a \in PlainRequests : a \notin Syncs /\ a \notin Registries
      BY DEF PlainRequests, Syncs, Registries
    <3> QED
      BY <3>1, NoneOf
  <2>3. \A s \in Seats : ~Has(p, BindsOf(s))
    <3>1. \A s \in Seats : \A a \in PlainRequests : a \notin BindsOf(s)
      BY DEF PlainRequests, BindsOf, IsBind
    <3> QED
      BY <3>1, NoneOf
  <2>4. Unmoved(q, q \o p, Syncs) /\ Unmoved(q, q \o p, Registries)
    BY <2>1, <2>2, AddedUnmoved
  <2>5. ASSUME NEW s \in Seats
        PROVE  Unmoved(q, q \o p, BindsOf(s)) /\ Kept(q, q \o p, BindsOf(s), Syncs)
    BY <2>1, <2>3, AddedUnmoved
  <2> QED
    BY <2>4, <2>5 DEF ParentQuiet
<1> QED
  BY <1>1, <1>2

\* A step that moves only plain messages keeps TripInv.
LEMMA TripStays ==
  ASSUME TypeOK, TripInv, UNCHANGED <<phase, unheard>>, Here' = Here,
         knows' \cap Seats = knows \cap Seats,
         "wl_registry" \in knows' <=> "wl_registry" \in knows,
         "wl_registry" \notin knows => UNCHANGED <<knows, toBridge, toParent>>,
         BridgeQuiet(toBridge, toBridge'), ParentQuiet(toParent, toParent')
  PROVE  TripInv'
<1>1. TripsOK'
  BY DEF TripInv, TripsOK, BridgeQuiet, ParentQuiet, Unmoved
<1>2. SeatsOK'
  <2>1. \A s \in Seats : (s \in knows' <=> s \in knows) /\ (s \in Here' <=> s \in Here)
    OBVIOUS
  <2> QED
    BY <2>1 DEF TripInv, SeatsOK, Announced, BridgeQuiet, ParentQuiet, Unmoved
<1>3. HeardOK'
  <2>1. SeatsHeard'
    BY DEF TripInv, HeardOK, SeatsHeard
  <2>2. unheard \subseteq Seats
    BY DEF TypeOK
  <2>3. \A s \in unheard : /\ Unmoved(toParent, toParent', BindsOf(s))
                           /\ Kept(toParent, toParent', BindsOf(s), Syncs)
                           /\ Kept(toBridge, toBridge', CapsOf(s), Dones)
    BY <2>2 DEF BridgeQuiet, ParentQuiet
  <2>4. Has(toParent', Syncs) <=> Has(toParent, Syncs)
    BY DEF ParentQuiet, Unmoved
  <2> QED
    BY <2>1, <2>3, <2>4, Zenon DEF TripInv, HeardOK, Kept, Unmoved
<1> QED
  BY <1>1, <1>2, <1>3 DEF TripInv

LEMMA RegistryKnown ==
  ASSUME TripInv,
         \/ toBridge # <<>> \/ knows # {} \/ phase \notin {"connect", "globals"}
         \/ toParent # <<>> /\ Head(toParent).name # "get_registry"
  PROVE  "wl_registry" \in knows /\ phase # "connect"
<1>1. "wl_registry" \in knows
  <2> SUFFICES ASSUME "wl_registry" \notin knows PROVE FALSE
    OBVIOUS
  <2>1. /\ knows = {} /\ toBridge = <<>> /\ phase \in {"connect", "globals"}
        /\ toParent \in {<<>>, <<Request("wl_display", "get_registry"), Sync>>}
    BY DEF TripInv, TripsOK
  <2>2. Head(<<Request("wl_display", "get_registry"), Sync>>).name = "get_registry"
    <3>1. \A a, b : Head(<<a, b>>) = a
      OBVIOUS
    <3>2. Request("wl_display", "get_registry").name = "get_registry"
      BY DEF Request
    <3> QED
      BY <3>1, <3>2, Zenon
  <2> QED
    BY <2>1, <2>2
<1> QED
  BY <1>1 DEF TripInv, TripsOK

\* What the bridge asks for its objects is plain.
LEMMA PlainAsked ==
  /\ \A o \in Objects, name \in RequestNames \ {"get_registry", "sync", "bind"} :
       Request(o, name) \in PlainRequests
  /\ \A o \in Objects, name \in RequestNames \ {"get_registry", "sync", "bind"}, new \in Objects :
       Make(o, name, new) \in PlainRequests
  /\ \A d \in Devices, s \in Seats : GetDevice(d, s) \in PlainRequests
<1>1. ASSUME NEW o \in Objects, NEW name \in RequestNames \ {"get_registry", "sync", "bind"}
      PROVE  Request(o, name) \in PlainRequests
  <2>1. Request(o, name) \in RequestKinds /\ Request(o, name).name = name
    BY RequestFields
  <2> QED
    BY <2>1 DEF PlainRequests
<1>2. ASSUME NEW o \in Objects, NEW name \in RequestNames \ {"get_registry", "sync", "bind"},
             NEW new \in Objects
      PROVE  Make(o, name, new) \in PlainRequests
  BY MakeFields DEF PlainRequests
<1>3. ASSUME NEW d \in Devices, NEW s \in Seats
      PROVE  GetDevice(d, s) \in PlainRequests
  BY GetDeviceFields DEF PlainRequests
<1> QED
  BY <1>1, <1>2, <1>3

\* An event of an object other than the registry is plain, but the capabilities.
LEMMA PlainTold ==
  /\ \A o \in Objects \ {"wl_registry"}, name \in EventNames \ {"capabilities"} :
       Event(o, name) \in PlainEvents
  /\ Event("wl_registry", "global_remove") \in PlainEvents
<1>1. ASSUME NEW o \in Objects \ {"wl_registry"}, NEW name \in EventNames \ {"capabilities"}
      PROVE  Event(o, name) \in PlainEvents
  <2> DEFINE e == Event(o, name)
  <2>1. e \in EventKinds /\ e.object = o /\ e.name = name
    BY EventFields
  <2>3. o # "sync"
    BY DEF Objects, Globals, Needed, Devices, Windows
  <2> HIDE DEF e
  <2>2. e \in PlainEvents
    BY <2>1, <2>3 DEF PlainEvents, IsGlobal, IsCaps, IsDone
  <2> QED
    BY <2>2 DEF e
<1>2. Event("wl_registry", "global_remove") \in PlainEvents
  <2> DEFINE e == Event("wl_registry", "global_remove")
  <2>1. e \in EventKinds /\ e.object = "wl_registry" /\ e.name = "global_remove"
    BY DEF Event, EventKinds, Objects, EventNames
  <2> HIDE DEF e
  <2>2. e \in PlainEvents
    BY <2>1 DEF PlainEvents, IsGlobal, IsCaps, IsDone
  <2> QED
    BY <2>2 DEF e
<1> QED
  BY <1>1, <1>2, Zenon

\* Events the bridge hears, and what it does by itself.
\* What these actions do to the queues: a plain event is taken, plain requests asked.
LEMMA BridgeMoves ==
  ASSUME ParentAssumption, ConnectionInv,
         RegistryRemove \/ Ping \/ Configured \/ OtherEvent \/ StageBuffer \/ RelayRequest
  PROVE  /\ \/ toBridge' = toBridge
            \/ toBridge # <<>> /\ Head(toBridge) \in PlainEvents /\ toBridge' = Tail(toBridge)
         /\ toBridge # <<>> \/ phase = "running"
         /\ \/ toParent' = toParent
            \/ \E p \in Seq(PlainRequests) : toParent' = toParent \o p
         /\ UNCHANGED <<phase, device, unheard, caps, knows>> /\ Here' = Here
<1>0. /\ TypeOK /\ toBridge \in Seq(EventKinds) /\ toParent \in Seq(RequestKinds)
      /\ toBridge # <<>> => Head(toBridge) \in EventKinds
  BY QueuesTyped, HeadsGood DEF ConnectionInv
<1>1. UNCHANGED <<phase, device, unheard, caps, knows>> /\ Here' = Here
  BY DEF RegistryRemove, Ping, Configured, OtherEvent, StageBuffer, RelayRequest, Hears,
         bridgeVars, parentVars, Here
<1>2. /\ \/ toBridge' = toBridge
         \/ toBridge # <<>> /\ Head(toBridge) \in PlainEvents /\ toBridge' = Tail(toBridge)
      /\ toBridge # <<>> \/ phase = "running"
  <2>1. CASE RegistryRemove
    BY <1>0, <2>1 DEF RegistryRemove, Hears, PlainEvents, IsGlobal, IsCaps, IsDone
  <2>2. CASE Ping \/ Configured
    BY <1>0, <2>2 DEF Ping, Configured, Hears, PlainEvents, IsGlobal, IsCaps, IsDone
  <2>3. CASE OtherEvent
    BY <1>0, <2>3 DEF OtherEvent, PlainEvents, IsGlobal, IsCaps, IsDone
  <2>4. CASE StageBuffer \/ RelayRequest
    BY <2>4 DEF StageBuffer, RelayRequest
  <2> QED
    BY <2>1, <2>2, <2>3, <2>4
<1>3. \/ toParent' = toParent
      \/ \E p \in Seq(PlainRequests) : toParent' = toParent \o p
  <2>1. CASE RegistryRemove \/ OtherEvent
    BY <2>1 DEF RegistryRemove, OtherEvent
  <2>2. CASE Ping
    <3>1. Request("xdg_wm_base", "pong") \in PlainRequests
      BY PlainAsked DEF Objects, Globals, Needed, RequestNames
    <3>2. <<Request("xdg_wm_base", "pong")>> \in Seq(PlainRequests)
      BY <3>1
    <3> QED
      BY <2>2, <3>2 DEF Ping, Asks
  <2>3. CASE Configured
    <3>1. Request("xdg_surface", "ack_configure") \in PlainRequests
      BY PlainAsked DEF Objects, Windows, RequestNames
    <3>2. <<Request("xdg_surface", "ack_configure")>> \in Seq(PlainRequests)
      BY <3>1
    <3> QED
      BY <2>3, <3>2 DEF Configured, Asks
  <2>4. CASE RelayRequest
    <3>1. PICK o \in {"wl_pointer", "xdg_toplevel"},
               name \in {"set_cursor", "set_title", "set_app_id"} :
            toParent' = toParent \o <<Request(o, name)>>
      BY <2>4 DEF RelayRequest, Asks
    <3>2. o \in Objects /\ name \in RequestNames \ {"get_registry", "sync", "bind"}
      BY DEF Objects, Devices, Windows, RequestNames
    <3>3. Request(o, name) \in PlainRequests
      BY <3>2, PlainAsked
    <3>4. <<Request(o, name)>> \in Seq(PlainRequests)
      BY <3>3
    <3> QED
      BY <3>1, <3>4
  <2>5. CASE StageBuffer
    <3> DEFINE asks == <<Make("wl_shm", "create_pool", "wl_buffer"),
                         Request("wl_surface", "attach"),
                         Request("wl_surface", "damage_buffer"),
                         Make("wl_surface", "frame", "wl_callback"),
                         Request("wl_surface", "commit")>>
    <3>1. /\ {"wl_shm", "wl_surface", "wl_buffer", "wl_callback"} \subseteq Objects
          /\ {"create_pool", "attach", "damage_buffer", "frame", "commit"}
               \subseteq RequestNames \ {"get_registry", "sync", "bind"}
      BY DEF Objects, Globals, Needed, Windows, RequestNames
    <3>2. /\ Make("wl_shm", "create_pool", "wl_buffer") \in PlainRequests
          /\ Make("wl_surface", "frame", "wl_callback") \in PlainRequests
      BY <3>1, PlainAsked
    <3>3. /\ Request("wl_surface", "attach") \in PlainRequests
          /\ Request("wl_surface", "damage_buffer") \in PlainRequests
          /\ Request("wl_surface", "commit") \in PlainRequests
      BY <3>1, PlainAsked
    <3>4. asks \in Seq(PlainRequests)
      BY <3>2, <3>3
    <3>5. toParent' = toParent \o asks
      BY <2>5 DEF StageBuffer, Asks
    <3> QED
      BY <3>4, <3>5
  <2> QED
    BY <2>1, <2>2, <2>3, <2>4, <2>5
<1> QED
  BY <1>1, <1>2, <1>3

LEMMA BridgeTrips ==
  ASSUME ParentAssumption, ConnectionInv, StartOK, TripInv,
         RegistryRemove \/ Ping \/ Configured \/ OtherEvent \/ StageBuffer \/ RelayRequest
  PROVE  TripInv'
<1>0. TypeOK /\ toBridge \in Seq(EventKinds) /\ toParent \in Seq(RequestKinds)
  BY QueuesTyped DEF ConnectionInv
<1>1. /\ \/ toBridge' = toBridge
         \/ toBridge # <<>> /\ Head(toBridge) \in PlainEvents /\ toBridge' = Tail(toBridge)
      /\ toBridge # <<>> \/ phase = "running"
  BY BridgeMoves
<1>2. \/ toParent' = toParent
      \/ \E p \in Seq(PlainRequests) : toParent' = toParent \o p
  BY BridgeMoves
<1>3. UNCHANGED <<phase, unheard, caps, knows>> /\ Here' = Here
  BY BridgeMoves
<1>4. BridgeQuiet(toBridge, toBridge') /\ ParentQuiet(toParent, toParent')
  BY <1>0, <1>1, <1>2, QuietSame, QuietTail, QuietAdded
<1>5. "wl_registry" \in knows
  BY <1>1, RegistryKnown
<1> QED
  BY <1>0, <1>3, <1>4, <1>5, TripStays

\* The parent tells an event of an object; only a frame callback is spent.
LEMMA ParentTells ==
  ASSUME ParentAssumption, ConnectionInv, ParentEvent
  PROVE  /\ \E p \in Seq(PlainEvents) : toBridge' = toBridge \o p
         /\ knows' = knows \/ knows' = knows \ {"wl_callback"}
         /\ knows # {} /\ UNCHANGED <<device, toParent, caps>>
<1>1. PICK o \in knows \cap Objects : \E k \in DOMAIN Messages(o).events :
        LET row == Messages(o).events[k]
        IN  /\ row.name # "capabilities" /\ toBridge' = toBridge \o <<Event(o, row.name)>>
            /\ knows' = knows \ (IF o = "wl_callback" THEN {o} ELSE {})
  BY DEF ParentEvent, Tells
<1>2. PICK k \in DOMAIN Messages(o).events :
        LET row == Messages(o).events[k]
        IN  /\ row.name # "capabilities" /\ toBridge' = toBridge \o <<Event(o, row.name)>>
            /\ knows' = knows \ (IF o = "wl_callback" THEN {o} ELSE {})
  BY <1>1
<1> DEFINE row == Messages(o).events[k]
<1>3. row \in RowsFor(o) /\ o \in Objects \ {"wl_registry"}
  BY EventRow
<1>4. row.name \in EventNames \ {"capabilities"}
  BY <1>2, <1>3 DEF RowsFor
<1>5. <<Event(o, row.name)>> \in Seq(PlainEvents)
  <2>1. Event(o, row.name) \in PlainEvents
    BY <1>3, <1>4, PlainTold
  <2> QED
    BY <2>1
<1>6. toBridge' = toBridge \o <<Event(o, row.name)>> /\ UNCHANGED toParent
  BY <1>2 DEF ParentEvent
<1>7. knows' = knows \/ knows' = knows \ {"wl_callback"}
  BY <1>2
<1> HIDE DEF row
<1> QED
  BY <1>1, <1>5, <1>6, <1>7 DEF ParentEvent, bridgeVars

\* Requests the parent handles, and what it does by itself.
LEMMA ParentTrips ==
  ASSUME ParentAssumption, ConnectionInv, StartOK, TripInv, HandleRequest \/ ParentEvent
  PROVE  TripInv'
<1>0. /\ TypeOK /\ toBridge \in Seq(EventKinds) /\ toParent \in Seq(RequestKinds)
      /\ toParent # <<>> => Head(toParent) \in RequestKinds
  BY QueuesTyped, HeadsGood DEF ConnectionInv
<1>1. UNCHANGED <<phase, unheard, caps>> /\ Here' = Here
  BY DEF HandleRequest, ParentEvent, Handles, bridgeVars, Here
<1>2. CASE HandleRequest
  <2> DEFINE r == Head(toParent)
  <2>1. /\ toParent # <<>> /\ r.name \notin {"get_registry", "sync", "bind"}
        /\ toParent' = Tail(toParent) /\ UNCHANGED toBridge
        /\ knows' = knows \/ (r.makes # "" /\ knows' = knows \cup {r.makes})
    BY <1>0, <1>2, HandledRequest
  <2>2. r \in PlainRequests /\ r.makes \in Objects \cup {""}
    BY <1>0, <2>1 DEF PlainRequests, RequestKinds
  <2>3. "wl_registry" \in knows
    BY <2>1, RegistryKnown
  <2>4. ParentQuiet(toParent, toParent') /\ BridgeQuiet(toBridge, toBridge')
    BY <1>0, <2>1, <2>2, QuietSame, QuietTail
  <2>5. knows' \cap Seats = knows \cap Seats /\ "wl_registry" \in knows'
    BY <2>1, <2>2, <2>3, ParentAssumption
  <2> QED
    BY <1>0, <1>1, <2>3, <2>4, <2>5, TripStays
<1>3. CASE ParentEvent
  <2>1. /\ \E p \in Seq(PlainEvents) : toBridge' = toBridge \o p
        /\ knows' = knows \/ knows' = knows \ {"wl_callback"}
        /\ knows # {} /\ UNCHANGED <<device, toParent, caps>>
    BY <1>3, ParentTells
  <2>2. BridgeQuiet(toBridge, toBridge') /\ ParentQuiet(toParent, toParent')
    BY <1>0, <2>1, QuietSame, QuietAdded
  <2>3. "wl_registry" \in knows
    BY <2>1, RegistryKnown
  <2>4. knows' \cap Seats = knows \cap Seats /\ "wl_registry" \in knows'
    <3>1. "wl_callback" \notin Seats /\ "wl_callback" # "wl_registry"
      BY ParentAssumption DEF Objects
    <3> QED
      BY <2>1, <2>3, <3>1
  <2> QED
    BY <1>0, <1>1, <2>2, <2>3, <2>4, TripStays
<1> QED
  BY <1>2, <1>3

LEMMA ConnectTrips ==
  ASSUME ParentAssumption, ConnectionInv, StartOK, TripInv, Connect
  PROVE  TripInv'
<1> DEFINE reg == Request("wl_display", "get_registry")
<1>1. /\ phase = "connect" /\ phase' = "globals" /\ toParent' = <<reg, Sync>>
      /\ knows' = {} /\ toBridge' = <<>> /\ unheard' = {}
  BY DEF Connect, StartOK, TripInv, TripsOK, parentVars
<1>2. reg.name = "get_registry" /\ Sync.name = "sync"
  BY DEF Request, Sync
<1> HIDE DEF reg
<1>3. reg \notin Syncs /\ \A s \in Seats : reg \notin BindsOf(s) /\ Sync \notin BindsOf(s)
  BY <1>2 DEF Syncs, BindsOf, IsBind
<1>4. Once(<<reg, Sync>>, Syncs) /\ \A s \in Seats : ~Has(<<reg, Sync>>, BindsOf(s))
  BY <1>3 DEF Once, Has
<1>5. \A X : ~Has(<<>>, X) /\ Once(<<>>, X)
  BY HasOne
<1>6. \A s \in Seats : Once(<<reg, Sync>>, BindsOf(s))
  BY <1>4 DEF Once, Has
<1>7. TripsOK'
  BY <1>1, <1>4, <1>5, Zenon DEF TripsOK, reg
<1>8. SeatsOK'
  BY <1>1, <1>4, <1>5, <1>6 DEF SeatsOK, Announced
<1>9. HeardOK'
  BY <1>1 DEF HeardOK, SeatsHeard
<1> QED
  BY <1>7, <1>8, <1>9 DEF TripInv

LEMMA RegistryGlobalTrips ==
  ASSUME ParentAssumption, ConnectionInv, StartOK, TripInv, RegistryGlobal
  PROVE  TripInv'
<1> DEFINE e == Head(toBridge)
           b == Bind(e.global, e.seat)
<1>0. TypeOK /\ toBridge \in Seq(EventKinds) /\ toParent \in Seq(RequestKinds)
  BY QueuesTyped DEF ConnectionInv
<1>1. /\ toBridge # <<>> /\ toBridge' = Tail(toBridge) /\ IsGlobal(e)
      /\ toParent' = toParent \o <<b>>
      /\ unheard' = (IF e.global = "wl_seat" /\ phase = "globals"
                     THEN unheard \cup {e.seat} ELSE unheard)
      /\ UNCHANGED <<phase, caps, knows>>
  BY DEF RegistryGlobal, Hears, Asks, IsGlobal, parentVars
<1>2. /\ e \in EventKinds /\ e.global \in Globals /\ e.seat \in Seats \cup {NoSeat}
      /\ (e.seat \in Seats <=> e.global = "wl_seat")
  BY <1>1, HeadsGood DEF ConnectionInv, EventOK, EventKinds
<1>3. /\ b \in RequestKinds /\ IsBind(b) /\ b.seat = e.seat
      /\ b \notin Syncs /\ b \notin Registries
  BY <1>2, BindFields DEF IsBind, Syncs, Registries
<1>4. e \notin Dones /\ \A s : e \notin CapsOf(s)
  BY <1>1 DEF IsGlobal, IsCaps, IsDone, Dones, CapsOf
<1>5. \A s \in Seats : (e \in GlobalsOf(s) <=> s = e.seat) /\ (b \in BindsOf(s) <=> s = e.seat)
  BY <1>1, <1>2, <1>3 DEF GlobalsOf, BindsOf
<1> HIDE DEF e, b
<1>6. <<b>> \in Seq(RequestKinds) /\ \A X : (Has(<<b>>, X) <=> b \in X) /\ Once(<<b>>, X)
  <2>1. <<b>> \in Seq(RequestKinds)
    BY <1>3
  <2>2. \A X : (Has(<<b>>, X) <=> b \in X) /\ Once(<<b>>, X)
    BY HasOne, Zenon
  <2> QED
    BY <2>1, <2>2
<1>7. "wl_registry" \in knows /\ phase # "connect"
  BY <1>1, RegistryKnown
<1>8. /\ Unmoved(toBridge, toBridge', Dones)
      /\ \A s : Kept(toBridge, toBridge', CapsOf(s), Dones)
  BY <1>0, <1>1, <1>4, TailUnmoved DEF e
<1>9. /\ Unmoved(toParent, toParent', Syncs) /\ Unmoved(toParent, toParent', Registries)
      /\ \A s : Kept(toParent, toParent', BindsOf(s), Syncs)
  BY <1>0, <1>1, <1>3, <1>6, AddedUnmoved
<1>10. TripsOK'
  <2>1. unheard' = unheard \/ phase = "globals"
    BY <1>1
  <2> QED
    BY <1>1, <1>7, <1>8, <1>9 DEF TripInv, TripsOK, Unmoved
<1>11. SeatsOK'
  <2>1. ASSUME NEW s \in Seats, s # e.seat
        PROVE  /\ Unmoved(toBridge, toBridge', GlobalsOf(s))
               /\ Unmoved(toParent, toParent', BindsOf(s))
    <3>1. e \notin GlobalsOf(s) /\ ~Has(<<b>>, BindsOf(s))
      BY <1>5, <1>6, <2>1
    <3>2. Unmoved(toBridge, toBridge', GlobalsOf(s))
      BY <1>0, <1>1, <3>1, TailUnmoved DEF e
    <3> QED
      BY <1>0, <1>1, <1>6, <3>1, <3>2, AddedUnmoved
  <2>2. ASSUME NEW s \in Seats, s = e.seat
        PROVE  /\ ~Has(toBridge', GlobalsOf(s)) /\ Once(toBridge', GlobalsOf(s))
               /\ Has(toBridge, GlobalsOf(s))
               /\ Has(toParent', BindsOf(s)) /\ Once(toParent', BindsOf(s))
    <3>1. e \in GlobalsOf(s) /\ Has(<<b>>, BindsOf(s)) /\ Once(<<b>>, BindsOf(s))
      BY <1>5, <1>6, <2>2
    <3>2. Has(toBridge, GlobalsOf(s))
      BY <1>0, <1>1, <3>1, HasTail DEF e
    <3>3. Once(toBridge, GlobalsOf(s)) /\ Once(toParent, BindsOf(s)) /\ ~Has(toParent, BindsOf(s))
      BY <3>2 DEF TripInv, SeatsOK
    <3>4. Once(toBridge', GlobalsOf(s)) /\ ~Has(toBridge', GlobalsOf(s))
      BY <1>0, <1>1, <3>1, <3>3, OnceTail DEF e
    <3>5. Has(toParent', BindsOf(s))
      BY <1>0, <1>1, <1>6, <3>1, HasConcat
    <3>6. Once(toParent', BindsOf(s))
      BY <1>0, <1>1, <1>6, <3>1, <3>3, OnceConcat
    <3> QED
      BY <3>2, <3>4, <3>5, <3>6
  <2>3. Here' = Here /\ knows' = knows
    BY <1>1 DEF Here
  <2> SUFFICES ASSUME NEW s \in Seats
               PROVE  /\ Once(toBridge', GlobalsOf(s)) /\ Once(toParent', BindsOf(s))
                      /\ ~(Has(toBridge', GlobalsOf(s)) /\ Has(toParent', BindsOf(s)))
                      /\ Announced(s)' => s \notin knows
                      /\ s \in knows => s \in Here
                      /\ s \in Here /\ s \notin knows => Announced(s)'
    BY <2>3 DEF SeatsOK
  <2>4. CASE s = e.seat
    BY <1>7, <2>2, <2>4 DEF TripInv, SeatsOK, Announced
  <2>5. CASE s # e.seat
    BY <1>7, <2>1, <2>5 DEF TripInv, SeatsOK, Announced, Unmoved
  <2> QED
    BY <2>4, <2>5
<1>12. HeardOK'
  <2>1. SeatsHeard'
    BY <1>1 DEF TripInv, HeardOK, SeatsHeard, Here
  <2>2. \A s \in unheard' : s \in unheard \/ (phase = "globals" /\ s \in Seats /\ s = e.seat)
    BY <1>1, <1>2
  <2>3. e.seat \in Seats => Has(toParent', BindsOf(e.seat))
    <3> SUFFICES ASSUME e.seat \in Seats PROVE Has(toParent', BindsOf(e.seat))
      OBVIOUS
    <3>1. Has(<<b>>, BindsOf(e.seat))
      BY <1>5, <1>6
    <3> QED
      BY <1>0, <1>1, <1>6, <3>1, HasConcat
  <2> QED
    <3>1. Here' = Here
      BY <1>1 DEF Here
    <3> QED
      BY <1>1, <1>8, <1>9, <2>1, <2>2, <2>3, <3>1 DEF TripInv, HeardOK, Kept, Unmoved
<1> QED
  BY <1>10, <1>11, <1>12 DEF TripInv

LEMMA SeatCapsTrips ==
  ASSUME ParentAssumption, ConnectionInv, StartOK, TripInv, SeatCaps
  PROVE  TripInv'
<1> DEFINE e == Head(toBridge)
           asks == {GetDevice(d, e.seat) : d \in NewDevices(e.caps)}
<1>0. TypeOK /\ toBridge \in Seq(EventKinds) /\ toParent \in Seq(RequestKinds)
  BY QueuesTyped DEF ConnectionInv
<1>1. /\ toBridge # <<>> /\ toBridge' = Tail(toBridge) /\ IsCaps(e)
      /\ toParent' = toParent \o SetToSeq(asks)
      /\ unheard' = unheard \ {e.seat}
      /\ UNCHANGED <<phase, caps, knows>>
  BY DEF SeatCaps, Hears, Asks, IsCaps, parentVars
<1>2. e.seat \in Seats /\ NewDevices(e.caps) \in SUBSET Devices
  <2>1. e \in EventKinds /\ EventOK(e)
    BY <1>1, HeadsGood DEF ConnectionInv
  <2> QED
    BY <1>1, <2>1 DEF EventOK, EventKinds, NewDevices
<1>3. SetToSeq(asks) \in Seq(PlainRequests)
  <2>1. asks \subseteq PlainRequests
    BY <1>2, PlainAsked
  <2>2. IsFiniteSet(asks)
    BY <1>2, DeviceList
  <2> HIDE DEF asks
  <2>3. SetToSeq(asks) \in Seq(asks)
    BY <2>2, ListOfSet
  <2> QED
    BY <2>1, <2>3, SeqMonotonic
<1>4. ParentQuiet(toParent, toParent')
  BY <1>0, <1>1, <1>3, QuietAdded
<1>5. e \notin Dones /\ \A s : e \notin GlobalsOf(s) /\ (s # e.seat => e \notin CapsOf(s))
  BY <1>1 DEF IsGlobal, IsCaps, IsDone, Dones, CapsOf, GlobalsOf
<1> HIDE DEF e, asks
<1>6. /\ Unmoved(toBridge, toBridge', Dones)
      /\ \A s \in Seats : /\ Unmoved(toBridge, toBridge', GlobalsOf(s))
                          /\ s # e.seat => Kept(toBridge, toBridge', CapsOf(s), Dones)
  BY <1>0, <1>1, <1>5, TailUnmoved DEF e
<1>7. "wl_registry" \in knows /\ phase # "connect"
  BY <1>1, RegistryKnown
<1>8. TripsOK'
  BY <1>1, <1>4, <1>6, <1>7 DEF TripInv, TripsOK, ParentQuiet, Unmoved
<1>9. SeatsOK'
  <2>1. Here' = Here /\ knows' = knows
    BY <1>1 DEF Here
  <2> QED
    BY <1>4, <1>6, <2>1 DEF TripInv, SeatsOK, Announced, ParentQuiet, Unmoved
<1>10. HeardOK'
  <2>1. SeatsHeard'
    BY <1>1 DEF TripInv, HeardOK, SeatsHeard, Here
  <2>2. \A s \in unheard' : /\ s \in unheard /\ Kept(toBridge, toBridge', CapsOf(s), Dones)
                            /\ Unmoved(toParent, toParent', BindsOf(s))
                            /\ Kept(toParent, toParent', BindsOf(s), Syncs)
    BY <1>0, <1>1, <1>4, <1>6 DEF TypeOK, ParentQuiet
  <2>3. Has(toParent', Syncs) <=> Has(toParent, Syncs)
    BY <1>4 DEF ParentQuiet, Unmoved
  <2> QED
    <3>1. Here' = Here
      BY <1>1 DEF Here
    <3> QED
      BY <1>1, <2>1, <2>2, <2>3, <3>1, Zenon DEF TripInv, HeardOK, Kept, Unmoved
<1> QED
  BY <1>8, <1>9, <1>10 DEF TripInv

\* The end of a round trip: every seat of the first is heard before the second ends.
LEMMA RoundTripTrips ==
  ASSUME ParentAssumption, ConnectionInv, StartOK, TripInv, RoundTrip
  PROVE  TripInv'
<1> DEFINE e == Head(toBridge)
           made == <<Make("wl_compositor", "create_surface", "wl_surface"),
                     Make("xdg_wm_base", "get_xdg_surface", "xdg_surface"),
                     Make("xdg_surface", "get_toplevel", "xdg_toplevel"),
                     Request("xdg_toplevel", "set_title"), Request("xdg_toplevel", "set_app_id"),
                     Request("xdg_toplevel", "set_fullscreen"), Request("wl_surface", "commit"),
                     Sync>>
<1>0. TypeOK /\ toBridge \in Seq(EventKinds) /\ toParent \in Seq(RequestKinds)
  BY QueuesTyped DEF ConnectionInv
<1>1. /\ toBridge # <<>> /\ toBridge' = Tail(toBridge) /\ e.object = "sync" /\ e.name = "done"
      /\ UNCHANGED <<unheard, caps, knows>>
  BY DEF RoundTrip, Hears, parentVars
<1>2. e \in Dones /\ \A s : e \notin CapsOf(s) /\ e \notin GlobalsOf(s)
  <2>1. e \in EventKinds
    BY <1>1, HeadsGood DEF ConnectionInv
  <2> QED
    BY <1>1, <2>1 DEF IsGlobal, IsCaps, IsDone, Dones, CapsOf, GlobalsOf
<1> HIDE DEF e
<1>3. "wl_registry" \in knows /\ phase # "connect"
  BY <1>1, RegistryKnown
<1>4. Has(toBridge, Dones) /\ ~Has(toBridge', Dones) /\ Once(toBridge', Dones)
  <2>1. Has(toBridge, Dones)
    BY <1>0, <1>1, <1>2, HasTail DEF e
  <2>2. Once(toBridge, Dones)
    BY DEF TripInv, TripsOK
  <2> QED
    BY <1>0, <1>1, <1>2, <2>1, <2>2, OnceTail DEF e
<1>5. ~Has(toParent, Syncs) /\ Once(toParent, Syncs) /\ phase \notin {"running", "failed"}
  BY <1>4 DEF TripInv, TripsOK
<1>6. \A s : /\ Unmoved(toBridge, toBridge', GlobalsOf(s))
             /\ Kept(toBridge, toBridge', CapsOf(s), Dones)
  BY <1>0, <1>1, <1>2, TailUnmoved DEF e
<1>7. Sync \in Syncs /\ Sync \notin Registries /\ \A s : Sync \notin BindsOf(s)
  <2>1. Sync \in RequestKinds /\ Sync.name = "sync"
    <3>1. "sync" \in RequestNames /\ "wl_display" \in Objects \cup {"wl_display"}
      BY DEF RequestNames
    <3> QED
      BY <3>1, RequestFields DEF Sync
  <2> QED
    BY <2>1 DEF Syncs, Registries, BindsOf, IsBind
<1>8. /\ made \in Seq(RequestKinds) /\ DOMAIN made = 1..8 /\ made[8] = Sync
      /\ \A k \in 1..7 : made[k] \in PlainRequests
  <2>1. /\ Needed \cup Windows \subseteq Objects
        /\ {"wl_surface", "xdg_surface", "xdg_toplevel"} \subseteq Objects
        /\ {"wl_compositor", "xdg_wm_base"} \subseteq Objects
        /\ {"create_surface", "get_xdg_surface", "get_toplevel", "set_title", "set_app_id",
            "set_fullscreen", "commit"} \subseteq RequestNames \ {"get_registry", "sync", "bind"}
    BY DEF Objects, Globals, Needed, Windows, RequestNames
  <2>2. /\ Make("wl_compositor", "create_surface", "wl_surface") \in PlainRequests
        /\ Make("xdg_wm_base", "get_xdg_surface", "xdg_surface") \in PlainRequests
        /\ Make("xdg_surface", "get_toplevel", "xdg_toplevel") \in PlainRequests
    BY <2>1, PlainAsked
  <2>3. /\ Request("xdg_toplevel", "set_title") \in PlainRequests
        /\ Request("xdg_toplevel", "set_app_id") \in PlainRequests
        /\ Request("xdg_toplevel", "set_fullscreen") \in PlainRequests
        /\ Request("wl_surface", "commit") \in PlainRequests
    BY <2>1, PlainAsked
  <2>4. \A k \in 1..7 : made[k] \in PlainRequests
    <3>1. \A k \in 1..7 : k = 1 \/ k = 2 \/ k = 3 \/ k = 4 \/ k = 5 \/ k = 6 \/ k = 7
      OBVIOUS
    <3> QED
      BY <2>2, <2>3, <3>1
  <2>5. made[8] = Sync /\ DOMAIN made = 1..8
    OBVIOUS
  <2>6. made \in Seq(RequestKinds)
    BY <1>7, <2>2, <2>3, QueuesTyped DEF Syncs
  <2> QED
    BY <2>4, <2>5, <2>6
<1>9. ASSUME NEW q \in Seq(RequestKinds), NEW n \in DOMAIN q, q[n] = Sync,
             \A k \in DOMAIN q : k # n => q[k] \in PlainRequests,
             toParent' = toParent \o q
      PROVE  /\ Has(toParent', Syncs) /\ Once(toParent', Syncs)
             /\ Unmoved(toParent, toParent', Registries)
             /\ \A s : /\ Unmoved(toParent, toParent', BindsOf(s))
                       /\ Kept(toParent, toParent', BindsOf(s), Syncs)
             /\ \A s : Has(toParent, BindsOf(s)) => Ahead(toParent', BindsOf(s), Syncs)
  <2>1. \A a \in PlainRequests : /\ a \notin Syncs /\ a \notin Registries
                                 /\ \A s : a \notin BindsOf(s)
    BY DEF PlainRequests, Syncs, Registries, BindsOf, IsBind
  <2>2. Has(q, Syncs) /\ Once(q, Syncs) /\ ~Has(q, Registries) /\ \A s : ~Has(q, BindsOf(s))
    BY <1>7, <1>9, <2>1, Zenon DEF Has, Once
  <2>3. Has(toParent', Syncs) /\ Once(toParent', Syncs)
    BY <1>0, <1>5, <1>9, <2>2, HasConcat, OnceConcat
  <2>4. /\ Unmoved(toParent, toParent', Registries)
        /\ \A s : /\ Unmoved(toParent, toParent', BindsOf(s))
                  /\ Kept(toParent, toParent', BindsOf(s), Syncs)
    BY <1>0, <1>9, <2>2, AddedUnmoved
  <2>5. ASSUME NEW s, Has(toParent, BindsOf(s)) PROVE Ahead(toParent', BindsOf(s), Syncs)
    BY <1>0, <1>5, <1>9, <2>5, AheadConcat
  <2> QED
    BY <2>3, <2>4, <2>5
<1>10. \/ phase = "globals" /\ phase' = "seats" /\ toParent' = toParent \o <<Sync>>
       \/ phase = "seats" /\ phase' = "window" /\ toParent' = toParent \o made
       \/ phase = "seats" /\ phase' = "failed" /\ toParent' = toParent
       \/ phase = "window" /\ phase' = "running" /\ toParent' = toParent
  <2>1. phase \in {"globals", "seats", "window"}
    BY <1>0, <1>3, <1>5 DEF TypeOK
  <2>2. \/ phase = "globals" /\ phase' = "seats"
        \/ phase = "seats" /\ phase' = "window"
        \/ phase = "seats" /\ phase' = "failed"
        \/ phase = "window" /\ phase' = "running"
    BY <2>1 DEF RoundTrip, AfterGlobals
  <2>3. phase' = "seats" => toParent' = toParent \o <<Sync>>
    BY DEF RoundTrip, Asks
  <2>4. phase' = "window" => toParent' = toParent \o made
    BY DEF RoundTrip, MakeWindow, Asks, made
  <2>5. phase' \notin {"seats", "window"} => toParent' = toParent
    BY DEF RoundTrip
  <2> QED
    BY <2>2, <2>3, <2>4, <2>5
<1>11. /\ phase' \in {"seats", "window"} => Has(toParent', Syncs)
       /\ phase' \notin {"seats", "window"} => ~Has(toParent', Syncs)
       /\ Once(toParent', Syncs)
       /\ Unmoved(toParent, toParent', Registries)
       /\ \A s : /\ Unmoved(toParent, toParent', BindsOf(s))
                 /\ Kept(toParent, toParent', BindsOf(s), Syncs)
       /\ phase' = "seats" =>
            \A s : Has(toParent, BindsOf(s)) => Ahead(toParent', BindsOf(s), Syncs)
  <2>1. CASE phase' = "seats"
    <3>1. /\ <<Sync>> \in Seq(RequestKinds) /\ 1 \in DOMAIN <<Sync>> /\ <<Sync>>[1] = Sync
          /\ \A k \in DOMAIN <<Sync>> : k = 1
      BY <1>7 DEF Syncs
    <3>2. toParent' = toParent \o <<Sync>>
      BY <1>10, <2>1
    <3> QED
      BY <1>9, <2>1, <3>1, <3>2
  <2>2. CASE phase' = "window"
    <3>1. 8 \in DOMAIN made /\ \A k \in DOMAIN made : k # 8 => k \in 1..7
      BY <1>8
    <3>2. toParent' = toParent \o made
      BY <1>10, <2>2
    <3> QED
      BY <1>8, <1>9, <2>2, <3>1, <3>2
  <2>3. CASE phase' \notin {"seats", "window"}
    BY <1>5, <1>10, <2>3, SameUnmoved
  <2> QED
    BY <2>1, <2>2, <2>3
<1>12. TripsOK'
  BY <1>1, <1>3, <1>4, <1>10, <1>11 DEF TripInv, TripsOK, Unmoved
<1>13. SeatsOK'
  <2>1. Here' = Here /\ knows' = knows
    BY <1>1 DEF Here
  <2> QED
    BY <1>6, <1>11, <2>1 DEF TripInv, SeatsOK, Announced, Unmoved
<1>14. phase = "seats" => unheard \cap Here = {}
  <2> SUFFICES ASSUME phase = "seats", NEW s \in unheard, s \in Here PROVE FALSE
    OBVIOUS
  <2>1. Ahead(toBridge, CapsOf(s), Dones)
    BY <1>5 DEF TripInv, HeardOK
  <2>2. e \notin Dones
    BY <1>0, <1>1, <2>1, AheadTail DEF e
  <2> QED
    BY <1>2, <2>2
<1>15. HeardOK'
  <2>1. SeatsHeard'
    BY <1>1, <1>10, <1>14 DEF TripInv, HeardOK, SeatsHeard, Here
  <2>2. phase' = "seats" =>
          \A s \in unheard : s \in Here =>
            \/ Ahead(toBridge', CapsOf(s), Dones)
            \/ Has(toParent', Syncs) /\ Ahead(toParent', BindsOf(s), Syncs)
    <3> SUFFICES ASSUME phase' = "seats", NEW s \in unheard, s \in Here
                 PROVE  \/ Ahead(toBridge', CapsOf(s), Dones)
                        \/ Has(toParent', Syncs) /\ Ahead(toParent', BindsOf(s), Syncs)
      OBVIOUS
    <3>1. Has(toBridge, CapsOf(s)) \/ Has(toParent, BindsOf(s))
      BY <1>10 DEF TripInv, HeardOK
    <3>2. CASE Has(toBridge, CapsOf(s))
      <4>1. Has(toBridge', CapsOf(s))
        BY <1>6, <3>2 DEF Kept
      <4> QED
        BY <1>4, <4>1, AheadOfNone
    <3>3. CASE Has(toParent, BindsOf(s))
      BY <1>11, <3>3
    <3> QED
      BY <3>1, <3>2, <3>3
  <2> QED
    <3>1. Here' = Here
      BY <1>1 DEF Here
    <3> QED
      BY <1>1, <1>10, <2>1, <2>2, <3>1, Zenon DEF HeardOK
<1> QED
  BY <1>12, <1>13, <1>15 DEF TripInv

\* The parent announces each of its seats once.
LEMMA AnnouncesTrips ==
  ASSUME ParentAssumption, ConnectionInv, StartOK, TripInv, Announces
  PROVE  TripInv'
<1> DEFINE globals == {GlobalEvent(g, NoSeat) : g \in {n \in Needed : offered[n] # 0}}
           seats == {GlobalEvent("wl_seat", s) : s \in Here}
           found == globals \cup seats
           reg == Request("wl_display", "get_registry")
<1>0. TypeOK /\ toBridge \in Seq(EventKinds) /\ toParent \in Seq(RequestKinds)
  BY QueuesTyped DEF ConnectionInv
<1>1. /\ toParent # <<>> /\ Head(toParent).name = "get_registry" /\ toParent' = Tail(toParent)
      /\ toBridge' = toBridge \o SetToSeq(found)
      /\ knows' = knows \cup {"wl_registry"}
      /\ UNCHANGED <<phase, unheard, caps>>
  BY DEF Announces, Handles, Tells, bridgeVars
<1>2. Here \subseteq Seats
  BY <1>0, CapsTyped
<1>3. IsFiniteSet(found)
  BY <1>0, AnnouncedFinite
<1>4. \A g \in Needed : LET e == GlobalEvent(g, NoSeat)
                        IN  e \in EventKinds /\ e.seat = NoSeat /\ IsGlobal(e)
  BY GlobalEventFields DEF IsGlobal, Globals
<1>5. \A s \in Here : LET e == GlobalEvent("wl_seat", s)
                      IN  e \in EventKinds /\ e.seat = s /\ IsGlobal(e)
  BY <1>2, GlobalEventFields DEF IsGlobal, Globals
<1>6. "wl_registry" \notin knows
  <2>1. Head(toParent) \in Registries
    BY <1>0, <1>1, HeadsGood DEF ConnectionInv, Registries
  <2>2. Has(toParent, Registries)
    BY <1>0, <1>1, <2>1, HasTail
  <2> QED
    BY <2>2 DEF TripInv, TripsOK
<1>7. /\ knows = {} /\ toBridge = <<>> /\ toParent = <<reg, Sync>>
      /\ phase = "globals" /\ unheard = {}
  BY <1>0, <1>1, <1>6 DEF TripInv, TripsOK
<1>8. toParent' = <<Sync>> /\ Sync.name = "sync" /\ knows' = {"wl_registry"}
  <2>1. \A a, b : Tail(<<a, b>>) = <<b>>
    OBVIOUS
  <2>2. toParent' = <<Sync>>
    BY <1>1, <1>7, <2>1, Zenon
  <2>3. Sync.name = "sync"
    BY DEF Sync, Request
  <2> QED
    BY <1>1, <1>7, <2>2, <2>3
<1>9. /\ Once(toParent', Syncs) /\ ~Has(toParent', Registries)
      /\ \A s : ~Has(toParent', BindsOf(s)) /\ Once(toParent', BindsOf(s))
  BY <1>8 DEF Once, Has, Registries, BindsOf, IsBind
<1>10. \A a \in found : a \in EventKinds /\ IsGlobal(a)
  BY <1>4, <1>5, Zenon
<1>11. ASSUME NEW s \in Seats
       PROVE  /\ \A x, y \in found \cap GlobalsOf(s) : x = y
              /\ found \cap GlobalsOf(s) # {} <=> s \in Here
  <2>1. \A a \in found : a \in GlobalsOf(s) => a = GlobalEvent("wl_seat", s) /\ s \in Here
    <3>1. \A a \in globals : a \notin GlobalsOf(s)
      BY <1>4, ParentAssumption DEF GlobalsOf
    <3>2. \A t \in Here : GlobalEvent("wl_seat", t) \in GlobalsOf(s) => t = s
      BY <1>5 DEF GlobalsOf
    <3> QED
      BY <3>1, <3>2, Zenon
  <2>2. s \in Here => GlobalEvent("wl_seat", s) \in found \cap GlobalsOf(s)
    BY <1>5 DEF GlobalsOf
  <2> HIDE DEF found
  <2> QED
    BY <2>1, <2>2
<1> HIDE DEF found
<1>12. toBridge' = SetToSeq(found) /\ toBridge' \in Seq(found)
  <2>1. SetToSeq(found) \in Seq(found)
    BY <1>3, ListOfSet
  <2>2. <<>> \o SetToSeq(found) = SetToSeq(found)
    BY <2>1, ConcatEmptySeq
  <2> QED
    BY <1>1, <1>7, <2>1, <2>2
<1>13. ~Has(toBridge', Dones) /\ Once(toBridge', Dones)
  <2>1. \A a \in found : a \notin Dones
    BY <1>10 DEF Dones, IsDone, IsGlobal
  <2>2. ~Has(toBridge', Dones)
    BY <1>12, <2>1, NoneOf
  <2> QED
    BY <2>2 DEF Has, Once
<1>14. \A s \in Seats : /\ Once(toBridge', GlobalsOf(s))
                        /\ Has(toBridge', GlobalsOf(s)) <=> s \in Here
  <2> SUFFICES ASSUME NEW s \in Seats
               PROVE  /\ Once(SetToSeq(found), GlobalsOf(s))
                      /\ Has(SetToSeq(found), GlobalsOf(s)) <=> s \in Here
    BY <1>12
  <2>1. Once(SetToSeq(found), GlobalsOf(s))
    BY <1>3, <1>11, OnceListed
  <2>2. Has(SetToSeq(found), GlobalsOf(s)) <=> found \cap GlobalsOf(s) # {}
    BY <1>3, HasListed
  <2> QED
    BY <1>11, <2>1, <2>2
<1>15. TripsOK'
  BY <1>1, <1>7, <1>8, <1>9, <1>13 DEF TripsOK
<1>16. SeatsOK'
  <2>1. Here' = Here /\ "wl_registry" \notin Seats
    BY <1>1, ParentAssumption DEF Here, Objects
  <2> QED
    BY <1>8, <1>9, <1>14, <2>1 DEF SeatsOK, Announced
<1>17. HeardOK'
  BY <1>1, <1>7 DEF HeardOK, SeatsHeard
<1> QED
  BY <1>15, <1>16, <1>17 DEF TripInv

\* The parent answers a round trip when it has handled what came before it.
LEMMA AnswersTrips ==
  ASSUME ParentAssumption, ConnectionInv, StartOK, TripInv, Answers
  PROVE  TripInv'
<1> DEFINE r == Head(toParent)
<1>0. TypeOK /\ toBridge \in Seq(EventKinds) /\ toParent \in Seq(RequestKinds)
  BY QueuesTyped DEF ConnectionInv
<1>1. /\ toParent # <<>> /\ r.name = "sync" /\ toParent' = Tail(toParent)
      /\ toBridge' = toBridge \o <<Done>>
      /\ UNCHANGED <<phase, unheard, caps, knows>>
  BY DEF Answers, Handles, Tells, bridgeVars
<1>2. r \in Syncs /\ r \notin Registries /\ \A s : r \notin BindsOf(s)
  BY <1>0, <1>1, HeadsGood DEF ConnectionInv, Syncs, Registries, BindsOf, IsBind
<1>3. "wl_registry" \in knows /\ phase # "connect"
  BY <1>1, RegistryKnown
<1> HIDE DEF r
<1>4. Has(toParent, Syncs) /\ ~Has(toParent', Syncs) /\ Once(toParent', Syncs)
  <2>1. Has(toParent, Syncs)
    BY <1>0, <1>1, <1>2, HasTail DEF r
  <2>2. Once(toParent, Syncs)
    BY DEF TripInv, TripsOK
  <2> QED
    BY <1>0, <1>1, <1>2, <2>1, <2>2, OnceTail DEF r
<1>5. ~Has(toBridge, Dones) /\ phase \notin {"running", "failed"}
  BY <1>4 DEF TripInv, TripsOK
<1>6. Unmoved(toParent, toParent', Registries) /\ \A s : Unmoved(toParent, toParent', BindsOf(s))
  BY <1>0, <1>1, <1>2, TailUnmoved DEF r
<1>7. <<Done>> \in Seq(EventKinds) /\ \A s : ~Has(<<Done>>, GlobalsOf(s))
  <2>1. Done \in EventKinds /\ Done.object = "sync"
    BY DEF Done, Event, EventKinds, EventNames
  <2>2. \A s : Done \notin GlobalsOf(s)
    BY <2>1 DEF GlobalsOf, IsGlobal
  <2> QED
    BY <2>1, <2>2 DEF Has
<1>8. \A s : /\ Unmoved(toBridge, toBridge', GlobalsOf(s))
             /\ Kept(toBridge, toBridge', CapsOf(s), Dones)
  BY <1>0, <1>1, <1>7, AddedUnmoved
<1>9. Once(toBridge', Dones)
  <2>1. Once(toBridge, Dones) /\ Once(<<Done>>, Dones)
    BY DEF TripInv, TripsOK, Once
  <2> QED
    BY <1>0, <1>1, <1>5, <1>7, <2>1, OnceConcat
<1>10. TripsOK'
  BY <1>1, <1>3, <1>4, <1>5, <1>6, <1>9 DEF TripInv, TripsOK, Unmoved
<1>11. SeatsOK'
  <2>1. Here' = Here /\ knows' = knows
    BY <1>1 DEF Here
  <2> QED
    BY <1>6, <1>8, <2>1 DEF TripInv, SeatsOK, Announced, Unmoved
<1>12. HeardOK'
  <2>1. SeatsHeard'
    BY <1>1 DEF TripInv, HeardOK, SeatsHeard, Here
  <2>2. \A s : ~Ahead(toParent, BindsOf(s), Syncs)
    BY <1>0, <1>1, <1>2, AheadTail DEF r
  <2>3. Here' = Here
    BY <1>1 DEF Here
  <2> QED
    BY <1>1, <1>6, <1>8, <2>1, <2>2, <2>3 DEF TripInv, HeardOK, Unmoved, Kept
<1> QED
  BY <1>10, <1>11, <1>12 DEF TripInv

LEMMA CapsEventOf ==
  \A s \in Seats, c \in SUBSET Devices : CapsEvent(s, c) \in {e \in CapsOf(s) : e.caps = c}
<1> SUFFICES ASSUME NEW s \in Seats, NEW c \in SUBSET Devices
             PROVE  CapsEvent(s, c) \in {e \in CapsOf(s) : e.caps = c}
  OBVIOUS
<1> DEFINE e == CapsEvent(s, c)
<1>1. /\ e \in EventKinds /\ e.object = "wl_seat" /\ e.name = "capabilities"
      /\ e.seat = s /\ e.caps = c
  BY DEF Event, CapsEvent, EventKinds, Objects, Globals, EventNames
<1> HIDE DEF e
<1>2. e \in CapsOf(s) /\ e.caps = c
  BY <1>1 DEF CapsOf, IsCaps
<1> QED
  BY <1>2 DEF e

\* A seat that is bound tells its capabilities at once.
LEMMA BindDoneTrips ==
  ASSUME ParentAssumption, ConnectionInv, StartOK, TripInv, BindDone
  PROVE  TripInv'
<1> DEFINE r == Head(toParent)
           s == r.seat
           name == IF version["wl_seat"] >= 2 THEN <<Event("wl_seat", "name")>> ELSE <<>>
           told == IF s \notin Here THEN <<>> ELSE <<CapsEvent(s, caps[s])>> \o name
<1>0. TypeOK /\ toBridge \in Seq(EventKinds) /\ toParent \in Seq(RequestKinds)
  BY QueuesTyped DEF ConnectionInv
<1>1. /\ toParent # <<>> /\ r.name = "bind" /\ toParent' = Tail(toParent)
      /\ toBridge' = toBridge \o told
      /\ knows' = knows \cup {r.makes} \cup ({s} \cap Here)
      /\ UNCHANGED <<phase, unheard, caps>>
  BY DEF BindDone, Handles, Tells, bridgeVars
<1>2. /\ r \in RequestKinds /\ IsBind(r) /\ r.makes \in Globals /\ s \in Seats \cup {NoSeat}
  <2>1. r \in RequestKinds /\ RequestOK(r)
    BY <1>1, HeadsGood DEF ConnectionInv
  <2> QED
    BY <1>1, <2>1 DEF RequestOK, RequestKinds, Asked
<1>3. /\ r \notin Syncs /\ r \notin Registries /\ \A t \in Seats : r \in BindsOf(t) <=> t = s
  BY <1>1, <1>2 DEF Syncs, Registries, BindsOf
<1>4. "wl_registry" \in knows /\ "wl_registry" \in knows' /\ phase # "connect"
  <2>1. "wl_registry" \in knows /\ phase # "connect"
    BY <1>1, RegistryKnown
  <2> QED
    BY <1>1, <2>1
<1>5. knows' \cap Seats = (knows \cap Seats) \cup ({s} \cap Here)
  <2>1. r.makes \notin Seats /\ Here \subseteq Seats
    BY <1>0, <1>2, CapsTyped, ParentAssumption DEF Objects
  <2> QED
    BY <1>1, <2>1
<1> HIDE DEF r, s
<1>6. /\ Unmoved(toParent, toParent', Syncs) /\ Unmoved(toParent, toParent', Registries)
      /\ \A t \in Seats \ {s} : /\ Unmoved(toParent, toParent', BindsOf(t))
                                /\ Kept(toParent, toParent', BindsOf(t), Syncs)
  <2>1. \A t \in Seats \ {s} : r \notin BindsOf(t)
    BY <1>3
  <2> QED
    BY <1>0, <1>1, <1>3, <2>1, TailUnmoved DEF r
<1>7. s \in Seats => /\ Has(toParent, BindsOf(s)) /\ ~Has(toParent', BindsOf(s))
                     /\ Once(toParent', BindsOf(s)) /\ ~Has(toBridge, GlobalsOf(s))
  <2> SUFFICES ASSUME s \in Seats
               PROVE  /\ Has(toParent, BindsOf(s)) /\ ~Has(toParent', BindsOf(s))
                      /\ Once(toParent', BindsOf(s)) /\ ~Has(toBridge, GlobalsOf(s))
    OBVIOUS
  <2>1. r \in BindsOf(s)
    BY <1>3
  <2>2. Has(toParent, BindsOf(s))
    BY <1>0, <1>1, <2>1, HasTail DEF r
  <2>3. Once(toParent, BindsOf(s)) /\ ~Has(toBridge, GlobalsOf(s))
    BY <2>2 DEF TripInv, SeatsOK, Announced
  <2>4. ~Has(toParent', BindsOf(s)) /\ Once(toParent', BindsOf(s))
    BY <1>0, <1>1, <2>1, <2>3, OnceTail DEF r
  <2> QED
    BY <2>2, <2>3, <2>4
<1>8. /\ told \in Seq(EventKinds) /\ ~Has(told, Dones) /\ \A t : ~Has(told, GlobalsOf(t))
      /\ s \in Here => Has(told, CapsOf(s))
  <2>1. CASE s \notin Here
    <3>1. told = <<>>
      BY <2>1
    <3> HIDE DEF told
    <3> QED
      BY <2>1, <3>1, HasOne
  <2>2. CASE s \in Here
    <3> DEFINE e == CapsEvent(s, caps[s])
    <3>1. s \in Seats /\ caps[s] \in SUBSET Devices
      BY <1>0, <2>2, CapsTyped
    <3>2. e \in EventKinds /\ IsCaps(e) /\ e.seat = s
      BY <3>1, CapsEventOf, Zenon DEF CapsOf
    <3>3. e \in CapsOf(s) /\ e \notin Dones /\ \A t : e \notin GlobalsOf(t)
      BY <3>2 DEF CapsOf, GlobalsOf, Dones, IsCaps, IsDone, IsGlobal
    <3>4. name \in Seq(PlainEvents)
      <4>1. "wl_seat" \in Objects \ {"wl_registry"} /\ "name" \in EventNames \ {"capabilities"}
        BY DEF Objects, Globals, EventNames
      <4>2. Event("wl_seat", "name") \in PlainEvents
        BY <4>1, PlainTold
      <4>3. <<Event("wl_seat", "name")>> \in Seq(PlainEvents) /\ <<>> \in Seq(PlainEvents)
        BY <4>2
      <4> QED
        BY <4>3
    <3> HIDE DEF e, name
    <3>5. <<e>> \in Seq(EventKinds) /\ name \in Seq(EventKinds)
      BY <3>2, <3>4, QueuesTyped, SeqMonotonic
    <3>6. ~Has(name, Dones) /\ \A t : ~Has(name, GlobalsOf(t))
      <4>1. \A a \in PlainEvents : a \notin Dones /\ \A t : a \notin GlobalsOf(t)
        BY DEF PlainEvents, Dones, GlobalsOf
      <4> QED
        BY <3>4, <4>1, NoneOf
    <3>7. \A X : Has(<<e>>, X) <=> e \in X
      BY HasOne, Zenon
    <3>8. \A X : Has(<<e>> \o name, X) <=> e \in X \/ Has(name, X)
      BY <3>5, <3>7, HasConcat
    <3>9. <<e>> \o name \in Seq(EventKinds)
      BY <3>5, ConcatProperties
    <3>10. told = <<e>> \o name
      BY <2>2 DEF e
    <3> HIDE DEF told
    <3> QED
      BY <3>3, <3>6, <3>8, <3>9, <3>10
  <2> QED
    BY <2>1, <2>2
<1> HIDE DEF told
<1>9. /\ Unmoved(toBridge, toBridge', Dones)
      /\ \A t : /\ Unmoved(toBridge, toBridge', GlobalsOf(t))
                /\ Kept(toBridge, toBridge', CapsOf(t), Dones)
  BY <1>0, <1>1, <1>8, AddedUnmoved
<1>10. s \in Here => Has(toBridge', CapsOf(s))
  BY <1>0, <1>1, <1>8, HasConcat
<1>11. TripsOK'
  BY <1>1, <1>4, <1>6, <1>9 DEF TripInv, TripsOK, Unmoved
<1>12. SeatsOK'
  <2>1. Here' = Here
    BY <1>1 DEF Here
  <2> SUFFICES ASSUME NEW t \in Seats
               PROVE  /\ Once(toBridge', GlobalsOf(t)) /\ Once(toParent', BindsOf(t))
                      /\ ~(Has(toBridge', GlobalsOf(t)) /\ Has(toParent', BindsOf(t)))
                      /\ Announced(t)' => t \notin knows'
                      /\ t \in knows' => t \in Here
                      /\ t \in Here /\ t \notin knows' => Announced(t)'
    BY <2>1 DEF SeatsOK
  <2>2. CASE t = s
    <3>1. t \in knows' <=> t \in knows \/ t \in Here
      BY <1>5, <2>2
    <3> QED
      BY <1>7, <1>9, <2>2, <3>1 DEF TripInv, SeatsOK, Announced, Unmoved
  <2>3. CASE t # s
    <3>1. t \in knows' <=> t \in knows
      BY <1>5, <2>3
    <3>2. Unmoved(toBridge, toBridge', GlobalsOf(t)) /\ Unmoved(toParent, toParent', BindsOf(t))
      BY <1>6, <1>9, <2>3
    <3> QED
      BY <1>4, <3>1, <3>2 DEF TripInv, SeatsOK, Announced, Unmoved
  <2> QED
    BY <2>2, <2>3
<1>13. HeardOK'
  <2>1. SeatsHeard'
    BY <1>1 DEF TripInv, HeardOK, SeatsHeard, Here
  <2>2. ASSUME NEW t \in unheard, t \in Here
        PROVE  /\ phase = "globals" => Has(toBridge', CapsOf(t)) \/ Has(toParent', BindsOf(t))
               /\ phase = "seats" => \/ Ahead(toBridge', CapsOf(t), Dones)
                                     \/ Has(toParent', Syncs) /\ Ahead(toParent', BindsOf(t), Syncs)
    <3>1. t \in Seats
      BY <1>0 DEF TypeOK
    <3>2. CASE t # s
      BY <1>6, <1>9, <2>2, <3>1, <3>2 DEF TripInv, HeardOK, Unmoved, Kept
    <3>3. CASE t = s
      <4>1. Has(toBridge', CapsOf(t))
        BY <1>10, <2>2, <3>3
      <4>2. phase = "seats" /\ Has(toParent, Syncs) => Ahead(toBridge', CapsOf(t), Dones)
        <5>1. Has(toParent, Syncs) => ~Has(toBridge', Dones)
          BY <1>9 DEF TripInv, TripsOK, Unmoved
        <5> QED
          BY <4>1, <5>1, AheadOfNone
      <4> QED
        BY <1>9, <2>2, <4>1, <4>2 DEF TripInv, HeardOK, Kept
    <3> QED
      BY <3>2, <3>3
  <2> QED
    <3>1. Here' = Here
      BY <1>1 DEF Here
    <3> QED
      BY <1>1, <2>1, <2>2, <3>1, Zenon DEF HeardOK
<1> QED
  BY <1>11, <1>12, <1>13 DEF TripInv

LEMMA CapsChangeTrips ==
  ASSUME ParentAssumption, ConnectionInv, StartOK, TripInv, NEW s \in Seats, CapsChange(s)
  PROVE  TripInv'
<1>0. TypeOK /\ toBridge \in Seq(EventKinds) /\ toParent \in Seq(RequestKinds)
  BY QueuesTyped DEF ConnectionInv
<1>1. PICK c \in SUBSET Devices :
        /\ caps' = [caps EXCEPT ![s] = c] /\ knows' = knows \ Lost(s, c)
        /\ IF s \in knows THEN toBridge' = toBridge \o <<CapsEvent(s, c)>> ELSE UNCHANGED toBridge
  BY DEF CapsChange, Tells
<1>2. /\ UNCHANGED <<phase, unheard, toParent>> /\ Here' = Here
  BY <1>1 DEF CapsChange, bridgeVars, Here
<1>3. /\ knows' \cap Seats = knows \cap Seats
      /\ "wl_registry" \in knows' <=> "wl_registry" \in knows
      /\ knows' \subseteq knows
  <2>1. Lost(s, c) \subseteq Devices /\ Devices \cap Seats = {} /\ "wl_registry" \notin Devices
    BY ParentAssumption DEF Lost, Objects, Devices
  <2> QED
    BY <1>1, <2>1
<1>4. BridgeQuiet(toBridge, toBridge')
  <2>1. CASE s \in knows
    <3> DEFINE e == CapsEvent(s, c)
    <3>1. e \in EventKinds /\ e.object = "wl_seat"
      <4>1. e \in CapsOf(s)
        BY CapsEventOf, Zenon
      <4> HIDE DEF e
      <4> QED
        BY <4>1 DEF CapsOf, IsCaps
    <3>2. e \notin Dones /\ \A t : e \notin GlobalsOf(t)
      BY <3>1 DEF Dones, IsDone, GlobalsOf, IsGlobal
    <3> HIDE DEF e
    <3>3. <<e>> \in Seq(EventKinds) /\ ~Has(<<e>>, Dones) /\ \A t : ~Has(<<e>>, GlobalsOf(t))
      BY <3>1, <3>2 DEF Has
    <3>4. toBridge' = toBridge \o <<e>>
      BY <1>1, <2>1 DEF e
    <3>5. /\ Unmoved(toBridge, toBridge', Dones)
          /\ \A t : /\ Unmoved(toBridge, toBridge', GlobalsOf(t))
                    /\ Kept(toBridge, toBridge', CapsOf(t), Dones)
      BY <1>0, <3>3, <3>4, AddedUnmoved
    <3> QED
      BY <3>5 DEF BridgeQuiet
  <2>2. CASE s \notin knows
    BY <1>1, <2>2, QuietSame
  <2> QED
    BY <2>1, <2>2
<1>5. "wl_registry" \notin knows => UNCHANGED <<knows, toBridge, toParent>>
  <2> SUFFICES ASSUME "wl_registry" \notin knows PROVE UNCHANGED <<knows, toBridge, toParent>>
    OBVIOUS
  <2>1. knows = {}
    BY DEF TripInv, TripsOK
  <2> QED
    BY <1>1, <1>2, <1>3, <2>1
<1>6. ParentQuiet(toParent, toParent')
  BY <1>2, QuietSame
<1> QED
  BY <1>0, <1>2, <1>3, <1>4, <1>5, <1>6, TripStays

LEMMA SeatAppearsTrips ==
  ASSUME ParentAssumption, ConnectionInv, StartOK, TripInv, NEW s \in Seats, SeatAppears(s)
  PROVE  TripInv'
<1>0. TypeOK /\ toBridge \in Seq(EventKinds) /\ toParent \in Seq(RequestKinds)
  BY QueuesTyped DEF ConnectionInv
<1>1. /\ s \notin Here /\ s \notin knows /\ s \notin unheard
      /\ IF "wl_registry" \in knows THEN toBridge' = toBridge \o <<GlobalEvent("wl_seat", s)>>
         ELSE UNCHANGED toBridge
      /\ UNCHANGED <<phase, unheard, knows, toParent>>
  <2>1. s \notin Here
    BY DEF SeatAppears
  <2>2. s \notin knows
    BY <2>1 DEF TripInv, SeatsOK
  <2> QED
    BY <2>1, <2>2 DEF SeatAppears, Tells, bridgeVars
<1>2. Here' = Here \cup {s}
  BY DEF SeatAppears, Here
<1>3. ~Has(toBridge, GlobalsOf(s)) /\ ~Has(toParent, BindsOf(s))
  BY DEF SeatAppears, Named, Has, GlobalsOf, BindsOf
<1>4. CASE "wl_registry" \notin knows
  <2>1. UNCHANGED <<phase, unheard, knows, toParent, toBridge>>
    BY <1>1, <1>4
  <2>2. TripsOK' /\ HeardOK'
    BY <1>1, <1>2, <2>1 DEF TripInv, TripsOK, HeardOK, SeatsHeard
  <2>3. SeatsOK'
    BY <1>2, <1>4, <2>1 DEF TripInv, SeatsOK, Announced
  <2> QED
    BY <2>2, <2>3 DEF TripInv
<1>5. CASE "wl_registry" \in knows
  <2> DEFINE e == GlobalEvent("wl_seat", s)
  <2>1. e \in EventKinds /\ IsGlobal(e) /\ e.seat = s
    BY GlobalEventFields DEF IsGlobal, Globals
  <2>2. e \notin Dones /\ \A t : (e \in GlobalsOf(t) <=> t = s)
    BY <2>1 DEF Dones, IsDone, GlobalsOf, IsGlobal
  <2>3. toBridge' = toBridge \o <<e>>
    BY <1>1, <1>5
  <2> HIDE DEF e
  <2>4. <<e>> \in Seq(EventKinds)
    BY <2>1
  <2>5. \A X : (Has(<<e>>, X) <=> e \in X) /\ Once(<<e>>, X)
    BY HasOne, Zenon
  <2>6. /\ Unmoved(toBridge, toBridge', Dones)
        /\ \A t : /\ t # s => Unmoved(toBridge, toBridge', GlobalsOf(t))
                  /\ Kept(toBridge, toBridge', CapsOf(t), Dones)
    BY <1>0, <2>2, <2>3, <2>4, <2>5, AddedUnmoved
  <2>7. Has(toBridge', GlobalsOf(s)) /\ Once(toBridge', GlobalsOf(s))
    <3>1. Has(<<e>>, GlobalsOf(s)) /\ Once(<<e>>, GlobalsOf(s)) /\ Once(toBridge, GlobalsOf(s))
      BY <2>2, <2>5 DEF TripInv, SeatsOK
    <3> QED
      BY <1>0, <1>3, <2>3, <2>4, <3>1, HasConcat, OnceConcat
  <2>8. TripsOK'
    BY <1>1, <1>5, <2>6 DEF TripInv, TripsOK, Unmoved
  <2>9. HeardOK'
    BY <1>1, <1>2, <2>6 DEF TripInv, HeardOK, SeatsHeard, Kept
  <2>10. SeatsOK'
    <3> SUFFICES ASSUME NEW t \in Seats
                 PROVE  /\ Once(toBridge', GlobalsOf(t)) /\ Once(toParent, BindsOf(t))
                        /\ ~(Has(toBridge', GlobalsOf(t)) /\ Has(toParent, BindsOf(t)))
                        /\ Announced(t)' => t \notin knows
                        /\ t \in knows => t \in Here'
                        /\ t \in Here' /\ t \notin knows => Announced(t)'
      BY <1>1 DEF SeatsOK
    <3>1. CASE t = s
      BY <1>1, <1>2, <1>3, <2>7, <3>1 DEF TripInv, SeatsOK, Announced
    <3>2. CASE t # s
      BY <1>1, <1>2, <1>5, <2>6, <3>2 DEF TripInv, SeatsOK, Announced, Unmoved
    <3> QED
      BY <3>1, <3>2
  <2> QED
    BY <2>8, <2>9, <2>10 DEF TripInv
<1> QED
  BY <1>4, <1>5

LEMMA SeatRemovedTrips ==
  ASSUME ParentAssumption, ConnectionInv, StartOK, TripInv, NEW s \in Seats, SeatRemoved(s)
  PROVE  TripInv'
<1>0. TypeOK /\ toBridge \in Seq(EventKinds) /\ toParent \in Seq(RequestKinds)
  BY QueuesTyped DEF ConnectionInv
<1>1. /\ knows' = knows \ (Lost(s, {}) \cup {s})
      /\ IF "wl_registry" \in knows
         THEN toBridge' = toBridge \o <<Event("wl_registry", "global_remove")>>
         ELSE UNCHANGED toBridge
      /\ UNCHANGED <<phase, unheard, toParent>>
  BY DEF SeatRemoved, Tells, bridgeVars
<1>2. Here' = Here \ {s}
  BY DEF SeatRemoved, Here
<1>3. /\ knows' \cap Seats = (knows \cap Seats) \ {s} /\ knows' \subseteq knows
      /\ "wl_registry" \in knows' <=> "wl_registry" \in knows
  <2>1. Lost(s, {}) \subseteq Devices /\ Devices \cap Seats = {} /\ "wl_registry" \notin Devices
        /\ "wl_registry" # s
    BY ParentAssumption DEF Lost, Objects, Devices
  <2> QED
    BY <1>1, <2>1
<1>4. BridgeQuiet(toBridge, toBridge')
  <2>1. <<Event("wl_registry", "global_remove")>> \in Seq(PlainEvents)
    BY PlainTold
  <2> QED
    BY <1>0, <1>1, <2>1, QuietAdded, QuietSame
<1>5. CASE "wl_registry" \notin knows
  <2>1. UNCHANGED <<phase, unheard, toParent, toBridge>> /\ knows' \subseteq knows
    BY <1>1, <1>3, <1>5
  <2>2. knows = {}
    BY <1>5 DEF TripInv, TripsOK
  <2>3. UNCHANGED <<phase, unheard, toParent, toBridge, knows>>
    BY <2>1, <2>2
  <2> QED
    BY <1>2, <1>5, <2>3 DEF TripInv, TripsOK, SeatsOK, HeardOK, SeatsHeard, Announced
<1>6. CASE "wl_registry" \in knows
  <2>1. phase # "connect"
    BY <1>6, RegistryKnown
  <2>2. TripsOK'
    BY <1>1, <1>3, <1>4, <1>6, <2>1 DEF TripInv, TripsOK, BridgeQuiet, Unmoved
  <2>3. SeatsOK'
    <3>1. \A t \in Seats : /\ t \in Here' <=> t \in Here /\ t # s
                           /\ t \in knows' <=> t \in knows /\ t # s
      BY <1>2, <1>3
    <3> QED
      BY <1>1, <1>4, <1>6, <3>1 DEF TripInv, SeatsOK, Announced, BridgeQuiet, Unmoved
  <2>4. HeardOK'
    BY <1>0, <1>1, <1>2, <1>4 DEF TripInv, HeardOK, SeatsHeard, BridgeQuiet, Kept, TypeOK
  <2> QED
    BY <2>2, <2>3, <2>4 DEF TripInv
<1> QED
  BY <1>5, <1>6

LEMMA TripStep ==
  ASSUME ParentAssumption, ConnectionInv, StartOK, TripInv, [Next]_vars
  PROVE  TripInv'
<1>1. CASE UNCHANGED vars
  BY <1>1 DEF vars, bridgeVars, parentVars, TripInv, TripsOK, SeatsOK, HeardOK, SeatsHeard,
              Announced, Here
<1>2. CASE Next
  BY <1>2, ConnectTrips, RegistryGlobalTrips, SeatCapsTrips, RoundTripTrips, BridgeTrips,
     AnnouncesTrips, AnswersTrips, BindDoneTrips, ParentTrips, CapsChangeTrips, SeatAppearsTrips,
     SeatRemovedTrips, Zenon DEF Next
<1> QED
  BY <1>1, <1>2

THEOREM TripInvariant == Spec => []TripInv
<1>1. Init => TripInv
  <2>1. \A X : ~Has(<<>>, X) /\ Once(<<>>, X)
    BY HasOne
  <2> QED
    BY <2>1 DEF Init, TripInv, TripsOK, SeatsOK, HeardOK, SeatsHeard, Announced
<1>2. ConnectionInv /\ StartOK /\ TripInv /\ [Next]_vars => TripInv'
  BY ParentAssumption, TripStep
<1> QED
  BY <1>1, <1>2, ConnectionInvariant, PTL DEF Spec

\* Once the window is made the bridge knows what devices every seat has that was
\* there when it connected: the second round trip of main is enough.
THEOREM SeatsAreHeard == Spec => []SeatsHeard
<1>1. TripInv => SeatsHeard
  BY DEF TripInv, HeardOK
<1> QED
  BY <1>1, TripInvariant, PTL

-----------------------------------------------------------------------------
(* Every step keeps DevicesInv, when no seat the bridge uses is lost       *)

\* From queue q to queue p the capabilities in flight stay the same.
CapsUnmoved(q, p) ==
  \A s \in Seats, d \in Devices : Has(p, DeviceCaps(s, d)) <=> Has(q, DeviceCaps(s, d))
\* No request for a device is taken.
AsksStay(q, p) == \A d \in Devices : Has(q, DeviceAsks(d)) => Has(p, DeviceAsks(d))

LEMMA CapsTail ==
  ASSUME NEW q \in Seq(EventKinds), q # <<>>, ~IsCaps(Head(q))
  PROVE  CapsUnmoved(q, Tail(q))
<1>1. \A s, d : Head(q) \notin DeviceCaps(s, d)
  BY DEF DeviceCaps, CapsOf
<1>2. \A X : Head(q) \notin X => (Has(Tail(q), X) <=> Has(q, X))
  BY HasTail
<1> QED
  BY <1>1, <1>2, Zenon DEF CapsUnmoved

LEMMA CapsAdded ==
  ASSUME NEW q \in Seq(EventKinds), NEW p \in Seq(EventKinds),
         \A a \in EventKinds : IsCaps(a) => ~Has(p, {a})
  PROVE  CapsUnmoved(q, q \o p)
<1>1. \A s, d : ~Has(p, DeviceCaps(s, d))
  BY DEF DeviceCaps, CapsOf, Has
<1>2. \A X : Has(q \o p, X) <=> Has(q, X) \/ Has(p, X)
  BY HasConcat
<1> QED
  BY <1>1, <1>2, Zenon DEF CapsUnmoved

\* A queue of other events holds no capabilities.
LEMMA NoCaps ==
  ASSUME NEW S \in SUBSET EventKinds, \A a \in S : ~IsCaps(a), NEW p \in Seq(S)
  PROVE  p \in Seq(EventKinds) /\ \A a \in EventKinds : IsCaps(a) => ~Has(p, {a})
<1>1. p \in Seq(EventKinds)
  BY SeqMonotonic
<1>2. \A a \in EventKinds : IsCaps(a) => a \notin S
  OBVIOUS
<1>3. \A k \in DOMAIN p : p[k] \in S
  BY LenProperties, ElementOfSeq
<1> QED
  BY <1>1, <1>2, <1>3 DEF Has

LEMMA AsksTail ==
  ASSUME NEW q \in Seq(RequestKinds), q # <<>>, Head(q).makes \notin Devices
  PROVE  AsksStay(q, Tail(q))
<1>1. \A d \in Devices : Head(q) \notin DeviceAsks(d)
  BY DEF DeviceAsks
<1>2. \A X : Head(q) \notin X => (Has(Tail(q), X) <=> Has(q, X))
  BY HasTail
<1> QED
  BY <1>1, <1>2, Zenon DEF AsksStay

LEMMA AsksAdded ==
  ASSUME NEW S, NEW q \in Seq(S), NEW T, NEW p \in Seq(T)
  PROVE  AsksStay(q, q \o p)
<1>1. q \in Seq(S \cup T) /\ p \in Seq(S \cup T)
  BY SeqMonotonic
<1>2. \A X : Has(q \o p, X) <=> Has(q, X) \/ Has(p, X)
  BY <1>1, HasConcat
<1> QED
  BY <1>2, Zenon DEF AsksStay

\* A step that moves no capabilities and takes no request for a device.
LEMMA DevicesStay ==
  ASSUME ParentAssumption, DevicesInv, UNCHANGED <<device, caps>>,
         knows' \cap Seats = knows \cap Seats, knows \cap Devices \subseteq knows',
         CapsUnmoved(toBridge, toBridge'), AsksStay(toParent, toParent'), TypeOK
  PROVE  DevicesInv'
<1>1. Here' = Here /\ Here \subseteq Seats /\ \A s \in Here : caps[s] \subseteq Devices
  BY CapsTyped DEF Here
<1>2. \A s \in Here : s \in knows' <=> s \in knows
  BY <1>1
<1>3. DevicesHeard'
  BY <1>1, <1>2 DEF DevicesInv, DevicesHeard, CapsUnmoved
<1>4. DevicesAsked'
  BY <1>1 DEF DevicesInv, DevicesAsked, AsksStay
<1>5. CapsHonest'
  BY <1>1 DEF DevicesInv, CapsHonest, CapsUnmoved
<1> QED
  BY <1>3, <1>4, <1>5 DEF DevicesInv

LEMMA BridgeDevices ==
  ASSUME ParentAssumption, ConnectionInv, DevicesInv,
         RegistryRemove \/ Ping \/ Configured \/ OtherEvent \/ StageBuffer \/ RelayRequest
  PROVE  DevicesInv'
<1>0. TypeOK /\ toBridge \in Seq(EventKinds) /\ toParent \in Seq(RequestKinds)
  BY QueuesTyped DEF ConnectionInv
<1>1. \/ toBridge' = toBridge
      \/ toBridge # <<>> /\ ~IsCaps(Head(toBridge)) /\ toBridge' = Tail(toBridge)
  BY BridgeMoves DEF PlainEvents
<1>2. \/ toParent' = toParent
      \/ \E p \in Seq(PlainRequests) : toParent' = toParent \o p
  BY BridgeMoves
<1>3. UNCHANGED <<device, caps, knows>>
  BY BridgeMoves
<1>4. CapsUnmoved(toBridge, toBridge')
  BY <1>0, <1>1, CapsTail DEF CapsUnmoved
<1>5. AsksStay(toParent, toParent')
  <2>1. AsksStay(toParent, toParent)
    BY DEF AsksStay
  <2>2. \A p \in Seq(PlainRequests) : AsksStay(toParent, toParent \o p)
    BY <1>0, AsksAdded
  <2> QED
    BY <1>2, <2>1, <2>2
<1> QED
  BY <1>0, <1>3, <1>4, <1>5, DevicesStay

LEMMA ConnectDevices ==
  ASSUME ParentAssumption, ConnectionInv, StartOK, DevicesInv, Connect
  PROVE  DevicesInv'
<1>1. toParent = <<>> /\ UNCHANGED <<device, caps, knows, toBridge>>
  BY DEF Connect, StartOK, parentVars
<1>2. CapsUnmoved(toBridge, toBridge')
  BY <1>1 DEF CapsUnmoved
<1>3. AsksStay(toParent, toParent')
  BY <1>1, HasOne DEF AsksStay
<1> QED
  BY <1>1, <1>2, <1>3, DevicesStay DEF ConnectionInv

LEMMA RegistryGlobalDevices ==
  ASSUME ParentAssumption, ConnectionInv, DevicesInv, RegistryGlobal
  PROVE  DevicesInv'
<1> DEFINE e == Head(toBridge)
           b == Bind(e.global, e.seat)
<1>0. TypeOK /\ toBridge \in Seq(EventKinds) /\ toParent \in Seq(RequestKinds)
  BY QueuesTyped DEF ConnectionInv
<1>1. /\ toBridge # <<>> /\ toBridge' = Tail(toBridge) /\ ~IsCaps(e)
      /\ toParent' = toParent \o <<b>>
      /\ UNCHANGED <<device, caps, knows>>
  BY DEF RegistryGlobal, Hears, Asks, IsCaps, parentVars
<1> HIDE DEF b
<1>2. <<b>> \in Seq({b})
  OBVIOUS
<1>3. AsksStay(toParent, toParent')
  BY <1>0, <1>1, <1>2, AsksAdded
<1>4. CapsUnmoved(toBridge, toBridge')
  BY <1>0, <1>1, CapsTail
<1> QED
  BY <1>0, <1>1, <1>3, <1>4, DevicesStay

LEMMA RoundTripDevices ==
  ASSUME ParentAssumption, ConnectionInv, DevicesInv, RoundTrip
  PROVE  DevicesInv'
<1> DEFINE made == <<Make("wl_compositor", "create_surface", "wl_surface"),
                     Make("xdg_wm_base", "get_xdg_surface", "xdg_surface"),
                     Make("xdg_surface", "get_toplevel", "xdg_toplevel"),
                     Request("xdg_toplevel", "set_title"), Request("xdg_toplevel", "set_app_id"),
                     Request("xdg_toplevel", "set_fullscreen"), Request("wl_surface", "commit"),
                     Sync>>
<1>0. TypeOK /\ toBridge \in Seq(EventKinds) /\ toParent \in Seq(RequestKinds)
  BY QueuesTyped DEF ConnectionInv
<1>1. /\ toBridge # <<>> /\ toBridge' = Tail(toBridge) /\ ~IsCaps(Head(toBridge))
      /\ UNCHANGED <<device, caps, knows>>
  BY DEF RoundTrip, Hears, IsCaps, parentVars
<1>2. toParent' \in {toParent, toParent \o <<Sync>>, toParent \o made}
  <2>1. phase' = "seats" => toParent' = toParent \o <<Sync>>
    BY DEF RoundTrip, Asks
  <2>2. phase' = "window" => toParent' = toParent \o made
    BY Zenon DEF RoundTrip, MakeWindow, Asks
  <2>3. phase' \notin {"seats", "window"} => toParent' = toParent
    BY DEF RoundTrip
  <2> QED
    BY <2>1, <2>2, <2>3
<1>3. \A a : <<a>> \in Seq({a})
  OBVIOUS
<1>4. made \in Seq({made[1], made[2], made[3], made[4], made[5], made[6], made[7], made[8]})
  <2>1. \A a, b, c, d, e, f, g, h : <<a, b, c, d, e, f, g, h>> \in Seq({a, b, c, d, e, f, g, h})
    OBVIOUS
  <2> QED
    BY <2>1
<1> HIDE DEF made
<1>5. AsksStay(toParent, toParent \o <<Sync>>) /\ AsksStay(toParent, toParent \o made)
  BY <1>0, <1>3, <1>4, AsksAdded
<1>6. AsksStay(toParent, toParent')
  BY <1>2, <1>5 DEF AsksStay
<1>7. CapsUnmoved(toBridge, toBridge')
  BY <1>0, <1>1, CapsTail
<1> QED
  BY <1>0, <1>1, <1>6, <1>7, DevicesStay

\* A device the bridge takes is one the seat still has, and the parent is asked.
LEMMA SeatCapsDevices ==
  ASSUME ParentAssumption, ConnectionInv, DevicesInv, SeatCaps
  PROVE  DevicesInv'
<1> DEFINE e == Head(toBridge)
           new == NewDevices(e.caps)
           asks == {GetDevice(d, e.seat) : d \in new}
<1>0. TypeOK /\ toBridge \in Seq(EventKinds) /\ toParent \in Seq(RequestKinds)
  BY QueuesTyped DEF ConnectionInv
<1>1. /\ toBridge # <<>> /\ toBridge' = Tail(toBridge) /\ IsCaps(e)
      /\ toParent' = toParent \o SetToSeq(asks)
      /\ device' = [d \in Devices |-> IF d \in new THEN e.seat ELSE device[d]]
      /\ UNCHANGED <<caps, knows>>
  BY DEF SeatCaps, Hears, Asks, IsCaps, parentVars
<1>2. /\ e \in EventKinds /\ e.seat \in Seats /\ e.caps \in SUBSET Devices
      /\ new = {d \in e.caps : device[d] = NoSeat} /\ new \in SUBSET Devices
  <2>1. e \in EventKinds /\ EventOK(e)
    BY <1>1, HeadsGood DEF ConnectionInv
  <2> QED
    BY <1>1, <2>1 DEF EventOK, EventKinds, NewDevices
<1>3. asks \subseteq RequestKinds /\ IsFiniteSet(asks)
      /\ \A d \in new : asks \cap DeviceAsks(d) # {}
  <2>1. asks \subseteq PlainRequests
    BY <1>2, PlainAsked
  <2>2. IsFiniteSet(asks)
    BY <1>2, DeviceList
  <2>3. \A d \in new : GetDevice(d, e.seat) \in DeviceAsks(d)
    BY <1>2, GetDeviceFields DEF DeviceAsks
  <2> QED
    BY <2>1, <2>2, <2>3 DEF PlainRequests
<1> HIDE DEF asks
<1>4. /\ SetToSeq(asks) \in Seq(RequestKinds)
      /\ \A d \in new : Has(SetToSeq(asks), DeviceAsks(d))
  <2>1. SetToSeq(asks) \in Seq(asks)
    BY <1>3, ListOfSet
  <2> QED
    BY <1>3, <2>1, SeqMonotonic, HasListed
<1>5. \A s \in Seats, d \in Devices : e \in DeviceCaps(s, d) <=> (s = e.seat /\ d \in e.caps)
  BY <1>1, <1>2 DEF DeviceCaps, CapsOf
<1> HIDE DEF e, new
<1>6. \A X : Has(toBridge, X) <=> e \in X \/ Has(toBridge', X)
  BY <1>0, <1>1, HasTail DEF e
<1>7. \A X : Has(toParent', X) <=> Has(toParent, X) \/ Has(SetToSeq(asks), X)
  BY <1>0, <1>1, <1>4, HasConcat
<1>8. \A d \in e.caps : e.seat \in Here /\ d \in caps[e.seat]
  BY <1>2, <1>5, <1>6 DEF DevicesInv, CapsHonest
<1>9. Here' = Here /\ Here \subseteq Seats /\ \A s \in Here : caps[s] \subseteq Devices
  BY <1>0, <1>1, CapsTyped DEF Here
<1>10. DevicesHeard'
  <2> SUFFICES ASSUME NEW s \in Here \cap knows, NEW d \in caps[s], device'[d] = NoSeat
               PROVE  Has(toBridge', DeviceCaps(s, d))
    BY <1>1, <1>9 DEF DevicesHeard
  <2>1. d \in Devices /\ s \in Seats /\ e.seat # NoSeat
    BY <1>2, <1>9, ParentAssumption
  <2>2. d \notin new /\ device[d] = NoSeat
    BY <1>1, <2>1
  <2>3. ~(d \in e.caps)
    BY <1>2, <2>2
  <2>4. Has(toBridge, DeviceCaps(s, d))
    BY <2>2 DEF DevicesInv, DevicesHeard
  <2> QED
    BY <1>5, <1>6, <2>1, <2>3, <2>4
<1>11. DevicesAsked'
  <2> SUFFICES ASSUME NEW d \in Devices, device'[d] # NoSeat
               PROVE  /\ device'[d] \in Here /\ d \in caps[device'[d]]
                      /\ d \in knows \/ Has(toParent', DeviceAsks(d))
    BY <1>1, <1>9 DEF DevicesAsked
  <2>1. CASE d \in new
    BY <1>1, <1>2, <1>4, <1>7, <1>8, <2>1
  <2>2. CASE d \notin new
    BY <1>1, <1>7, <2>2 DEF DevicesInv, DevicesAsked
  <2> QED
    BY <2>1, <2>2
<1>12. CapsHonest'
  BY <1>1, <1>6, <1>9 DEF DevicesInv, CapsHonest
<1> QED
  BY <1>10, <1>11, <1>12 DEF DevicesInv

LEMMA AnnouncesDevices ==
  ASSUME ParentAssumption, ConnectionInv, DevicesInv, Announces
  PROVE  DevicesInv'
<1> DEFINE globals == {GlobalEvent(g, NoSeat) : g \in {n \in Needed : offered[n] # 0}}
           seats == {GlobalEvent("wl_seat", s) : s \in Here}
           found == globals \cup seats
<1>0. TypeOK /\ toBridge \in Seq(EventKinds) /\ toParent \in Seq(RequestKinds)
  BY QueuesTyped DEF ConnectionInv
<1>1. /\ toParent # <<>> /\ Head(toParent).name = "get_registry" /\ toParent' = Tail(toParent)
      /\ toBridge' = toBridge \o SetToSeq(found)
      /\ knows' = knows \cup {"wl_registry"}
      /\ UNCHANGED <<device, caps>>
  BY DEF Announces, Handles, Tells, bridgeVars
<1>2. IsFiniteSet(found)
  BY <1>0, AnnouncedFinite
<1>3. \A g \in Needed : LET e == GlobalEvent(g, NoSeat)
                        IN  e \in EventKinds /\ IsGlobal(e)
  BY GlobalEventFields DEF IsGlobal, Globals
<1>4. \A s \in Here : LET e == GlobalEvent("wl_seat", s)
                      IN  e \in EventKinds /\ IsGlobal(e)
  <2>1. Here \subseteq Seats
    BY <1>0, CapsTyped
  <2> QED
    BY <2>1, GlobalEventFields DEF IsGlobal, Globals
<1>5. \A a \in found : a \in EventKinds /\ IsGlobal(a)
  BY <1>3, <1>4, Zenon
<1> HIDE DEF found
<1>6. SetToSeq(found) \in Seq(found) /\ found \subseteq EventKinds /\ \A a \in found : ~IsCaps(a)
  BY <1>2, <1>5, ListOfSet DEF IsGlobal, IsCaps
<1>7. SetToSeq(found) \in Seq(EventKinds)
      /\ \A a \in EventKinds : IsCaps(a) => ~Has(SetToSeq(found), {a})
  BY <1>6, NoCaps
<1>8. CapsUnmoved(toBridge, toBridge')
  BY <1>0, <1>1, <1>7, CapsAdded
<1>9. Head(toParent).makes \notin Devices
  <2>1. RequestOK(Head(toParent))
    BY <1>1, HeadsGood DEF ConnectionInv
  <2> QED
    BY <1>1, <2>1 DEF RequestOK, IsBind, Asked, Devices
<1>10. AsksStay(toParent, toParent')
  BY <1>0, <1>1, <1>9, AsksTail
<1>11. "wl_registry" \notin Seats
  BY ParentAssumption DEF Objects
<1> QED
  BY <1>0, <1>1, <1>8, <1>10, <1>11, DevicesStay

LEMMA AnswersDevices ==
  ASSUME ParentAssumption, ConnectionInv, DevicesInv, Answers
  PROVE  DevicesInv'
<1>0. TypeOK /\ toBridge \in Seq(EventKinds) /\ toParent \in Seq(RequestKinds)
  BY QueuesTyped DEF ConnectionInv
<1>1. /\ toParent # <<>> /\ Head(toParent).name = "sync" /\ toParent' = Tail(toParent)
      /\ toBridge' = toBridge \o <<Done>>
      /\ UNCHANGED <<device, caps, knows>>
  BY DEF Answers, Handles, Tells, bridgeVars
<1>2. Head(toParent).makes \notin Devices
  <2>1. RequestOK(Head(toParent))
    BY <1>1, HeadsGood DEF ConnectionInv
  <2> QED
    BY <1>1, <2>1 DEF RequestOK, IsBind, Asked, Devices
<1>3. AsksStay(toParent, toParent')
  BY <1>0, <1>1, <1>2, AsksTail
<1>4. Done \in EventKinds /\ ~IsCaps(Done)
  BY DEF Done, Event, EventKinds, EventNames, IsCaps
<1>5. <<Done>> \in Seq({Done}) /\ {Done} \subseteq EventKinds /\ \A a \in {Done} : ~IsCaps(a)
  BY <1>4
<1>6. <<Done>> \in Seq(EventKinds) /\ \A a \in EventKinds : IsCaps(a) => ~Has(<<Done>>, {a})
  BY <1>5, NoCaps
<1>7. CapsUnmoved(toBridge, toBridge')
  BY <1>0, <1>1, <1>6, CapsAdded
<1> QED
  BY <1>0, <1>1, <1>3, <1>7, DevicesStay

LEMMA ParentEventDevices ==
  ASSUME ParentAssumption, ConnectionInv, DevicesInv, ParentEvent
  PROVE  DevicesInv'
<1>0. TypeOK /\ toBridge \in Seq(EventKinds)
  BY QueuesTyped DEF ConnectionInv
<1>1. /\ knows' = knows \/ knows' = knows \ {"wl_callback"}
      /\ UNCHANGED <<device, toParent, caps>>
  BY ParentTells
<1>2. PICK p \in Seq(PlainEvents) : toBridge' = toBridge \o p
  BY ParentTells
<1>3. PlainEvents \in SUBSET EventKinds /\ \A a \in PlainEvents : ~IsCaps(a)
  BY DEF PlainEvents
<1>4. p \in Seq(EventKinds) /\ \A a \in EventKinds : IsCaps(a) => ~Has(p, {a})
  BY <1>3, NoCaps
<1>5. CapsUnmoved(toBridge, toBridge')
  BY <1>0, <1>2, <1>4, CapsAdded
<1>6. knows' \cap Seats = knows \cap Seats /\ knows \cap Devices \subseteq knows'
  BY <1>1, ParentAssumption DEF Objects, Devices
<1>7. AsksStay(toParent, toParent')
  BY <1>1 DEF AsksStay
<1> QED
  BY <1>0, <1>1, <1>5, <1>6, <1>7, DevicesStay

\* A seat that is bound tells the capabilities it has.
LEMMA BindDoneDevices ==
  ASSUME ParentAssumption, ConnectionInv, TripInv, DevicesInv, BindDone
  PROVE  DevicesInv'
<1> DEFINE r == Head(toParent)
           s == r.seat
           name == IF version["wl_seat"] >= 2 THEN <<Event("wl_seat", "name")>> ELSE <<>>
           e == CapsEvent(s, caps[s])
           told == IF s \notin Here THEN <<>> ELSE <<e>> \o name
<1>0. TypeOK /\ toBridge \in Seq(EventKinds) /\ toParent \in Seq(RequestKinds)
  BY QueuesTyped DEF ConnectionInv
<1>1. /\ toParent # <<>> /\ r.name = "bind" /\ toParent' = Tail(toParent)
      /\ toBridge' = toBridge \o told
      /\ knows' = knows \cup {r.makes} \cup ({s} \cap Here)
      /\ UNCHANGED <<device, caps>>
  BY DEF BindDone, Handles, Tells, bridgeVars
<1>2. r \in RequestKinds /\ IsBind(r) /\ r.makes \in Globals /\ s \in Seats \cup {NoSeat}
  <2>1. r \in RequestKinds /\ RequestOK(r)
    BY <1>1, HeadsGood DEF ConnectionInv
  <2> QED
    BY <1>1, <2>1 DEF RequestOK, RequestKinds, Asked
<1>3. Here' = Here /\ Here \subseteq Seats /\ \A t \in Here : caps[t] \in SUBSET Devices
  BY <1>0, <1>1, CapsTyped DEF Here
<1>4. AsksStay(toParent, toParent')
  <2>1. r.makes \notin Devices
    BY <1>2 DEF Globals, Needed, Devices
  <2> QED
    BY <1>0, <1>1, <2>1, AsksTail
<1>5. /\ \A t \in Seats : t \in knows' <=> t \in knows \/ (t = s /\ s \in Here)
      /\ knows \subseteq knows'
  BY <1>1, <1>2, ParentAssumption DEF Objects
<1> HIDE DEF r, s
<1>6. s \in Here => e \in EventKinds /\ IsCaps(e) /\ e.seat = s /\ e.caps = caps[s]
  BY <1>3, CapsEventOf, Zenon DEF CapsOf
<1>7. name \in Seq(EventKinds) /\ \A a \in EventKinds : IsCaps(a) => ~Has(name, {a})
  <2>1. "wl_seat" \in Objects \ {"wl_registry"} /\ "name" \in EventNames \ {"capabilities"}
    BY DEF Objects, Globals, EventNames
  <2>2. Event("wl_seat", "name") \in PlainEvents
    BY <2>1, PlainTold
  <2>3. <<Event("wl_seat", "name")>> \in Seq(PlainEvents) /\ <<>> \in Seq(PlainEvents)
    BY <2>2
  <2>4. PlainEvents \in SUBSET EventKinds /\ \A a \in PlainEvents : ~IsCaps(a)
    BY DEF PlainEvents
  <2> HIDE DEF e
  <2>5. name \in Seq(PlainEvents)
    BY <2>3
  <2> HIDE DEF name
  <2> QED
    BY <2>4, <2>5, NoCaps
<1> HIDE DEF e, name
<1>8. ASSUME NEW t \in Seats, NEW d \in Devices
      PROVE  Has(toBridge', DeviceCaps(t, d)) <=>
               \/ Has(toBridge, DeviceCaps(t, d))
               \/ s \in Here /\ t = s /\ d \in caps[s]
  <2>1. CASE s \notin Here
    <3>1. told = <<>> /\ toBridge \o <<>> = toBridge
      BY <1>0, <2>1, ConcatEmptySeq
    <3> QED
      BY <1>1, <2>1, <3>1
  <2>2. CASE s \in Here
    <3>1. <<e>> \in Seq(EventKinds)
      BY <1>6, <2>2
    <3>2. Has(<<e>>, DeviceCaps(t, d)) <=> e \in DeviceCaps(t, d)
      BY HasOne
    <3>3. e \in DeviceCaps(t, d) <=> t = s /\ d \in caps[s]
      BY <1>6, <2>2 DEF DeviceCaps, CapsOf
    <3>4. ~Has(name, DeviceCaps(t, d))
      BY <1>7 DEF Has, DeviceCaps, CapsOf
    <3>5. Has(<<e>> \o name, DeviceCaps(t, d)) <=> t = s /\ d \in caps[s]
      BY <1>7, <3>1, <3>2, <3>3, <3>4, HasConcat
    <3>6. <<e>> \o name \in Seq(EventKinds) /\ toBridge' = toBridge \o (<<e>> \o name)
      BY <1>1, <1>7, <2>2, <3>1, ConcatProperties
    <3> QED
      BY <1>0, <2>2, <3>5, <3>6, HasConcat
  <2> QED
    BY <2>1, <2>2
<1>9. DevicesHeard'
  <2> SUFFICES ASSUME NEW t \in Here, t \in knows', NEW d \in caps[t], device[d] = NoSeat
               PROVE  Has(toBridge', DeviceCaps(t, d))
    BY <1>1, <1>3 DEF DevicesHeard
  <2>1. t \in Seats /\ d \in Devices
    BY <1>3
  <2>2. CASE t = s
    BY <1>8, <2>1, <2>2
  <2>3. CASE t # s
    <3>1. Has(toBridge, DeviceCaps(t, d))
      BY <1>5, <2>1, <2>3 DEF DevicesInv, DevicesHeard
    <3> QED
      BY <1>8, <2>1, <3>1
  <2> QED
    BY <2>2, <2>3
<1>10. DevicesAsked'
  BY <1>1, <1>3, <1>4, <1>5 DEF DevicesInv, DevicesAsked, AsksStay
<1>11. CapsHonest'
  BY <1>1, <1>3, <1>8 DEF DevicesInv, CapsHonest
<1> QED
  BY <1>9, <1>10, <1>11 DEF DevicesInv

\* The parent gives the bridge the device of a seat that has it.
LEMMA HandleRequestDevices ==
  ASSUME ParentAssumption, ConnectionInv, DevicesInv, HandleRequest
  PROVE  DevicesInv'
<1> DEFINE r == Head(toParent)
<1>0. TypeOK /\ toBridge \in Seq(EventKinds) /\ toParent \in Seq(RequestKinds)
  BY QueuesTyped DEF ConnectionInv
<1>1. /\ toParent # <<>> /\ r.name \notin {"get_registry", "sync", "bind"}
      /\ toParent' = Tail(toParent) /\ UNCHANGED <<device, caps, toBridge>>
      /\ knows' = knows \/ (r.makes # "" /\ knows' = knows \cup {r.makes})
  BY <1>0, HandledRequest
<1>2. knows' = IF /\ r.makes \in {""} \cup Devices
                  /\ (r.seat \in Here => r.makes \notin caps[r.seat])
               THEN knows ELSE knows \cup {r.makes}
  BY Zenon DEF HandleRequest
<1>3. /\ r \in RequestKinds /\ r.makes \in Objects \cup {""}
      /\ r.makes \in Devices => r.seat \in Seats /\ r.seat = device[r.makes]
  <2>1. r \in RequestKinds /\ RequestOK(r)
    BY <1>1, HeadsGood DEF ConnectionInv
  <2> QED
    BY <1>1, <2>1 DEF RequestOK, RequestKinds, IsBind
<1> HIDE DEF r
<1>4. CASE r.makes \notin Devices
  <2>1. AsksStay(toParent, toParent')
    BY <1>0, <1>1, <1>4, AsksTail DEF r
  <2>2. CapsUnmoved(toBridge, toBridge')
    BY <1>1 DEF CapsUnmoved
  <2>3. knows' \cap Seats = knows \cap Seats /\ knows \cap Devices \subseteq knows'
    BY <1>1, <1>3, ParentAssumption
  <2> QED
    BY <1>0, <1>1, <2>1, <2>2, <2>3, DevicesStay
<1>5. CASE r.makes \in Devices
  <2> DEFINE d == r.makes
  <2>1. device[d] # NoSeat
    BY <1>3, <1>5, ParentAssumption
  <2>2. device[d] \in Here /\ d \in caps[device[d]]
    BY <1>5, <2>1 DEF DevicesInv, DevicesAsked
  <2>3. knows' = knows \cup {d}
    BY <1>2, <1>3, <1>5, <2>2
  <2>4. Here' = Here /\ \A t \in Here : t \in Seats
    BY <1>0, <1>1, CapsTyped DEF Here
  <2>5. \A X : r \notin X => (Has(toParent', X) <=> Has(toParent, X))
    BY <1>0, <1>1, HasTail DEF r
  <2>6. \A x \in Devices \ {d} : r \notin DeviceAsks(x)
    BY DEF DeviceAsks
  <2>7. \A t \in Seats : t \in knows' <=> t \in knows
    BY <1>5, <2>3, ParentAssumption DEF Objects
  <2> HIDE DEF d
  <2>8. DevicesAsked'
    <3> SUFFICES ASSUME NEW x \in Devices, device[x] # NoSeat
                 PROVE  /\ device[x] \in Here /\ x \in caps[device[x]]
                        /\ x \in knows' \/ Has(toParent', DeviceAsks(x))
      BY <1>1, <2>4 DEF DevicesAsked
    <3>1. /\ device[x] \in Here /\ x \in caps[device[x]]
          /\ x \in knows \/ Has(toParent, DeviceAsks(x))
      BY DEF DevicesInv, DevicesAsked
    <3>2. CASE x = d
      BY <2>3, <3>1, <3>2
    <3>3. CASE x # d
      BY <2>3, <2>5, <2>6, <3>1, <3>3
    <3> QED
      BY <3>2, <3>3
  <2>9. DevicesHeard' /\ CapsHonest'
    BY <1>1, <2>4, <2>7 DEF DevicesInv, DevicesHeard, CapsHonest
  <2> QED
    BY <2>8, <2>9 DEF DevicesInv
<1> QED
  BY <1>4, <1>5

\* A seat gets more devices, and tells so when the bridge has bound it.
LEMMA CapsChangeDevices ==
  ASSUME ParentAssumption, WorldMay = {}, ConnectionInv, TripInv, DevicesInv,
         NEW s \in Seats, CapsChange(s)
  PROVE  DevicesInv'
<1>0. TypeOK /\ toBridge \in Seq(EventKinds)
  BY QueuesTyped DEF ConnectionInv
<1>1. PICK c \in SUBSET Devices :
        /\ caps[s] \subseteq c
        /\ caps' = [caps EXCEPT ![s] = c] /\ knows' = knows \ Lost(s, c)
        /\ IF s \in knows THEN toBridge' = toBridge \o <<CapsEvent(s, c)>> ELSE UNCHANGED toBridge
  BY DEF CapsChange, Tells
<1>2. UNCHANGED <<device, toParent>> /\ s \in Here /\ Here' = Here
  BY <1>1 DEF CapsChange, bridgeVars, Here
<1>3. /\ Here \subseteq Seats /\ \A t \in Here : caps[t] \in SUBSET Devices
      /\ \A t \in Here : caps'[t] = IF t = s THEN c ELSE caps[t]
  BY <1>0, <1>1, CapsTyped DEF Here
<1>4. knows' = knows
  <2>1. Lost(s, c) = {}
    <3> SUFFICES ASSUME NEW d \in Devices, device[d] = s PROVE d \in c
      BY DEF Lost
    <3>1. device[d] # NoSeat
      BY ParentAssumption
    <3>2. d \in caps[s]
      BY <3>1 DEF DevicesInv, DevicesAsked
    <3> QED
      BY <1>1, <3>2
  <2> QED
    BY <1>1, <2>1
<1>5. ASSUME NEW t \in Seats, NEW d \in Devices
      PROVE  Has(toBridge', DeviceCaps(t, d)) <=>
               \/ Has(toBridge, DeviceCaps(t, d))
               \/ s \in knows /\ t = s /\ d \in c
  <2>1. CASE s \notin knows
    BY <1>1, <2>1
  <2>2. CASE s \in knows
    <3> DEFINE e == CapsEvent(s, c)
    <3>1. e \in CapsOf(s) /\ e.caps = c
      BY CapsEventOf, Zenon
    <3>2. toBridge' = toBridge \o <<e>>
      BY <1>1, <2>2
    <3> HIDE DEF e
    <3>3. e \in DeviceCaps(t, d) <=> t = s /\ d \in c
      BY <3>1 DEF DeviceCaps, CapsOf
    <3>4. <<e>> \in Seq(EventKinds)
      BY <3>1 DEF CapsOf
    <3>5. Has(<<e>>, DeviceCaps(t, d)) <=> e \in DeviceCaps(t, d)
      BY HasOne
    <3> QED
      BY <1>0, <2>2, <3>2, <3>3, <3>4, <3>5, HasConcat
  <2> QED
    BY <2>1, <2>2
<1>6. DevicesHeard'
  <2> SUFFICES ASSUME NEW t \in Here, t \in knows, NEW d \in caps'[t], device[d] = NoSeat
               PROVE  Has(toBridge', DeviceCaps(t, d))
    BY <1>2, <1>4 DEF DevicesHeard
  <2>1. t \in Seats /\ d \in Devices
    BY <1>1, <1>3
  <2>2. CASE t = s
    BY <1>3, <1>5, <2>1, <2>2
  <2>3. CASE t # s
    <3>1. Has(toBridge, DeviceCaps(t, d))
      BY <1>3, <2>3 DEF DevicesInv, DevicesHeard
    <3> QED
      BY <1>5, <2>1, <3>1
  <2> QED
    BY <2>2, <2>3
<1>7. DevicesAsked'
  <2> SUFFICES ASSUME NEW d \in Devices, device[d] # NoSeat
               PROVE  /\ device[d] \in Here /\ d \in caps'[device[d]]
                      /\ d \in knows \/ Has(toParent, DeviceAsks(d))
    BY <1>2, <1>4 DEF DevicesAsked
  <2>1. /\ device[d] \in Here /\ d \in caps[device[d]]
        /\ d \in knows \/ Has(toParent, DeviceAsks(d))
    BY DEF DevicesInv, DevicesAsked
  <2> QED
    BY <1>1, <1>3, <2>1
<1>8. CapsHonest'
  <2> SUFFICES ASSUME NEW t \in Seats, NEW d \in Devices, Has(toBridge', DeviceCaps(t, d))
               PROVE  t \in Here /\ d \in caps'[t]
    BY <1>2 DEF CapsHonest
  <2>1. CASE Has(toBridge, DeviceCaps(t, d))
    <3>1. t \in Here /\ d \in caps[t]
      BY <2>1 DEF DevicesInv, CapsHonest
    <3> QED
      BY <1>1, <1>3, <3>1
  <2>2. CASE t = s /\ d \in c
    BY <1>2, <1>3, <2>2
  <2> QED
    BY <1>5, <2>1, <2>2
<1> QED
  BY <1>6, <1>7, <1>8 DEF DevicesInv

LEMMA SeatAppearsDevices ==
  ASSUME ParentAssumption, ConnectionInv, TripInv, DevicesInv, NEW s \in Seats, SeatAppears(s)
  PROVE  DevicesInv'
<1> DEFINE e == GlobalEvent("wl_seat", s)
<1>0. TypeOK /\ toBridge \in Seq(EventKinds)
  BY QueuesTyped DEF ConnectionInv
<1>1. /\ s \notin Here /\ s \notin knows
      /\ toBridge' = toBridge \o <<e>> \/ UNCHANGED toBridge
      /\ UNCHANGED <<device, knows, toParent>>
  <2>1. s \notin Here
    BY DEF SeatAppears
  <2>2. s \notin knows
    BY <2>1 DEF TripInv, SeatsOK
  <2> QED
    BY <2>1, <2>2 DEF SeatAppears, Tells, bridgeVars
<1>2. Here' = Here \cup {s} /\ \A t \in Here : caps'[t] = caps[t]
  BY <1>1 DEF SeatAppears, Here
<1>3. CapsUnmoved(toBridge, toBridge')
  <2>1. e \in EventKinds /\ ~IsCaps(e)
    BY GlobalEventFields DEF IsCaps, Globals
  <2> HIDE DEF e
  <2>2. <<e>> \in Seq({e}) /\ {e} \in SUBSET EventKinds /\ \A a \in {e} : ~IsCaps(a)
    BY <2>1
  <2>3. <<e>> \in Seq(EventKinds) /\ \A a \in EventKinds : IsCaps(a) => ~Has(<<e>>, {a})
    BY <2>2, NoCaps
  <2>4. CapsUnmoved(toBridge, toBridge \o <<e>>) /\ CapsUnmoved(toBridge, toBridge)
    <3>1. CapsUnmoved(toBridge, toBridge \o <<e>>)
      BY <1>0, <2>3, CapsAdded
    <3> QED
      BY <3>1 DEF CapsUnmoved
  <2> QED
    BY <1>1, <2>4
<1>4. Here \subseteq Seats /\ \A t \in Here : caps[t] \in SUBSET Devices
  BY <1>0, CapsTyped
<1>5. DevicesHeard'
  BY <1>1, <1>2, <1>3, <1>4 DEF DevicesInv, DevicesHeard, CapsUnmoved
<1>6. DevicesAsked'
  BY <1>1, <1>2 DEF DevicesInv, DevicesAsked
<1>7. CapsHonest'
  BY <1>1, <1>2, <1>3 DEF DevicesInv, CapsHonest, CapsUnmoved
<1> QED
  BY <1>5, <1>6, <1>7 DEF DevicesInv

\* Only a seat the bridge does not use is removed.
LEMMA SeatRemovedDevices ==
  ASSUME ParentAssumption, WorldMay = {}, ConnectionInv, TripInv, DevicesInv,
         NEW s \in Seats, SeatRemoved(s)
  PROVE  DevicesInv'
<1> DEFINE e == Event("wl_registry", "global_remove")
<1>0. TypeOK /\ toBridge \in Seq(EventKinds)
  BY QueuesTyped DEF ConnectionInv
<1>1. /\ Unused(s) /\ knows' = knows \ (Lost(s, {}) \cup {s})
      /\ toBridge' = toBridge \o <<e>> \/ UNCHANGED toBridge
      /\ UNCHANGED <<device, toParent>>
  BY DEF SeatRemoved, Tells, bridgeVars
<1>2. Here' = Here \ {s} /\ \A t \in Here' : caps'[t] = caps[t]
  BY DEF SeatRemoved, Here
<1>3. CapsUnmoved(toBridge, toBridge')
  <2>1. e \in EventKinds /\ ~IsCaps(e)
    BY DEF Event, EventKinds, Objects, EventNames, IsCaps
  <2> HIDE DEF e
  <2>2. <<e>> \in Seq({e}) /\ {e} \in SUBSET EventKinds /\ \A a \in {e} : ~IsCaps(a)
    BY <2>1
  <2>3. <<e>> \in Seq(EventKinds) /\ \A a \in EventKinds : IsCaps(a) => ~Has(<<e>>, {a})
    BY <2>2, NoCaps
  <2>4. CapsUnmoved(toBridge, toBridge \o <<e>>) /\ CapsUnmoved(toBridge, toBridge)
    <3>1. CapsUnmoved(toBridge, toBridge \o <<e>>)
      BY <1>0, <2>3, CapsAdded
    <3> QED
      BY <3>1 DEF CapsUnmoved
  <2> QED
    BY <1>1, <2>4
<1>4. /\ \A d \in Devices : device[d] # s
      /\ knows' = knows \ {s}
      /\ \A d \in Devices : ~Has(toBridge, DeviceCaps(s, d))
  <2>1. Lost(s, {}) = {}
    BY <1>1 DEF Unused
  <2>2. \A d \in Devices : device[d] # s
    BY <2>1 DEF Lost
  <2>3. \A k \in DOMAIN toBridge : toBridge[k].seat = s => toBridge[k].caps = {}
    BY <1>1 DEF Unused
  <2> QED
    BY <1>1, <2>1, <2>2, <2>3 DEF Has, DeviceCaps, CapsOf
<1>5. Here \subseteq Seats /\ \A t \in Here : caps[t] \in SUBSET Devices
  BY <1>0, CapsTyped
<1>6. DevicesHeard'
  BY <1>1, <1>2, <1>3, <1>4, <1>5 DEF DevicesInv, DevicesHeard, CapsUnmoved
<1>7. DevicesAsked'
  <2>1. \A d \in Devices : d \in knows => d \in knows'
    BY <1>4, ParentAssumption DEF Objects
  <2> QED
    BY <1>1, <1>2, <1>4, <2>1 DEF DevicesInv, DevicesAsked
<1>8. CapsHonest'
  BY <1>1, <1>2, <1>3, <1>4 DEF DevicesInv, CapsHonest, CapsUnmoved
<1> QED
  BY <1>6, <1>7, <1>8 DEF DevicesInv

LEMMA DevicesStep ==
  ASSUME ParentAssumption, WorldMay = {}, ConnectionInv, StartOK, TripInv, DevicesInv, [Next]_vars
  PROVE  DevicesInv'
<1>1. CASE UNCHANGED vars
  BY <1>1 DEF vars, bridgeVars, parentVars, DevicesInv, DevicesHeard, DevicesAsked, CapsHonest, Here
<1>2. CASE Next
  BY <1>2, ConnectDevices, RegistryGlobalDevices, SeatCapsDevices, RoundTripDevices, BridgeDevices,
     AnnouncesDevices, AnswersDevices, BindDoneDevices, HandleRequestDevices, ParentEventDevices,
     CapsChangeDevices, SeatAppearsDevices, SeatRemovedDevices, Zenon DEF Next
<1> QED
  BY <1>1, <1>2

\* When the seats the bridge uses stay and lose no device, every device it has
\* it got from a seat that has it, and the parent sends its events or will.
THEOREM DevicesInvariant ==
  ASSUME WorldMay = {}
  PROVE  Spec => []DevicesInv
<1>1. Init => DevicesInv
  <2>1. \A X : ~Has(<<>>, X)
    BY HasOne
  <2> QED
    BY <2>1 DEF Init, DevicesInv, DevicesHeard, DevicesAsked, CapsHonest
<1>2. ConnectionInv /\ StartOK /\ TripInv /\ DevicesInv /\ [Next]_vars => DevicesInv'
  BY ParentAssumption, DevicesStep
<1> QED
  BY <1>1, <1>2, ConnectionInvariant, TripInvariant, PTL DEF Spec

\* With nothing in flight the bridge listens to a pointer and a keyboard that
\* the parent sends events for, if a seat has one: seat_caps asks for a device
\* of any seat, and seats that appear later are bound too.
THEOREM InputIsHeard ==
  ASSUME WorldMay = {}
  PROVE  Spec => []InputHeard
<1>1. ConnectionInv /\ TripInv /\ DevicesInv => InputHeard
  <2> SUFFICES ASSUME ConnectionInv, TripInv, DevicesInv, phase = "running",
                      toBridge = <<>>, toParent = <<>>,
                      NEW d \in Devices, NEW s \in Here, d \in caps[s]
               PROVE  d \in knows
    BY DEF InputHeard
  <2>1. \A X : ~Has(toBridge, X) /\ ~Has(toParent, X)
    BY HasOne
  <2>2. s \in Seats
    BY CapsTyped DEF ConnectionInv
  <2>3. s \in knows
    BY <2>1, <2>2 DEF TripInv, TripsOK, SeatsOK, Announced
  <2>4. device[d] # NoSeat
    BY <2>1, <2>3 DEF DevicesInv, DevicesHeard
  <2> QED
    BY <2>1, <2>4 DEF DevicesInv, DevicesAsked
<1> QED
  BY <1>1, ConnectionInvariant, TripInvariant, DevicesInvariant, PTL
=============================================================================
