--------------------------- MODULE ClientWireProofs ----------------------------
(***************************************************************************)
(* Theorems about ClientWire, for all versions the client may bind and any *)
(* number of objects and of messages in flight.                            *)
(***************************************************************************)
EXTENDS ClientWire, Integers, SequenceTheorems, TLAPS

-----------------------------------------------------------------------------
(* Queues of messages: what the proofs say of one, and what taking its     *)
(* head and adding to its end do to that.                                  *)

\* Queue q holds a message of kind X (a set of messages).
Has(q, X) == \E k \in DOMAIN q : q[k] \in X

\* It holds at most one.
Once(q, X) == \A j, k \in DOMAIN q : q[j] \in X /\ q[k] \in X => j = k

\* One of kind X is ahead of every one of kind Y.
Ahead(q, X, Y) == \E k \in DOMAIN q : q[k] \in X /\ \A j \in DOMAIN q : q[j] \in Y => k < j

\* All of kind X are ahead of all of kind Y.
Before(q, X, Y) == \A j, k \in DOMAIN q : q[j] \in X /\ q[k] \in Y => j < k

-----------------------------------------------------------------------------
(* The head is taken                                                       *)

\* The head is the first message, and the tail has the rest in order.
LEMMA HeadAndTail ==
  ASSUME NEW S, NEW q \in Seq(S), q # <<>>
  PROVE  /\ Tail(q) \in Seq(S) /\ Head(q) \in S
         /\ Len(q) \in Nat \ {0} /\ DOMAIN q = 1..Len(q)
         /\ Head(q) = q[1] /\ Len(Tail(q)) = Len(q) - 1
         /\ DOMAIN Tail(q) = 1..(Len(q) - 1)
         /\ \A k \in DOMAIN Tail(q) : Tail(q)[k] = q[k + 1]
         /\ \A k \in DOMAIN q : k = 1 \/ k - 1 \in DOMAIN Tail(q)
<1>1. Tail(q) \in Seq(S) /\ Head(q) \in S /\ Len(Tail(q)) = Len(q) - 1
  BY HeadTailProperties
<1>2. \A k \in 1..Len(Tail(q)) : Tail(q)[k] = q[k + 1]
  BY HeadTailProperties
<1>3. DOMAIN q = 1..Len(q) /\ DOMAIN Tail(q) = 1..Len(Tail(q)) /\ Len(q) \in Nat
  BY <1>1, LenProperties
<1>4. Len(q) # 0
  BY EmptySeq
<1>5. Head(q) = q[1]
  OBVIOUS
<1> QED
  BY <1>1, <1>2, <1>3, <1>4, <1>5

\* What the queue holds is its head or in its tail.
LEMMA HasTail ==
  ASSUME NEW S, NEW q \in Seq(S), q # <<>>, NEW X
  PROVE  Has(q, X) <=> Head(q) \in X \/ Has(Tail(q), X)
<1>1. ASSUME Has(q, X), Head(q) \notin X PROVE Has(Tail(q), X)
  <2>1. PICK k \in DOMAIN q : q[k] \in X
    BY <1>1 DEF Has
  <2>2. k - 1 \in DOMAIN Tail(q)
    BY <1>1, <2>1, HeadAndTail
  <2>3. Tail(q)[k - 1] = q[k]
    BY <2>1, <2>2, HeadAndTail
  <2> QED
    BY <2>1, <2>2, <2>3 DEF Has
<1>2. ASSUME Head(q) \in X PROVE Has(q, X)
  <2>1. 1 \in DOMAIN q
    BY HeadAndTail
  <2> QED
    BY <1>2, <2>1, HeadAndTail DEF Has
<1>3. ASSUME Has(Tail(q), X) PROVE Has(q, X)
  <2>1. PICK k \in DOMAIN Tail(q) : Tail(q)[k] \in X
    BY <1>3 DEF Has
  <2>2. k + 1 \in DOMAIN q
    BY <2>1, HeadAndTail
  <2> QED
    BY <2>1, <2>2, HeadAndTail DEF Has
<1> QED
  BY <1>1, <1>2, <1>3

\* Of what there is once, the tail has none if the head is one.
LEMMA OnceTail ==
  ASSUME NEW S, NEW q \in Seq(S), q # <<>>, NEW X, Once(q, X)
  PROVE  /\ Once(Tail(q), X)
         /\ Head(q) \in X => ~Has(Tail(q), X)
<1>1. \A k \in DOMAIN Tail(q) : k + 1 \in DOMAIN q /\ k + 1 # 1 /\ k \in Int
                                /\ Tail(q)[k] = q[k + 1]
  BY HeadAndTail
<1>2. 1 \in DOMAIN q /\ Head(q) = q[1]
  BY HeadAndTail
<1>3. Once(Tail(q), X)
  <2> SUFFICES ASSUME NEW j \in DOMAIN Tail(q), NEW k \in DOMAIN Tail(q),
                      Tail(q)[j] \in X, Tail(q)[k] \in X
               PROVE  j = k
    BY DEF Once
  <2>1. j + 1 = k + 1
    BY <1>1 DEF Once
  <2> QED
    BY <1>1, <2>1
<1>4. Head(q) \in X => ~Has(Tail(q), X)
  BY <1>1, <1>2 DEF Has, Once
<1> QED
  BY <1>3, <1>4

\* What is ahead stays ahead until it is the head.
LEMMA AheadTail ==
  ASSUME NEW S, NEW q \in Seq(S), q # <<>>, NEW X, NEW Y, Ahead(q, X, Y)
  PROVE  /\ Head(q) \notin X => Ahead(Tail(q), X, Y)
         /\ Head(q) \notin Y
<1>1. PICK k \in DOMAIN q : q[k] \in X /\ \A j \in DOMAIN q : q[j] \in Y => k < j
  BY DEF Ahead
<1>2. 1 \in DOMAIN q /\ Head(q) = q[1] /\ k \in Nat /\ k >= 1
  BY HeadAndTail
<1>3. Head(q) \notin Y
  BY <1>1, <1>2
<1>4. ASSUME Head(q) \notin X PROVE Ahead(Tail(q), X, Y)
  <2>1. k - 1 \in DOMAIN Tail(q) /\ Tail(q)[k - 1] = q[k]
    <3>1. k - 1 \in DOMAIN Tail(q)
      BY <1>1, <1>2, <1>4, HeadAndTail
    <3> QED
      BY <3>1, <1>2, HeadAndTail
  <2>2. ASSUME NEW j \in DOMAIN Tail(q), Tail(q)[j] \in Y PROVE k - 1 < j
    <3>1. j + 1 \in DOMAIN q /\ q[j + 1] \in Y /\ j \in Nat
      BY <2>2, HeadAndTail
    <3>2. k < j + 1
      BY <1>1, <3>1
    <3> QED
      BY <1>2, <3>1, <3>2
  <2> QED
    BY <1>1, <2>1, <2>2 DEF Ahead
<1> QED
  BY <1>3, <1>4

LEMMA BeforeTail ==
  ASSUME NEW S, NEW q \in Seq(S), q # <<>>, NEW X, NEW Y, Before(q, X, Y)
  PROVE  /\ Before(Tail(q), X, Y)
         /\ Head(q) \in Y => ~Has(q, X)
<1>1. \A k \in DOMAIN Tail(q) : k + 1 \in DOMAIN q /\ k \in Int /\ Tail(q)[k] = q[k + 1]
  BY HeadAndTail
<1>2. 1 \in DOMAIN q /\ Head(q) = q[1] /\ \A k \in DOMAIN q : k \in Int /\ k >= 1
  BY HeadAndTail
<1>3. ASSUME NEW j \in DOMAIN Tail(q), NEW k \in DOMAIN Tail(q),
             Tail(q)[j] \in X, Tail(q)[k] \in Y
      PROVE  j < k
  <2>1. j + 1 < k + 1
    BY <1>1, <1>3 DEF Before
  <2> QED
    BY <1>1, <2>1
<1>4. ASSUME Head(q) \in Y, Has(q, X) PROVE FALSE
  <2>1. PICK k \in DOMAIN q : q[k] \in X
    BY <1>4 DEF Has
  <2>2. k < 1
    BY <1>2, <1>4, <2>1 DEF Before
  <2> QED
    BY <1>2, <2>2
<1> QED
  BY <1>3, <1>4 DEF Before

-----------------------------------------------------------------------------
(* Messages are added                                                      *)

\* The messages of two queues in a row.
LEMMA ConcatIndices ==
  ASSUME NEW S, NEW q \in Seq(S), NEW r \in Seq(S)
  PROVE  /\ q \o r \in Seq(S)
         /\ Len(q) \in Nat /\ Len(r) \in Nat
         /\ DOMAIN q = 1..Len(q) /\ DOMAIN r = 1..Len(r)
         /\ DOMAIN (q \o r) = 1..(Len(q) + Len(r))
         /\ \A k \in DOMAIN q : k \in DOMAIN (q \o r) /\ (q \o r)[k] = q[k]
         /\ \A k \in DOMAIN r : Len(q) + k \in DOMAIN (q \o r) /\ (q \o r)[Len(q) + k] = r[k]
         /\ \A k \in DOMAIN (q \o r) :
              \/ k \in DOMAIN q
              \/ k > Len(q) /\ k - Len(q) \in DOMAIN r /\ (q \o r)[k] = r[k - Len(q)]
<1>1. Len(q) \in Nat /\ Len(r) \in Nat /\ DOMAIN q = 1..Len(q) /\ DOMAIN r = 1..Len(r)
  BY LenProperties
<1>2. /\ q \o r \in Seq(S) /\ Len(q \o r) = Len(q) + Len(r)
      /\ \A k \in 1..Len(q) + Len(r) : (q \o r)[k] = IF k <= Len(q) THEN q[k] ELSE r[k - Len(q)]
  BY ConcatProperties
<1>3. DOMAIN (q \o r) = 1..(Len(q) + Len(r))
  BY <1>2, LenProperties
<1>4. ASSUME NEW k \in DOMAIN r
      PROVE  Len(q) + k \in DOMAIN (q \o r) /\ (q \o r)[Len(q) + k] = r[k]
  <2>1. Len(q) + k \in 1..(Len(q) + Len(r)) /\ ~(Len(q) + k <= Len(q)) /\ Len(q) + k - Len(q) = k
    BY <1>1
  <2> QED
    BY <1>2, <1>3, <2>1
<1> QED
  BY <1>1, <1>2, <1>3, <1>4

LEMMA HasConcat ==
  ASSUME NEW S, NEW q \in Seq(S), NEW r \in Seq(S), NEW X
  PROVE  Has(q \o r, X) <=> Has(q, X) \/ Has(r, X)
<1>1. \A k \in DOMAIN q : k \in DOMAIN (q \o r) /\ (q \o r)[k] = q[k]
  BY ConcatIndices
<1>2. \A k \in DOMAIN r : Len(q) + k \in DOMAIN (q \o r) /\ (q \o r)[Len(q) + k] = r[k]
  BY ConcatIndices
<1>3. \A k \in DOMAIN (q \o r) :
        k \in DOMAIN q \/ (k - Len(q) \in DOMAIN r /\ (q \o r)[k] = r[k - Len(q)])
  BY ConcatIndices
<1> QED
  BY <1>1, <1>2, <1>3, Zenon DEF Has

\* What there is once in both is once in all when one of them has none.
LEMMA OnceConcat ==
  ASSUME NEW S, NEW q \in Seq(S), NEW r \in Seq(S), NEW X,
         Once(q, X), Once(r, X), ~Has(q, X) \/ ~Has(r, X)
  PROVE  Once(q \o r, X)
<1> SUFFICES ASSUME NEW j \in DOMAIN (q \o r), NEW k \in DOMAIN (q \o r),
                    (q \o r)[j] \in X, (q \o r)[k] \in X
             PROVE  j = k
  BY DEF Once
<1>0. \A i \in DOMAIN (q \o r) :
        i \in DOMAIN q \/ (i - Len(q) \in DOMAIN r /\ (q \o r)[i] = r[i - Len(q)])
  BY ConcatIndices
<1>9. \A i \in DOMAIN q : (q \o r)[i] = q[i]
  BY ConcatIndices
<1>1. CASE ~Has(r, X)
  <2>1. j \in DOMAIN q /\ k \in DOMAIN q
    BY <1>0, <1>1, Zenon DEF Has
  <2>2. q[j] \in X /\ q[k] \in X
    BY <2>1, ConcatIndices
  <2> QED
    BY <2>1, <2>2 DEF Once
<1>2. CASE ~Has(q, X)
  <2>1. j \notin DOMAIN q /\ k \notin DOMAIN q
    BY <1>2, <1>9, Zenon DEF Has
  <2>2. /\ j - Len(q) \in DOMAIN r /\ r[j - Len(q)] \in X
        /\ k - Len(q) \in DOMAIN r /\ r[k - Len(q)] \in X
    BY <2>1, ConcatIndices
  <2>3. j - Len(q) = k - Len(q)
    BY <2>2 DEF Once
  <2> QED
    BY <2>3, ConcatIndices
<1> QED
  BY <1>1, <1>2

\* What is ahead stays ahead when messages are added.
LEMMA AheadConcat ==
  ASSUME NEW S, NEW q \in Seq(S), NEW r \in Seq(S), NEW X, NEW Y
  PROVE  /\ Ahead(q, X, Y) => Ahead(q \o r, X, Y)
         /\ Has(q, X) /\ ~Has(q, Y) => Ahead(q \o r, X, Y)
<1> SUFFICES ASSUME NEW k \in DOMAIN q, q[k] \in X,
                    \A j \in DOMAIN q : q[j] \in Y => k < j
             PROVE  Ahead(q \o r, X, Y)
  BY Zenon DEF Ahead, Has
<1>1. k \in DOMAIN (q \o r) /\ (q \o r)[k] \in X /\ k \in Nat /\ k <= Len(q) /\ Len(q) \in Nat
  BY ConcatIndices
<1>2. ASSUME NEW j \in DOMAIN (q \o r), (q \o r)[j] \in Y PROVE k < j
  <2>1. CASE j \in DOMAIN q
    BY <1>2, <2>1, ConcatIndices
  <2>2. CASE j \notin DOMAIN q
    <3>1. j > Len(q) /\ j \in Nat
      BY <2>2, ConcatIndices
    <3> QED
      BY <1>1, <3>1
  <2> QED
    BY <2>1, <2>2
<1> QED
  BY <1>1, <1>2, Zenon DEF Ahead

\* What is put in order is in order behind others, when nothing that it must
\* be ahead of is there.
LEMMA AheadAdded ==
  ASSUME NEW S, NEW q \in Seq(S), NEW r \in Seq(S), NEW X, NEW Y, ~Has(q, Y), Ahead(r, X, Y)
  PROVE  Ahead(q \o r, X, Y)
<1>1. PICK k \in DOMAIN r : r[k] \in X /\ \A j \in DOMAIN r : r[j] \in Y => k < j
  BY Zenon DEF Ahead
<1> DEFINE p == q \o r
<1>2. /\ Len(q) \in Nat /\ Len(r) \in Nat /\ DOMAIN q = 1..Len(q) /\ DOMAIN r = 1..Len(r)
      /\ \A j \in DOMAIN p : \/ j \in DOMAIN q /\ p[j] = q[j]
                             \/ j - Len(q) \in DOMAIN r /\ p[j] = r[j - Len(q)]
  BY ConcatIndices
<1>3. Len(q) + k \in DOMAIN p /\ p[Len(q) + k] = r[k]
  BY ConcatIndices
<1>4. ASSUME NEW j \in DOMAIN p, p[j] \in Y
      PROVE  Len(q) + k < j
  <2>0. j \in 1..(Len(q) + Len(r))
    BY ConcatIndices
  <2>1. CASE j \in DOMAIN q /\ p[j] = q[j]
    BY <1>4, <2>1 DEF Has
  <2>2. CASE j - Len(q) \in DOMAIN r /\ p[j] = r[j - Len(q)]
    <3>1. k < j - Len(q)
      BY <1>1, <1>4, <2>2
    <3> QED
      BY <1>2, <2>0, <3>1
  <2> QED
    BY <1>2, <2>1, <2>2
<1> HIDE DEF p
<1>5. Ahead(p, X, Y)
  BY <1>1, <1>3, <1>4, Zenon DEF Ahead
<1> QED
  BY <1>5 DEF p

LEMMA BeforeConcat ==
  ASSUME NEW S, NEW q \in Seq(S), NEW r \in Seq(S), NEW X, NEW Y,
         Before(q, X, Y), Before(r, X, Y), ~Has(q, Y) \/ ~Has(r, X)
  PROVE  Before(q \o r, X, Y)
<1> SUFFICES ASSUME NEW j \in DOMAIN (q \o r), NEW k \in DOMAIN (q \o r),
                    (q \o r)[j] \in X, (q \o r)[k] \in Y
             PROVE  j < k
  BY DEF Before
<1>0. \A i \in DOMAIN (q \o r) :
        i \in DOMAIN q \/ (i - Len(q) \in DOMAIN r /\ (q \o r)[i] = r[i - Len(q)])
  BY ConcatIndices
<1>9. \A i \in DOMAIN q : (q \o r)[i] = q[i]
  BY ConcatIndices
<1>1. CASE j \in DOMAIN q /\ k \in DOMAIN q
  BY <1>1, ConcatIndices DEF Before
<1>2. CASE j \in DOMAIN q /\ k \notin DOMAIN q
  <2>1. j <= Len(q) /\ k > Len(q) /\ j \in Nat /\ k \in Nat /\ Len(q) \in Nat
    BY <1>2, ConcatIndices
  <2> QED
    BY <2>1
<1>3. CASE j \notin DOMAIN q
  <2>1. Has(r, X)
    BY <1>0, <1>3, Zenon DEF Has
  <2>2. k \notin DOMAIN q
    BY <2>1, <1>9, Zenon DEF Has
  <2>3. /\ j - Len(q) \in DOMAIN r /\ r[j - Len(q)] \in X
        /\ k - Len(q) \in DOMAIN r /\ r[k - Len(q)] \in Y
    BY <1>3, <2>2, ConcatIndices
  <2>4. j - Len(q) < k - Len(q)
    BY <2>3 DEF Before
  <2> QED
    BY <2>4, ConcatIndices
<1> QED
  BY <1>1, <1>2, <1>3

\* One message and none.
LEMMA HasOne ==
  ASSUME NEW X
  PROVE  /\ ~Has(<<>>, X) /\ Once(<<>>, X)
         /\ \A a : (Has(<<a>>, X) <=> a \in X) /\ Once(<<a>>, X)
         /\ \A a, b : Has(<<a, b>>, X) <=> a \in X \/ b \in X
BY DEF Has, Once

-----------------------------------------------------------------------------
(* Messages of a kind that a step leaves alone                             *)

\* Queues written out.
LEMMA OneAfterOne ==
  ASSUME NEW S, NEW a \in S, NEW b \in S
  PROVE  <<a>> \o <<b>> = <<a, b>> /\ <<a, b>> \in Seq(S)
<1> DEFINE p == <<a>> \o <<b>>
<1>1. <<a>> \in Seq(S) /\ <<b>> \in Seq(S) /\ Len(<<a>>) = 1 /\ Len(<<b>>) = 1
  OBVIOUS
<1>2. <<a, b>> \in Seq(S) /\ Len(<<a, b>>) = 2
  OBVIOUS
<1>3. p \in Seq(S) /\ Len(p) = 2 /\ p[1] = a /\ p[2] = b
  BY <1>1, ConcatProperties
<1> HIDE DEF p
<1>4. \A i \in 1..Len(p) : p[i] = <<a, b>>[i]
  BY <1>3
<1>5. p = <<a, b>>
  BY <1>2, <1>3, <1>4, SeqEqual
<1> QED
  BY <1>2, <1>5 DEF p

LEMMA OneAfterTwo ==
  ASSUME NEW S, NEW a \in S, NEW b \in S, NEW c \in S
  PROVE  <<a, b>> \o <<c>> = <<a, b, c>> /\ <<a, b, c>> \in Seq(S)
<1> DEFINE p == <<a, b>> \o <<c>>
<1>1. <<a, b>> \in Seq(S) /\ <<c>> \in Seq(S) /\ Len(<<a, b>>) = 2 /\ Len(<<c>>) = 1
  OBVIOUS
<1>2. <<a, b, c>> \in Seq(S) /\ Len(<<a, b, c>>) = 3
  OBVIOUS
<1>3. p \in Seq(S) /\ Len(p) = 3 /\ p[1] = a /\ p[2] = b /\ p[3] = c
  BY <1>1, ConcatProperties
<1> HIDE DEF p
<1>4. \A i \in 1..Len(p) : p[i] = <<a, b, c>>[i]
  BY <1>3
<1>5. p = <<a, b, c>>
  BY <1>2, <1>3, <1>4, SeqEqual
<1> QED
  BY <1>2, <1>5 DEF p

-----------------------------------------------------------------------------
(* The tables                                                              *)

WlInterfaces ==
  {"wl_compositor", "wl_surface", "wl_region", "wl_seat", "wl_pointer", "wl_keyboard", "wl_touch",
   "wl_callback", "wl_buffer"}
XdgInterfaces ==
  {"xdg_wm_base", "xdg_positioner", "xdg_surface", "xdg_toplevel", "xdg_popup", "dmabuf", "params",
   "feedback"}

LEMMA TheInterfaces ==
  /\ Interfaces = WlInterfaces \cup XdgInterfaces
  /\ \A i \in WlInterfaces : Tables[i] = WlTable(i)
  /\ \A i \in XdgInterfaces : Tables[i] = XdgTables[i]
<1>1. DOMAIN WlRequests = WlInterfaces
  BY DEF WlRequests, WlInterfaces
<1>2. DOMAIN XdgTables = XdgInterfaces
  BY DEF XdgTables, XdgInterfaces
<1>3. WlInterfaces \cap XdgInterfaces = {}
  BY DEF WlInterfaces, XdgInterfaces
<1> DEFINE wl == [i \in DOMAIN WlRequests |-> WlTable(i)]
<1>4. Tables = [x \in DOMAIN wl \cup DOMAIN XdgTables |->
                  IF x \in DOMAIN wl THEN wl[x] ELSE XdgTables[x]]
  BY DEF Tables, With
<1>5. DOMAIN wl = WlInterfaces /\ \A i \in WlInterfaces : wl[i] = WlTable(i)
  BY <1>1
<1> HIDE DEF wl
<1> QED
  BY <1>2, <1>3, <1>4, <1>5 DEF Interfaces

\* The rows of libwayland's tables.
WlNames ==
  {"create_surface", "create_region", "destroy", "attach", "damage", "frame", "set_opaque_region",
   "set_input_region", "commit", "set_buffer_transform", "set_buffer_scale", "damage_buffer",
   "offset", "add", "subtract", "get_pointer", "get_keyboard", "get_touch", "release", "set_cursor",
   "enter", "leave", "capabilities", "name", "motion", "button", "axis", "axis_source", "axis_stop",
   "axis_discrete", "axis_value120", "keymap", "key", "modifiers", "repeat_info", "done"}
WlRows == [name : WlNames, since : 1..8]

LEMMA FirstRows ==
  ASSUME NEW q \in Seq(WlNames)
  PROVE  First(q) \in Seq(WlRows) /\ DOMAIN First(q) = DOMAIN q
         /\ \A k \in DOMAIN q : First(q)[k] = Row(q[k], 1)
<1>1. Len(q) \in Nat /\ DOMAIN q = 1..Len(q) /\ \A k \in DOMAIN q : q[k] \in WlNames
  BY LenProperties, ElementOfSeq
<1>2. First(q) \in [1..Len(q) -> WlRows]
  BY <1>1 DEF First, Row, WlRows
<1>3. First(q) \in Seq(WlRows)
  BY <1>1, <1>2, IsASeq
<1> QED
  BY <1>1, <1>3 DEF First

LEMMA WlRowsTyped ==
  \A i \in WlInterfaces : WlRequests[i] \in Seq(WlRows) /\ WlEvents[i] \in Seq(WlRows)
<1>1. <<>> \in Seq(WlRows)
  OBVIOUS
<1>2. WlRequests["wl_compositor"] \in Seq(WlRows) /\ WlEvents["wl_compositor"] \in Seq(WlRows)
  <2>1. <<"create_surface", "create_region">> \in Seq(WlNames)
    BY DEF WlNames
  <2> QED
    BY <1>1, <2>1, FirstRows DEF WlRequests, WlEvents
<1>3. WlRequests["wl_surface"] \in Seq(WlRows) /\ WlEvents["wl_surface"] \in Seq(WlRows)
  <2> DEFINE old == <<"destroy", "attach", "damage", "frame", "set_opaque_region",
                      "set_input_region", "commit">>
             new == <<Row("set_buffer_transform", 2), Row("set_buffer_scale", 3),
                      Row("damage_buffer", 4), Row("offset", 5)>>
  <2>1. old \in Seq(WlNames) /\ <<"enter", "leave">> \in Seq(WlNames)
    BY DEF WlNames
  <2>2. new \in Seq(WlRows)
    BY DEF WlRows, WlNames, Row
  <2>3. /\ WlRequests["wl_surface"] = First(old) \o new
        /\ WlEvents["wl_surface"] = First(<<"enter", "leave">>)
    BY DEF WlRequests, WlEvents
  <2> HIDE DEF old, new
  <2> QED
    BY <2>1, <2>2, <2>3, FirstRows, ConcatProperties
<1>4. WlRequests["wl_region"] \in Seq(WlRows) /\ WlEvents["wl_region"] \in Seq(WlRows)
  <2>1. <<"destroy", "add", "subtract">> \in Seq(WlNames)
    BY DEF WlNames
  <2> QED
    BY <1>1, <2>1, FirstRows DEF WlRequests, WlEvents
<1>5. WlRequests["wl_seat"] \in Seq(WlRows) /\ WlEvents["wl_seat"] \in Seq(WlRows)
  <2> DEFINE old == <<"get_pointer", "get_keyboard", "get_touch">>
             new == <<Row("release", 5)>>
             told == <<Row("capabilities", 1), Row("name", 2)>>
  <2>1. old \in Seq(WlNames)
    BY DEF WlNames
  <2>2. new \in Seq(WlRows) /\ told \in Seq(WlRows)
    BY DEF WlRows, WlNames, Row
  <2>3. WlRequests["wl_seat"] = First(old) \o new /\ WlEvents["wl_seat"] = told
    BY DEF WlRequests, WlEvents
  <2> HIDE DEF old, new, told
  <2> QED
    BY <2>1, <2>2, <2>3, FirstRows, ConcatProperties
<1>6. WlRequests["wl_pointer"] \in Seq(WlRows) /\ WlEvents["wl_pointer"] \in Seq(WlRows)
  <2> DEFINE old == <<"enter", "leave", "motion", "button", "axis">>
             new == <<Row("frame", 5), Row("axis_source", 5), Row("axis_stop", 5),
                      Row("axis_discrete", 5), Row("axis_value120", 8)>>
             asked == <<Row("set_cursor", 1), Row("release", 3)>>
  <2>1. old \in Seq(WlNames)
    BY DEF WlNames
  <2>2. new \in Seq(WlRows) /\ asked \in Seq(WlRows)
    BY DEF WlRows, WlNames, Row
  <2>3. WlEvents["wl_pointer"] = First(old) \o new /\ WlRequests["wl_pointer"] = asked
    BY DEF WlRequests, WlEvents
  <2> HIDE DEF old, new, asked
  <2> QED
    BY <2>1, <2>2, <2>3, FirstRows, ConcatProperties
<1>7. WlRequests["wl_keyboard"] \in Seq(WlRows) /\ WlEvents["wl_keyboard"] \in Seq(WlRows)
  <2> DEFINE old == <<"keymap", "enter", "leave", "key", "modifiers">>
             new == <<Row("repeat_info", 4)>>
             asked == <<Row("release", 3)>>
  <2>1. old \in Seq(WlNames)
    BY DEF WlNames
  <2>2. new \in Seq(WlRows) /\ asked \in Seq(WlRows)
    BY DEF WlRows, WlNames, Row
  <2>3. WlEvents["wl_keyboard"] = First(old) \o new /\ WlRequests["wl_keyboard"] = asked
    BY DEF WlRequests, WlEvents
  <2> HIDE DEF old, new, asked
  <2> QED
    BY <2>1, <2>2, <2>3, FirstRows, ConcatProperties
<1>8. WlRequests["wl_touch"] \in Seq(WlRows) /\ WlEvents["wl_touch"] \in Seq(WlRows)
  BY <1>1 DEF WlRequests, WlEvents, WlRows, WlNames, Row
<1>9. WlRequests["wl_callback"] \in Seq(WlRows) /\ WlEvents["wl_callback"] \in Seq(WlRows)
  <2>1. <<"done">> \in Seq(WlNames)
    BY DEF WlNames
  <2> QED
    BY <1>1, <2>1, FirstRows DEF WlRequests, WlEvents
<1>10. WlRequests["wl_buffer"] \in Seq(WlRows) /\ WlEvents["wl_buffer"] \in Seq(WlRows)
  <2>1. <<"destroy">> \in Seq(WlNames) /\ <<"release">> \in Seq(WlNames)
    BY DEF WlNames
  <2> QED
    BY <2>1, FirstRows DEF WlRequests, WlEvents
<1> QED
  BY <1>2, <1>3, <1>4, <1>5, <1>6, <1>7, <1>8, <1>9, <1>10 DEF WlInterfaces

\* A request reaches its own message and the function of its own name.
RequestsFit(t) ==
  \A n \in DOMAIN t.opcodes :
    LET c == t.opcodes[n]
    IN  /\ c \in Nat /\ c < Len(t.messages.requests)
        /\ t.messages.requests[c + 1].since = SinceIn(t.since, n)
        /\ t.handlers[c + 1] = n
\* An event reaches the listener's function of its own name.
EventsFit(t) == \A n \in DOMAIN t.codes : t.listener[t.codes[n] + 1] = n

\* What the numbers of rows are.
LEMMA RowNumbers ==
  ASSUME NEW rows \in Seq(WlRows), NEW n \in DOMAIN Numbers(rows)
  PROVE  /\ \E k \in DOMAIN rows : /\ rows[k].name = n /\ Numbers(rows)[n] = k - 1
                                   /\ Sinces(rows)[n] = rows[k].since
         /\ Numbers(rows)[n] \in Nat /\ Numbers(rows)[n] < Len(rows)
         /\ Sinces(rows)[n] = rows[Numbers(rows)[n] + 1].since
         /\ Names(rows)[Numbers(rows)[n] + 1] = n
         /\ n \in DOMAIN Sinces(rows)
<1> DEFINE k == CHOOSE i \in DOMAIN rows : rows[i].name = n
<1>1. n \in {rows[i].name : i \in DOMAIN rows}
  BY DEF Numbers
<1>2. k \in DOMAIN rows /\ rows[k].name = n
  BY <1>1
<1>3. Numbers(rows)[n] = k - 1 /\ Sinces(rows)[n] = rows[k].since /\ n \in DOMAIN Sinces(rows)
  BY <1>1 DEF Numbers, Sinces
<1>4. DOMAIN rows = 1..Len(rows) /\ Len(rows) \in Nat
  BY LenProperties
<1> HIDE DEF k
<1>5. k \in 1..Len(rows) /\ k - 1 \in Nat /\ k - 1 < Len(rows) /\ (k - 1) + 1 = k
  BY <1>2, <1>4
<1>6. Names(rows)[k] = n
  BY <1>2 DEF Names
<1> QED
  BY <1>2, <1>3, <1>5, <1>6

LEMMA WlFit ==
  ASSUME NEW i \in WlInterfaces
  PROVE  RequestsFit(WlTable(i)) /\ EventsFit(WlTable(i))
<1> DEFINE t == WlTable(i)
           asked == WlRequests[i]
           told == WlEvents[i]
<1>1. /\ t.messages.requests = asked /\ t.handlers = Names(asked) /\ t.opcodes = Numbers(asked)
      /\ t.since = With(Sinces(asked), Sinces(told))
      /\ t.codes = Numbers(told) /\ t.listener = Names(told)
  BY DEF WlTable, Table
<1>2. asked \in Seq(WlRows) /\ told \in Seq(WlRows)
  BY WlRowsTyped
<1> HIDE DEF t, asked, told
<1>3. ASSUME NEW n \in DOMAIN t.opcodes
      PROVE  LET c == t.opcodes[n]
             IN  /\ c \in Nat /\ c < Len(t.messages.requests)
                 /\ t.messages.requests[c + 1].since = SinceIn(t.since, n)
                 /\ t.handlers[c + 1] = n
  <2> DEFINE c == Numbers(asked)[n]
  <2>1. n \in DOMAIN Numbers(asked)
    BY <1>1
  <2>2. /\ c \in Nat /\ c < Len(asked) /\ Sinces(asked)[n] = asked[c + 1].since
        /\ Names(asked)[c + 1] = n /\ n \in DOMAIN Sinces(asked)
    BY <1>2, <2>1, RowNumbers
  <2>3. SinceIn(t.since, n) = Sinces(asked)[n]
    BY <1>1, <2>2 DEF SinceIn, With
  <2> QED
    BY <1>1, <2>2, <2>3
<1>4. ASSUME NEW n \in DOMAIN t.codes
      PROVE  t.listener[t.codes[n] + 1] = n
  BY <1>1, <1>2, <1>4, RowNumbers
<1> QED
  BY <1>3, <1>4 DEF RequestsFit, EventsFit, t

LEMMA XdgFit ==
  ASSUME NEW i \in XdgInterfaces
  PROVE  RequestsFit(XdgTables[i]) /\ EventsFit(XdgTables[i])
<1>1. CASE i = "xdg_wm_base"
  <2> DEFINE t == Table(XdgWmBaseMessages, XdgWmBaseHandlers, XdgWmBaseEventCodes,
                        XdgWmBaseListener, XdgWmBaseOpcodes, XdgWmBaseSince, XdgWmBaseStubs)
  <2>1. XdgTables[i] = t
    BY <1>1 DEF XdgTables
  <2>2. RequestsFit(t)
    <3> DEFINE rows == First(<<"destroy", "create_positioner", "get_xdg_surface", "pong">>)
    <3>1. /\ t.messages.requests = rows /\ t.handlers = XdgWmBaseHandlers
          /\ t.opcodes = XdgWmBaseOpcodes /\ t.since = XdgWmBaseSince
      BY DEF Table, XdgWmBaseMessages
    <3>2. Len(rows) = 4 /\ \A k \in 1..4 : rows[k].since = 1
      BY DEF First, Row
    <3> HIDE DEF rows, t
    <3>3. \A n \in DOMAIN XdgWmBaseOpcodes :
            LET c == XdgWmBaseOpcodes[n]
            IN  /\ c \in Nat /\ c < Len(rows)
                /\ rows[c + 1].since = SinceIn(XdgWmBaseSince, n)
                /\ XdgWmBaseHandlers[c + 1] = n
      BY <3>2 DEF XdgWmBaseOpcodes, XdgWmBaseSince, XdgWmBaseHandlers, SinceIn, AllFirst
    <3> QED
      BY <3>1, <3>3, Zenon DEF RequestsFit
  <2>3. EventsFit(t)
    BY DEF EventsFit, Table, XdgWmBaseEventCodes, XdgWmBaseListener
  <2> QED
    BY <2>1, <2>2, <2>3
<1>2. CASE i = "xdg_positioner"
  <2> DEFINE t == Table(XdgPositionerMessages, XdgPositionerHandlers, <<>>,
                        <<>>, XdgPositionerOpcodes, XdgPositionerSince, XdgPositionerStubs)
  <2>1. XdgTables[i] = t
    BY <1>2 DEF XdgTables
  <2>2. RequestsFit(t)
    <3> DEFINE rows == First(<<"destroy", "set_size", "set_anchor_rect", "set_anchor",
                             "set_gravity",
                          "set_constraint_adjustment", "set_offset">>)
                   \o <<Row("set_reactive", 3), Row("set_parent_size", 3),
                        Row("set_parent_configure", 3)>>
    <3>1. /\ t.messages.requests = rows /\ t.handlers = XdgPositionerHandlers
          /\ t.opcodes = XdgPositionerOpcodes /\ t.since = XdgPositionerSince
      BY DEF Table, XdgPositionerMessages
    <3>2. /\ Len(rows) = 10 /\ \A k \in 1..7 : rows[k].since = 1
          /\ \A k \in 8..10 : rows[k].since = 3
      BY DEF First, Row
    <3> HIDE DEF rows, t
    <3>3. \A n \in DOMAIN XdgPositionerOpcodes :
            LET c == XdgPositionerOpcodes[n]
            IN  /\ c \in Nat /\ c < Len(rows)
                /\ rows[c + 1].since = SinceIn(XdgPositionerSince, n)
                /\ XdgPositionerHandlers[c + 1] = n
      BY <3>2 DEF XdgPositionerOpcodes, XdgPositionerSince, XdgPositionerHandlers, SinceIn, AllFirst
    <3> QED
      BY <3>1, <3>3, Zenon DEF RequestsFit
  <2>3. EventsFit(t)
    BY DEF EventsFit, Table
  <2> QED
    BY <2>1, <2>2, <2>3
<1>3. CASE i = "xdg_surface"
  <2> DEFINE t == Table(XdgSurfaceMessages, XdgSurfaceHandlers, XdgSurfaceEventCodes,
                        XdgSurfaceListener, XdgSurfaceOpcodes, XdgSurfaceSince, XdgSurfaceStubs)
  <2>1. XdgTables[i] = t
    BY <1>3 DEF XdgTables
  <2>2. RequestsFit(t)
    BY DEF RequestsFit, Table, XdgSurfaceMessages, XdgSurfaceHandlers, XdgSurfaceOpcodes,
           XdgSurfaceSince, First, Row, SinceIn, AllFirst
  <2>3. EventsFit(t)
    BY DEF EventsFit, Table, XdgSurfaceEventCodes, XdgSurfaceListener
  <2> QED
    BY <2>1, <2>2, <2>3
<1>4. CASE i = "xdg_toplevel"
  <2> DEFINE t == Table(XdgToplevelMessages, XdgToplevelHandlers, XdgToplevelEventCodes,
                        XdgToplevelListener, XdgToplevelOpcodes, XdgToplevelSince,
                        XdgToplevelStubs)
  <2>1. XdgTables[i] = t
    BY <1>4 DEF XdgTables
  <2>2. RequestsFit(t)
    BY DEF RequestsFit, Table, XdgToplevelMessages, XdgToplevelHandlers, XdgToplevelOpcodes,
           XdgToplevelSince, First, Row, SinceIn, AllFirst
  <2>3. EventsFit(t)
    BY DEF EventsFit, Table, XdgToplevelEventCodes, XdgToplevelListener
  <2> QED
    BY <2>1, <2>2, <2>3
<1>5. CASE i = "xdg_popup"
  <2> DEFINE t == Table(XdgPopupMessages, XdgPopupHandlers, XdgPopupEventCodes,
                        XdgPopupListener, XdgPopupOpcodes, XdgPopupSince, XdgPopupStubs)
  <2>1. XdgTables[i] = t
    BY <1>5 DEF XdgTables
  <2>2. RequestsFit(t)
    <3> DEFINE rows == <<Row("destroy", 1), Row("grab", 1), Row("reposition", 3)>>
    <3>1. /\ t.messages.requests = rows /\ t.handlers = XdgPopupHandlers
          /\ t.opcodes = XdgPopupOpcodes /\ t.since = XdgPopupSince
      BY DEF Table, XdgPopupMessages
    <3>2. Len(rows) = 3 /\ rows[1].since = 1 /\ rows[2].since = 1 /\ rows[3].since = 3
      BY DEF Row
    <3> HIDE DEF rows, t
    <3>3. \A n \in DOMAIN XdgPopupOpcodes :
            LET c == XdgPopupOpcodes[n]
            IN  /\ c \in Nat /\ c < Len(rows)
                /\ rows[c + 1].since = SinceIn(XdgPopupSince, n)
                /\ XdgPopupHandlers[c + 1] = n
      BY <3>2 DEF XdgPopupOpcodes, XdgPopupSince, XdgPopupHandlers, SinceIn, AllFirst
    <3> QED
      BY <3>1, <3>3, Zenon DEF RequestsFit
  <2>3. EventsFit(t)
    BY DEF EventsFit, Table, XdgPopupEventCodes, XdgPopupListener
  <2> QED
    BY <2>1, <2>2, <2>3
<1>6. CASE i = "dmabuf"
  <2> DEFINE t == Table(DmabufMessages, DmabufHandlers, DmabufEventCodes,
                        DmabufListener, DmabufOpcodes, DmabufSince, DmabufStubs)
  <2>1. XdgTables[i] = t
    BY <1>6 DEF XdgTables
  <2>2. RequestsFit(t)
    BY DEF RequestsFit, Table, DmabufMessages, DmabufHandlers, DmabufOpcodes,
           DmabufSince, First, Row, SinceIn, AllFirst
  <2>3. EventsFit(t)
    BY DEF EventsFit, Table, DmabufEventCodes, DmabufListener
  <2> QED
    BY <2>1, <2>2, <2>3
<1>7. CASE i = "params"
  <2> DEFINE t == Table(ParamsMessages, ParamsHandlers, ParamsEventCodes,
                        ParamsListener, ParamsOpcodes, ParamsSince, ParamsStubs)
  <2>1. XdgTables[i] = t
    BY <1>7 DEF XdgTables
  <2>2. RequestsFit(t)
    <3> DEFINE rows == <<Row("destroy", 1), Row("add", 1), Row("create", 1), Row("create_immed", 2),
                     Row("set_sampling_device", 6)>>
    <3>1. /\ t.messages.requests = rows /\ t.handlers = ParamsHandlers
          /\ t.opcodes = ParamsOpcodes /\ t.since = ParamsSince
      BY DEF Table, ParamsMessages
    <3>2. /\ Len(rows) = 5 /\ rows[1].since = 1 /\ rows[2].since = 1 /\ rows[3].since = 1
          /\ rows[4].since = 2 /\ rows[5].since = 6
      BY DEF Row
    <3> HIDE DEF rows, t
    <3>3. \A n \in DOMAIN ParamsOpcodes :
            LET c == ParamsOpcodes[n]
            IN  /\ c \in Nat /\ c < Len(rows)
                /\ rows[c + 1].since = SinceIn(ParamsSince, n)
                /\ ParamsHandlers[c + 1] = n
      BY <3>2 DEF ParamsOpcodes, ParamsSince, ParamsHandlers, SinceIn, AllFirst
    <3> QED
      BY <3>1, <3>3, Zenon DEF RequestsFit
  <2>3. EventsFit(t)
    BY DEF EventsFit, Table, ParamsEventCodes, ParamsListener
  <2> QED
    BY <2>1, <2>2, <2>3
<1>8. CASE i = "feedback"
  <2> DEFINE t == Table(FeedbackMessages, FeedbackHandlers, FeedbackEventCodes,
                        FeedbackListener, FeedbackOpcodes, FeedbackSince, FeedbackStubs)
  <2>1. XdgTables[i] = t
    BY <1>8 DEF XdgTables
  <2>2. RequestsFit(t)
    BY DEF RequestsFit, Table, FeedbackMessages, FeedbackHandlers, FeedbackOpcodes,
           FeedbackSince, First, Row, SinceIn, AllFirst
  <2>3. EventsFit(t)
    BY DEF EventsFit, Table, FeedbackEventCodes, FeedbackListener
  <2> QED
    BY <2>1, <2>2, <2>3
<1> QED
  BY <1>1, <1>2, <1>3, <1>4, <1>5, <1>6, <1>7, <1>8 DEF XdgInterfaces

LEMMA TablesFit ==
  \A i \in Interfaces : RequestsFit(Tables[i]) /\ EventsFit(Tables[i])
BY TheInterfaces, WlFit, XdgFit

-----------------------------------------------------------------------------
(* The stubs and the implementations                                       *)

\* Who makes the objects of an interface, at which version (0: the maker's),
\* and what a new one is told.
Made ==
  {"wl_surface", "wl_region", "wl_callback", "wl_pointer", "wl_keyboard", "wl_touch",
   "xdg_positioner", "xdg_surface", "xdg_toplevel", "xdg_popup", "params", "feedback", "wl_buffer"}
Maker(j) ==
  CASE j \in {"wl_surface", "wl_region"}               -> "wl_compositor"
    [] j = "wl_callback"                               -> "wl_surface"
    [] j \in {"wl_pointer", "wl_keyboard", "wl_touch"} -> "wl_seat"
    [] j \in {"xdg_positioner", "xdg_surface"}         -> "xdg_wm_base"
    [] j \in {"xdg_toplevel", "xdg_popup"}             -> "xdg_surface"
    [] j \in {"params", "feedback"}                    -> "dmabuf"
    [] j = "wl_buffer"                                 -> "params"
    [] OTHER                                           -> ""
MadeAt(j) ==
  CASE j \in {"wl_pointer", "wl_keyboard"} -> 9
    [] j \in {"params", "feedback"}        -> 4
    [] j \in {"wl_region", "wl_callback", "wl_touch", "xdg_popup", "wl_buffer"} -> 1
    [] OTHER                               -> 0
Told(j) ==
  CASE j = "wl_keyboard" -> <<"keymap", "repeat_info">>
    [] j = "feedback"    -> FeedbackBatch
    [] OTHER             -> <<>>
Unimplemented == {"xdg_popup", "wl_touch", "wl_callback"}

\* What the stubs make.
LEMMA StubTables ==
  /\ \A i \in WlInterfaces : Tables[i].stubs.ends = {"destroy", "release"}
  /\ \A i \in XdgInterfaces : Tables[i].stubs.ends = {"destroy"}
  /\ Tables["wl_compositor"].stubs.makes =
       [create_surface |-> "wl_surface", create_region |-> "wl_region"]
  /\ Tables["wl_surface"].stubs.makes = [frame |-> "wl_callback"]
  /\ Tables["wl_seat"].stubs.makes =
       [get_pointer |-> "wl_pointer", get_keyboard |-> "wl_keyboard", get_touch |-> "wl_touch"]
  /\ Tables["xdg_wm_base"].stubs.makes =
       [create_positioner |-> "xdg_positioner", get_xdg_surface |-> "xdg_surface"]
  /\ Tables["xdg_surface"].stubs.makes =
       [get_toplevel |-> "xdg_toplevel", get_popup |-> "xdg_popup"]
  /\ Tables["dmabuf"].stubs.makes =
       [create_params |-> "params", get_default_feedback |-> "feedback",
        get_surface_feedback |-> "feedback"]
  /\ Tables["params"].stubs.makes = [create_immed |-> "wl_buffer"]
  /\ \A i \in {"wl_region", "wl_pointer", "wl_keyboard", "wl_touch", "wl_callback", "wl_buffer",
               "xdg_positioner", "xdg_toplevel", "xdg_popup", "feedback"} :
       Tables[i].stubs.makes = <<>>
<1>1. \A i \in WlInterfaces : Tables[i].stubs = WlStubs[i] /\ i \in DOMAIN WlRequests
  BY TheInterfaces DEF WlTable, Table, WlRequests, WlInterfaces
<1>2. \A i \in WlInterfaces :
        /\ WlStubs[i].ends = {"destroy", "release"}
        /\ WlStubs[i].makes =
             CASE i = "wl_compositor" -> [create_surface |-> "wl_surface",
                                          create_region |-> "wl_region"]
               [] i = "wl_surface"    -> [frame |-> "wl_callback"]
               [] i = "wl_seat"       -> [get_pointer |-> "wl_pointer",
                                          get_keyboard |-> "wl_keyboard",
                                          get_touch |-> "wl_touch"]
               [] OTHER               -> <<>>
  BY <1>1 DEF WlStubs
<1>3. /\ XdgTables.xdg_wm_base.stubs = XdgWmBaseStubs
      /\ XdgTables.xdg_positioner.stubs = XdgPositionerStubs
      /\ XdgTables.xdg_surface.stubs = XdgSurfaceStubs
      /\ XdgTables.xdg_toplevel.stubs = XdgToplevelStubs
      /\ XdgTables.xdg_popup.stubs = XdgPopupStubs
      /\ XdgTables.dmabuf.stubs = DmabufStubs
      /\ XdgTables.params.stubs = ParamsStubs
      /\ XdgTables.feedback.stubs = FeedbackStubs
  BY DEF XdgTables, Table
<1>4. \A i \in XdgInterfaces : Tables[i].stubs = XdgTables[i].stubs
  BY TheInterfaces
<1>5. \A i \in XdgInterfaces : Tables[i].stubs.ends = {"destroy"}
  BY <1>3, <1>4
     DEF XdgInterfaces, XdgWmBaseStubs, XdgPositionerStubs, XdgSurfaceStubs, XdgToplevelStubs,
         XdgPopupStubs, DmabufStubs, ParamsStubs, FeedbackStubs
<1>6. /\ Tables["wl_compositor"].stubs.makes =
           [create_surface |-> "wl_surface", create_region |-> "wl_region"]
      /\ Tables["wl_surface"].stubs.makes = [frame |-> "wl_callback"]
      /\ Tables["wl_seat"].stubs.makes =
           [get_pointer |-> "wl_pointer", get_keyboard |-> "wl_keyboard",
            get_touch |-> "wl_touch"]
      /\ \A i \in {"wl_region", "wl_pointer", "wl_keyboard", "wl_touch", "wl_callback",
                   "wl_buffer"} : Tables[i].stubs.makes = <<>>
  BY <1>1, <1>2, Zenon DEF WlInterfaces
<1>7. \A i \in {"xdg_positioner", "xdg_toplevel", "xdg_popup", "feedback"} :
        Tables[i].stubs.makes = <<>>
  BY <1>3, <1>4
     DEF XdgInterfaces, XdgPositionerStubs, XdgToplevelStubs, XdgPopupStubs, FeedbackStubs
<1>8. /\ Tables["xdg_wm_base"].stubs.makes =
           [create_positioner |-> "xdg_positioner", get_xdg_surface |-> "xdg_surface"]
      /\ Tables["xdg_surface"].stubs.makes =
           [get_toplevel |-> "xdg_toplevel", get_popup |-> "xdg_popup"]
      /\ Tables["dmabuf"].stubs.makes =
           [create_params |-> "params", get_default_feedback |-> "feedback",
            get_surface_feedback |-> "feedback"]
      /\ Tables["params"].stubs.makes = [create_immed |-> "wl_buffer"]
  BY <1>3, <1>4
     DEF XdgInterfaces, XdgWmBaseStubs, XdgSurfaceStubs, DmabufStubs, ParamsStubs
<1> QED
  BY <1>1, <1>2, <1>5, <1>6, <1>7, <1>8

LEMMA NewObjects ==
  ASSUME NEW n
  PROVE  /\ NewOf(Tables["wl_compositor"].stubs, n) =
              IF n = "create_surface" THEN "wl_surface"
              ELSE IF n = "create_region" THEN "wl_region" ELSE ""
         /\ NewOf(Tables["wl_surface"].stubs, n) = IF n = "frame" THEN "wl_callback" ELSE ""
         /\ NewOf(Tables["wl_seat"].stubs, n) =
              IF n = "get_pointer" THEN "wl_pointer"
              ELSE IF n = "get_keyboard" THEN "wl_keyboard"
              ELSE IF n = "get_touch" THEN "wl_touch" ELSE ""
         /\ NewOf(Tables["xdg_wm_base"].stubs, n) =
              IF n = "create_positioner" THEN "xdg_positioner"
              ELSE IF n = "get_xdg_surface" THEN "xdg_surface" ELSE ""
         /\ NewOf(Tables["xdg_surface"].stubs, n) =
              IF n = "get_toplevel" THEN "xdg_toplevel"
              ELSE IF n = "get_popup" THEN "xdg_popup" ELSE ""
         /\ NewOf(Tables["dmabuf"].stubs, n) =
              IF n = "create_params" THEN "params"
              ELSE IF n = "get_default_feedback" THEN "feedback"
              ELSE IF n = "get_surface_feedback" THEN "feedback" ELSE ""
         /\ NewOf(Tables["params"].stubs, n) = IF n = "create_immed" THEN "wl_buffer" ELSE ""
         /\ \A i \in {"wl_region", "wl_pointer", "wl_keyboard", "wl_touch", "wl_callback",
                      "wl_buffer", "xdg_positioner", "xdg_toplevel", "xdg_popup", "feedback"} :
              NewOf(Tables[i].stubs, n) = ""
<1> DEFINE new(i) == NewOf(Tables[i].stubs, n)
           Value(r) == IF n \in DOMAIN r THEN r[n] ELSE ""
<1>0. \A i : new(i) = Value(Tables[i].stubs.makes)
  BY DEF NewOf, Makers
<1>1. new("wl_compositor") =
        IF n = "create_surface" THEN "wl_surface"
        ELSE IF n = "create_region" THEN "wl_region" ELSE ""
  <2> DEFINE r == Tables["wl_compositor"].stubs.makes
  <2>1. r = [create_surface |-> "wl_surface", create_region |-> "wl_region"]
    BY StubTables
  <2> HIDE DEF r
  <2>2. /\ DOMAIN r = {"create_surface", "create_region"}
        /\ r["create_surface"] = "wl_surface"
        /\ r["create_region"] = "wl_region"
    BY <2>1
  <2>3. Value(r) = IF n = "create_surface" THEN "wl_surface"
                   ELSE IF n = "create_region" THEN "wl_region" ELSE ""
    BY <2>2
  <2> QED
    BY <1>0, <2>3 DEF r
<1>2. new("wl_surface") =
        IF n = "frame" THEN "wl_callback" ELSE ""
  <2> DEFINE r == Tables["wl_surface"].stubs.makes
  <2>1. r = [frame |-> "wl_callback"]
    BY StubTables
  <2> HIDE DEF r
  <2>2. /\ DOMAIN r = {"frame"}
        /\ r["frame"] = "wl_callback"
    BY <2>1
  <2>3. Value(r) = IF n = "frame" THEN "wl_callback" ELSE ""
    BY <2>2
  <2> QED
    BY <1>0, <2>3 DEF r
<1>3. new("wl_seat") =
        IF n = "get_pointer" THEN "wl_pointer"
        ELSE IF n = "get_keyboard" THEN "wl_keyboard"
        ELSE IF n = "get_touch" THEN "wl_touch" ELSE ""
  <2> DEFINE r == Tables["wl_seat"].stubs.makes
  <2>1. r = [get_pointer |-> "wl_pointer", get_keyboard |-> "wl_keyboard", get_touch |-> "wl_touch"]
    BY StubTables
  <2> HIDE DEF r
  <2>2. /\ DOMAIN r = {"get_pointer", "get_keyboard", "get_touch"}
        /\ r["get_pointer"] = "wl_pointer"
        /\ r["get_keyboard"] = "wl_keyboard"
        /\ r["get_touch"] = "wl_touch"
    BY <2>1
  <2>3. Value(r) = IF n = "get_pointer" THEN "wl_pointer"
                   ELSE IF n = "get_keyboard" THEN "wl_keyboard"
                   ELSE IF n = "get_touch" THEN "wl_touch" ELSE ""
    BY <2>2
  <2> QED
    BY <1>0, <2>3 DEF r
<1>4. new("xdg_wm_base") =
        IF n = "create_positioner" THEN "xdg_positioner"
        ELSE IF n = "get_xdg_surface" THEN "xdg_surface" ELSE ""
  <2> DEFINE r == Tables["xdg_wm_base"].stubs.makes
  <2>1. r = [create_positioner |-> "xdg_positioner", get_xdg_surface |-> "xdg_surface"]
    BY StubTables
  <2> HIDE DEF r
  <2>2. /\ DOMAIN r = {"create_positioner", "get_xdg_surface"}
        /\ r["create_positioner"] = "xdg_positioner"
        /\ r["get_xdg_surface"] = "xdg_surface"
    BY <2>1
  <2>3. Value(r) = IF n = "create_positioner" THEN "xdg_positioner"
                   ELSE IF n = "get_xdg_surface" THEN "xdg_surface" ELSE ""
    BY <2>2
  <2> QED
    BY <1>0, <2>3 DEF r
<1>5. new("xdg_surface") =
        IF n = "get_toplevel" THEN "xdg_toplevel" ELSE IF n = "get_popup" THEN "xdg_popup" ELSE ""
  <2> DEFINE r == Tables["xdg_surface"].stubs.makes
  <2>1. r = [get_toplevel |-> "xdg_toplevel", get_popup |-> "xdg_popup"]
    BY StubTables
  <2> HIDE DEF r
  <2>2. /\ DOMAIN r = {"get_toplevel", "get_popup"}
        /\ r["get_toplevel"] = "xdg_toplevel"
        /\ r["get_popup"] = "xdg_popup"
    BY <2>1
  <2>3. Value(r) = IF n = "get_toplevel" THEN "xdg_toplevel"
                   ELSE IF n = "get_popup" THEN "xdg_popup" ELSE ""
    BY <2>2
  <2> QED
    BY <1>0, <2>3 DEF r
<1>6. new("dmabuf") =
        IF n = "create_params" THEN "params"
        ELSE IF n = "get_default_feedback" THEN "feedback"
        ELSE IF n = "get_surface_feedback" THEN "feedback" ELSE ""
  <2> DEFINE r == Tables["dmabuf"].stubs.makes
  <2>1. r = [create_params |-> "params", get_default_feedback |-> "feedback",
            get_surface_feedback |-> "feedback"]
    BY StubTables
  <2> HIDE DEF r
  <2>2. /\ DOMAIN r = {"create_params", "get_default_feedback", "get_surface_feedback"}
        /\ r["create_params"] = "params"
        /\ r["get_default_feedback"] = "feedback"
        /\ r["get_surface_feedback"] = "feedback"
    BY <2>1
  <2>3. Value(r) = IF n = "create_params" THEN "params"
                   ELSE IF n = "get_default_feedback" THEN "feedback"
                   ELSE IF n = "get_surface_feedback" THEN "feedback" ELSE ""
    BY <2>2
  <2> QED
    BY <1>0, <2>3 DEF r
<1>7. new("params") =
        IF n = "create_immed" THEN "wl_buffer" ELSE ""
  <2> DEFINE r == Tables["params"].stubs.makes
  <2>1. r = [create_immed |-> "wl_buffer"]
    BY StubTables
  <2> HIDE DEF r
  <2>2. /\ DOMAIN r = {"create_immed"}
        /\ r["create_immed"] = "wl_buffer"
    BY <2>1
  <2>3. Value(r) = IF n = "create_immed" THEN "wl_buffer" ELSE ""
    BY <2>2
  <2> QED
    BY <1>0, <2>3 DEF r
<1>8. ASSUME NEW i \in {"wl_region", "wl_pointer", "wl_keyboard", "wl_touch", "wl_callback",
                       "wl_buffer", "xdg_positioner", "xdg_toplevel", "xdg_popup", "feedback"}
      PROVE  new(i) = ""
  <2>1. Tables[i].stubs.makes = <<>>
    BY StubTables
  <2>2. Value(<<>>) = ""
    OBVIOUS
  <2> QED
    BY <1>0, <2>1, <2>2, Zenon
<1> QED
  BY <1>1, <1>2, <1>3, <1>4, <1>5, <1>6, <1>7, <1>8

\* A stub makes what its interface makes, and ends no object with that.
LEMMA StubMakes ==
  ASSUME NEW i \in Interfaces, NEW n
  PROVE  LET new == NewOf(Tables[i].stubs, n)
         IN  new # "" => new \in Made /\ Maker(new) = i /\ n \notin Tables[i].stubs.ends
<1> DEFINE new == NewOf(Tables[i].stubs, n)
<1>0. Tables[i].stubs.ends \subseteq {"destroy", "release"}
  BY StubTables, TheInterfaces
<1>1. CASE i = "wl_compositor"
  <2>1. new # "" => \/ (n = "create_surface" /\ new = "wl_surface")
                    \/ (n = "create_region" /\ new = "wl_region")
    BY <1>1, NewObjects
  <2> QED
    BY <1>0, <1>1, <2>1 DEF Made, Maker
<1>2. CASE i = "wl_surface"
  <2>1. new # "" => (n = "frame" /\ new = "wl_callback")
    BY <1>2, NewObjects
  <2> QED
    BY <1>0, <1>2, <2>1 DEF Made, Maker
<1>3. CASE i = "wl_seat"
  <2>1. new # "" => \/ (n = "get_pointer" /\ new = "wl_pointer")
                    \/ (n = "get_keyboard" /\ new = "wl_keyboard")
                    \/ (n = "get_touch" /\ new = "wl_touch")
    BY <1>3, NewObjects
  <2> QED
    BY <1>0, <1>3, <2>1 DEF Made, Maker
<1>4. CASE i = "xdg_wm_base"
  <2>1. new # "" => \/ (n = "create_positioner" /\ new = "xdg_positioner")
                    \/ (n = "get_xdg_surface" /\ new = "xdg_surface")
    BY <1>4, NewObjects
  <2> QED
    BY <1>0, <1>4, <2>1 DEF Made, Maker
<1>5. CASE i = "xdg_surface"
  <2>1. new # "" => \/ (n = "get_toplevel" /\ new = "xdg_toplevel")
                    \/ (n = "get_popup" /\ new = "xdg_popup")
    BY <1>5, NewObjects
  <2> QED
    BY <1>0, <1>5, <2>1 DEF Made, Maker
<1>6. CASE i = "dmabuf"
  <2>1. new # "" => \/ (n = "create_params" /\ new = "params")
                    \/ (n = "get_default_feedback" /\ new = "feedback")
                    \/ (n = "get_surface_feedback" /\ new = "feedback")
    BY <1>6, NewObjects
  <2> QED
    BY <1>0, <1>6, <2>1 DEF Made, Maker
<1>7. CASE i = "params"
  <2>1. new # "" => (n = "create_immed" /\ new = "wl_buffer")
    BY <1>7, NewObjects
  <2> QED
    BY <1>0, <1>7, <2>1 DEF Made, Maker
<1>8. CASE i \in {"wl_region", "wl_pointer", "wl_keyboard", "wl_touch", "wl_callback",
                  "wl_buffer", "xdg_positioner", "xdg_toplevel", "xdg_popup", "feedback"}
  BY <1>8, NewObjects
<1> QED
  BY <1>1, <1>2, <1>3, <1>4, <1>5, <1>6, <1>7, <1>8, TheInterfaces DEF WlInterfaces, XdgInterfaces

\* The names of a table's requests.
LEMMA NamesOf ==
  ASSUME NEW q \in Seq(WlRows), NEW r \in Seq(WlRows)
  PROVE  \A n \in DOMAIN Numbers(q \o r) : n \in DOMAIN Numbers(q) \/ n \in DOMAIN Numbers(r)
<1> DEFINE p == q \o r
<1>1. \A k \in DOMAIN p : (k \in DOMAIN q /\ p[k] = q[k])
                            \/ (k - Len(q) \in DOMAIN r /\ p[k] = r[k - Len(q)])
  BY ConcatIndices
<1>2. \A x : DOMAIN Numbers(x) = {x[k].name : k \in DOMAIN x}
  BY DEF Numbers
<1>3. SUFFICES ASSUME NEW n \in DOMAIN Numbers(p)
               PROVE  n \in DOMAIN Numbers(q) \/ n \in DOMAIN Numbers(r)
  OBVIOUS
<1> HIDE DEF p
<1>4. PICK k \in DOMAIN p : n = p[k].name
  BY <1>2
<1>5. (k \in DOMAIN q /\ p[k] = q[k]) \/ (k - Len(q) \in DOMAIN r /\ p[k] = r[k - Len(q)])
  BY <1>1
<1> QED
  BY <1>2, <1>4, <1>5

LEMMA WlOpcodes ==
  /\ DOMAIN Tables["wl_compositor"].opcodes \subseteq {"create_surface", "create_region"}
  /\ DOMAIN Tables["wl_surface"].opcodes \subseteq
       {"destroy", "attach", "damage", "frame", "set_opaque_region", "set_input_region", "commit",
        "set_buffer_transform", "set_buffer_scale", "damage_buffer", "offset"}
  /\ DOMAIN Tables["wl_region"].opcodes \subseteq {"destroy", "add", "subtract"}
  /\ DOMAIN Tables["wl_seat"].opcodes \subseteq
       {"get_pointer", "get_keyboard", "get_touch", "release"}
  /\ DOMAIN Tables["wl_pointer"].opcodes \subseteq {"set_cursor", "release"}
  /\ DOMAIN Tables["wl_keyboard"].opcodes \subseteq {"release"}
  /\ DOMAIN Tables["wl_touch"].opcodes \subseteq {"release"}
  /\ DOMAIN Tables["wl_callback"].opcodes = {}
  /\ DOMAIN Tables["wl_buffer"].opcodes \subseteq {"destroy"}
<1>1. ASSUME NEW i \in WlInterfaces
      PROVE  Tables[i].opcodes = Numbers(WlRequests[i])
  <2>1. WlTable(i).opcodes = Numbers(WlRequests[i])
    BY DEF WlTable, Table
  <2> QED
    BY <2>1, TheInterfaces
<1>2. DOMAIN Numbers(WlRequests["wl_compositor"]) \subseteq {"create_surface", "create_region"}
  BY DEF Numbers, WlRequests, First, Row
<1>3. DOMAIN Numbers(WlRequests["wl_surface"]) \subseteq
       {"destroy", "attach", "damage", "frame", "set_opaque_region", "set_input_region", "commit",
        "set_buffer_transform", "set_buffer_scale", "damage_buffer", "offset"}
  <2> DEFINE names == <<"destroy", "attach", "damage", "frame", "set_opaque_region",
                        "set_input_region", "commit">>
             old == First(names)
             new == <<Row("set_buffer_transform", 2), Row("set_buffer_scale", 3),
                      Row("damage_buffer", 4), Row("offset", 5)>>
  <2>1. WlRequests["wl_surface"] = old \o new
    BY DEF WlRequests
  <2>2. names \in Seq(WlNames) /\ new \in Seq(WlRows)
    BY DEF WlNames, WlRows, Row
  <2>3. old \in Seq(WlRows)
    BY <2>2, FirstRows
  <2>4. DOMAIN Numbers(old) \subseteq {"destroy", "attach", "damage", "frame", "set_opaque_region",
                                       "set_input_region", "commit"}
    BY DEF Numbers, First, Row
  <2>5. DOMAIN Numbers(new) \subseteq {"set_buffer_transform", "set_buffer_scale", "damage_buffer",
                                       "offset"}
    BY DEF Numbers, Row
  <2> HIDE DEF old, new
  <2> QED
    BY <2>1, <2>2, <2>3, <2>4, <2>5, NamesOf
<1>4. DOMAIN Numbers(WlRequests["wl_region"]) \subseteq {"destroy", "add", "subtract"}
  BY DEF Numbers, WlRequests, First, Row
<1>5. DOMAIN Numbers(WlRequests["wl_seat"]) \subseteq
        {"get_pointer", "get_keyboard", "get_touch", "release"}
  <2> DEFINE names == <<"get_pointer", "get_keyboard", "get_touch">>
             old == First(names)
             new == <<Row("release", 5)>>
  <2>1. WlRequests["wl_seat"] = old \o new
    BY DEF WlRequests
  <2>2. names \in Seq(WlNames) /\ new \in Seq(WlRows)
    BY DEF WlNames, WlRows, Row
  <2>3. old \in Seq(WlRows)
    BY <2>2, FirstRows
  <2>4. DOMAIN Numbers(old) \subseteq {"get_pointer", "get_keyboard", "get_touch"}
    BY DEF Numbers, First, Row
  <2>5. DOMAIN Numbers(new) \subseteq {"release"}
    BY DEF Numbers, Row
  <2> HIDE DEF old, new
  <2> QED
    BY <2>1, <2>2, <2>3, <2>4, <2>5, NamesOf
<1>6. DOMAIN Numbers(WlRequests["wl_pointer"]) \subseteq {"set_cursor", "release"}
  BY DEF Numbers, WlRequests, Row
<1>7. /\ DOMAIN Numbers(WlRequests["wl_keyboard"]) \subseteq {"release"}
      /\ DOMAIN Numbers(WlRequests["wl_touch"]) \subseteq {"release"}
  BY DEF Numbers, WlRequests, Row
<1>8. DOMAIN Numbers(WlRequests["wl_callback"]) = {}
  BY DEF Numbers, WlRequests
<1>9. DOMAIN Numbers(WlRequests["wl_buffer"]) \subseteq {"destroy"}
  BY DEF Numbers, WlRequests, First, Row
<1> QED
  BY <1>1, <1>2, <1>3, <1>4, <1>5, <1>6, <1>7, <1>8, <1>9 DEF WlInterfaces
\* The parts of the generated tables.
LEMMA XdgParts ==
  /\ /\ Tables["xdg_wm_base"].opcodes = XdgWmBaseOpcodes
     /\ Tables["xdg_wm_base"].since = XdgWmBaseSince
     /\ Tables["xdg_wm_base"].codes = XdgWmBaseEventCodes
  /\ /\ Tables["xdg_positioner"].opcodes = XdgPositionerOpcodes
     /\ Tables["xdg_positioner"].since = XdgPositionerSince
     /\ Tables["xdg_positioner"].codes = <<>>
  /\ /\ Tables["xdg_surface"].opcodes = XdgSurfaceOpcodes
     /\ Tables["xdg_surface"].since = XdgSurfaceSince
     /\ Tables["xdg_surface"].codes = XdgSurfaceEventCodes
  /\ /\ Tables["xdg_toplevel"].opcodes = XdgToplevelOpcodes
     /\ Tables["xdg_toplevel"].since = XdgToplevelSince
     /\ Tables["xdg_toplevel"].codes = XdgToplevelEventCodes
  /\ /\ Tables["xdg_popup"].opcodes = XdgPopupOpcodes
     /\ Tables["xdg_popup"].since = XdgPopupSince
     /\ Tables["xdg_popup"].codes = XdgPopupEventCodes
  /\ /\ Tables["dmabuf"].opcodes = DmabufOpcodes
     /\ Tables["dmabuf"].since = DmabufSince
     /\ Tables["dmabuf"].codes = DmabufEventCodes
  /\ /\ Tables["params"].opcodes = ParamsOpcodes
     /\ Tables["params"].since = ParamsSince
     /\ Tables["params"].codes = ParamsEventCodes
  /\ /\ Tables["feedback"].opcodes = FeedbackOpcodes
     /\ Tables["feedback"].since = FeedbackSince
     /\ Tables["feedback"].codes = FeedbackEventCodes
<1>1. /\ Tables["xdg_wm_base"].opcodes = XdgWmBaseOpcodes
      /\ Tables["xdg_wm_base"].since = XdgWmBaseSince
      /\ Tables["xdg_wm_base"].codes = XdgWmBaseEventCodes
  <2>1. Tables["xdg_wm_base"] = XdgTables["xdg_wm_base"]
    BY TheInterfaces DEF XdgInterfaces
  <2> QED
    BY <2>1 DEF XdgTables, Table
<1>2. /\ Tables["xdg_positioner"].opcodes = XdgPositionerOpcodes
      /\ Tables["xdg_positioner"].since = XdgPositionerSince
      /\ Tables["xdg_positioner"].codes = <<>>
  <2>1. Tables["xdg_positioner"] = XdgTables["xdg_positioner"]
    BY TheInterfaces DEF XdgInterfaces
  <2> QED
    BY <2>1 DEF XdgTables, Table
<1>3. /\ Tables["xdg_surface"].opcodes = XdgSurfaceOpcodes
      /\ Tables["xdg_surface"].since = XdgSurfaceSince
      /\ Tables["xdg_surface"].codes = XdgSurfaceEventCodes
  <2>1. Tables["xdg_surface"] = XdgTables["xdg_surface"]
    BY TheInterfaces DEF XdgInterfaces
  <2> QED
    BY <2>1 DEF XdgTables, Table
<1>4. /\ Tables["xdg_toplevel"].opcodes = XdgToplevelOpcodes
      /\ Tables["xdg_toplevel"].since = XdgToplevelSince
      /\ Tables["xdg_toplevel"].codes = XdgToplevelEventCodes
  <2>1. Tables["xdg_toplevel"] = XdgTables["xdg_toplevel"]
    BY TheInterfaces DEF XdgInterfaces
  <2> QED
    BY <2>1 DEF XdgTables, Table
<1>5. /\ Tables["xdg_popup"].opcodes = XdgPopupOpcodes
      /\ Tables["xdg_popup"].since = XdgPopupSince
      /\ Tables["xdg_popup"].codes = XdgPopupEventCodes
  <2>1. Tables["xdg_popup"] = XdgTables["xdg_popup"]
    BY TheInterfaces DEF XdgInterfaces
  <2> QED
    BY <2>1 DEF XdgTables, Table
<1>6. /\ Tables["dmabuf"].opcodes = DmabufOpcodes
      /\ Tables["dmabuf"].since = DmabufSince
      /\ Tables["dmabuf"].codes = DmabufEventCodes
  <2>1. Tables["dmabuf"] = XdgTables["dmabuf"]
    BY TheInterfaces DEF XdgInterfaces
  <2> QED
    BY <2>1 DEF XdgTables, Table
<1>7. /\ Tables["params"].opcodes = ParamsOpcodes
      /\ Tables["params"].since = ParamsSince
      /\ Tables["params"].codes = ParamsEventCodes
  <2>1. Tables["params"] = XdgTables["params"]
    BY TheInterfaces DEF XdgInterfaces
  <2> QED
    BY <2>1 DEF XdgTables, Table
<1>8. /\ Tables["feedback"].opcodes = FeedbackOpcodes
      /\ Tables["feedback"].since = FeedbackSince
      /\ Tables["feedback"].codes = FeedbackEventCodes
  <2>1. Tables["feedback"] = XdgTables["feedback"]
    BY TheInterfaces DEF XdgInterfaces
  <2> QED
    BY <2>1 DEF XdgTables, Table
<1> QED
  BY <1>1, <1>2, <1>3, <1>4, <1>5, <1>6, <1>7, <1>8

LEMMA XdgOpcodeNames ==
  /\ DOMAIN Tables["xdg_wm_base"].opcodes =
       {"destroy", "create_positioner", "get_xdg_surface", "pong"}
  /\ DOMAIN Tables["xdg_positioner"].opcodes =
       {"destroy", "set_size", "set_anchor_rect", "set_anchor", "set_gravity",
        "set_constraint_adjustment", "set_offset", "set_reactive", "set_parent_size",
        "set_parent_configure"}
  /\ DOMAIN Tables["xdg_surface"].opcodes =
       {"destroy", "get_toplevel", "get_popup", "set_window_geometry", "ack_configure"}
  /\ DOMAIN Tables["xdg_toplevel"].opcodes =
       {"destroy", "set_parent", "set_title", "set_app_id", "show_window_menu", "move", "resize",
        "set_max_size", "set_min_size", "set_maximized", "unset_maximized", "set_fullscreen",
        "unset_fullscreen", "set_minimized"}
  /\ DOMAIN Tables["dmabuf"].opcodes =
       {"destroy", "create_params", "get_default_feedback", "get_surface_feedback"}
  /\ DOMAIN Tables["params"].opcodes =
       {"destroy", "add", "create", "create_immed", "set_sampling_device"}
  /\ DOMAIN Tables["feedback"].opcodes =
       {"destroy"}
BY XdgParts
   DEF XdgWmBaseOpcodes, XdgPositionerOpcodes, XdgSurfaceOpcodes, XdgToplevelOpcodes,
       DmabufOpcodes, ParamsOpcodes, FeedbackOpcodes

\* What a handler of the bridge does: it ends its object where the client's
\* stub ended it, and makes what the stub made.
EffectOf(i, n) ==
  LET new == NewOf(Tables[i].stubs, n)
  IN  Does(n \in Tables[i].stubs.ends, new, MadeAt(new), Told(new))

\* The request whose handler turns down every client.
Rejected(i, n) == i = "params" /\ n = "create"

LEMMA NothingMade == MadeAt("") = 0 /\ Told("") = <<>>
BY DEF MadeAt, Told

LEMMA Effects ==
  ASSUME NEW i \in Interfaces \ Unimplemented, NEW n \in DOMAIN Tables[i].opcodes,
         ~Rejected(i, n)
  PROVE  n \in DOMAIN Impl[i] /\ Impl[i][n] = EffectOf(i, n)
<1> DEFINE new == NewOf(Tables[i].stubs, n)
<1>0. \A e : /\ e = Nothing /\ n \notin Tables[i].stubs.ends /\ new = "" => e = EffectOf(i, n)
             /\ e = Destroys /\ n \in Tables[i].stubs.ends /\ new = "" => e = EffectOf(i, n)
             /\ e = Makes(new, MadeAt(new), Told(new)) /\ n \notin Tables[i].stubs.ends
                  => e = EffectOf(i, n)
  <2>1. EffectOf(i, n) = Does(n \in Tables[i].stubs.ends, new, MadeAt(new), Told(new))
    BY DEF EffectOf
  <2>2. n \notin Tables[i].stubs.ends => (n \in Tables[i].stubs.ends) = FALSE
    OBVIOUS
  <2>3. n \in Tables[i].stubs.ends => (n \in Tables[i].stubs.ends) = TRUE
    OBVIOUS
  <2> HIDE DEF new
  <2>4. new = "" => MadeAt(new) = 0 /\ Told(new) = <<>>
    BY NothingMade
  <2> QED
    BY <2>1, <2>2, <2>3, <2>4, Zenon DEF Nothing, Destroys, Makes
<1>1. CASE i = "wl_compositor"
  <2>1. Impl[i] = CompImpl
    BY <1>1 DEF Impl
  <2>2. n \in {"create_surface", "create_region"}
    BY <1>1, WlOpcodes
  <2>3. Tables[i].stubs.ends = {"destroy", "release"}
    BY <1>1, StubTables DEF WlInterfaces
  <2> DEFINE f == [create_surface |-> Makes("wl_surface", 0, <<>>),
                   create_region |-> Makes("wl_region", 1, <<>>)]
  <2>4. /\ DOMAIN f = {"create_surface", "create_region"}
        /\ f["create_surface"] = Makes("wl_surface", 0, <<>>)
        /\ f["create_region"] = Makes("wl_region", 1, <<>>)
    OBVIOUS
  <2>5. Impl[i] = f
    BY <2>1 DEF CompImpl
  <2> HIDE DEF f
  <2>6. DOMAIN Impl[i] = DOMAIN f /\ \A m \in DOMAIN f : Impl[i][m] = f[m]
    BY <2>5
  <2>7. CASE n = "create_surface"
    <3>1. new = "wl_surface"
      BY <1>1, <2>7, NewObjects
    <3> HIDE DEF new
    <3>2. Impl[i][n] = Makes("wl_surface", 0, <<>>)
      BY <2>4, <2>6, <2>7
    <3>3. MadeAt("wl_surface") = 0 /\ Told("wl_surface") = <<>>
      BY DEF MadeAt, Told
    <3>4. Impl[i][n] = Makes(new, MadeAt(new), Told(new))
      BY <3>1, <3>2, <3>3
    <3>5. n \in DOMAIN Impl[i]
      BY <2>4, <2>6, <2>7
    <3>6. n \notin Tables[i].stubs.ends
      BY <2>3, <2>7
    <3> QED
      BY <1>0, <3>4, <3>5, <3>6
  <2>8. CASE n = "create_region"
    <3>1. new = "wl_region"
      BY <1>1, <2>8, NewObjects
    <3> HIDE DEF new
    <3>2. Impl[i][n] = Makes("wl_region", 1, <<>>)
      BY <2>4, <2>6, <2>8
    <3>3. MadeAt("wl_region") = 1 /\ Told("wl_region") = <<>>
      BY DEF MadeAt, Told
    <3>4. Impl[i][n] = Makes(new, MadeAt(new), Told(new))
      BY <3>1, <3>2, <3>3
    <3>5. n \in DOMAIN Impl[i]
      BY <2>4, <2>6, <2>8
    <3>6. n \notin Tables[i].stubs.ends
      BY <2>3, <2>8
    <3> QED
      BY <1>0, <3>4, <3>5, <3>6
  <2> QED
    BY <2>2, <2>7, <2>8
<1>2. CASE i = "wl_surface"
  <2>1. Impl[i] = SurfaceImpl
    BY <1>2 DEF Impl
  <2>2. n \in {"destroy", "frame", "attach", "damage", "set_opaque_region", "set_input_region",
               "commit", "set_buffer_transform", "set_buffer_scale", "damage_buffer", "offset"}
    BY <1>2, WlOpcodes
  <2>3. Tables[i].stubs.ends = {"destroy", "release"}
    BY <1>2, StubTables DEF WlInterfaces
  <2> DEFINE f == [destroy |-> Destroys,
                   frame |-> Makes("wl_callback", 1, <<>>)]
             idle == {"attach", "damage", "set_opaque_region", "set_input_region", "commit",
                      "set_buffer_transform", "set_buffer_scale", "damage_buffer", "offset"}
  <2>4. /\ DOMAIN f = {"destroy", "frame"}
        /\ f["destroy"] = Destroys
        /\ f["frame"] = Makes("wl_callback", 1, <<>>)
    OBVIOUS
  <2>5. Impl[i] = With(f, Idle(idle))
    BY <2>1 DEF SurfaceImpl
  <2> HIDE DEF f, idle
  <2>6. /\ DOMAIN Impl[i] = DOMAIN f \cup idle
        /\ \A m \in DOMAIN f : Impl[i][m] = f[m]
        /\ \A m \in idle : m \notin DOMAIN f => Impl[i][m] = Nothing
    BY <2>5 DEF With, Idle
  <2>7. CASE n = "destroy"
    <3>1. new = "" /\ Impl[i][n] = Destroys
      BY <1>2, <2>4, <2>6, <2>7, NewObjects
    <3> QED
      BY <1>0, <2>3, <2>4, <2>6, <2>7, <3>1
  <2>8. CASE n = "frame"
    <3>1. new = "wl_callback"
      BY <1>2, <2>8, NewObjects
    <3> HIDE DEF new
    <3>2. Impl[i][n] = Makes("wl_callback", 1, <<>>)
      BY <2>4, <2>6, <2>8
    <3>3. MadeAt("wl_callback") = 1 /\ Told("wl_callback") = <<>>
      BY DEF MadeAt, Told
    <3>4. Impl[i][n] = Makes(new, MadeAt(new), Told(new))
      BY <3>1, <3>2, <3>3
    <3>5. n \in DOMAIN Impl[i]
      BY <2>4, <2>6, <2>8
    <3>6. n \notin Tables[i].stubs.ends
      BY <2>3, <2>8
    <3> QED
      BY <1>0, <3>4, <3>5, <3>6
  <2>9. CASE n \in idle
    <3>0. n \notin DOMAIN f
      BY <2>4, <2>9 DEF idle
    <3>1. new = "" /\ n \notin Tables[i].stubs.ends
      BY <1>2, <2>3, <2>9, NewObjects DEF idle
    <3>2. Impl[i][n] = Nothing /\ n \in DOMAIN Impl[i]
      BY <2>6, <2>9, <3>0
    <3> QED
      BY <1>0, <3>1, <3>2
  <2> QED
    BY <2>2, <2>7, <2>8, <2>9 DEF idle
<1>3. CASE i = "wl_region"
  <2>1. Impl[i] = RegionImpl
    BY <1>3 DEF Impl
  <2>2. n \in {"destroy", "add", "subtract"}
    BY <1>3, WlOpcodes
  <2>3. Tables[i].stubs.ends = {"destroy", "release"}
    BY <1>3, StubTables DEF WlInterfaces
  <2> DEFINE f == [destroy |-> Destroys]
             idle == {"add", "subtract"}
  <2>4. /\ DOMAIN f = {"destroy"}
        /\ f["destroy"] = Destroys
    OBVIOUS
  <2>5. Impl[i] = With(f, Idle(idle))
    BY <2>1 DEF RegionImpl
  <2> HIDE DEF f, idle
  <2>6. /\ DOMAIN Impl[i] = DOMAIN f \cup idle
        /\ \A m \in DOMAIN f : Impl[i][m] = f[m]
        /\ \A m \in idle : m \notin DOMAIN f => Impl[i][m] = Nothing
    BY <2>5 DEF With, Idle
  <2>7. CASE n = "destroy"
    <3>1. new = "" /\ Impl[i][n] = Destroys
      BY <1>3, <2>4, <2>6, <2>7, NewObjects
    <3> QED
      BY <1>0, <2>3, <2>4, <2>6, <2>7, <3>1
  <2>8. CASE n \in idle
    <3>0. n \notin DOMAIN f
      BY <2>4, <2>8 DEF idle
    <3>1. new = "" /\ n \notin Tables[i].stubs.ends
      BY <1>3, <2>3, <2>8, NewObjects DEF idle
    <3>2. Impl[i][n] = Nothing /\ n \in DOMAIN Impl[i]
      BY <2>6, <2>8, <3>0
    <3> QED
      BY <1>0, <3>1, <3>2
  <2> QED
    BY <2>2, <2>7, <2>8 DEF idle
<1>4. CASE i = "wl_seat"
  <2>1. Impl[i] = SeatImpl
    BY <1>4 DEF Impl
  <2>2. n \in {"get_pointer", "get_keyboard", "get_touch", "release"}
    BY <1>4, WlOpcodes
  <2>3. Tables[i].stubs.ends = {"destroy", "release"}
    BY <1>4, StubTables DEF WlInterfaces
  <2> DEFINE f == [get_pointer |-> Makes("wl_pointer", 9, <<>>),
                   get_keyboard |-> Makes("wl_keyboard", 9, <<"keymap", "repeat_info">>),
                   get_touch |-> Makes("wl_touch", 1, <<>>),
                   release |-> Destroys]
  <2>4. /\ DOMAIN f = {"get_pointer", "get_keyboard", "get_touch", "release"}
        /\ f["get_pointer"] = Makes("wl_pointer", 9, <<>>)
        /\ f["get_keyboard"] = Makes("wl_keyboard", 9, <<"keymap", "repeat_info">>)
        /\ f["get_touch"] = Makes("wl_touch", 1, <<>>)
        /\ f["release"] = Destroys
    OBVIOUS
  <2>5. Impl[i] = f
    BY <2>1 DEF SeatImpl
  <2> HIDE DEF f
  <2>6. DOMAIN Impl[i] = DOMAIN f /\ \A m \in DOMAIN f : Impl[i][m] = f[m]
    BY <2>5
  <2>7. CASE n = "get_pointer"
    <3>1. new = "wl_pointer"
      BY <1>4, <2>7, NewObjects
    <3> HIDE DEF new
    <3>2. Impl[i][n] = Makes("wl_pointer", 9, <<>>)
      BY <2>4, <2>6, <2>7
    <3>3. MadeAt("wl_pointer") = 9 /\ Told("wl_pointer") = <<>>
      BY DEF MadeAt, Told
    <3>4. Impl[i][n] = Makes(new, MadeAt(new), Told(new))
      BY <3>1, <3>2, <3>3
    <3>5. n \in DOMAIN Impl[i]
      BY <2>4, <2>6, <2>7
    <3>6. n \notin Tables[i].stubs.ends
      BY <2>3, <2>7
    <3> QED
      BY <1>0, <3>4, <3>5, <3>6
  <2>8. CASE n = "get_keyboard"
    <3>1. new = "wl_keyboard"
      BY <1>4, <2>8, NewObjects
    <3> HIDE DEF new
    <3>2. Impl[i][n] = Makes("wl_keyboard", 9, <<"keymap", "repeat_info">>)
      BY <2>4, <2>6, <2>8
    <3>3. MadeAt("wl_keyboard") = 9 /\ Told("wl_keyboard") = <<"keymap", "repeat_info">>
      BY DEF MadeAt, Told
    <3>4. Impl[i][n] = Makes(new, MadeAt(new), Told(new))
      BY <3>1, <3>2, <3>3
    <3>5. n \in DOMAIN Impl[i]
      BY <2>4, <2>6, <2>8
    <3>6. n \notin Tables[i].stubs.ends
      BY <2>3, <2>8
    <3> QED
      BY <1>0, <3>4, <3>5, <3>6
  <2>9. CASE n = "get_touch"
    <3>1. new = "wl_touch"
      BY <1>4, <2>9, NewObjects
    <3> HIDE DEF new
    <3>2. Impl[i][n] = Makes("wl_touch", 1, <<>>)
      BY <2>4, <2>6, <2>9
    <3>3. MadeAt("wl_touch") = 1 /\ Told("wl_touch") = <<>>
      BY DEF MadeAt, Told
    <3>4. Impl[i][n] = Makes(new, MadeAt(new), Told(new))
      BY <3>1, <3>2, <3>3
    <3>5. n \in DOMAIN Impl[i]
      BY <2>4, <2>6, <2>9
    <3>6. n \notin Tables[i].stubs.ends
      BY <2>3, <2>9
    <3> QED
      BY <1>0, <3>4, <3>5, <3>6
  <2>10. CASE n = "release"
    <3>1. new = "" /\ Impl[i][n] = Destroys
      BY <1>4, <2>4, <2>6, <2>10, NewObjects
    <3> QED
      BY <1>0, <2>3, <2>4, <2>6, <2>10, <3>1
  <2> QED
    BY <2>2, <2>7, <2>8, <2>9, <2>10
<1>5. CASE i = "wl_pointer"
  <2>1. Impl[i] = PointerImpl
    BY <1>5 DEF Impl
  <2>2. n \in {"release", "set_cursor"}
    BY <1>5, WlOpcodes
  <2>3. Tables[i].stubs.ends = {"destroy", "release"}
    BY <1>5, StubTables DEF WlInterfaces
  <2> DEFINE f == [release |-> Destroys]
             idle == {"set_cursor"}
  <2>4. /\ DOMAIN f = {"release"}
        /\ f["release"] = Destroys
    OBVIOUS
  <2>5. Impl[i] = With(f, Idle(idle))
    BY <2>1 DEF PointerImpl
  <2> HIDE DEF f, idle
  <2>6. /\ DOMAIN Impl[i] = DOMAIN f \cup idle
        /\ \A m \in DOMAIN f : Impl[i][m] = f[m]
        /\ \A m \in idle : m \notin DOMAIN f => Impl[i][m] = Nothing
    BY <2>5 DEF With, Idle
  <2>7. CASE n = "release"
    <3>1. new = "" /\ Impl[i][n] = Destroys
      BY <1>5, <2>4, <2>6, <2>7, NewObjects
    <3> QED
      BY <1>0, <2>3, <2>4, <2>6, <2>7, <3>1
  <2>8. CASE n \in idle
    <3>0. n \notin DOMAIN f
      BY <2>4, <2>8 DEF idle
    <3>1. new = "" /\ n \notin Tables[i].stubs.ends
      BY <1>5, <2>3, <2>8, NewObjects DEF idle
    <3>2. Impl[i][n] = Nothing /\ n \in DOMAIN Impl[i]
      BY <2>6, <2>8, <3>0
    <3> QED
      BY <1>0, <3>1, <3>2
  <2> QED
    BY <2>2, <2>7, <2>8 DEF idle
<1>6. CASE i = "wl_keyboard"
  <2>1. Impl[i] = KeyboardImpl
    BY <1>6 DEF Impl
  <2>2. n \in {"release"}
    BY <1>6, WlOpcodes
  <2>3. Tables[i].stubs.ends = {"destroy", "release"}
    BY <1>6, StubTables DEF WlInterfaces
  <2> DEFINE f == [release |-> Destroys]
  <2>4. /\ DOMAIN f = {"release"}
        /\ f["release"] = Destroys
    OBVIOUS
  <2>5. Impl[i] = f
    BY <2>1 DEF KeyboardImpl
  <2> HIDE DEF f
  <2>6. DOMAIN Impl[i] = DOMAIN f /\ \A m \in DOMAIN f : Impl[i][m] = f[m]
    BY <2>5
  <2>7. CASE n = "release"
    <3>1. new = "" /\ Impl[i][n] = Destroys
      BY <1>6, <2>4, <2>6, <2>7, NewObjects
    <3> QED
      BY <1>0, <2>3, <2>4, <2>6, <2>7, <3>1
  <2> QED
    BY <2>2, <2>7
<1>7. CASE i = "wl_buffer"
  <2>1. Impl[i] = BufferImpl
    BY <1>7 DEF Impl
  <2>2. n \in {"destroy"}
    BY <1>7, WlOpcodes
  <2>3. Tables[i].stubs.ends = {"destroy", "release"}
    BY <1>7, StubTables DEF WlInterfaces
  <2> DEFINE f == [destroy |-> Destroys]
  <2>4. /\ DOMAIN f = {"destroy"}
        /\ f["destroy"] = Destroys
    OBVIOUS
  <2>5. Impl[i] = f
    BY <2>1 DEF BufferImpl
  <2> HIDE DEF f
  <2>6. DOMAIN Impl[i] = DOMAIN f /\ \A m \in DOMAIN f : Impl[i][m] = f[m]
    BY <2>5
  <2>7. CASE n = "destroy"
    <3>1. new = "" /\ Impl[i][n] = Destroys
      BY <1>7, <2>4, <2>6, <2>7, NewObjects
    <3> QED
      BY <1>0, <2>3, <2>4, <2>6, <2>7, <3>1
  <2> QED
    BY <2>2, <2>7
<1>8. CASE i = "xdg_wm_base"
  <2>1. Impl[i] = XdgBaseImpl
    BY <1>8 DEF Impl
  <2>2. n \in {"destroy", "create_positioner", "get_xdg_surface", "pong"}
    BY <1>8, XdgOpcodeNames
  <2>3. Tables[i].stubs.ends = {"destroy"}
    BY <1>8, StubTables DEF XdgInterfaces
  <2> DEFINE f == [destroy |-> Destroys,
                   create_positioner |-> Makes("xdg_positioner", 0, <<>>),
                   get_xdg_surface |-> Makes("xdg_surface", 0, <<>>)]
             idle == {"pong"}
  <2>4. /\ DOMAIN f = {"destroy", "create_positioner", "get_xdg_surface"}
        /\ f["destroy"] = Destroys
        /\ f["create_positioner"] = Makes("xdg_positioner", 0, <<>>)
        /\ f["get_xdg_surface"] = Makes("xdg_surface", 0, <<>>)
    OBVIOUS
  <2>5. Impl[i] = With(f, Idle(idle))
    BY <2>1 DEF XdgBaseImpl
  <2> HIDE DEF f, idle
  <2>6. /\ DOMAIN Impl[i] = DOMAIN f \cup idle
        /\ \A m \in DOMAIN f : Impl[i][m] = f[m]
        /\ \A m \in idle : m \notin DOMAIN f => Impl[i][m] = Nothing
    BY <2>5 DEF With, Idle
  <2>7. CASE n = "destroy"
    <3>1. new = "" /\ Impl[i][n] = Destroys
      BY <1>8, <2>4, <2>6, <2>7, NewObjects
    <3> QED
      BY <1>0, <2>3, <2>4, <2>6, <2>7, <3>1
  <2>8. CASE n = "create_positioner"
    <3>1. new = "xdg_positioner"
      BY <1>8, <2>8, NewObjects
    <3> HIDE DEF new
    <3>2. Impl[i][n] = Makes("xdg_positioner", 0, <<>>)
      BY <2>4, <2>6, <2>8
    <3>3. MadeAt("xdg_positioner") = 0 /\ Told("xdg_positioner") = <<>>
      BY DEF MadeAt, Told
    <3>4. Impl[i][n] = Makes(new, MadeAt(new), Told(new))
      BY <3>1, <3>2, <3>3
    <3>5. n \in DOMAIN Impl[i]
      BY <2>4, <2>6, <2>8
    <3>6. n \notin Tables[i].stubs.ends
      BY <2>3, <2>8
    <3> QED
      BY <1>0, <3>4, <3>5, <3>6
  <2>9. CASE n = "get_xdg_surface"
    <3>1. new = "xdg_surface"
      BY <1>8, <2>9, NewObjects
    <3> HIDE DEF new
    <3>2. Impl[i][n] = Makes("xdg_surface", 0, <<>>)
      BY <2>4, <2>6, <2>9
    <3>3. MadeAt("xdg_surface") = 0 /\ Told("xdg_surface") = <<>>
      BY DEF MadeAt, Told
    <3>4. Impl[i][n] = Makes(new, MadeAt(new), Told(new))
      BY <3>1, <3>2, <3>3
    <3>5. n \in DOMAIN Impl[i]
      BY <2>4, <2>6, <2>9
    <3>6. n \notin Tables[i].stubs.ends
      BY <2>3, <2>9
    <3> QED
      BY <1>0, <3>4, <3>5, <3>6
  <2>10. CASE n \in idle
    <3>0. n \notin DOMAIN f
      BY <2>4, <2>10 DEF idle
    <3>1. new = "" /\ n \notin Tables[i].stubs.ends
      BY <1>8, <2>3, <2>10, NewObjects DEF idle
    <3>2. Impl[i][n] = Nothing /\ n \in DOMAIN Impl[i]
      BY <2>6, <2>10, <3>0
    <3> QED
      BY <1>0, <3>1, <3>2
  <2> QED
    BY <2>2, <2>7, <2>8, <2>9, <2>10 DEF idle
<1>9. CASE i = "xdg_positioner"
  <2>1. Impl[i] = PosImpl
    BY <1>9 DEF Impl
  <2>2. n \in {"destroy", "set_size", "set_anchor_rect", "set_anchor", "set_gravity",
               "set_constraint_adjustment", "set_offset", "set_reactive", "set_parent_size",
               "set_parent_configure"}
    BY <1>9, XdgOpcodeNames
  <2>3. Tables[i].stubs.ends = {"destroy"}
    BY <1>9, StubTables DEF XdgInterfaces
  <2> DEFINE f == [destroy |-> Destroys]
             idle == {"set_size", "set_anchor_rect", "set_anchor", "set_gravity",
                      "set_constraint_adjustment", "set_offset", "set_reactive",
                      "set_parent_size", "set_parent_configure"}
  <2>4. /\ DOMAIN f = {"destroy"}
        /\ f["destroy"] = Destroys
    OBVIOUS
  <2>5. Impl[i] = With(f, Idle(idle))
    BY <2>1 DEF PosImpl
  <2> HIDE DEF f, idle
  <2>6. /\ DOMAIN Impl[i] = DOMAIN f \cup idle
        /\ \A m \in DOMAIN f : Impl[i][m] = f[m]
        /\ \A m \in idle : m \notin DOMAIN f => Impl[i][m] = Nothing
    BY <2>5 DEF With, Idle
  <2>7. CASE n = "destroy"
    <3>1. new = "" /\ Impl[i][n] = Destroys
      BY <1>9, <2>4, <2>6, <2>7, NewObjects
    <3> QED
      BY <1>0, <2>3, <2>4, <2>6, <2>7, <3>1
  <2>8. CASE n \in idle
    <3>0. n \notin DOMAIN f
      BY <2>4, <2>8 DEF idle
    <3>1. new = "" /\ n \notin Tables[i].stubs.ends
      BY <1>9, <2>3, <2>8, NewObjects DEF idle
    <3>2. Impl[i][n] = Nothing /\ n \in DOMAIN Impl[i]
      BY <2>6, <2>8, <3>0
    <3> QED
      BY <1>0, <3>1, <3>2
  <2> QED
    BY <2>2, <2>7, <2>8 DEF idle
<1>10. CASE i = "xdg_surface"
  <2>1. Impl[i] = XsImpl
    BY <1>10 DEF Impl
  <2>2. n \in {"destroy", "get_toplevel", "get_popup", "set_window_geometry", "ack_configure"}
    BY <1>10, XdgOpcodeNames
  <2>3. Tables[i].stubs.ends = {"destroy"}
    BY <1>10, StubTables DEF XdgInterfaces
  <2> DEFINE f == [destroy |-> Destroys,
                   get_toplevel |-> Makes("xdg_toplevel", 0, <<>>),
                   get_popup |-> Makes("xdg_popup", 1, <<>>)]
             idle == {"set_window_geometry", "ack_configure"}
  <2>4. /\ DOMAIN f = {"destroy", "get_toplevel", "get_popup"}
        /\ f["destroy"] = Destroys
        /\ f["get_toplevel"] = Makes("xdg_toplevel", 0, <<>>)
        /\ f["get_popup"] = Makes("xdg_popup", 1, <<>>)
    OBVIOUS
  <2>5. Impl[i] = With(f, Idle(idle))
    BY <2>1 DEF XsImpl
  <2> HIDE DEF f, idle
  <2>6. /\ DOMAIN Impl[i] = DOMAIN f \cup idle
        /\ \A m \in DOMAIN f : Impl[i][m] = f[m]
        /\ \A m \in idle : m \notin DOMAIN f => Impl[i][m] = Nothing
    BY <2>5 DEF With, Idle
  <2>7. CASE n = "destroy"
    <3>1. new = "" /\ Impl[i][n] = Destroys
      BY <1>10, <2>4, <2>6, <2>7, NewObjects
    <3> QED
      BY <1>0, <2>3, <2>4, <2>6, <2>7, <3>1
  <2>8. CASE n = "get_toplevel"
    <3>1. new = "xdg_toplevel"
      BY <1>10, <2>8, NewObjects
    <3> HIDE DEF new
    <3>2. Impl[i][n] = Makes("xdg_toplevel", 0, <<>>)
      BY <2>4, <2>6, <2>8
    <3>3. MadeAt("xdg_toplevel") = 0 /\ Told("xdg_toplevel") = <<>>
      BY DEF MadeAt, Told
    <3>4. Impl[i][n] = Makes(new, MadeAt(new), Told(new))
      BY <3>1, <3>2, <3>3
    <3>5. n \in DOMAIN Impl[i]
      BY <2>4, <2>6, <2>8
    <3>6. n \notin Tables[i].stubs.ends
      BY <2>3, <2>8
    <3> QED
      BY <1>0, <3>4, <3>5, <3>6
  <2>9. CASE n = "get_popup"
    <3>1. new = "xdg_popup"
      BY <1>10, <2>9, NewObjects
    <3> HIDE DEF new
    <3>2. Impl[i][n] = Makes("xdg_popup", 1, <<>>)
      BY <2>4, <2>6, <2>9
    <3>3. MadeAt("xdg_popup") = 1 /\ Told("xdg_popup") = <<>>
      BY DEF MadeAt, Told
    <3>4. Impl[i][n] = Makes(new, MadeAt(new), Told(new))
      BY <3>1, <3>2, <3>3
    <3>5. n \in DOMAIN Impl[i]
      BY <2>4, <2>6, <2>9
    <3>6. n \notin Tables[i].stubs.ends
      BY <2>3, <2>9
    <3> QED
      BY <1>0, <3>4, <3>5, <3>6
  <2>10. CASE n \in idle
    <3>0. n \notin DOMAIN f
      BY <2>4, <2>10 DEF idle
    <3>1. new = "" /\ n \notin Tables[i].stubs.ends
      BY <1>10, <2>3, <2>10, NewObjects DEF idle
    <3>2. Impl[i][n] = Nothing /\ n \in DOMAIN Impl[i]
      BY <2>6, <2>10, <3>0
    <3> QED
      BY <1>0, <3>1, <3>2
  <2> QED
    BY <2>2, <2>7, <2>8, <2>9, <2>10 DEF idle
<1>11. CASE i = "xdg_toplevel"
  <2>1. Impl[i] = ToplevelImpl
    BY <1>11 DEF Impl
  <2>2. n \in {"destroy", "set_parent", "set_title", "set_app_id", "show_window_menu", "move",
               "resize", "set_max_size", "set_min_size", "set_maximized", "unset_maximized",
               "set_fullscreen", "unset_fullscreen", "set_minimized"}
    BY <1>11, XdgOpcodeNames
  <2>3. Tables[i].stubs.ends = {"destroy"}
    BY <1>11, StubTables DEF XdgInterfaces
  <2> DEFINE f == [destroy |-> Destroys]
             idle == {"set_parent", "set_title", "set_app_id", "show_window_menu", "move",
                      "resize", "set_max_size", "set_min_size", "set_maximized",
                      "unset_maximized", "set_fullscreen", "unset_fullscreen", "set_minimized"}
  <2>4. /\ DOMAIN f = {"destroy"}
        /\ f["destroy"] = Destroys
    OBVIOUS
  <2>5. Impl[i] = With(f, Idle(idle))
    BY <2>1 DEF ToplevelImpl
  <2> HIDE DEF f, idle
  <2>6. /\ DOMAIN Impl[i] = DOMAIN f \cup idle
        /\ \A m \in DOMAIN f : Impl[i][m] = f[m]
        /\ \A m \in idle : m \notin DOMAIN f => Impl[i][m] = Nothing
    BY <2>5 DEF With, Idle
  <2>7. CASE n = "destroy"
    <3>1. new = "" /\ Impl[i][n] = Destroys
      BY <1>11, <2>4, <2>6, <2>7, NewObjects
    <3> QED
      BY <1>0, <2>3, <2>4, <2>6, <2>7, <3>1
  <2>8. CASE n \in idle
    <3>0. n \notin DOMAIN f
      BY <2>4, <2>8 DEF idle
    <3>1. new = "" /\ n \notin Tables[i].stubs.ends
      BY <1>11, <2>3, <2>8, NewObjects DEF idle
    <3>2. Impl[i][n] = Nothing /\ n \in DOMAIN Impl[i]
      BY <2>6, <2>8, <3>0
    <3> QED
      BY <1>0, <3>1, <3>2
  <2> QED
    BY <2>2, <2>7, <2>8 DEF idle
<1>12. CASE i = "dmabuf"
  <2>1. Impl[i] = DmabufImpl
    BY <1>12 DEF Impl
  <2>2. n \in {"destroy", "create_params", "get_default_feedback", "get_surface_feedback"}
    BY <1>12, XdgOpcodeNames
  <2>3. Tables[i].stubs.ends = {"destroy"}
    BY <1>12, StubTables DEF XdgInterfaces
  <2> DEFINE f == [destroy |-> Destroys,
                   create_params |-> Makes("params", 4, <<>>),
                   get_default_feedback |-> Makes("feedback", 4, FeedbackBatch),
                   get_surface_feedback |-> Makes("feedback", 4, FeedbackBatch)]
  <2>4. /\ DOMAIN f = {"destroy", "create_params", "get_default_feedback",
                          "get_surface_feedback"}
        /\ f["destroy"] = Destroys
        /\ f["create_params"] = Makes("params", 4, <<>>)
        /\ f["get_default_feedback"] = Makes("feedback", 4, FeedbackBatch)
        /\ f["get_surface_feedback"] = Makes("feedback", 4, FeedbackBatch)
    OBVIOUS
  <2>5. Impl[i] = f
    BY <2>1 DEF DmabufImpl
  <2> HIDE DEF f
  <2>6. DOMAIN Impl[i] = DOMAIN f /\ \A m \in DOMAIN f : Impl[i][m] = f[m]
    BY <2>5
  <2>7. CASE n = "destroy"
    <3>1. new = "" /\ Impl[i][n] = Destroys
      BY <1>12, <2>4, <2>6, <2>7, NewObjects
    <3> QED
      BY <1>0, <2>3, <2>4, <2>6, <2>7, <3>1
  <2>8. CASE n = "create_params"
    <3>1. new = "params"
      BY <1>12, <2>8, NewObjects
    <3> HIDE DEF new
    <3>2. Impl[i][n] = Makes("params", 4, <<>>)
      BY <2>4, <2>6, <2>8
    <3>3. MadeAt("params") = 4 /\ Told("params") = <<>>
      BY DEF MadeAt, Told
    <3>4. Impl[i][n] = Makes(new, MadeAt(new), Told(new))
      BY <3>1, <3>2, <3>3
    <3>5. n \in DOMAIN Impl[i]
      BY <2>4, <2>6, <2>8
    <3>6. n \notin Tables[i].stubs.ends
      BY <2>3, <2>8
    <3> QED
      BY <1>0, <3>4, <3>5, <3>6
  <2>9. CASE n = "get_default_feedback"
    <3>1. new = "feedback"
      BY <1>12, <2>9, NewObjects
    <3> HIDE DEF new
    <3>2. Impl[i][n] = Makes("feedback", 4, FeedbackBatch)
      BY <2>4, <2>6, <2>9
    <3>3. MadeAt("feedback") = 4 /\ Told("feedback") = FeedbackBatch
      BY DEF MadeAt, Told
    <3>4. Impl[i][n] = Makes(new, MadeAt(new), Told(new))
      BY <3>1, <3>2, <3>3
    <3>5. n \in DOMAIN Impl[i]
      BY <2>4, <2>6, <2>9
    <3>6. n \notin Tables[i].stubs.ends
      BY <2>3, <2>9
    <3> QED
      BY <1>0, <3>4, <3>5, <3>6
  <2>10. CASE n = "get_surface_feedback"
    <3>1. new = "feedback"
      BY <1>12, <2>10, NewObjects
    <3> HIDE DEF new
    <3>2. Impl[i][n] = Makes("feedback", 4, FeedbackBatch)
      BY <2>4, <2>6, <2>10
    <3>3. MadeAt("feedback") = 4 /\ Told("feedback") = FeedbackBatch
      BY DEF MadeAt, Told
    <3>4. Impl[i][n] = Makes(new, MadeAt(new), Told(new))
      BY <3>1, <3>2, <3>3
    <3>5. n \in DOMAIN Impl[i]
      BY <2>4, <2>6, <2>10
    <3>6. n \notin Tables[i].stubs.ends
      BY <2>3, <2>10
    <3> QED
      BY <1>0, <3>4, <3>5, <3>6
  <2> QED
    BY <2>2, <2>7, <2>8, <2>9, <2>10
<1>13. CASE i = "params"
  <2>1. Impl[i] = ParamsImpl
    BY <1>13 DEF Impl
  <2>2. n \in {"destroy", "create_immed", "add", "create", "set_sampling_device"}
    BY <1>13, XdgOpcodeNames
  <2>3. Tables[i].stubs.ends = {"destroy"}
    BY <1>13, StubTables DEF XdgInterfaces
  <2> DEFINE f == [destroy |-> Destroys,
                   create_immed |-> Makes("wl_buffer", 1, <<>>),
                   create |-> Rejects]
             idle == {"add", "set_sampling_device"}
  <2>4. /\ DOMAIN f = {"destroy", "create_immed", "create"}
        /\ f["destroy"] = Destroys /\ f["create"] = Rejects
        /\ f["create_immed"] = Makes("wl_buffer", 1, <<>>)
    OBVIOUS
  <2>5. Impl[i] = With(f, Idle(idle))
    BY <2>1 DEF ParamsImpl
  <2> HIDE DEF f, idle
  <2>6. /\ DOMAIN Impl[i] = DOMAIN f \cup idle
        /\ \A m \in DOMAIN f : Impl[i][m] = f[m]
        /\ \A m \in idle : m \notin DOMAIN f => Impl[i][m] = Nothing
    BY <2>5 DEF With, Idle
  <2>7. CASE n = "destroy"
    <3>1. new = "" /\ Impl[i][n] = Destroys
      BY <1>13, <2>4, <2>6, <2>7, NewObjects
    <3> QED
      BY <1>0, <2>3, <2>4, <2>6, <2>7, <3>1
  <2>8. CASE n = "create_immed"
    <3>1. new = "wl_buffer"
      BY <1>13, <2>8, NewObjects
    <3> HIDE DEF new
    <3>2. Impl[i][n] = Makes("wl_buffer", 1, <<>>)
      BY <2>4, <2>6, <2>8
    <3>3. MadeAt("wl_buffer") = 1 /\ Told("wl_buffer") = <<>>
      BY DEF MadeAt, Told
    <3>4. Impl[i][n] = Makes(new, MadeAt(new), Told(new))
      BY <3>1, <3>2, <3>3
    <3>5. n \in DOMAIN Impl[i]
      BY <2>4, <2>6, <2>8
    <3>6. n \notin Tables[i].stubs.ends
      BY <2>3, <2>8
    <3> QED
      BY <1>0, <3>4, <3>5, <3>6
  <2>9. CASE n \in idle
    <3>0. n \notin DOMAIN f
      BY <2>4, <2>9 DEF idle
    <3>1. new = "" /\ n \notin Tables[i].stubs.ends
      BY <1>13, <2>3, <2>9, NewObjects DEF idle
    <3>2. Impl[i][n] = Nothing /\ n \in DOMAIN Impl[i]
      BY <2>6, <2>9, <3>0
    <3> QED
      BY <1>0, <3>1, <3>2
  <2>10. n # "create"
    BY <1>13 DEF Rejected
  <2> QED
    BY <2>2, <2>7, <2>8, <2>9, <2>10 DEF idle
<1>14. CASE i = "feedback"
  <2>1. Impl[i] = FeedbackImpl
    BY <1>14 DEF Impl
  <2>2. n \in {"destroy"}
    BY <1>14, XdgOpcodeNames
  <2>3. Tables[i].stubs.ends = {"destroy"}
    BY <1>14, StubTables DEF XdgInterfaces
  <2> DEFINE f == [destroy |-> Destroys]
  <2>4. /\ DOMAIN f = {"destroy"}
        /\ f["destroy"] = Destroys
    OBVIOUS
  <2>5. Impl[i] = f
    BY <2>1 DEF FeedbackImpl
  <2> HIDE DEF f
  <2>6. DOMAIN Impl[i] = DOMAIN f /\ \A m \in DOMAIN f : Impl[i][m] = f[m]
    BY <2>5
  <2>7. CASE n = "destroy"
    <3>1. new = "" /\ Impl[i][n] = Destroys
      BY <1>14, <2>4, <2>6, <2>7, NewObjects
    <3> QED
      BY <1>0, <2>3, <2>4, <2>6, <2>7, <3>1
  <2> QED
    BY <2>2, <2>7
<1> QED
  BY <1>1, <1>2, <1>3, <1>4, <1>5, <1>6, <1>7, <1>8, <1>9, <1>10, <1>11, <1>12, <1>13, <1>14,
     TheInterfaces
     DEF WlInterfaces, XdgInterfaces, Unimplemented

-----------------------------------------------------------------------------
(* The messages in flight                                                  *)

\* The requests a client can have in flight, and the events the bridge sends.
RequestOf(i, n) ==
  [object |-> i, opcode |-> Tables[i].opcodes[n], new |-> NewOf(Tables[i].stubs, n), name |-> n]
Requests == UNION {{RequestOf(i, n) : n \in DOMAIN Tables[i].opcodes} : i \in Interfaces}

Sent(i) ==
  CASE i = "wl_seat"      -> {"capabilities"}
    [] i = "wl_pointer"   -> {"enter", "leave", "motion", "button", "axis", "frame", "axis_source",
                              "axis_stop", "axis_value120"}
    [] i = "wl_keyboard"  -> {"keymap", "repeat_info", "enter", "leave", "key", "modifiers"}
    [] i = "xdg_toplevel" -> {"wm_capabilities", "configure", "close"}
    [] i = "xdg_surface"  -> {"configure"}
    [] i = "wl_buffer"    -> {"release"}
    [] i = "wl_callback"  -> {"done"}
    [] i = "feedback"     -> {"format_table", "main_device", "tranche_target_device",
                              "tranche_flags", "tranche_formats", "tranche_done", "done"}
    [] OTHER              -> {}
Signals == UNION {{Event(i, n) : n \in Sent(i)} : i \in Interfaces}

\* A name that a table has, and its row.
LEMMA RowNames ==
  ASSUME NEW rows
  PROVE  /\ DOMAIN Sinces(rows) = DOMAIN Numbers(rows)
         /\ \A k \in DOMAIN rows : rows[k].name \in DOMAIN Numbers(rows)
BY DEF Sinces, Numbers

LEMMA RowSinces ==
  ASSUME NEW rows \in Seq(WlRows), NEW n \in DOMAIN Sinces(rows)
  PROVE  \E k \in DOMAIN rows : rows[k].name = n /\ Sinces(rows)[n] = rows[k].since
<1>1. n \in DOMAIN Numbers(rows)
  BY RowNames
<1> QED
  BY <1>1, RowNumbers

LEMMA RowTyped ==
  ASSUME NEW rows \in Seq(WlRows)
  PROVE  \A k \in DOMAIN rows : rows[k].since \in 1..8
<1>1. \A k \in DOMAIN rows : rows[k] \in WlRows
  BY LenProperties, ElementOfSeq
<1> QED
  BY <1>1 DEF WlRows

LEMMA WlSince ==
  ASSUME NEW i \in WlInterfaces, NEW n
  PROVE  LET since == SinceIn(Tables[i].since, n)
         IN  \/ since = 1
             \/ \E k \in DOMAIN WlRequests[i] :
                  WlRequests[i][k].name = n /\ since = WlRequests[i][k].since
             \/ n \notin DOMAIN Numbers(WlRequests[i])
                /\ \E k \in DOMAIN WlEvents[i] :
                     WlEvents[i][k].name = n /\ since = WlEvents[i][k].since
<1> DEFINE asked == WlRequests[i]
           told == WlEvents[i]
<1>1. asked \in Seq(WlRows) /\ told \in Seq(WlRows)
  BY WlRowsTyped
<1>2. WlTable(i).since = With(Sinces(asked), Sinces(told))
  BY DEF WlTable, Table
<1>3. Tables[i].since = With(Sinces(asked), Sinces(told))
  BY <1>2, TheInterfaces
<1> HIDE DEF asked, told
<1>4. CASE n \in DOMAIN Sinces(asked)
  <2>1. SinceIn(Tables[i].since, n) = Sinces(asked)[n]
    BY <1>3, <1>4 DEF SinceIn, With
  <2>2. PICK k \in DOMAIN asked : asked[k].name = n /\ Sinces(asked)[n] = asked[k].since
    BY <1>1, <1>4, RowSinces
  <2> QED
    BY <2>1, <2>2 DEF asked
<1>5. CASE n \notin DOMAIN Sinces(asked) /\ n \in DOMAIN Sinces(told)
  <2>1. SinceIn(Tables[i].since, n) = Sinces(told)[n]
    BY <1>3, <1>5 DEF SinceIn, With
  <2>2. n \notin DOMAIN Numbers(asked)
    BY <1>5, RowNames
  <2>3. PICK k \in DOMAIN told : told[k].name = n /\ Sinces(told)[n] = told[k].since
    BY <1>1, <1>5, RowSinces
  <2> QED
    BY <2>1, <2>2, <2>3 DEF asked, told
<1>6. CASE n \notin DOMAIN Sinces(asked) /\ n \notin DOMAIN Sinces(told)
  BY <1>3, <1>6 DEF SinceIn, With
<1> QED
  BY <1>4, <1>5, <1>6

\* Every message came with a version from 1 to 8.
LEMMA SinceTyped ==
  ASSUME NEW i \in Interfaces, NEW n
  PROVE  SinceIn(Tables[i].since, n) \in 1..8
<1>1. CASE i \in WlInterfaces
  <2>1. \A k \in DOMAIN WlRequests[i] : WlRequests[i][k].since \in 1..8
    BY <1>1, WlRowsTyped, RowTyped
  <2>2. \A k \in DOMAIN WlEvents[i] : WlEvents[i][k].since \in 1..8
    BY <1>1, WlRowsTyped, RowTyped
  <2> QED
    BY <1>1, <2>1, <2>2, WlSince
<1>2. CASE i \in XdgInterfaces
  <2>1. /\ DOMAIN AllFirst = {}
        /\ DOMAIN XdgPositionerSince = {"set_reactive", "set_parent_size", "set_parent_configure"}
        /\ XdgPositionerSince["set_reactive"] = 3 /\ XdgPositionerSince["set_parent_size"] = 3
        /\ XdgPositionerSince["set_parent_configure"] = 3
        /\ DOMAIN XdgToplevelSince = {"configure_bounds", "wm_capabilities"}
        /\ XdgToplevelSince["configure_bounds"] = 4 /\ XdgToplevelSince["wm_capabilities"] = 5
        /\ DOMAIN XdgPopupSince = {"repositioned", "reposition"}
        /\ XdgPopupSince["repositioned"] = 3 /\ XdgPopupSince["reposition"] = 3
        /\ DOMAIN DmabufSince = {"modifier", "get_default_feedback", "get_surface_feedback"}
        /\ DmabufSince["modifier"] = 3 /\ DmabufSince["get_default_feedback"] = 4
        /\ DmabufSince["get_surface_feedback"] = 4
        /\ DOMAIN ParamsSince = {"create_immed", "set_sampling_device"}
        /\ ParamsSince["create_immed"] = 2 /\ ParamsSince["set_sampling_device"] = 6
    BY DEF AllFirst, XdgPositionerSince, XdgToplevelSince, XdgPopupSince, DmabufSince, ParamsSince
  <2>2. /\ XdgWmBaseSince = AllFirst /\ XdgSurfaceSince = AllFirst /\ FeedbackSince = AllFirst
    BY DEF XdgWmBaseSince, XdgSurfaceSince, FeedbackSince
  <2>3. /\ SinceIn(AllFirst, n) \in 1..8 /\ SinceIn(XdgPositionerSince, n) \in 1..8
        /\ SinceIn(XdgToplevelSince, n) \in 1..8 /\ SinceIn(XdgPopupSince, n) \in 1..8
        /\ SinceIn(DmabufSince, n) \in 1..8 /\ SinceIn(ParamsSince, n) \in 1..8
    BY <2>1 DEF SinceIn
  <2> QED
    BY <1>2, <2>2, <2>3, XdgParts DEF XdgInterfaces
<1> QED
  BY <1>1, <1>2, TheInterfaces

\* The messages that are of version 1.
LEMMA OldMessages ==
  /\ \A i \in {"wl_region", "wl_buffer"} : \A n \in DOMAIN Tables[i].opcodes :
       SinceIn(Tables[i].since, n) = 1
  /\ \A i \in Interfaces \ {"wl_pointer", "wl_keyboard"} : \A n \in Sent(i) :
       SinceIn(Tables[i].since, n) =
         IF i = "xdg_toplevel" /\ n = "wm_capabilities" THEN 5 ELSE 1
<1>1. ASSUME NEW n \in {"destroy", "add", "subtract"}
      PROVE  SinceIn(Tables["wl_region"].since, n) = 1
  <2>1. /\ \A k \in DOMAIN WlRequests["wl_region"] : WlRequests["wl_region"][k].since = 1
        /\ DOMAIN WlEvents["wl_region"] = {}
    BY DEF WlRequests, WlEvents, First, Row
  <2> QED
    BY <2>1, WlSince DEF WlInterfaces
<1>2. ASSUME NEW n \in {"destroy", "release"}
      PROVE  SinceIn(Tables["wl_buffer"].since, n) = 1
  <2>1. /\ \A k \in DOMAIN WlRequests["wl_buffer"] : WlRequests["wl_buffer"][k].since = 1
        /\ \A k \in DOMAIN WlEvents["wl_buffer"] : WlEvents["wl_buffer"][k].since = 1
    BY DEF WlRequests, WlEvents, First, Row
  <2> QED
    BY <2>1, WlSince DEF WlInterfaces
<1>3. SinceIn(Tables["wl_callback"].since, "done") = 1
  <2>1. /\ DOMAIN WlRequests["wl_callback"] = {}
        /\ \A k \in DOMAIN WlEvents["wl_callback"] : WlEvents["wl_callback"][k].since = 1
    BY DEF WlRequests, WlEvents, First, Row
  <2> QED
    BY <2>1, WlSince DEF WlInterfaces
<1>4. SinceIn(Tables["wl_seat"].since, "capabilities") = 1
  <2>1. \A k \in DOMAIN WlEvents["wl_seat"] :
          WlEvents["wl_seat"][k].name = "capabilities" => WlEvents["wl_seat"][k].since = 1
    BY DEF WlEvents, Row
  <2>2. "capabilities" \notin DOMAIN Numbers(WlRequests["wl_seat"])
    <3>1. WlTable("wl_seat").opcodes = Numbers(WlRequests["wl_seat"])
      BY DEF WlTable, Table
    <3> QED
      BY <3>1, WlOpcodes, TheInterfaces DEF WlInterfaces
  <2>3. \A k \in DOMAIN WlRequests["wl_seat"] : WlRequests["wl_seat"][k].name # "capabilities"
    BY <2>2, RowNames
  <2> QED
    BY <2>1, <2>3, WlSince DEF WlInterfaces
<1>5. /\ SinceIn(Tables["xdg_toplevel"].since, "wm_capabilities") = 5
      /\ SinceIn(Tables["xdg_toplevel"].since, "configure") = 1
      /\ SinceIn(Tables["xdg_toplevel"].since, "close") = 1
      /\ SinceIn(Tables["xdg_surface"].since, "configure") = 1
      /\ \A n : SinceIn(Tables["feedback"].since, n) = 1
  BY XdgParts DEF SinceIn, XdgToplevelSince, XdgSurfaceSince, FeedbackSince, AllFirst
<1>6. ASSUME NEW i \in {"wl_region", "wl_buffer"}, NEW n \in DOMAIN Tables[i].opcodes
      PROVE  SinceIn(Tables[i].since, n) = 1
  BY <1>1, <1>2, WlOpcodes
<1>7. ASSUME NEW i \in Interfaces \ {"wl_pointer", "wl_keyboard"}, NEW n \in Sent(i)
      PROVE  SinceIn(Tables[i].since, n) =
               IF i = "xdg_toplevel" /\ n = "wm_capabilities" THEN 5 ELSE 1
  BY <1>2, <1>3, <1>4, <1>5 DEF Sent
<1> QED
  BY <1>6, <1>7

LEMMA BothNames ==
  ASSUME NEW q \in Seq(WlRows), NEW r \in Seq(WlRows)
  PROVE  \A n : n \in DOMAIN Numbers(q) \/ n \in DOMAIN Numbers(r) => n \in DOMAIN Numbers(q \o r)
<1> DEFINE p == q \o r
<1>1. /\ \A k \in DOMAIN q : k \in DOMAIN p /\ p[k] = q[k]
      /\ \A k \in DOMAIN r : Len(q) + k \in DOMAIN p /\ p[Len(q) + k] = r[k]
  BY ConcatIndices
<1>2. \A x : DOMAIN Numbers(x) = {x[k].name : k \in DOMAIN x}
  BY DEF Numbers
<1> HIDE DEF p
<1>3. ASSUME NEW n \in DOMAIN Numbers(q)
      PROVE  n \in DOMAIN Numbers(p)
  <2>1. PICK k \in DOMAIN q : n = q[k].name
    BY <1>2
  <2>2. k \in DOMAIN p /\ p[k] = q[k]
    BY <1>1
  <2> QED
    BY <2>1, <2>2, RowNames
<1>4. ASSUME NEW n \in DOMAIN Numbers(r)
      PROVE  n \in DOMAIN Numbers(p)
  <2>1. PICK k \in DOMAIN r : n = r[k].name
    BY <1>2
  <2>2. Len(q) + k \in DOMAIN p /\ p[Len(q) + k] = r[k]
    BY <1>1
  <2> QED
    BY <2>1, <2>2, RowNames
<1> QED
  BY <1>3, <1>4 DEF p

\* The bridge sends what the interfaces have.
LEMMA SentKnown ==
  ASSUME NEW i \in Interfaces, NEW n \in Sent(i)
  PROVE  n \in DOMAIN Tables[i].codes
<1>1. ASSUME NEW j \in WlInterfaces
      PROVE  Tables[j].codes = Numbers(WlEvents[j])
  <2>1. WlTable(j).codes = Numbers(WlEvents[j])
    BY DEF WlTable, Table
  <2> QED
    BY <2>1, TheInterfaces
<1>2. CASE i = "wl_seat"
  <2>1. WlEvents["wl_seat"][1].name = "capabilities" /\ 1 \in DOMAIN WlEvents["wl_seat"]
    BY DEF WlEvents, Row
  <2>2. n = WlEvents["wl_seat"][1].name
    BY <1>2, <2>1 DEF Sent
  <2>3. n \in DOMAIN Numbers(WlEvents["wl_seat"])
    BY <2>1, <2>2, RowNames
  <2> QED
    BY <1>1, <1>2, <2>3 DEF WlInterfaces
<1>3. CASE i = "wl_callback"
  <2>1. WlEvents["wl_callback"][1].name = "done" /\ 1 \in DOMAIN WlEvents["wl_callback"]
    BY DEF WlEvents, Row, First
  <2>2. n = WlEvents["wl_callback"][1].name
    BY <1>3, <2>1 DEF Sent
  <2>3. n \in DOMAIN Numbers(WlEvents["wl_callback"])
    BY <2>1, <2>2, RowNames
  <2> QED
    BY <1>1, <1>3, <2>3 DEF WlInterfaces
<1>4. CASE i = "wl_buffer"
  <2>1. WlEvents["wl_buffer"][1].name = "release" /\ 1 \in DOMAIN WlEvents["wl_buffer"]
    BY DEF WlEvents, Row, First
  <2>2. n = WlEvents["wl_buffer"][1].name
    BY <1>4, <2>1 DEF Sent
  <2>3. n \in DOMAIN Numbers(WlEvents["wl_buffer"])
    BY <2>1, <2>2, RowNames
  <2> QED
    BY <1>1, <1>4, <2>3 DEF WlInterfaces
<1>5. CASE i = "wl_pointer"
  <2> DEFINE names == <<"enter", "leave", "motion", "button", "axis">>
             old == First(names)
             new == <<Row("frame", 5), Row("axis_source", 5), Row("axis_stop", 5),
                      Row("axis_discrete", 5), Row("axis_value120", 8)>>
  <2>1. WlEvents["wl_pointer"] = old \o new
    BY DEF WlEvents
  <2>2. names \in Seq(WlNames) /\ new \in Seq(WlRows)
    BY DEF WlNames, WlRows, Row
  <2>3. old \in Seq(WlRows)
    BY <2>2, FirstRows
  <2>4. /\ 1 \in DOMAIN old /\ old[1].name = "enter" /\ 2 \in DOMAIN old /\ old[2].name = "leave"
        /\ 3 \in DOMAIN old /\ old[3].name = "motion" /\ 4 \in DOMAIN old /\ old[4].name = "button"
        /\ 5 \in DOMAIN old /\ old[5].name = "axis"
    BY DEF First, Row
  <2>5. /\ 1 \in DOMAIN new /\ new[1].name = "frame"
        /\ 2 \in DOMAIN new /\ new[2].name = "axis_source"
        /\ 3 \in DOMAIN new /\ new[3].name = "axis_stop"
        /\ 5 \in DOMAIN new /\ new[5].name = "axis_value120"
    BY DEF Row
  <2> HIDE DEF old, new
  <2>6. {"enter", "leave", "motion", "button", "axis"} \subseteq DOMAIN Numbers(old)
    BY <2>4, RowNames
  <2>7. {"frame", "axis_source", "axis_stop", "axis_value120"} \subseteq DOMAIN Numbers(new)
    BY <2>5, RowNames
  <2>8. n \in DOMAIN Numbers(old) \/ n \in DOMAIN Numbers(new)
    BY <1>5, <2>6, <2>7 DEF Sent
  <2> QED
    BY <1>1, <1>5, <2>1, <2>2, <2>3, <2>8, BothNames DEF WlInterfaces
<1>6. CASE i = "wl_keyboard"
  <2> DEFINE names == <<"keymap", "enter", "leave", "key", "modifiers">>
             old == First(names)
             new == <<Row("repeat_info", 4)>>
  <2>1. WlEvents["wl_keyboard"] = old \o new
    BY DEF WlEvents
  <2>2. names \in Seq(WlNames) /\ new \in Seq(WlRows)
    BY DEF WlNames, WlRows, Row
  <2>3. old \in Seq(WlRows)
    BY <2>2, FirstRows
  <2>4. /\ 1 \in DOMAIN old /\ old[1].name = "keymap" /\ 2 \in DOMAIN old /\ old[2].name = "enter"
        /\ 3 \in DOMAIN old /\ old[3].name = "leave" /\ 4 \in DOMAIN old /\ old[4].name = "key"
        /\ 5 \in DOMAIN old /\ old[5].name = "modifiers"
    BY DEF First, Row
  <2>5. 1 \in DOMAIN new /\ new[1].name = "repeat_info"
    BY DEF Row
  <2> HIDE DEF old, new
  <2>6. {"keymap", "enter", "leave", "key", "modifiers"} \subseteq DOMAIN Numbers(old)
    BY <2>4, RowNames
  <2>7. "repeat_info" \in DOMAIN Numbers(new)
    BY <2>5, RowNames
  <2>8. n \in DOMAIN Numbers(old) \/ n \in DOMAIN Numbers(new)
    BY <1>6, <2>6, <2>7 DEF Sent
  <2> QED
    BY <1>1, <1>6, <2>1, <2>2, <2>3, <2>8, BothNames DEF WlInterfaces
<1>7. CASE i \in {"xdg_toplevel", "xdg_surface", "feedback"}
  BY <1>7, XdgParts DEF Sent, XdgToplevelEventCodes, XdgSurfaceEventCodes, FeedbackEventCodes
<1> QED
  BY <1>2, <1>3, <1>4, <1>5, <1>6, <1>7 DEF Sent

-----------------------------------------------------------------------------
(* The invariant                                                           *)

\* The requests that make object j, that ask something of it, that end it, and
\* that do not; and the events for it.
New(j) == {r \in Requests : r.new = j}
Asks(j) == {r \in Requests : r.object = j}
Enders(j) == {r \in Requests : r.object = j /\ r.name \in Tables[j].stubs.ends}
Others(j) == {r \in Requests : r.object = j /\ r.name \notin Tables[j].stubs.ends}
Signed(j) == {e \in Signals : e.object = j}
Signal(j, name) == {e \in Signals : e.object = j /\ e.name = name}

\* The bridge has object j, or is about to.
Due(j) == resource[j] # 0 \/ Has(toBridge, New(j))

\* An object is made once, asked things only when it is made, and ended last.
Ordered(j) ==
  /\ Once(toBridge, New(j)) /\ (Has(toBridge, New(j)) => resource[j] = 0)
  /\ Before(toBridge, New(j), Asks(j))
  /\ Has(toBridge, Asks(j)) => Due(j)
  /\ Once(toBridge, Enders(j)) /\ Before(toBridge, Others(j), Enders(j))

\* The client has an object exactly when the bridge has it or is about to, and
\* no request to end it is under way.
Shared(j) ==
  /\ proxy[j] # 0 => Due(j) /\ ~Has(toBridge, Enders(j))
  /\ proxy[j] = 0 /\ Due(j) => Has(toBridge, Enders(j))

\* The version that the bridge's object j has or will have.
Will(j) ==
  IF MadeAt(j) # 0 THEN MadeAt(j)
  ELSE IF resource[j] # 0 THEN resource[j]
  ELSE CASE j = "wl_surface"                        -> resource["wl_compositor"]
         [] j \in {"xdg_positioner", "xdg_surface"} -> resource["xdg_wm_base"]
         [] j = "xdg_toplevel" -> IF resource["xdg_surface"] # 0 THEN resource["xdg_surface"]
                                  ELSE resource["xdg_wm_base"]
         [] OTHER -> 0
Since(r) == SinceIn(Tables[r.object].since, r.name)

\* Both ends have the same version of what they have at the version of its
\* global, and no request is newer than the object it will find.
SameVersion(j) ==
  /\ proxy[j] # 0 /\ MadeAt(j) = 0 => proxy[j] = Will(j)
  /\ MadeAt(j) # 0 => resource[j] \in {0, MadeAt(j)}
  /\ j \in {"dmabuf", "params", "feedback"} => proxy[j] <= 4
OldEnough ==
  \A k \in DOMAIN toBridge :
    toBridge[k].object \notin {"xdg_popup", "wl_touch"} =>
      Since(toBridge[k]) <= Will(toBridge[k].object)

\* What ends a part of the feedback comes when that part has come or is ahead
\* of it, and the last comes once.
Needs(name) ==
  IF name = "tranche_done" THEN {"tranche_target_device", "tranche_flags", "tranche_formats"}
  ELSE {"format_table", "main_device", "tranche_done"}
Comes(m, n) ==
  \/ m \in heard["feedback"] \/ ~Has(toClient, Signal("feedback", n))
  \/ Ahead(toClient, Signal("feedback", m), Signal("feedback", n))
FeedbackTold ==
  /\ Has(toBridge, New("feedback")) => ~Has(toClient, Signed("feedback"))
  /\ Once(toClient, Signal("feedback", "done"))
  /\ Before(toClient, Signal("feedback", "tranche_done"), Signal("feedback", "done"))
  /\ proxy["feedback"] # 0 =>
       \A n \in {"tranche_done", "done"} : \A m \in Needs(n) : Comes(m, n)

\* A toplevel's capabilities come to one that knows them, and a surface's
\* configure comes right after its toplevel's.
Knows(k) ==
  toClient[k] = Event("xdg_toplevel", "wm_capabilities") /\ proxy["xdg_toplevel"] # 0 =>
    proxy["xdg_toplevel"] >= 5
Follows(k) ==
  toClient[k].object = "xdg_surface" /\ proxy["xdg_surface"] # 0 /\ proxy["xdg_toplevel"] # 0 =>
    /\ k = 1 => "configure" \in heard["xdg_surface"]
    /\ k # 1 => toClient[k - 1] = Event("xdg_toplevel", "configure")
    /\ proxy["xdg_toplevel"] >= 5 =>
         /\ k \in {1, 2} => "wm_capabilities" \in heard["xdg_surface"]
         /\ k \notin {1, 2} => toClient[k - 2] = Event("xdg_toplevel", "wm_capabilities")
Configures == \A k \in DOMAIN toClient : Knows(k) /\ Follows(k)

Typed ==
  /\ proxy \in [Interfaces -> 0..9] /\ resource \in [Interfaces -> 0..9]
  /\ toBridge \in Seq(Requests) /\ toClient \in Seq(Signals)
  /\ DOMAIN heard = {"feedback", "xdg_surface"}

\* While nothing is wrong.
Sound ==
  /\ Typed
  /\ \A j \in Interfaces : Ordered(j) /\ SameVersion(j)
  /\ \A j \in Interfaces : j # "wl_callback" => Shared(j)
  /\ OldEnough /\ FeedbackTold /\ Configures
WireInv == Routed /\ Allowed /\ EventsUnderstood /\ (Running => Sound)

-----------------------------------------------------------------------------
(* What messages are about                                                 *)

LEMMA Objects ==
  /\ Made \subseteq Interfaces /\ "" \notin Interfaces /\ Unimplemented \subseteq Interfaces
  /\ \A j \in Made : Maker(j) \in Interfaces /\ Maker(j) # j
<1>1. Made \subseteq Interfaces /\ "" \notin Interfaces /\ Unimplemented \subseteq Interfaces
  BY TheInterfaces DEF Made, WlInterfaces, XdgInterfaces, Unimplemented
<1>2. ASSUME NEW j \in Made
      PROVE  /\ Maker(j) # j
             /\ Maker(j) \in {"wl_compositor", "wl_surface", "wl_seat", "xdg_wm_base",
                              "xdg_surface", "dmabuf", "params"}
  BY DEF Made, Maker
<1>3. {"wl_compositor", "wl_surface", "wl_seat", "xdg_wm_base", "xdg_surface", "dmabuf", "params"}
        \subseteq Interfaces
  BY TheInterfaces DEF WlInterfaces, XdgInterfaces
<1> QED
  BY <1>1, <1>2, <1>3

LEMMA RequestParts ==
  ASSUME NEW r \in Requests
  PROVE  /\ r.object \in Interfaces /\ r.name \in DOMAIN Tables[r.object].opcodes
         /\ r.opcode = Tables[r.object].opcodes[r.name]
         /\ r.new = NewOf(Tables[r.object].stubs, r.name)
<1>1. PICK i \in Interfaces : r \in {RequestOf(i, n) : n \in DOMAIN Tables[i].opcodes}
  BY DEF Requests
<1>2. PICK n \in DOMAIN Tables[i].opcodes : r = RequestOf(i, n)
  BY <1>1
<1> QED
  BY <1>2 DEF RequestOf

\* What makes an object asks its maker, and ends none.
LEMMA RequestMakes ==
  ASSUME NEW r \in Requests, r.new # ""
  PROVE  /\ r.new \in Made /\ Maker(r.new) = r.object
         /\ r.name \notin Tables[r.object].stubs.ends
<1>1. r.object \in Interfaces /\ r.new = NewOf(Tables[r.object].stubs, r.name)
  BY RequestParts
<1> QED
  BY <1>1, StubMakes

LEMMA NoneAsked ==
  ASSUME NEW r \in Requests
  PROVE  r.object # "wl_callback"
BY RequestParts, WlOpcodes

LEMMA SignalParts ==
  ASSUME NEW e \in Signals
  PROVE  /\ e.object \in Interfaces /\ e.name \in Sent(e.object)
         /\ e.code = Tables[e.object].codes[e.name]
         /\ e = Event(e.object, e.name)
<1>1. PICK i \in Interfaces : e \in {Event(i, n) : n \in Sent(i)}
  BY DEF Signals
<1>2. PICK n \in Sent(i) : e = Event(i, n)
  BY <1>1
<1> QED
  BY <1>2 DEF Event

LEMMA EventParts ==
  ASSUME NEW i \in Interfaces, NEW n \in Sent(i)
  PROVE  /\ Event(i, n) \in Signals /\ Event(i, n).object = i /\ Event(i, n).name = n
BY DEF Signals, Event

\* Where a request belongs.
LEMMA Kinds ==
  ASSUME NEW i \in Interfaces, NEW n \in DOMAIN Tables[i].opcodes, NEW j
  PROVE  LET r == RequestOf(i, n)
         IN  /\ r \in Requests /\ r.object = i /\ r.name = n
             /\ r.new = NewOf(Tables[i].stubs, n)
             /\ r \in New(j) <=> r.new = j
             /\ r \in Asks(j) <=> i = j
             /\ r \in Enders(j) <=> i = j /\ n \in Tables[i].stubs.ends
             /\ r \in Others(j) <=> i = j /\ n \notin Tables[i].stubs.ends
<1> DEFINE r == RequestOf(i, n)
<1>1. r \in Requests
  BY DEF Requests
<1>2. r.object = i /\ r.name = n /\ r.new = NewOf(Tables[i].stubs, n)
  BY DEF RequestOf
<1> HIDE DEF r
<1>3. r \in New(j) <=> r.new = j
  BY <1>1 DEF New
<1>4. r \in Asks(j) <=> i = j
  BY <1>1, <1>2 DEF Asks
<1>5. r \in Enders(j) <=> i = j /\ n \in Tables[i].stubs.ends
  BY <1>1, <1>2 DEF Enders
<1>6. r \in Others(j) <=> i = j /\ n \notin Tables[i].stubs.ends
  BY <1>1, <1>2 DEF Others
<1> QED
  BY <1>1, <1>2, <1>3, <1>4, <1>5, <1>6 DEF r

\* Every request is one of its object's, and either ends it or does not.
LEMMA AsksSplit ==
  ASSUME NEW q \in Seq(Requests), NEW j
  PROVE  /\ Has(q, Asks(j)) <=> Has(q, Enders(j)) \/ Has(q, Others(j))
         /\ Has(q, New(j)) /\ j # "" => Has(q, Asks(Maker(j))) /\ j \in Made
         /\ ~Has(q, Asks("wl_callback"))
<1>1. \A k \in DOMAIN q : q[k] \in Requests
  BY LenProperties, ElementOfSeq
<1>2. \A r \in Requests : r \in Asks(j) <=> r \in Enders(j) \/ r \in Others(j)
  BY DEF Asks, Enders, Others
<1>3. Has(q, Asks(j)) <=> Has(q, Enders(j)) \/ Has(q, Others(j))
  BY <1>1, <1>2 DEF Has
<1>4. ASSUME NEW r \in New(j), j # ""
      PROVE  r \in Asks(Maker(j)) /\ j \in Made
  BY <1>4, RequestMakes DEF New, Asks
<1>5. Has(q, New(j)) /\ j # "" => Has(q, Asks(Maker(j))) /\ j \in Made
  BY <1>4 DEF Has
<1>6. ~Has(q, Asks("wl_callback"))
  BY NoneAsked DEF Has, Asks
<1> QED
  BY <1>3, <1>5, <1>6

\* Nothing is in flight about what is not used.
LEMMA UnusedMeans ==
  ASSUME NEW j \in Interfaces, Unused(j), toBridge \in Seq(Requests), toClient \in Seq(Signals)
  PROVE  /\ proxy[j] = 0 /\ resource[j] = 0 /\ ~Due(j)
         /\ ~Has(toBridge, New(j)) /\ ~Has(toBridge, Asks(j))
         /\ ~Has(toBridge, Enders(j)) /\ ~Has(toBridge, Others(j))
         /\ \A k \in DOMAIN toClient : toClient[k].object # j
         /\ j = "xdg_toplevel" => \A k \in DOMAIN toClient : toClient[k].object # "xdg_surface"
<1>1. /\ proxy[j] = 0 /\ resource[j] = 0
      /\ \A k \in DOMAIN toBridge : toBridge[k].object # j /\ toBridge[k].new # j
      /\ \A k \in DOMAIN toClient : toClient[k].object # j
      /\ j = "xdg_toplevel" => \A k \in DOMAIN toClient : toClient[k].object # "xdg_surface"
  BY DEF Unused, Entries
<1>2. ~Has(toBridge, New(j)) /\ ~Has(toBridge, Asks(j))
  BY <1>1 DEF Has, New, Asks
<1>3. ~Has(toBridge, Enders(j)) /\ ~Has(toBridge, Others(j))
  BY <1>2, AsksSplit
<1> QED
  BY <1>1, <1>2, <1>3 DEF Due

\* A queue of requests whose head is taken.
LEMMA HeadRequest ==
  ASSUME Typed, toBridge # <<>>
  PROVE  LET r == Head(toBridge)
         IN  /\ r \in Requests /\ Tail(toBridge) \in Seq(Requests)
             /\ r = RequestOf(r.object, r.name)
             /\ r.object \in Interfaces /\ r.name \in DOMAIN Tables[r.object].opcodes
<1>1. Head(toBridge) \in Requests /\ Tail(toBridge) \in Seq(Requests)
  BY HeadAndTail DEF Typed
<1>2. \A r \in Requests : \E i \in Interfaces : \E n \in DOMAIN Tables[i].opcodes :
        r = RequestOf(i, n)
  BY DEF Requests
<1>3. PICK i \in Interfaces : \E n \in DOMAIN Tables[i].opcodes : Head(toBridge) = RequestOf(i, n)
  BY <1>1, <1>2
<1>4. PICK n \in DOMAIN Tables[i].opcodes : Head(toBridge) = RequestOf(i, n)
  BY <1>3
<1>5. RequestOf(i, n).object = i /\ RequestOf(i, n).name = n
  BY DEF RequestOf
<1> QED
  BY <1>1, <1>4, <1>5

-----------------------------------------------------------------------------
(* The client calls a stub                                                 *)

LEMMA CallFacts ==
  ASSUME Sound, NEW i \in Interfaces, NEW n \in DOMAIN Tables[i].opcodes, CallStub(i, n)
  PROVE  LET r == RequestOf(i, n)
             new == NewOf(Tables[i].stubs, n)
         IN  /\ r \in Requests /\ <<r>> \in Seq(Requests) /\ toBridge \in Seq(Requests)
             /\ toClient \in Seq(Signals)
             /\ toBridge' = toBridge \o <<r>> /\ resource' = resource /\ toClient' = toClient
             /\ i # "wl_callback" /\ proxy[i] # 0 /\ Due(i) /\ ~Has(toBridge, Enders(i))
             /\ new # "" => /\ new \in Made /\ Maker(new) = i /\ new # i /\ new \in Interfaces
                            /\ n \notin Tables[i].stubs.ends /\ Unused(new)
             /\ SinceIn(Tables[i].since, n) <= proxy[i]
             /\ proxy \in [Interfaces -> 0..9]
             /\ proxy' = [j \in Interfaces |-> IF j = new THEN proxy[i]
                                               ELSE IF j = i /\ n \in Tables[i].stubs.ends THEN 0
                                               ELSE proxy[j]]
             /\ trouble' = trouble
<1> DEFINE r == RequestOf(i, n)
           new == NewOf(Tables[i].stubs, n)
<1>1. r \in Requests /\ r.object = i
  BY Kinds
<1>2. toBridge \in Seq(Requests) /\ toClient \in Seq(Signals) /\ proxy \in [Interfaces -> 0..9]
  BY DEF Sound, Typed
<1>3. toBridge' = Append(toBridge, r)
  BY DEF CallStub, RequestOf
<1>4. toBridge' = toBridge \o <<r>> /\ <<r>> \in Seq(Requests)
  BY <1>1, <1>2, <1>3, AppendIsConcat
<1>5. i # "wl_callback"
  BY <1>1, NoneAsked
<1>6. proxy[i] # 0 /\ resource' = resource /\ toClient' = toClient /\ trouble' = trouble
  BY DEF CallStub
<1>7. Due(i) /\ ~Has(toBridge, Enders(i))
  BY <1>5, <1>6 DEF Sound, Shared
<1>8. new # "" => /\ new \in Made /\ Maker(new) = i /\ new # i /\ new \in Interfaces
                  /\ n \notin Tables[i].stubs.ends /\ Unused(new)
  <2>1. new # "" => new \in Made /\ Maker(new) = i /\ n \notin Tables[i].stubs.ends
    BY StubMakes
  <2>2. new # "" => Unused(new)
    BY DEF CallStub
  <2> HIDE DEF new
  <2> QED
    BY <2>1, <2>2, Objects
<1>9. /\ SinceIn(Tables[i].since, n) <= proxy[i]
      /\ proxy' = [j \in Interfaces |-> IF j = new THEN proxy[i]
                                        ELSE IF j = i /\ n \in Tables[i].stubs.ends THEN 0
                                        ELSE proxy[j]]
  BY DEF CallStub
<1> HIDE DEF r, new
<1> QED
  BY <1>1, <1>2, <1>4, <1>5, <1>6, <1>7, <1>8, <1>9 DEF r, new

LEMMA CallOrders ==
  ASSUME Sound, NEW i \in Interfaces, NEW n \in DOMAIN Tables[i].opcodes, CallStub(i, n),
         NEW j \in Interfaces
  PROVE  Ordered(j)'
<1> DEFINE r == RequestOf(i, n)
           new == NewOf(Tables[i].stubs, n)
           q == toBridge
<1>1. Ordered(j)
  BY DEF Sound
<1>2. /\ <<r>> \in Seq(Requests) /\ q \in Seq(Requests) /\ toClient \in Seq(Signals)
      /\ toBridge' = q \o <<r>> /\ resource' = resource
      /\ Due(i) /\ ~Has(q, Enders(i))
      /\ new # "" => new # i /\ new \in Interfaces /\ Unused(new)
  BY CallFacts
<1>3. /\ r \in New(j) <=> new = j
      /\ r \in Asks(j) <=> i = j
      /\ r \in Enders(j) <=> i = j /\ n \in Tables[i].stubs.ends
      /\ r \in Others(j) <=> i = j /\ n \notin Tables[i].stubs.ends
  BY Kinds
<1>4. j # ""
  BY Objects
<1>5. new = j => resource[j] = 0 /\ ~Has(q, New(j)) /\ ~Has(q, Asks(j)) /\ i # j
  BY <1>2, <1>4, UnusedMeans
<1> HIDE DEF r, new
<1>6. Has(q \o <<r>>, New(j)) <=> Has(q, New(j)) \/ new = j
  BY <1>2, <1>3, HasConcat, HasOne
<1>7. Has(q \o <<r>>, Asks(j)) <=> Has(q, Asks(j)) \/ i = j
  BY <1>2, <1>3, HasConcat, HasOne
<1>8. Once(q \o <<r>>, New(j))
  <2>1. Once(<<r>>, New(j)) /\ (Has(<<r>>, New(j)) <=> r \in New(j))
    BY HasOne
  <2>2. ~Has(q, New(j)) \/ ~Has(<<r>>, New(j))
    BY <1>3, <1>5, <2>1
  <2>3. Once(q, New(j))
    BY <1>1 DEF Ordered
  <2> QED
    BY <1>2, <2>1, <2>2, <2>3, OnceConcat
<1>9. Once(q \o <<r>>, Enders(j))
  <2>1. Once(<<r>>, Enders(j)) /\ (Has(<<r>>, Enders(j)) <=> r \in Enders(j))
    BY HasOne
  <2>2. ~Has(q, Enders(j)) \/ ~Has(<<r>>, Enders(j))
    BY <1>2, <1>3, <2>1
  <2>3. Once(q, Enders(j))
    BY <1>1 DEF Ordered
  <2> QED
    BY <1>2, <2>1, <2>2, <2>3, OnceConcat
<1>10. Before(q \o <<r>>, New(j), Asks(j))
  <2>1. Before(<<r>>, New(j), Asks(j))
    BY <1>3, <1>5 DEF Before
  <2>2. ~Has(q, Asks(j)) \/ ~Has(<<r>>, New(j))
    BY <1>3, <1>5, HasOne
  <2>3. Before(q, New(j), Asks(j))
    BY <1>1 DEF Ordered
  <2> QED
    BY <1>2, <2>1, <2>2, <2>3, BeforeConcat
<1>11. Before(q \o <<r>>, Others(j), Enders(j))
  <2>1. Before(<<r>>, Others(j), Enders(j))
    BY <1>3 DEF Before
  <2>2. ~Has(q, Enders(j)) \/ ~Has(<<r>>, Others(j))
    BY <1>2, <1>3, HasOne
  <2>3. Before(q, Others(j), Enders(j))
    BY <1>1 DEF Ordered
  <2> QED
    BY <1>2, <2>1, <2>2, <2>3, BeforeConcat
<1>12. Has(q \o <<r>>, New(j)) => resource[j] = 0
  BY <1>1, <1>5, <1>6 DEF Ordered
<1>13. Has(q \o <<r>>, Asks(j)) => resource[j] # 0 \/ Has(q \o <<r>>, New(j))
  BY <1>1, <1>2, <1>6, <1>7 DEF Ordered, Due
<1> QED
  BY <1>2, <1>8, <1>9, <1>10, <1>11, <1>12, <1>13 DEF Ordered, Due

LEMMA CallShares ==
  ASSUME Sound, NEW i \in Interfaces, NEW n \in DOMAIN Tables[i].opcodes, CallStub(i, n),
         NEW j \in Interfaces, j # "wl_callback"
  PROVE  Shared(j)'
<1> DEFINE r == RequestOf(i, n)
           new == NewOf(Tables[i].stubs, n)
           q == toBridge
<1>1. Shared(j)
  BY DEF Sound
<1>2. /\ <<r>> \in Seq(Requests) /\ q \in Seq(Requests) /\ toClient \in Seq(Signals)
      /\ toBridge' = q \o <<r>> /\ resource' = resource
      /\ Due(i) /\ ~Has(q, Enders(i)) /\ proxy[i] # 0
      /\ new # "" => /\ new # i /\ new \in Interfaces /\ Unused(new)
                     /\ n \notin Tables[i].stubs.ends
  BY CallFacts
<1>3. /\ r \in New(j) <=> new = j
      /\ r \in Enders(j) <=> i = j /\ n \in Tables[i].stubs.ends
  BY Kinds
<1>4. proxy'[j] = IF j = new THEN proxy[i] ELSE IF j = i /\ n \in Tables[i].stubs.ends THEN 0
                  ELSE proxy[j]
  <2>1. proxy' = [x \in Interfaces |-> IF x = new THEN proxy[i]
                                      ELSE IF x = i /\ n \in Tables[i].stubs.ends THEN 0
                                      ELSE proxy[x]]
    BY CallFacts
  <2> HIDE DEF new
  <2> QED
    BY <2>1
<1>5. new = j => resource[j] = 0 /\ ~Has(q, Enders(j)) /\ i # j
  BY <1>2, Objects, UnusedMeans
<1> HIDE DEF r, new
<1>6. Has(q \o <<r>>, New(j)) <=> Has(q, New(j)) \/ new = j
  BY <1>2, <1>3, HasConcat, HasOne
<1>7. Has(q \o <<r>>, Enders(j)) <=> Has(q, Enders(j)) \/ (i = j /\ n \in Tables[i].stubs.ends)
  BY <1>2, <1>3, HasConcat, HasOne
<1>8. CASE j = new
  BY <1>2, <1>4, <1>5, <1>6, <1>7, <1>8 DEF Shared, Due
<1>9. CASE j # new /\ j = i /\ n \in Tables[i].stubs.ends
  BY <1>2, <1>4, <1>7, <1>9 DEF Shared
<1>10. CASE j # new /\ ~(j = i /\ n \in Tables[i].stubs.ends)
  BY <1>1, <1>2, <1>4, <1>6, <1>7, <1>10 DEF Shared, Due
<1> QED
  BY <1>8, <1>9, <1>10

\* What an object that is not there yet will be.
LEMMA MadeAtTyped ==
  ASSUME NEW j
  PROVE  /\ MadeAt(j) \in {0, 1, 4, 9}
         /\ j \in {"params", "feedback"} <=> MadeAt(j) = 4
         /\ j \in {"wl_pointer", "wl_keyboard"} <=> MadeAt(j) = 9
         /\ j \in {"wl_region", "wl_callback", "wl_touch", "xdg_popup", "wl_buffer"}
              <=> MadeAt(j) = 1
BY DEF MadeAt

LEMMA WillOf ==
  ASSUME NEW j, resource[j] = 0, MadeAt(j) = 0
  PROVE  /\ j \in {"wl_surface", "xdg_positioner", "xdg_surface"} => Will(j) = resource[Maker(j)]
         /\ j = "xdg_toplevel" => Will(j) = IF resource["xdg_surface"] # 0
                                            THEN resource["xdg_surface"]
                                            ELSE resource["xdg_wm_base"]
         /\ j \notin Made => Will(j) = 0
         /\ j \in Made =>
              j \in {"wl_surface", "xdg_positioner", "xdg_surface", "xdg_toplevel"}
<1>1. j = "wl_surface" => Will(j) = resource[Maker(j)]
  BY DEF Will, Maker
<1>2. j \in {"xdg_positioner", "xdg_surface"} => Will(j) = resource[Maker(j)]
  BY DEF Will, Maker
<1>3. j = "xdg_toplevel" => Will(j) = IF resource["xdg_surface"] # 0
                                      THEN resource["xdg_surface"]
                                      ELSE resource["xdg_wm_base"]
  BY DEF Will
<1>4. j \notin Made => Will(j) = 0
  BY DEF Will, Made
<1>5. j \in Made => j \in {"wl_surface", "xdg_positioner", "xdg_surface", "xdg_toplevel"}
  BY MadeAtTyped DEF Made
<1> QED
  BY <1>1, <1>2, <1>3, <1>4, <1>5

LEMMA CallVersions ==
  ASSUME Sound, NEW i \in Interfaces, NEW n \in DOMAIN Tables[i].opcodes, CallStub(i, n),
         NEW j \in Interfaces
  PROVE  SameVersion(j)'
<1> DEFINE new == NewOf(Tables[i].stubs, n)
<1>1. SameVersion(j) /\ SameVersion(i)
  BY DEF Sound
<1>2. /\ resource' = resource /\ proxy[i] # 0 /\ proxy[i] \in 0..9
      /\ new # "" => /\ new \in Made /\ Maker(new) = i /\ new # i /\ Unused(new)
  BY CallFacts
<1>3. proxy'[j] = IF j = new THEN proxy[i] ELSE IF j = i /\ n \in Tables[i].stubs.ends THEN 0
                  ELSE proxy[j]
  <2>1. proxy' = [x \in Interfaces |-> IF x = new THEN proxy[i]
                                      ELSE IF x = i /\ n \in Tables[i].stubs.ends THEN 0
                                      ELSE proxy[x]]
    BY CallFacts
  <2> HIDE DEF new
  <2> QED
    BY <2>1
<1> HIDE DEF new
<1>4. Will(j)' = Will(j)
  BY <1>2 DEF Will
<1>5. CASE j = new
  <2>1. j \in Made /\ Maker(j) = i /\ resource[j] = 0
    BY <1>2, <1>5, Objects DEF Unused
  <2>2. MadeAt(j) = 0 => proxy[i] = Will(j)
    <3>1. SUFFICES ASSUME MadeAt(j) = 0
                   PROVE  proxy[i] = Will(j)
      OBVIOUS
    <3>2. j \in {"wl_surface", "xdg_positioner", "xdg_surface", "xdg_toplevel"}
      BY <2>1, <3>1, WillOf
    <3>3. i \in {"wl_compositor", "xdg_wm_base", "xdg_surface"}
      BY <2>1, <3>2 DEF Maker
    <3>4. MadeAt(i) = 0
      BY <3>3 DEF MadeAt
    <3>5. proxy[i] = Will(i)
      BY <1>1, <1>2, <3>4 DEF SameVersion
    <3>6. CASE i \in {"wl_compositor", "xdg_wm_base"}
      <4>1. i \notin Made
        BY <3>6 DEF Made
      <4>2. resource[i] # 0
        BY <1>2, <3>4, <3>5, <4>1, WillOf
      <4>4. Will(i) = resource[i]
        BY <3>4, <4>2 DEF Will
      <4>3. j # "xdg_toplevel"
        BY <2>1, <3>6 DEF Maker
      <4> QED
        BY <2>1, <3>1, <3>2, <3>5, <4>3, <4>4, WillOf
    <3>7. CASE i = "xdg_surface"
      <4>1. j = "xdg_toplevel"
        BY <2>1, <3>2, <3>7 DEF Maker
      <4>2. Will(i) = IF resource[i] # 0 THEN resource[i] ELSE resource["xdg_wm_base"]
        BY <3>4, <3>7 DEF Will
      <4> QED
        BY <2>1, <3>1, <3>5, <3>7, <4>1, <4>2, WillOf
    <3> QED
      BY <3>3, <3>6, <3>7
  <2>3. j \in {"dmabuf", "params", "feedback"} => proxy[i] <= 4
    <3>1. j \in {"dmabuf", "params", "feedback"} => i = "dmabuf"
      BY <2>1 DEF Made, Maker
    <3> QED
      BY <1>1, <3>1 DEF SameVersion
  <2> QED
    BY <1>1, <1>2, <1>3, <1>4, <1>5, <2>2, <2>3 DEF SameVersion
<1>6. CASE j # new
  <2>1. proxy'[j] = 0 \/ proxy'[j] = proxy[j]
    BY <1>3, <1>6
  <2>2. CASE proxy'[j] = 0
    <3>1. (proxy[j])' = 0
      BY <2>2
    <3>2. (resource[j])' = resource[j]
      BY <1>2
    <3>3. 0 <= 4
      OBVIOUS
    <3> QED
      BY <1>1, <3>1, <3>2, <3>3 DEF SameVersion
  <2>3. CASE proxy'[j] = proxy[j]
    BY <1>1, <1>2, <1>4, <2>3 DEF SameVersion
  <2> QED
    BY <2>1, <2>2, <2>3
<1> QED
  BY <1>5, <1>6

LEMMA CallIsOldEnough ==
  ASSUME Sound, NEW i \in Interfaces, NEW n \in DOMAIN Tables[i].opcodes, CallStub(i, n)
  PROVE  OldEnough'
<1> DEFINE r == RequestOf(i, n)
           q == toBridge
<1>1. /\ <<r>> \in Seq(Requests) /\ q \in Seq(Requests)
      /\ toBridge' = q \o <<r>> /\ resource' = resource
      /\ SinceIn(Tables[i].since, n) <= proxy[i] /\ proxy[i] # 0 /\ proxy[i] \in 0..9
      /\ i # "wl_callback"
  BY CallFacts
<1>2. r.object = i /\ Since(r) = SinceIn(Tables[i].since, n)
  BY DEF RequestOf, Since
<1>3. SinceIn(Tables[i].since, n) \in 1..8
  BY SinceTyped
<1>4. i \notin {"xdg_popup", "wl_touch"} => SinceIn(Tables[i].since, n) <= Will(i)
  <2>1. SameVersion(i)
    BY DEF Sound
  <2>2. CASE MadeAt(i) = 0
    BY <1>1, <2>1, <2>2 DEF SameVersion
  <2>3. CASE MadeAt(i) = 9
    BY <1>3, <2>3 DEF Will
  <2>4. CASE MadeAt(i) = 4
    <3>1. proxy[i] <= 4
      BY <2>1, <2>4, MadeAtTyped DEF SameVersion
    <3> QED
      BY <1>1, <1>3, <2>4, <3>1 DEF Will
  <2>5. CASE MadeAt(i) = 1
    <3>1. i \in {"wl_region", "wl_buffer", "xdg_popup", "wl_touch"}
      BY <1>1, <2>5, MadeAtTyped
    <3>2. i \notin {"xdg_popup", "wl_touch"} => SinceIn(Tables[i].since, n) = 1
      BY <3>1, OldMessages
    <3> QED
      BY <2>5, <3>2 DEF Will
  <2> QED
    BY <2>2, <2>3, <2>4, <2>5, MadeAtTyped
<1>5. \A j : Will(j)' = Will(j)
  BY <1>1 DEF Will
<1> HIDE DEF r
<1>6. ASSUME NEW k \in DOMAIN (q \o <<r>>)
      PROVE  (q \o <<r>>)[k].object \notin {"xdg_popup", "wl_touch"} =>
               Since((q \o <<r>>)[k]) <= Will((q \o <<r>>)[k].object)
  <2>1. \/ k \in DOMAIN q /\ (q \o <<r>>)[k] = q[k]
        \/ k - Len(q) \in DOMAIN <<r>> /\ (q \o <<r>>)[k] = <<r>>[k - Len(q)]
    BY <1>1, ConcatIndices
  <2>2. k - Len(q) \in DOMAIN <<r>> => <<r>>[k - Len(q)] = r
    OBVIOUS
  <2>3. CASE k \in DOMAIN q /\ (q \o <<r>>)[k] = q[k]
    BY <2>3 DEF Sound, OldEnough
  <2>4. CASE (q \o <<r>>)[k] = r
    BY <1>2, <1>4, <2>4
  <2> QED
    BY <2>1, <2>2, <2>3, <2>4
<1>7. \A x : Since(x)' = Since(x)
  BY DEF Since
<1> QED
  BY <1>1, <1>5, <1>6, <1>7 DEF OldEnough

\* Events for no object of interface j.
LEMMA NoSignals ==
  ASSUME NEW j, \A k \in DOMAIN toClient : toClient[k].object # j
  PROVE  ~Has(toClient, Signed(j)) /\ \A n : ~Has(toClient, Signal(j, n))
BY DEF Has, Signed, Signal

LEMMA CallTellsFeedback ==
  ASSUME Sound, NEW i \in Interfaces, NEW n \in DOMAIN Tables[i].opcodes, CallStub(i, n)
  PROVE  FeedbackTold'
<1> DEFINE r == RequestOf(i, n)
           new == NewOf(Tables[i].stubs, n)
           q == toBridge
<1>1. /\ <<r>> \in Seq(Requests) /\ q \in Seq(Requests) /\ toClient \in Seq(Signals)
      /\ toBridge' = q \o <<r>> /\ toClient' = toClient
      /\ new # "" => new \in Interfaces /\ Unused(new)
  BY CallFacts
<1>2. proxy' = [x \in Interfaces |-> IF x = new THEN proxy[i]
                                     ELSE IF x = i /\ n \in Tables[i].stubs.ends THEN 0
                                     ELSE proxy[x]]
  BY CallFacts
<1>3. /\ DOMAIN heard = {"feedback", "xdg_surface"}
      /\ heard' = [b \in DOMAIN heard |->
                     IF b = i /\ n \in Tables[i].stubs.ends THEN {} ELSE heard[b]]
  BY DEF Sound, Typed, CallStub
<1>4. r \in New("feedback") <=> new = "feedback"
  BY Kinds
<1>5. FeedbackTold
  BY DEF Sound
<1> HIDE DEF r, new
<1>6. Has(q \o <<r>>, New("feedback")) <=> Has(q, New("feedback")) \/ new = "feedback"
  <2>1. Has(<<r>>, New("feedback")) <=> new = "feedback"
    BY <1>4, HasOne
  <2>2. Has(q \o <<r>>, New("feedback")) <=>
          Has(q, New("feedback")) \/ Has(<<r>>, New("feedback"))
    BY <1>1, HasConcat
  <2> QED
    BY <2>1, <2>2
<1>7. new = "feedback" =>
        /\ ~Has(toClient, Signed("feedback"))
        /\ \A m : ~Has(toClient, Signal("feedback", m))
  <2>1. SUFFICES ASSUME new = "feedback"
                 PROVE  \A k \in DOMAIN toClient : toClient[k].object # "feedback"
    BY NoSignals
  <2>2. Unused("feedback") /\ "feedback" \in Interfaces
    BY <1>1, <2>1
  <2> QED
    BY <1>1, <2>2, UnusedMeans
<1>8. ASSUME proxy'["feedback"] # 0, NEW l \in {"tranche_done", "done"}, NEW m \in Needs(l)
      PROVE  Comes(m, l)'
  <2>1. CASE new = "feedback"
    BY <1>1, <1>7, <2>1 DEF Comes
  <2>2. CASE new # "feedback"
    <3>1. proxy'["feedback"] = IF "feedback" = i /\ n \in Tables[i].stubs.ends THEN 0
                               ELSE proxy["feedback"]
      BY <1>2, <2>2, TheInterfaces DEF XdgInterfaces
    <3>2. proxy["feedback"] # 0 /\ ~("feedback" = i /\ n \in Tables[i].stubs.ends)
      BY <1>8, <3>1
    <3>3. heard'["feedback"] = heard["feedback"]
      BY <1>3, <3>2
    <3>4. Comes(m, l)
      BY <1>5, <3>2 DEF FeedbackTold
    <3> QED
      BY <1>1, <3>3, <3>4 DEF Comes
  <2> QED
    BY <2>1, <2>2
<1>9. Has(toBridge', New("feedback")) => ~Has(toClient, Signed("feedback"))
  BY <1>1, <1>5, <1>6, <1>7 DEF FeedbackTold
<1>10. /\ Once(toClient, Signal("feedback", "done"))
       /\ Before(toClient, Signal("feedback", "tranche_done"), Signal("feedback", "done"))
  BY <1>5 DEF FeedbackTold
<1>11. (proxy["feedback"])' # 0 =>
         \A l \in {"tranche_done", "done"} : \A m \in Needs(l) : Comes(m, l)'
  BY <1>8
<1> QED
  BY <1>1, <1>9, <1>10, <1>11 DEF FeedbackTold

LEMMA CallConfigures ==
  ASSUME Sound, NEW i \in Interfaces, NEW n \in DOMAIN Tables[i].opcodes, CallStub(i, n)
  PROVE  Configures'
<1> DEFINE new == NewOf(Tables[i].stubs, n)
<1>1. /\ toBridge \in Seq(Requests) /\ toClient \in Seq(Signals) /\ toClient' = toClient
      /\ new # "" => new \in Interfaces /\ Unused(new)
  BY CallFacts
<1>2. proxy' = [x \in Interfaces |-> IF x = new THEN proxy[i]
                                     ELSE IF x = i /\ n \in Tables[i].stubs.ends THEN 0
                                     ELSE proxy[x]]
  BY CallFacts
<1>3. /\ DOMAIN heard = {"feedback", "xdg_surface"}
      /\ heard' = [b \in DOMAIN heard |->
                     IF b = i /\ n \in Tables[i].stubs.ends THEN {} ELSE heard[b]]
  BY DEF Sound, Typed, CallStub
<1>4. {"xdg_surface", "xdg_toplevel"} \subseteq Interfaces
  BY TheInterfaces DEF XdgInterfaces
<1> HIDE DEF new
<1>5. \A x \in {"xdg_surface", "xdg_toplevel"} :
        new # x => proxy'[x] = IF x = i /\ n \in Tables[i].stubs.ends THEN 0 ELSE proxy[x]
  BY <1>2, <1>4
<1>6. ASSUME NEW k \in DOMAIN toClient
      PROVE  Knows(k)'
  <2>1. Knows(k)
    BY DEF Sound, Configures
  <2>2. CASE new = "xdg_toplevel"
    <3>1. toClient[k].object # "xdg_toplevel"
      BY <1>1, <2>2, UnusedMeans
    <3>2. toClient[k] # Event("xdg_toplevel", "wm_capabilities")
      BY <3>1 DEF Event
    <3> QED
      BY <1>1, <3>2 DEF Knows, Event
  <2>3. CASE new # "xdg_toplevel"
    <3>1. (proxy["xdg_toplevel"])' = 0 \/ (proxy["xdg_toplevel"])' = proxy["xdg_toplevel"]
      BY <1>5, <2>3
    <3> QED
      BY <1>1, <2>1, <3>1 DEF Knows, Event
  <2> QED
    BY <2>2, <2>3
<1>7. ASSUME NEW k \in DOMAIN toClient
      PROVE  Follows(k)'
  <2>1. Follows(k)
    BY DEF Sound, Configures
  <2>2. CASE new \in {"xdg_surface", "xdg_toplevel"}
    <3>1. toClient[k].object # "xdg_surface"
      BY <1>1, <2>2, UnusedMeans
    <3> QED
      BY <1>1, <3>1 DEF Follows
  <2>3. CASE new \notin {"xdg_surface", "xdg_toplevel"}
    <3>1. CASE i = "xdg_surface" /\ n \in Tables[i].stubs.ends
      <4>1. (proxy["xdg_surface"])' = 0
        BY <1>5, <2>3, <3>1
      <4> QED
        BY <4>1 DEF Follows
    <3>2. CASE ~(i = "xdg_surface" /\ n \in Tables[i].stubs.ends)
      <4>1. (heard["xdg_surface"])' = heard["xdg_surface"]
        BY <1>3, <3>2
      <4>2. (proxy["xdg_surface"])' = proxy["xdg_surface"]
        BY <1>5, <2>3, <3>2
      <4>3. (proxy["xdg_toplevel"])' = 0 \/ (proxy["xdg_toplevel"])' = proxy["xdg_toplevel"]
        BY <1>5, <2>3
      <4> QED
        BY <1>1, <2>1, <4>1, <4>2, <4>3 DEF Follows, Event
    <3> QED
      BY <3>1, <3>2
  <2> QED
    BY <2>2, <2>3
<1> QED
  BY <1>1, <1>6, <1>7 DEF Configures

LEMMA CallTyped ==
  ASSUME Sound, NEW i \in Interfaces, NEW n \in DOMAIN Tables[i].opcodes, CallStub(i, n)
  PROVE  Typed'
<1>1. Typed
  BY DEF Sound
<1>2. /\ <<RequestOf(i, n)>> \in Seq(Requests) /\ toBridge \in Seq(Requests)
      /\ toBridge' = toBridge \o <<RequestOf(i, n)>> /\ resource' = resource
      /\ toClient' = toClient /\ proxy \in [Interfaces -> 0..9]
  BY CallFacts
<1>3. toBridge' \in Seq(Requests)
  BY <1>2, ConcatProperties
<1>4. proxy' \in [Interfaces -> 0..9]
  <2> DEFINE new == NewOf(Tables[i].stubs, n)
  <2>1. proxy' = [x \in Interfaces |-> IF x = new THEN proxy[i]
                                      ELSE IF x = i /\ n \in Tables[i].stubs.ends THEN 0
                                      ELSE proxy[x]]
    BY CallFacts
  <2> HIDE DEF new
  <2> QED
    BY <1>2, <2>1
<1>5. DOMAIN heard' = DOMAIN heard
  BY DEF CallStub
<1> QED
  BY <1>1, <1>2, <1>3, <1>4, <1>5 DEF Typed

LEMMA CallKeeps ==
  ASSUME WireInv, NEW i \in Interfaces, NEW n \in DOMAIN Tables[i].opcodes, CallStub(i, n)
  PROVE  WireInv'
<1>1. Running /\ trouble' = trouble
  BY DEF CallStub
<1>2. Sound
  BY <1>1 DEF WireInv
<1>3. Typed' /\ OldEnough' /\ FeedbackTold' /\ Configures'
  BY <1>2, CallTyped, CallIsOldEnough, CallTellsFeedback, CallConfigures
<1>4. \A j \in Interfaces : Ordered(j)' /\ SameVersion(j)'
  BY <1>2, CallOrders, CallVersions
<1>5. \A j \in Interfaces : j # "wl_callback" => Shared(j)'
  BY <1>2, CallShares
<1>6. Sound'
  BY <1>3, <1>4, <1>5 DEF Sound
<1>7. (Routed /\ Allowed /\ EventsUnderstood)'
  BY <1>1 DEF WireInv, Routed, Allowed, EventsUnderstood, Is
<1> QED
  BY <1>6, <1>7 DEF WireInv

-----------------------------------------------------------------------------
(* The bridge sends events                                                 *)

\* The events of a batch, in its order.
LEMMA OneEvent ==
  ASSUME NEW i \in Interfaces, NEW n \in Sent(i)
  PROVE  Events(i, <<n>>) = <<Event(i, n)>> /\ <<Event(i, n)>> \in Seq(Signals)
<1>1. Event(i, n) \in Signals
  BY EventParts
<1>2. Events(i, <<n>>) = <<Event(i, n)>>
  BY DEF Events
<1> QED
  BY <1>1, <1>2

\* Events of other objects leave the feedback as it is.
LEMMA AddedTellsFeedback ==
  ASSUME Sound, NEW r \in Seq(Signals), \A k \in DOMAIN r : r[k].object # "feedback",
         Has(toBridge', New("feedback")) => Has(toBridge, New("feedback")),
         heard' = heard, toClient' = toClient \o r,
         (proxy["feedback"])' = proxy["feedback"]
  PROVE  FeedbackTold'
<1>1. FeedbackTold /\ toClient \in Seq(Signals)
  BY DEF Sound, Typed
<1>2. ~Has(r, Signed("feedback")) /\ \A n : ~Has(r, Signal("feedback", n))
  BY DEF Has, Signed, Signal
<1>3. Has(toClient', Signed("feedback")) <=> Has(toClient, Signed("feedback"))
  BY <1>1, <1>2, HasConcat
<1>4. ASSUME NEW n
      PROVE  /\ Has(toClient', Signal("feedback", n)) <=> Has(toClient, Signal("feedback", n))
             /\ \A m : Ahead(toClient, Signal("feedback", m), Signal("feedback", n)) =>
                         Ahead(toClient', Signal("feedback", m), Signal("feedback", n))
  <2>1. Has(toClient', Signal("feedback", n)) <=> Has(toClient, Signal("feedback", n))
    BY <1>1, <1>2, HasConcat
  <2>2. ASSUME NEW m, Ahead(toClient, Signal("feedback", m), Signal("feedback", n))
        PROVE  Ahead(toClient', Signal("feedback", m), Signal("feedback", n))
    BY <1>1, <2>2, AheadConcat
  <2> QED
    BY <2>1, <2>2
<1>5. Once(toClient', Signal("feedback", "done"))
  <2>1. Once(toClient, Signal("feedback", "done"))
    BY <1>1 DEF FeedbackTold
  <2>2. Once(r, Signal("feedback", "done"))
    BY <1>2 DEF Once, Has
  <2> QED
    BY <1>1, <1>2, <2>1, <2>2, OnceConcat
<1>6. Before(toClient', Signal("feedback", "tranche_done"), Signal("feedback", "done"))
  <2>1. Before(toClient, Signal("feedback", "tranche_done"), Signal("feedback", "done"))
    BY <1>1 DEF FeedbackTold
  <2>2. Before(r, Signal("feedback", "tranche_done"), Signal("feedback", "done"))
    BY <1>2 DEF Has, Before
  <2> QED
    BY <1>1, <1>2, <2>1, <2>2, BeforeConcat
<1>7. \A m, n : Comes(m, n) => Comes(m, n)'
  BY <1>4 DEF Comes
<1>8. (proxy["feedback"])' # 0 =>
        \A l \in {"tranche_done", "done"} : \A m \in Needs(l) : Comes(m, l)'
  BY <1>1, <1>7 DEF FeedbackTold
<1>9. Has(toBridge', New("feedback")) => ~Has(toClient', Signed("feedback"))
  BY <1>1, <1>3 DEF FeedbackTold
<1> QED
  BY <1>5, <1>6, <1>8, <1>9 DEF FeedbackTold

\* A configure and the capabilities that are under way stay right.
LEMMA AddedConfigures ==
  ASSUME Sound, NEW r \in Seq(Signals), heard' = heard, toClient' = toClient \o r,
         (proxy["xdg_surface"])' = proxy["xdg_surface"],
         (proxy["xdg_toplevel"])' = proxy["xdg_toplevel"],
         NEW k \in DOMAIN toClient
  PROVE  Knows(k)' /\ Follows(k)'
<1>1. Configures /\ toClient \in Seq(Signals)
  BY DEF Sound, Typed
<1>2. /\ toClient'[k] = toClient[k] /\ Len(toClient) \in Nat
      /\ DOMAIN toClient = 1..Len(toClient)
      /\ \A x \in DOMAIN toClient : toClient'[x] = toClient[x]
  BY <1>1, ConcatIndices
<1>3. k # 1 => k - 1 \in DOMAIN toClient /\ toClient'[k - 1] = toClient[k - 1]
  BY <1>2
<1>4. k \notin {1, 2} => k - 2 \in DOMAIN toClient /\ toClient'[k - 2] = toClient[k - 2]
  BY <1>2
<1>5. Knows(k) /\ Follows(k)
  BY <1>1 DEF Configures
<1>6. Knows(k)'
  BY <1>2, <1>5 DEF Knows, Event
<1>7. Follows(k)'
  BY <1>2, <1>3, <1>4, <1>5 DEF Follows, Event
<1> QED
  BY <1>6, <1>7

LEMMA AddedOthersConfigure ==
  ASSUME Sound, NEW r \in Seq(Signals), heard' = heard, toClient' = toClient \o r,
         (proxy["xdg_surface"])' = proxy["xdg_surface"],
         (proxy["xdg_toplevel"])' = proxy["xdg_toplevel"],
         \A k \in DOMAIN r : /\ r[k].object # "xdg_surface"
                             /\ r[k].object = "xdg_toplevel" => r[k].name # "wm_capabilities"
  PROVE  Configures'
<1>1. toClient \in Seq(Signals)
  BY DEF Sound, Typed
<1>2. ASSUME NEW k \in DOMAIN toClient'
      PROVE  Knows(k)' /\ Follows(k)'
  <2>1. CASE k \in DOMAIN toClient
    BY <2>1, AddedConfigures
  <2>2. CASE k \notin DOMAIN toClient
    <3>1. k - Len(toClient) \in DOMAIN r /\ toClient'[k] = r[k - Len(toClient)]
      BY <1>1, <1>2, <2>2, ConcatIndices
    <3>2. /\ toClient'[k].object # "xdg_surface"
          /\ toClient'[k].object = "xdg_toplevel" => toClient'[k].name # "wm_capabilities"
      BY <3>1
    <3>3. (toClient[k])' # Event("xdg_toplevel", "wm_capabilities")
      BY <3>2 DEF Event
    <3> QED
      BY <3>2, <3>3 DEF Knows, Follows, Event
  <2> QED
    BY <2>1, <2>2
<1> QED
  BY <1>2 DEF Configures

LEMMA SendKeeps ==
  ASSUME Sound, NEW r \in Seq(Signals), \A k \in DOMAIN r : r[k].object # "feedback",
         proxy' = proxy, toBridge' = toBridge, heard' = heard, toClient' = toClient \o r,
         \/ resource' = resource
         \/ resource' = [resource EXCEPT !["wl_callback"] = 0],
         Configures'
  PROVE  Sound'
<1>1. Typed /\ toClient \in Seq(Signals) /\ toBridge \in Seq(Requests)
  BY DEF Sound, Typed
<1>2. FeedbackTold'
  <2>1. Has(toBridge', New("feedback")) => Has(toBridge, New("feedback"))
    OBVIOUS
  <2> QED
    BY <2>1, AddedTellsFeedback
<1>3. /\ resource' \in [Interfaces -> 0..9]
      /\ \A j \in Interfaces : j # "wl_callback" => resource'[j] = resource[j]
      /\ resource'["wl_callback"] \in {0, resource["wl_callback"]}
  <2>1. resource \in [Interfaces -> 0..9] /\ "wl_callback" \in Interfaces
    BY <1>1, Objects DEF Typed, Unimplemented
  <2> QED
    BY <2>1
<1>4. toClient' \in Seq(Signals)
  BY <1>1, ConcatProperties
<1>5. Typed'
  BY <1>1, <1>3, <1>4 DEF Typed
<1>6. ASSUME NEW j \in Interfaces
      PROVE  Ordered(j)'
  <2>1. Ordered(j)
    BY DEF Sound
  <2>2. j = "wl_callback" => ~Has(toBridge, Asks(j))
    BY <1>1, AsksSplit
  <2>3. (resource[j])' = resource[j] \/ (j = "wl_callback" /\ (resource[j])' = 0)
    BY <1>3
  <2> QED
    BY <2>1, <2>2, <2>3 DEF Ordered, Due
<1>7. ASSUME NEW j \in Interfaces, j # "wl_callback"
      PROVE  Shared(j)'
  <2>1. Shared(j) /\ (resource[j])' = resource[j]
    BY <1>3, <1>7 DEF Sound
  <2> QED
    BY <2>1 DEF Shared, Due
<1>8. ASSUME NEW j \in Interfaces
      PROVE  Will(j)' = Will(j)
  <2>1. {"wl_compositor", "xdg_wm_base", "xdg_surface"} \subseteq Interfaces
    BY TheInterfaces DEF WlInterfaces, XdgInterfaces
  <2>2. /\ (resource["wl_compositor"])' = resource["wl_compositor"]
        /\ (resource["xdg_wm_base"])' = resource["xdg_wm_base"]
        /\ (resource["xdg_surface"])' = resource["xdg_surface"]
    BY <1>3, <2>1
  <2>3. MadeAt(j) = 0 => (resource[j])' = resource[j]
    BY <1>3, MadeAtTyped
  <2> QED
    BY <2>2, <2>3 DEF Will
<1>9. ASSUME NEW j \in Interfaces
      PROVE  SameVersion(j)'
  <2>1. SameVersion(j) /\ (resource[j])' \in {0, resource[j]}
    BY <1>3 DEF Sound
  <2> QED
    BY <1>8, <2>1 DEF SameVersion
<1>10. OldEnough'
  <2>1. OldEnough
    BY DEF Sound
  <2>2. \A k \in DOMAIN toBridge : toBridge[k].object \in Interfaces
    <3>1. \A k \in DOMAIN toBridge : toBridge[k] \in Requests
      BY <1>1, LenProperties, ElementOfSeq
    <3> QED
      BY <3>1, RequestParts
  <2> QED
    BY <1>8, <2>1, <2>2 DEF OldEnough, Since
<1> QED
  BY <1>2, <1>5, <1>6, <1>7, <1>9, <1>10 DEF Sound

\* One event, neither of a feedback nor of a configure.
LEMMA SendsKeeps ==
  ASSUME Sound, NEW i \in Interfaces, NEW n \in Sent(i), Sends(i, <<n>>),
         i \notin {"feedback", "xdg_surface"}, i = "xdg_toplevel" => n # "wm_capabilities",
         \/ resource' = resource
         \/ resource' = [resource EXCEPT !["wl_callback"] = 0]
  PROVE  Sound'
<1> DEFINE r == <<Event(i, n)>>
<1>1. Events(i, <<n>>) = r /\ r \in Seq(Signals)
  BY OneEvent
<1>2. \A k \in DOMAIN r : r[k].object = i /\ r[k].name = n
  BY EventParts
<1>3. /\ proxy' = proxy /\ toBridge' = toBridge /\ heard' = heard
      /\ toClient' = toClient \o r
  BY <1>1 DEF Sends
<1> HIDE DEF r
<1>4. Configures'
  <2>1. /\ (proxy["xdg_surface"])' = proxy["xdg_surface"]
        /\ (proxy["xdg_toplevel"])' = proxy["xdg_toplevel"]
    BY <1>3
  <2>2. \A k \in DOMAIN r : /\ r[k].object # "xdg_surface"
                            /\ r[k].object = "xdg_toplevel" => r[k].name # "wm_capabilities"
    BY <1>2
  <2> QED
    BY <1>1, <1>3, <2>1, <2>2, AddedOthersConfigure
<1>5. \A k \in DOMAIN r : r[k].object # "feedback"
  BY <1>2
<1> QED
  BY <1>1, <1>3, <1>4, <1>5, SendKeeps

LEMMA EventsKeep ==
  ASSUME Sound, KeyboardEvent \/ PointerEvent \/ TopClose \/ BufferRelease \/ CallbackDone
  PROVE  Sound'
<1>0. {"wl_keyboard", "wl_pointer", "xdg_toplevel", "wl_buffer", "wl_callback"} \subseteq Interfaces
  BY TheInterfaces DEF WlInterfaces, XdgInterfaces
<1>1. CASE KeyboardEvent
  <2>1. PICK n \in {"enter", "leave", "key", "modifiers", "repeat_info"} :
          Sends("wl_keyboard", <<n>>) /\ UNCHANGED resource
    BY <1>1 DEF KeyboardEvent
  <2>2. n \in Sent("wl_keyboard")
    BY DEF Sent
  <2> QED
    BY <1>0, <2>1, <2>2, SendsKeeps
<1>2. CASE PointerEvent
  <2>1. PICK n \in {"enter", "leave", "motion", "button", "axis", "frame", "axis_source",
                    "axis_stop", "axis_value120"} :
          Sends("wl_pointer", <<n>>) /\ UNCHANGED resource
    BY <1>2 DEF PointerEvent
  <2>2. n \in Sent("wl_pointer")
    BY DEF Sent
  <2> QED
    BY <1>0, <2>1, <2>2, SendsKeeps
<1>3. CASE TopClose
  <2>1. Sends("xdg_toplevel", <<"close">>) /\ resource' = resource
    BY <1>3 DEF TopClose
  <2>2. "close" \in Sent("xdg_toplevel")
    BY DEF Sent
  <2> QED
    BY <1>0, <2>1, <2>2, SendsKeeps
<1>4. CASE BufferRelease
  <2>1. Sends("wl_buffer", <<"release">>) /\ resource' = resource
    BY <1>4 DEF BufferRelease
  <2>2. "release" \in Sent("wl_buffer")
    BY DEF Sent
  <2> QED
    BY <1>0, <2>1, <2>2, SendsKeeps
<1>5. CASE CallbackDone
  <2>1. /\ Sends("wl_callback", <<"done">>)
        /\ \/ resource' = resource
           \/ resource' = [resource EXCEPT !["wl_callback"] = 0]
    BY <1>5 DEF CallbackDone
  <2>2. "done" \in Sent("wl_callback")
    BY DEF Sent
  <2> QED
    BY <1>0, <2>1, <2>2, SendsKeeps
<1> QED
  BY <1>1, <1>2, <1>3, <1>4, <1>5

\* A configure of a toplevel, its capabilities ahead of it when it knows them,
\* and then of its surface.
LEMMA ConfigureKeeps ==
  ASSUME Sound, EmitConfigure
  PROVE  Sound'
<1> DEFINE w == Event("xdg_toplevel", "wm_capabilities")
           c == Event("xdg_toplevel", "configure")
           s == Event("xdg_surface", "configure")
           old == resource["xdg_toplevel"] >= 5
           r == IF old THEN <<w, c, s>> ELSE <<c, s>>
           q == toClient
<1>0. {"xdg_surface", "xdg_toplevel"} \subseteq Interfaces
  BY TheInterfaces DEF XdgInterfaces
<1>1. /\ w \in Signals /\ w.object = "xdg_toplevel"
      /\ c \in Signals /\ c.object = "xdg_toplevel"
      /\ s \in Signals /\ s.object = "xdg_surface"
  <2>1. "wm_capabilities" \in Sent("xdg_toplevel")
    BY DEF Sent
  <2>2. "configure" \in Sent("xdg_toplevel")
    BY DEF Sent
  <2>3. "configure" \in Sent("xdg_surface")
    BY DEF Sent
  <2> QED
    BY <1>0, <2>1, <2>2, <2>3, EventParts
<1>2. q \in Seq(Signals)
  BY DEF Sound, Typed
<1>3. c # w /\ c.name = "configure" /\ w.name = "wm_capabilities"
  BY DEF Event
<1>4. /\ proxy' = proxy /\ resource' = resource /\ toBridge' = toBridge /\ heard' = heard
      /\ toClient' = q \o Events("xdg_toplevel", ConfigureEvents)
                         \o Events("xdg_surface", <<"configure">>)
      /\ resource["xdg_toplevel"] # 0
  BY DEF EmitConfigure
<1>5. Events("xdg_surface", <<"configure">>) = <<s>>
  BY DEF Events
<1>6. Events("xdg_toplevel", ConfigureEvents) = IF old THEN <<w, c>> ELSE <<c>>
  <2>1. Events("xdg_toplevel", <<"wm_capabilities", "configure">>) = <<w, c>>
    BY DEF Events
  <2>2. Events("xdg_toplevel", <<"configure">>) = <<c>>
    BY DEF Events
  <2> HIDE DEF w, c
  <2> QED
    BY <2>1, <2>2 DEF ConfigureEvents
<1> HIDE DEF w, c, s
<1>7. toClient' = q \o r /\ r \in Seq(Signals)
  <2>1. <<w, c>> \in Seq(Signals) /\ <<c>> \in Seq(Signals) /\ <<s>> \in Seq(Signals)
    BY <1>1
  <2>2. <<w, c>> \o <<s>> = <<w, c, s>> /\ <<c>> \o <<s>> = <<c, s>>
    BY <1>1, OneAfterOne, OneAfterTwo
  <2>3. (q \o <<w, c>>) \o <<s>> = q \o (<<w, c>> \o <<s>>)
    BY <1>2, <2>1, ConcatAssociative
  <2>4. (q \o <<c>>) \o <<s>> = q \o (<<c>> \o <<s>>)
    BY <1>2, <2>1, ConcatAssociative
  <2>5. <<w, c, s>> \in Seq(Signals) /\ <<c, s>> \in Seq(Signals)
    BY <1>1, OneAfterOne, OneAfterTwo
  <2>6. CASE old
    BY <1>4, <1>5, <1>6, <2>2, <2>3, <2>5, <2>6
  <2>7. CASE ~old
    BY <1>4, <1>5, <1>6, <2>2, <2>4, <2>5, <2>7
  <2> QED
    BY <2>6, <2>7
<1>8. proxy["xdg_toplevel"] # 0 => proxy["xdg_toplevel"] = resource["xdg_toplevel"]
  <2>1. SameVersion("xdg_toplevel")
    BY <1>0 DEF Sound
  <2>2. MadeAt("xdg_toplevel") = 0
    BY DEF MadeAt
  <2> QED
    BY <1>4, <2>1, <2>2 DEF SameVersion, Will
<1>9. DOMAIN r = IF old THEN 1..3 ELSE 1..2
  OBVIOUS
<1>10. /\ old => r[1] = w /\ r[2] = c /\ r[3] = s
       /\ ~old => r[1] = c /\ r[2] = s
  OBVIOUS
<1> HIDE DEF r
<1>11. Configures'
  <2>1. ASSUME NEW k \in DOMAIN toClient'
        PROVE  Knows(k)' /\ Follows(k)'
    <3>1. CASE k \in DOMAIN toClient
      BY <1>4, <1>7, <3>1, AddedConfigures
    <3>2. CASE k \notin DOMAIN toClient
      <4> DEFINE x == k - Len(q)
      <4>1. /\ x \in DOMAIN r /\ toClient'[k] = r[x] /\ Len(q) \in Nat
            /\ k \in Nat
        BY <1>2, <1>7, <2>1, <3>2, ConcatIndices
      <4>2. \A y \in DOMAIN r : toClient'[Len(q) + y] = r[y]
        BY <1>2, <1>7, ConcatIndices
      <4>3. r[x] = w => old
        BY <1>1, <1>3, <1>9, <1>10, <4>1
      <4>4. Knows(k)'
        <5>1. (toClient[k])' = Event("xdg_toplevel", "wm_capabilities") => r[x] = w
          BY <4>1 DEF w
        <5>2. (proxy["xdg_toplevel"])' = proxy["xdg_toplevel"]
          BY <1>4
        <5> QED
          BY <1>8, <4>3, <5>1, <5>2 DEF Knows, Event
      <4>5. Follows(k)'
        <5>1. SUFFICES ASSUME toClient'[k].object = "xdg_surface", proxy["xdg_surface"] # 0,
                              proxy["xdg_toplevel"] # 0
                       PROVE  /\ k # 1 /\ toClient'[k - 1] = c
                              /\ proxy["xdg_toplevel"] >= 5 =>
                                   k \notin {1, 2} /\ toClient'[k - 2] = w
          BY <1>4 DEF Follows, Event, c, w
        <5>2. r[x] = s /\ x = IF old THEN 3 ELSE 2
          BY <1>1, <1>9, <1>10, <4>1, <5>1
        <5>3. CASE old
          <6>1. k = Len(q) + 3 /\ k - 1 = Len(q) + 2 /\ k - 2 = Len(q) + 1
            BY <4>1, <5>2, <5>3
          <6>2. 1 \in DOMAIN r /\ 2 \in DOMAIN r
            BY <1>9, <5>3
          <6>3. toClient'[k - 1] = c /\ toClient'[k - 2] = w
            BY <1>10, <4>2, <5>3, <6>1, <6>2
          <6> QED
            BY <4>1, <6>1, <6>3
        <5>4. CASE ~old
          <6>1. k = Len(q) + 2 /\ k - 1 = Len(q) + 1
            BY <4>1, <5>2, <5>4
          <6>2. 1 \in DOMAIN r
            BY <1>9
          <6>3. toClient'[k - 1] = c
            BY <1>10, <4>2, <5>4, <6>1, <6>2
          <6>4. ~(proxy["xdg_toplevel"] >= 5)
            BY <1>8, <5>1, <5>4
          <6> QED
            BY <4>1, <6>1, <6>3, <6>4
        <5> QED
          BY <5>3, <5>4
      <4> QED
        BY <4>4, <4>5
    <3> QED
      BY <3>1, <3>2
  <2> QED
    BY <2>1 DEF Configures
<1>12. \A k \in DOMAIN r : r[k].object # "feedback"
  BY <1>1, <1>9, <1>10
<1> QED
  BY <1>4, <1>7, <1>11, <1>12, SendKeeps

-----------------------------------------------------------------------------
(* The client binds a global                                               *)

LEMMA BindFacts ==
  ASSUME Sound, NEW g \in DOMAIN BindVersions, NEW v \in BindVersions[g], BindGlobal(g, v)
  PROVE  /\ g \in Interfaces /\ g \notin Made /\ MadeAt(g) = 0 /\ g # "" /\ Unused(g)
         /\ v \in 1..9 /\ (g = "dmabuf" => v <= 4)
         /\ g \notin {"feedback", "xdg_surface", "xdg_toplevel"}
         /\ proxy' = [proxy EXCEPT ![g] = v] /\ resource' = [resource EXCEPT ![g] = v]
         /\ toBridge' = toBridge /\ heard' = heard /\ trouble' = trouble
         /\ \E r \in Seq(Signals) : /\ toClient' = toClient \o r
                                    /\ \A k \in DOMAIN r : r[k].object = "wl_seat"
<1>1. g \in DOMAIN Advertised /\ v \in Nat /\ v # 0
  BY BindAssumption
<1>2. DOMAIN Advertised = {"wl_compositor", "wl_seat", "xdg_wm_base", "dmabuf"}
  BY DEF Advertised
<1>3. /\ Advertised["wl_compositor"] = 6 /\ Advertised["wl_seat"] = 9
      /\ Advertised["xdg_wm_base"] = 6 /\ Advertised["dmabuf"] = 4
  BY DEF Advertised
<1>4. v <= Advertised[g]
  BY DEF BindGlobal
<1>5. v \in 1..9 /\ (g = "dmabuf" => v <= 4)
  BY <1>1, <1>2, <1>3, <1>4
<1>6. g \notin Made /\ MadeAt(g) = 0 /\ g \notin {"feedback", "xdg_surface", "xdg_toplevel"}
  BY <1>1, <1>2 DEF Made, MadeAt
<1>7. g \in Interfaces /\ g # ""
  BY <1>1, <1>2, TheInterfaces DEF WlInterfaces, XdgInterfaces
<1>8. /\ proxy' = [proxy EXCEPT ![g] = v] /\ resource' = [resource EXCEPT ![g] = v]
      /\ toBridge' = toBridge /\ heard' = heard /\ trouble' = trouble /\ Unused(g)
  BY DEF BindGlobal
<1>9. toClient \in Seq(Signals)
  BY DEF Sound, Typed
<1>10. \E r \in Seq(Signals) : /\ toClient' = toClient \o r
                               /\ \A k \in DOMAIN r : r[k].object = "wl_seat"
  <2>1. CASE g = "wl_seat"
    <3> DEFINE e == Event("wl_seat", "capabilities")
    <3>1. "capabilities" \in Sent("wl_seat")
      BY DEF Sent
    <3>2. e \in Signals /\ e.object = "wl_seat"
      BY <1>7, <2>1, <3>1, EventParts
    <3>3. toClient' = Append(toClient, e)
      BY <2>1 DEF BindGlobal
    <3> HIDE DEF e
    <3>4. toClient' = toClient \o <<e>> /\ <<e>> \in Seq(Signals)
      BY <1>9, <3>2, <3>3, AppendIsConcat
    <3>5. \A k \in DOMAIN <<e>> : <<e>>[k].object = "wl_seat"
      BY <3>2
    <3> QED
      BY <3>4, <3>5
  <2>2. CASE g # "wl_seat"
    <3>1. toClient' = toClient
      BY <2>2 DEF BindGlobal
    <3>2. toClient' = toClient \o <<>> /\ <<>> \in Seq(Signals)
      BY <1>9, <3>1, ConcatEmptySeq
    <3>3. \A k \in DOMAIN <<>> : <<>>[k].object = "wl_seat"
      OBVIOUS
    <3> QED
      BY <3>2, <3>3
  <2> QED
    BY <2>1, <2>2
<1> QED
  BY <1>5, <1>6, <1>7, <1>8, <1>10

\* An object that is due is made by what is there or due itself.
LEMMA DueMaker ==
  ASSUME Typed, \A x \in Interfaces : Ordered(x), NEW j \in Interfaces, Due(j), resource[j] = 0
  PROVE  j \in Made /\ Has(toBridge, Asks(Maker(j))) /\ Due(Maker(j))
<1>1. j # ""
  BY Objects
<1>2. Has(toBridge, New(j)) /\ toBridge \in Seq(Requests)
  BY DEF Due, Typed
<1>3. j \in Made /\ Has(toBridge, Asks(Maker(j)))
  BY <1>1, <1>2, AsksSplit
<1>4. Maker(j) \in Interfaces
  BY <1>3, Objects
<1> QED
  BY <1>3, <1>4 DEF Ordered

LEMMA BindKeepsWill ==
  ASSUME Sound, NEW g \in DOMAIN BindVersions, NEW v \in BindVersions[g], BindGlobal(g, v),
         NEW j \in Interfaces, j # g, Due(j)
  PROVE  Will(j)' = Will(j)
<1>1. /\ g \in Interfaces /\ resource' = [resource EXCEPT ![g] = v] /\ Unused(g)
      /\ resource \in [Interfaces -> 0..9] /\ g # "xdg_surface"
      /\ toBridge \in Seq(Requests) /\ toClient \in Seq(Signals)
  BY BindFacts DEF Sound, Typed
<1>2. \A x \in Interfaces : x # g => resource'[x] = resource[x]
  BY <1>1
<1>3. ~Has(toBridge, Asks(g)) /\ ~Due(g)
  BY <1>1, UnusedMeans
<1>4. CASE MadeAt(j) # 0
  BY <1>4 DEF Will
<1>5. CASE MadeAt(j) = 0 /\ resource[j] # 0
  <2>1. (resource[j])' = resource[j]
    BY <1>2
  <2> QED
    BY <1>5, <2>1 DEF Will
<1>6. CASE MadeAt(j) = 0 /\ resource[j] = 0
  <2>1. j \in Made /\ Has(toBridge, Asks(Maker(j))) /\ Due(Maker(j)) /\ Maker(j) # g
    BY <1>3, <1>6, DueMaker DEF Sound
  <2>2. Maker(j) \in Interfaces /\ (resource[Maker(j)])' = resource[Maker(j)]
    BY <1>2, <2>1, Objects
  <2>3. (resource[j])' = 0
    BY <1>2, <1>6
  <2>4. j \in {"wl_surface", "xdg_positioner", "xdg_surface", "xdg_toplevel"}
    BY <1>6, <2>1, WillOf
  <2>5. CASE j = "wl_surface"
    <3>1. (resource["wl_compositor"])' = resource["wl_compositor"]
      BY <2>2, <2>5 DEF Maker
    <3> QED
      BY <1>6, <2>3, <2>5, <3>1 DEF Will
  <2>6. CASE j \in {"xdg_positioner", "xdg_surface"}
    <3>1. (resource["xdg_wm_base"])' = resource["xdg_wm_base"]
      BY <2>2, <2>6 DEF Maker
    <3> QED
      BY <1>6, <2>3, <2>6, <3>1 DEF Will
  <2>7. CASE j = "xdg_toplevel"
    <3>1. Maker(j) = "xdg_surface"
      BY <2>7 DEF Maker
    <3>2. (resource["xdg_surface"])' = resource["xdg_surface"]
      BY <2>2, <3>1
    <3>3. resource["xdg_surface"] = 0 => (resource["xdg_wm_base"])' = resource["xdg_wm_base"]
      <4>1. SUFFICES ASSUME resource["xdg_surface"] = 0
                     PROVE  (resource["xdg_wm_base"])' = resource["xdg_wm_base"]
        OBVIOUS
      <4>2. Has(toBridge, Asks(Maker("xdg_surface"))) /\ Maker("xdg_surface") \in Interfaces
        BY <2>1, <2>2, <3>1, <4>1, DueMaker, Objects DEF Sound
      <4>3. Maker("xdg_surface") = "xdg_wm_base"
        BY DEF Maker
      <4> QED
        BY <1>2, <1>3, <4>2, <4>3
    <3> QED
      BY <1>6, <2>3, <2>7, <3>2, <3>3 DEF Will
  <2> QED
    BY <2>4, <2>5, <2>6, <2>7
<1> QED
  BY <1>4, <1>5, <1>6

LEMMA BindKeeps ==
  ASSUME Sound, NEW g \in DOMAIN BindVersions, NEW v \in BindVersions[g], BindGlobal(g, v)
  PROVE  Sound'
<1>1. /\ g \in Interfaces /\ MadeAt(g) = 0 /\ Unused(g) /\ v \in 1..9
      /\ (g = "dmabuf" => v <= 4) /\ g \notin Made
      /\ g \notin {"feedback", "xdg_surface", "xdg_toplevel"}
      /\ proxy' = [proxy EXCEPT ![g] = v] /\ resource' = [resource EXCEPT ![g] = v]
      /\ toBridge' = toBridge /\ heard' = heard
  BY BindFacts
<1>2. PICK r \in Seq(Signals) : /\ toClient' = toClient \o r
                                /\ \A k \in DOMAIN r : r[k].object = "wl_seat"
  BY BindFacts
<1>3. /\ Typed /\ toBridge \in Seq(Requests) /\ toClient \in Seq(Signals)
      /\ proxy \in [Interfaces -> 0..9] /\ resource \in [Interfaces -> 0..9]
  BY DEF Sound, Typed
<1>4. /\ \A x \in Interfaces : x # g => proxy'[x] = proxy[x] /\ resource'[x] = resource[x]
      /\ proxy'[g] = v /\ resource'[g] = v
      /\ proxy' \in [Interfaces -> 0..9] /\ resource' \in [Interfaces -> 0..9]
  BY <1>1, <1>3
<1>5. Typed'
  <2>1. toClient' \in Seq(Signals)
    BY <1>2, <1>3, ConcatProperties
  <2> QED
    BY <1>1, <1>3, <1>4, <2>1 DEF Typed
<1>6. {"feedback", "xdg_surface", "xdg_toplevel"} \subseteq Interfaces
  BY TheInterfaces DEF XdgInterfaces
<1>7. FeedbackTold'
  <2>1. (proxy["feedback"])' = proxy["feedback"]
    BY <1>1, <1>4, <1>6
  <2>2. \A k \in DOMAIN r : r[k].object # "feedback"
    BY <1>2
  <2>3. Has(toBridge', New("feedback")) => Has(toBridge, New("feedback"))
    BY <1>1
  <2> QED
    BY <1>1, <1>2, <2>1, <2>2, <2>3, AddedTellsFeedback
<1>8. Configures'
  <2>1. (proxy["xdg_surface"])' = proxy["xdg_surface"]
    BY <1>1, <1>4, <1>6
  <2>2. (proxy["xdg_toplevel"])' = proxy["xdg_toplevel"]
    BY <1>1, <1>4, <1>6
  <2>3. \A k \in DOMAIN r : /\ r[k].object # "xdg_surface"
                            /\ r[k].object = "xdg_toplevel" => r[k].name # "wm_capabilities"
    BY <1>2
  <2> QED
    BY <1>1, <1>2, <2>1, <2>2, <2>3, AddedOthersConfigure
<1>9. /\ ~Has(toBridge, New(g)) /\ ~Has(toBridge, Asks(g)) /\ ~Has(toBridge, Enders(g))
      /\ ~Has(toBridge, Others(g))
  BY <1>1, <1>3, UnusedMeans
<1>10. ASSUME NEW j \in Interfaces
       PROVE  Ordered(j)' /\ (j # "wl_callback" => Shared(j)')
  <2>1. CASE j = g
    <3>1. (resource[j])' = v /\ v # 0 /\ (proxy[j])' = v
      BY <1>1, <1>4, <2>1
    <3>2. Ordered(j)'
      BY <1>1, <1>9, <2>1, <3>1 DEF Ordered, Due, Has, Once, Before
    <3>3. Shared(j)'
      BY <1>1, <1>9, <2>1, <3>1 DEF Shared, Due
    <3> QED
      BY <3>2, <3>3
  <2>2. CASE j # g
    <3>1. (resource[j])' = resource[j] /\ (proxy[j])' = proxy[j]
      BY <1>4, <2>2
    <3>2. Ordered(j) /\ (j # "wl_callback" => Shared(j))
      BY DEF Sound
    <3>3. Ordered(j)'
      BY <1>1, <3>1, <3>2 DEF Ordered, Due
    <3>4. j # "wl_callback" => Shared(j)'
      BY <1>1, <3>1, <3>2 DEF Shared, Due
    <3> QED
      BY <3>3, <3>4
  <2> QED
    BY <2>1, <2>2
<1>11. ASSUME NEW j \in Interfaces
       PROVE  SameVersion(j)'
  <2>1. CASE j = g
    <3>1. (resource[j])' = v /\ v # 0 /\ (proxy[j])' = v
      BY <1>1, <1>4, <2>1
    <3>2. Will(j)' = v
      BY <1>1, <2>1, <3>1 DEF Will
    <3>3. j \notin {"params", "feedback"}
      BY <1>1, <2>1 DEF Made
    <3> QED
      BY <1>1, <2>1, <3>1, <3>2, <3>3 DEF SameVersion
  <2>2. CASE j # g
    <3>1. (resource[j])' = resource[j] /\ (proxy[j])' = proxy[j]
      BY <1>4, <2>2
    <3>2. SameVersion(j) /\ (j # "wl_callback" => Shared(j))
      BY DEF Sound
    <3>3. proxy[j] # 0 /\ MadeAt(j) = 0 => Will(j)' = Will(j)
      <4>1. MadeAt(j) = 0 => j # "wl_callback"
        BY MadeAtTyped
      <4>2. proxy[j] # 0 /\ MadeAt(j) = 0 => Due(j)
        BY <3>2, <4>1 DEF Shared
      <4> QED
        BY <2>2, <4>2, BindKeepsWill
    <3> QED
      BY <3>1, <3>2, <3>3 DEF SameVersion
  <2> QED
    BY <2>1, <2>2
<1>12. OldEnough'
  <2>1. ASSUME NEW j \in Interfaces, Has(toBridge, Asks(j))
        PROVE  Will(j)' = Will(j)
    <3>1. Due(j) /\ j # g
      BY <1>9, <2>1 DEF Sound, Ordered
    <3> QED
      BY <3>1, BindKeepsWill
  <2>2. \A k \in DOMAIN toBridge :
          toBridge[k].object \in Interfaces /\ Has(toBridge, Asks(toBridge[k].object))
    <3>1. \A k \in DOMAIN toBridge : toBridge[k] \in Requests
      BY <1>3, LenProperties, ElementOfSeq
    <3> QED
      BY <3>1, RequestParts DEF Has, Asks
  <2> QED
    BY <1>1, <2>1, <2>2 DEF Sound, OldEnough, Since
<1> QED
  BY <1>5, <1>7, <1>8, <1>10, <1>11, <1>12 DEF Sound

-----------------------------------------------------------------------------
(* The client takes an event                                               *)

LEMMA EventFacts ==
  ASSUME Sound, DispatchEvent
  PROVE  LET e == Head(toClient)
             i == e.object
         IN  /\ Running /\ toClient \in Seq(Signals) /\ toClient # <<>> /\ e \in Signals
             /\ i \in Interfaces /\ e.name \in Sent(i) /\ proxy[i] \in 0..9
             /\ toClient' = Tail(toClient) /\ Tail(toClient) \in Seq(Signals)
             /\ toBridge' = toBridge /\ resource' = resource
             /\ \/ proxy' = proxy
                \/ i = "wl_callback" /\ proxy' = [proxy EXCEPT !["wl_callback"] = 0]
             /\ Tables[i].listener[e.code + 1] = e.name
             /\ proxy[i] = 0 => trouble' = trouble
<1> DEFINE e == Head(toClient)
           i == e.object
<1>1. /\ Running /\ toClient # <<>> /\ toClient' = Tail(toClient)
      /\ toBridge' = toBridge /\ resource' = resource
  BY DEF DispatchEvent
<1>2. toClient \in Seq(Signals) /\ proxy \in [Interfaces -> 0..9]
  BY DEF Sound, Typed
<1>3. e \in Signals /\ Tail(toClient) \in Seq(Signals)
  BY <1>1, <1>2, HeadAndTail
<1>4. i \in Interfaces /\ e.name \in Sent(i) /\ e.code = Tables[i].codes[e.name]
  BY <1>3, SignalParts
<1>5. \/ proxy' = proxy
      \/ i = "wl_callback" /\ proxy' = [proxy EXCEPT !["wl_callback"] = 0]
  BY DEF DispatchEvent
<1>6. proxy[i] = 0 => trouble' = trouble
  BY DEF DispatchEvent
<1> HIDE DEF e
<1>7. Tables[i].listener[e.code + 1] = e.name
  BY <1>4, TablesFit, SentKnown DEF EventsFit
<1>8. proxy[i] \in 0..9
  BY <1>2, <1>4
<1> QED
  BY <1>1, <1>2, <1>3, <1>4, <1>5, <1>6, <1>7, <1>8 DEF e

\* The client hears its object's batch.
LEMMA EventHeard ==
  ASSUME Sound, DispatchEvent, NEW b \in {"feedback", "xdg_surface"}
  PROVE  LET e == Head(toClient)
             i == e.object
         IN  /\ DOMAIN heard' = DOMAIN heard
             /\ proxy[i] = 0 => heard'[b] = heard[b]
             /\ proxy[i] # 0 =>
                  heard'[b] =
                    IF i \notin DOMAIN BatchOf \/ BatchOf[i] # b THEN heard[b]
                    ELSE IF i = b /\ e.name = BatchEnd[b] THEN {}
                    ELSE heard[b] \cup {e.name}
<1>1. DOMAIN heard = {"feedback", "xdg_surface"}
  BY DEF Sound, Typed
<1> QED
  BY <1>1 DEF DispatchEvent

\* Nothing is misrouted or incomplete, and only input devices of an old seat
\* are told what they do not know.
LEMMA EventTrouble ==
  ASSUME Sound, DispatchEvent, trouble' # {}
  PROVE  LET i == Head(toClient).object
         IN  /\ trouble' = {Trouble("unknown", i, proxy[i])}
             /\ i \in {"wl_pointer", "wl_keyboard"} /\ proxy[i] < 8
<1> DEFINE e == Head(toClient)
           i == e.object
           ran == Tables[i].listener[e.code + 1]
           q == toClient
<1>1. /\ Running /\ q \in Seq(Signals) /\ q # <<>> /\ e \in Signals
      /\ i \in Interfaces /\ e.name \in Sent(i) /\ proxy[i] \in 0..9
      /\ ran = e.name /\ proxy[i] # 0
  BY EventFacts DEF Running
<1>2. trouble' = CASE ran # e.name -> {Trouble("misrouted", i, proxy[i])}
                   [] SinceIn(Tables[i].since, ran) > proxy[i] ->
                        {Trouble("unknown", i, proxy[i])}
                   [] ~Complete(e) -> {Trouble("incomplete", i, proxy[i])}
                   [] OTHER -> {}
  BY <1>1 DEF DispatchEvent
<1>3. 1 \in DOMAIN q /\ q[1] = e
  BY <1>1, HeadAndTail
<1> HIDE DEF e, q, ran
<1>4. SinceIn(Tables[i].since, e.name) > proxy[i] =>
        i \in {"wl_pointer", "wl_keyboard"} /\ proxy[i] < 8
  <2>1. SinceIn(Tables[i].since, e.name) \in 1..8
    BY <1>1, SinceTyped
  <2>2. CASE i \in {"wl_pointer", "wl_keyboard"}
    BY <1>1, <2>1, <2>2
  <2>3. CASE i \notin {"wl_pointer", "wl_keyboard"}
    <3>1. SinceIn(Tables[i].since, e.name) =
            IF i = "xdg_toplevel" /\ e.name = "wm_capabilities" THEN 5 ELSE 1
      BY <1>1, <2>3, OldMessages
    <3>2. i = "xdg_toplevel" /\ e.name = "wm_capabilities" => proxy[i] >= 5
      <4>1. e = Event(i, e.name)
        BY <1>1, SignalParts
      <4>2. Knows(1)
        BY <1>3 DEF Sound, Configures, q
      <4> QED
        BY <1>1, <1>3, <4>1, <4>2 DEF Knows, q
    <3> QED
      BY <1>1, <3>1, <3>2
  <2> QED
    BY <2>2, <2>3
<1>5. Complete(e)
  <2>1. CASE i = "feedback"
    <3>1. ASSUME NEW n \in {"tranche_done", "done"}, e.name = n, NEW m \in Needs(n)
          PROVE  m \in heard["feedback"]
      <4>1. Comes(m, n)
        BY <1>1, <2>1 DEF Sound, FeedbackTold
      <4>2. e \in Signal("feedback", n)
        BY <1>1, <2>1, <3>1 DEF Signal
      <4>3. Has(toClient, Signal("feedback", n))
        BY <1>3, <4>2 DEF Has, q
      <4>4. ~Ahead(toClient, Signal("feedback", m), Signal("feedback", n))
        BY <1>1, <4>2, AheadTail DEF q, e
      <4> QED
        BY <4>1, <4>3, <4>4 DEF Comes
    <3>2. e.name = "tranche_done" =>
            {"tranche_target_device", "tranche_flags", "tranche_formats"}
               \subseteq heard["feedback"]
      BY <3>1 DEF Needs
    <3>3. e.name = "done" =>
            {"format_table", "main_device", "tranche_done"} \subseteq heard["feedback"]
      <4>1. e.name = "done" => \A m \in Needs("done") : m \in heard["feedback"]
        BY <3>1
      <4>2. Needs("done") = {"format_table", "main_device", "tranche_done"}
        BY DEF Needs
      <4> QED
        BY <4>1, <4>2
    <3> QED
      BY <2>1, <3>2, <3>3 DEF Complete
  <2>2. CASE i = "xdg_surface"
    <3>1. Follows(1)
      BY <1>3 DEF Sound, Configures, q
    <3>2. proxy["xdg_toplevel"] # 0 =>
            /\ "configure" \in heard["xdg_surface"]
            /\ proxy["xdg_toplevel"] >= 5 => "wm_capabilities" \in heard["xdg_surface"]
      BY <1>1, <1>3, <2>2, <3>1 DEF Follows, q
    <3> QED
      BY <2>2, <3>2 DEF Complete
  <2>3. CASE i \notin {"feedback", "xdg_surface"}
    BY <2>3 DEF Complete
  <2> QED
    BY <2>1, <2>2, <2>3
<1>6. SinceIn(Tables[i].since, e.name) > proxy[i]
  BY <1>1, <1>2, <1>5
<1>7. trouble' = {Trouble("unknown", i, proxy[i])}
  BY <1>1, <1>2, <1>5, <1>6
<1> QED
  BY <1>4, <1>6, <1>7 DEF e

LEMMA EventTellsFeedback ==
  ASSUME Sound, DispatchEvent
  PROVE  FeedbackTold'
<1> DEFINE e == Head(toClient)
           i == e.object
           q == toClient
           done == Signal("feedback", "done")
<1>1. /\ q \in Seq(Signals) /\ q # <<>> /\ e \in Signals /\ i \in Interfaces
      /\ toClient' = Tail(q) /\ toBridge' = toBridge
      /\ \/ proxy' = proxy
         \/ i = "wl_callback" /\ proxy' = [proxy EXCEPT !["wl_callback"] = 0]
  BY EventFacts
<1>2. FeedbackTold /\ proxy \in [Interfaces -> 0..9]
  BY DEF Sound, Typed
<1>3. proxy'["feedback"] = proxy["feedback"]
  BY <1>1, <1>2, TheInterfaces DEF XdgInterfaces
<1>4. \A X : Has(Tail(q), X) => Has(q, X)
  BY <1>1, HasTail
<1>5. Once(Tail(q), done) /\ (e \in done => ~Has(Tail(q), done))
  BY <1>1, <1>2, OnceTail DEF FeedbackTold
<1>6. /\ Before(Tail(q), Signal("feedback", "tranche_done"), done)
      /\ e \in done => ~Has(Tail(q), Signal("feedback", "tranche_done"))
  <2>1. Before(q, Signal("feedback", "tranche_done"), done)
    BY <1>2 DEF FeedbackTold
  <2>2. /\ Before(Tail(q), Signal("feedback", "tranche_done"), done)
        /\ e \in done => ~Has(q, Signal("feedback", "tranche_done"))
    BY <1>1, <2>1, BeforeTail
  <2> QED
    BY <1>4, <2>2
<1>7. ASSUME proxy["feedback"] # 0, NEW n \in {"tranche_done", "done"}, NEW m \in Needs(n)
      PROVE  Comes(m, n)'
  <2>1. Comes(m, n)
    BY <1>2, <1>7 DEF FeedbackTold
  <2>2. \/ m \in heard["feedback"] \/ ~Has(Tail(q), Signal("feedback", n))
        \/ e \in Signal("feedback", m)
        \/ Ahead(Tail(q), Signal("feedback", m), Signal("feedback", n))
    BY <1>1, <1>4, <2>1, AheadTail DEF Comes
  <2>3. CASE i # "feedback"
    <3>1. heard'["feedback"] = heard["feedback"]
      BY <2>3, EventHeard DEF BatchOf
    <3>2. e \notin Signal("feedback", m)
      BY <2>3 DEF Signal
    <3> QED
      BY <1>1, <2>2, <3>1, <3>2 DEF Comes
  <2>4. CASE i = "feedback" /\ e.name = "done"
    <3>1. e \in done
      BY <1>1, <2>4 DEF Signal
    <3>2. ~Has(Tail(q), Signal("feedback", n))
      BY <1>5, <1>6, <3>1
    <3> QED
      BY <1>1, <3>2 DEF Comes
  <2>5. CASE i = "feedback" /\ e.name # "done"
    <3>1. heard'["feedback"] = heard["feedback"] \cup {e.name}
      BY <1>7, <2>5, EventHeard DEF BatchOf, BatchEnd
    <3>2. e \in Signal("feedback", m) => e.name = m
      BY DEF Signal
    <3> QED
      BY <1>1, <2>2, <3>1, <3>2 DEF Comes
  <2> QED
    BY <2>3, <2>4, <2>5
<1>8. (proxy["feedback"])' # 0 =>
        \A n \in {"tranche_done", "done"} : \A m \in Needs(n) : Comes(m, n)'
  BY <1>3, <1>7
<1>9. Has(toBridge', New("feedback")) => ~Has(toClient', Signed("feedback"))
  BY <1>1, <1>2, <1>4 DEF FeedbackTold
<1> QED
  BY <1>1, <1>5, <1>6, <1>8, <1>9 DEF FeedbackTold

LEMMA EventConfigures ==
  ASSUME Sound, DispatchEvent
  PROVE  Configures'
<1> DEFINE e == Head(toClient)
           i == e.object
           q == toClient
           top == proxy["xdg_toplevel"]
<1>1. /\ q \in Seq(Signals) /\ q # <<>> /\ e \in Signals /\ i \in Interfaces
      /\ toClient' = Tail(q)
      /\ \/ proxy' = proxy
         \/ i = "wl_callback" /\ proxy' = [proxy EXCEPT !["wl_callback"] = 0]
  BY EventFacts
<1>2. Configures /\ proxy \in [Interfaces -> 0..9]
  BY DEF Sound, Typed
<1>3. (proxy["xdg_toplevel"])' = top /\ (proxy["xdg_surface"])' = proxy["xdg_surface"]
  <2>1. {"xdg_surface", "xdg_toplevel"} \subseteq Interfaces
    BY TheInterfaces DEF XdgInterfaces
  <2>2. proxy'["xdg_toplevel"] = top
    BY <1>1, <1>2, <2>1
  <2>3. proxy'["xdg_surface"] = proxy["xdg_surface"]
    BY <1>1, <1>2, <2>1
  <2> QED
    BY <2>2, <2>3
<1>4. /\ q[1] = e /\ 1 \in DOMAIN q
      /\ DOMAIN q = 1..Len(q) /\ Len(q) \in Nat /\ DOMAIN Tail(q) = 1..(Len(q) - 1)
      /\ \A k \in DOMAIN Tail(q) : Tail(q)[k] = q[k + 1]
  BY <1>1, HeadAndTail
<1>5. e = Event(i, e.name)
  BY <1>1, SignalParts
<1>6. ASSUME i = "xdg_toplevel", top # 0
      PROVE  heard'["xdg_surface"] = heard["xdg_surface"] \cup {e.name}
  BY <1>6, EventHeard DEF BatchOf, BatchEnd
<1> HIDE DEF e
<1>7. ASSUME NEW k \in DOMAIN Tail(q)
      PROVE  Knows(k)' /\ Follows(k)'
  <2>1. /\ k \in Nat /\ k + 1 \in DOMAIN q /\ (toClient[k])' = q[k + 1] /\ k + 1 # 1
        /\ k >= 1
    BY <1>1, <1>4
  <2>2. Knows(k + 1) /\ Follows(k + 1)
    BY <1>2, <2>1 DEF Configures
  <2>3. Knows(k)'
    <3>1. q[k + 1] = Event("xdg_toplevel", "wm_capabilities") /\ top # 0 => top >= 5
      BY <2>2 DEF Knows
    <3>2. (toClient[k])' = Event("xdg_toplevel", "wm_capabilities")
            => q[k + 1] = Event("xdg_toplevel", "wm_capabilities")
      BY <2>1
    <3> QED
      BY <1>3, <3>1, <3>2 DEF Knows, Event
  <2>4. Follows(k)'
    <3>1. SUFFICES ASSUME q[k + 1].object = "xdg_surface", proxy["xdg_surface"] # 0, top # 0
                   PROVE  /\ k = 1 => "configure" \in heard'["xdg_surface"]
                          /\ k # 1 => toClient'[k - 1] = Event("xdg_toplevel", "configure")
                          /\ top >= 5 =>
                               /\ k \in {1, 2} => "wm_capabilities" \in heard'["xdg_surface"]
                               /\ k \notin {1, 2} =>
                                    toClient'[k - 2] = Event("xdg_toplevel", "wm_capabilities")
      BY <1>3, <2>1 DEF Follows, Event
    <3>2. /\ q[k] = Event("xdg_toplevel", "configure")
          /\ top >= 5 => /\ k + 1 = 2 => "wm_capabilities" \in heard["xdg_surface"]
                         /\ k + 1 # 2 => q[k - 1] = Event("xdg_toplevel", "wm_capabilities")
      <4>1. /\ q[(k + 1) - 1] = Event("xdg_toplevel", "configure")
            /\ top >= 5 =>
                 /\ k + 1 \in {1, 2} => "wm_capabilities" \in heard["xdg_surface"]
                 /\ k + 1 \notin {1, 2} =>
                      q[(k + 1) - 2] = Event("xdg_toplevel", "wm_capabilities")
        BY <2>1, <2>2, <3>1 DEF Follows
      <4>2. (k + 1) - 1 = k /\ (k + 1) - 2 = k - 1
        BY <2>1
      <4> QED
        BY <2>1, <4>1, <4>2
    <3>3. \A n : Event("xdg_toplevel", n).object = "xdg_toplevel"
                 /\ Event("xdg_toplevel", n).name = n
      BY DEF Event
    <3>4. CASE k = 1
      <4>1. i = "xdg_toplevel" /\ e.name = "configure"
        BY <1>4, <3>2, <3>3, <3>4
      <4>2. heard'["xdg_surface"] = heard["xdg_surface"] \cup {"configure"}
        BY <1>6, <3>1, <4>1
      <4> QED
        BY <3>2, <3>4, <4>2
    <3>5. CASE k # 1
      <4>1. k - 1 \in DOMAIN Tail(q) /\ toClient'[k - 1] = q[k]
        <5>1. k - 1 \in DOMAIN Tail(q) /\ (k - 1) + 1 = k
          BY <1>4, <2>1, <3>5
        <5>2. Tail(q)[k - 1] = q[(k - 1) + 1]
          BY <1>4, <5>1
        <5> QED
          BY <1>1, <5>1, <5>2
      <4>2. ASSUME top >= 5, k = 2
            PROVE  "wm_capabilities" \in heard'["xdg_surface"]
        <5>1. q[1] = Event("xdg_toplevel", "wm_capabilities")
          BY <3>2, <4>2
        <5>2. i = "xdg_toplevel" /\ e.name = "wm_capabilities"
          BY <1>4, <3>3, <5>1
        <5> QED
          BY <1>6, <3>1, <5>2
      <4>3. ASSUME top >= 5, k # 2
            PROVE  toClient'[k - 2] = Event("xdg_toplevel", "wm_capabilities")
        <5>1. k - 2 \in DOMAIN Tail(q) /\ (k - 2) + 1 = k - 1 /\ k + 1 # 2
          BY <1>4, <2>1, <3>5, <4>3
        <5>2. Tail(q)[k - 2] = q[(k - 2) + 1]
          BY <1>4, <5>1
        <5>3. q[k - 1] = Event("xdg_toplevel", "wm_capabilities")
          BY <3>2, <4>3, <5>1
        <5> QED
          BY <1>1, <5>1, <5>2, <5>3
      <4> QED
        BY <3>2, <3>5, <4>1, <4>2, <4>3
    <3> QED
      BY <3>4, <3>5
  <2> QED
    BY <2>3, <2>4
<1> QED
  BY <1>1, <1>7 DEF Configures

LEMMA EventKeeps ==
  ASSUME Sound, DispatchEvent
  PROVE  Sound'
<1> DEFINE e == Head(toClient)
           i == e.object
<1>1. /\ toClient' \in Seq(Signals) /\ toBridge' = toBridge /\ resource' = resource
      /\ \/ proxy' = proxy
         \/ i = "wl_callback" /\ proxy' = [proxy EXCEPT !["wl_callback"] = 0]
  BY EventFacts
<1>2. Typed /\ proxy \in [Interfaces -> 0..9]
  BY DEF Sound, Typed
<1>3. /\ proxy' \in [Interfaces -> 0..9]
      /\ \A j \in Interfaces : proxy'[j] = proxy[j] \/ (j = "wl_callback" /\ proxy'[j] = 0)
  BY <1>1, <1>2
<1>4. DOMAIN heard' = DOMAIN heard
  BY EventHeard
<1>5. Typed'
  BY <1>1, <1>2, <1>3, <1>4 DEF Typed
<1>6. \A j : Will(j)' = Will(j)
  BY <1>1 DEF Will
<1>7. ASSUME NEW j \in Interfaces
      PROVE  Ordered(j)' /\ SameVersion(j)' /\ (j # "wl_callback" => Shared(j)')
  <2>1. Ordered(j) /\ SameVersion(j) /\ (j # "wl_callback" => Shared(j))
    BY DEF Sound
  <2>2. (proxy[j])' = proxy[j] \/ (j = "wl_callback" /\ (proxy[j])' = 0)
    BY <1>3
  <2>3. (resource[j])' = resource[j]
    BY <1>1
  <2>4. Ordered(j)'
    BY <1>1, <2>1, <2>3 DEF Ordered, Due
  <2>5. j # "wl_callback" => Shared(j)'
    BY <1>1, <2>1, <2>2, <2>3 DEF Shared, Due
  <2>6. SameVersion(j)'
    <3>1. CASE (proxy[j])' = proxy[j]
      BY <1>6, <2>1, <2>3, <3>1 DEF SameVersion
    <3>2. CASE j = "wl_callback" /\ (proxy[j])' = 0
      BY <2>1, <2>3, <3>2 DEF SameVersion
    <3> QED
      BY <2>2, <3>1, <3>2
  <2> QED
    BY <2>4, <2>5, <2>6
<1>8. OldEnough'
  BY <1>1, <1>6 DEF Sound, OldEnough, Since
<1> QED
  BY <1>5, <1>7, <1>8, EventTellsFeedback, EventConfigures DEF Sound

-----------------------------------------------------------------------------
(* The bridge takes a request                                              *)

\* The object of the next request is there, of a version that is new enough.
LEMMA RequestFound ==
  ASSUME Sound, DispatchRequest
  PROVE  LET r == Head(toBridge)
             i == r.object
             n == r.name
         IN  /\ Running /\ toBridge \in Seq(Requests) /\ toBridge # <<>>
             /\ toClient \in Seq(Signals)
             /\ r \in Requests /\ r = RequestOf(i, n) /\ i \in Interfaces
             /\ n \in DOMAIN Tables[i].opcodes
             /\ toBridge' = Tail(toBridge) /\ Tail(toBridge) \in Seq(Requests)
             /\ proxy' = proxy /\ heard' = heard
             /\ i # "wl_callback" /\ resource[i] # 0 /\ ~Has(toBridge, New(i))
             /\ Field(i, r.opcode) = n
             /\ i \notin {"xdg_popup", "wl_touch"} => Accepts(i, r.opcode)
<1> DEFINE r == Head(toBridge)
           i == r.object
           n == r.name
           q == toBridge
<1>1. /\ Running /\ q # <<>> /\ toBridge' = Tail(q) /\ proxy' = proxy /\ heard' = heard
  BY DEF DispatchRequest
<1>2. Typed /\ q \in Seq(Requests) /\ toClient \in Seq(Signals) /\ resource \in [Interfaces -> 0..9]
  BY DEF Sound, Typed
<1>3. /\ r \in Requests /\ Tail(q) \in Seq(Requests) /\ r = RequestOf(i, n)
      /\ i \in Interfaces /\ n \in DOMAIN Tables[i].opcodes
  BY <1>1, <1>2, HeadRequest
<1>4. /\ 1 \in DOMAIN q /\ q[1] = r
  BY <1>1, <1>2, HeadAndTail
<1>5. r.opcode = Tables[i].opcodes[n] /\ i # "wl_callback"
  BY <1>3, RequestParts, NoneAsked
<1> HIDE DEF r, q
<1>6. r \in Asks(i)
  BY <1>3 DEF Asks
<1>7. Ordered(i) /\ SameVersion(i)
  BY <1>3 DEF Sound
<1>8. ~Has(q, New(i))
  BY <1>1, <1>2, <1>6, <1>7, BeforeTail DEF Ordered, q, r
<1>9. Has(q, Asks(i))
  BY <1>4, <1>6 DEF Has
<1>10. resource[i] # 0
  BY <1>7, <1>8, <1>9 DEF Ordered, Due, q
<1>11. LET c == Tables[i].opcodes[n]
       IN  /\ c < Len(Tables[i].messages.requests)
           /\ Tables[i].messages.requests[c + 1].since = SinceIn(Tables[i].since, n)
           /\ Tables[i].handlers[c + 1] = n
  BY <1>3, TablesFit DEF RequestsFit
<1>12. Field(i, r.opcode) = n
  BY <1>5, <1>11 DEF Field
<1>13. i \notin {"xdg_popup", "wl_touch"} => Accepts(i, r.opcode)
  <2>1. Will(i) = resource[i]
    BY <1>7, <1>10 DEF SameVersion, Will
  <2>2. i \notin {"xdg_popup", "wl_touch"} => SinceIn(Tables[i].since, n) <= Will(i)
    BY <1>4 DEF Sound, OldEnough, Since, q
  <2> QED
    BY <1>5, <1>11, <2>1, <2>2 DEF Accepts
<1> QED
  BY <1>1, <1>2, <1>3, <1>5, <1>8, <1>10, <1>12, <1>13 DEF r, q

LEMMA CreateRejects == "create" \in DOMAIN Impl["params"] /\ Impl["params"]["create"] = Rejects
<1> DEFINE f == [destroy |-> Destroys, create_immed |-> Makes("wl_buffer", 1, <<>>),
                 create |-> Rejects]
<1>1. DOMAIN f = {"destroy", "create_immed", "create"} /\ f["create"] = Rejects
  OBVIOUS
<1>2. Impl["params"] = With(f, Idle({"add", "set_sampling_device"}))
  BY DEF Impl, ParamsImpl
<1> HIDE DEF f
<1> QED
  BY <1>1, <1>2 DEF With, Idle

LEMMA RejectsField ==
  ASSUME NEW i, NEW n
  PROVE  Rejects.rejects = TRUE /\ EffectOf(i, n).rejects = FALSE
<1>1. \A a, b, c, d : Does(a, b, c, d).rejects = FALSE
  BY DEF Does
<1>2. Rejects.rejects = TRUE
  BY DEF Rejects, Nothing, Does
<1> QED
  BY <1>1, <1>2 DEF EffectOf

\* Popups and touch devices have no handlers; every other request has, and the
\* handler does to the bridge's objects what the stub did to the client's, or
\* turns the client down.
LEMMA RequestHandled ==
  ASSUME Sound, DispatchRequest
  PROVE  LET r == Head(toBridge)
             i == r.object
         IN  /\ i \in {"xdg_popup", "wl_touch"} =>
                  \E w \in {"refused", "no implementation"} : trouble' = {Trouble(w, i, proxy[i])}
             /\ i \notin {"xdg_popup", "wl_touch"} =>
                  IF Rejected(i, r.name) THEN trouble' = {Trouble("rejected", i, proxy[i])}
                  ELSE trouble' = {} /\ Handle(i, EffectOf(i, r.name))
<1> DEFINE r == Head(toBridge)
           i == r.object
           n == r.name
           p == proxy[i]
<1>1. /\ i \in Interfaces /\ n \in DOMAIN Tables[i].opcodes /\ i # "wl_callback"
      /\ Field(i, r.opcode) = n
      /\ i \notin {"xdg_popup", "wl_touch"} => Accepts(i, r.opcode)
  BY RequestFound
<1>2. trouble' =
        CASE ~Accepts(i, r.opcode) -> {Trouble("refused", i, p)}
          [] Accepts(i, r.opcode) /\ Impl[i] = NoImplementation ->
               {Trouble("no implementation", i, p)}
          [] OTHER -> IF Field(i, r.opcode) # r.name THEN {Trouble("misrouted", i, p)}
                      ELSE IF Impl[i][r.name].rejects THEN {Trouble("rejected", i, p)} ELSE {}
  BY DEF DispatchRequest
<1>3. trouble' = {} => Handle(i, Impl[i][Field(i, r.opcode)])
  BY DEF DispatchRequest
<1> HIDE DEF r
<1>4. CASE i \in {"xdg_popup", "wl_touch"}
  <2>1. Impl[i] = NoImplementation
    BY <1>4 DEF Impl
  <2>2. \E w \in {"refused", "no implementation"} : trouble' = {Trouble(w, i, p)}
    <3>1. CASE ~Accepts(i, r.opcode)
      <4>1. trouble' = {Trouble("refused", i, p)}
        BY <1>2, <3>1
      <4> QED
        BY <4>1
    <3>2. CASE Accepts(i, r.opcode)
      <4>1. trouble' = {Trouble("no implementation", i, p)}
        BY <1>2, <2>1, <3>2
      <4> QED
        BY <4>1
    <3> QED
      BY <3>1, <3>2
  <2> QED
    BY <1>4, <2>2 DEF r
<1>5. CASE i \notin {"xdg_popup", "wl_touch"}
  <2>1. i \in Interfaces /\ i \notin Unimplemented
    BY <1>1, <1>5 DEF Unimplemented
  <2>2. n \in DOMAIN Impl[i] /\ Impl[i][n] = IF Rejected(i, n) THEN Rejects ELSE EffectOf(i, n)
    BY <1>1, <2>1, Effects, CreateRejects DEF Rejected
  <2>3. Impl[i] # NoImplementation
    BY <2>2 DEF NoImplementation
  <2>4. trouble' = IF Impl[i][n].rejects THEN {Trouble("rejected", i, p)} ELSE {}
    BY <1>1, <1>2, <1>5, <2>3
  <2>5. Impl[i][n].rejects <=> Rejected(i, n)
    BY <2>2, RejectsField
  <2>6. CASE Rejected(i, n)
    BY <1>5, <2>4, <2>5, <2>6 DEF r
  <2>7. CASE ~Rejected(i, n)
    <3>1. trouble' = {}
      BY <2>4, <2>5, <2>7
    <3>2. Handle(i, EffectOf(i, n))
      BY <1>1, <1>3, <2>2, <2>7, <3>1
    <3> QED
      BY <1>5, <2>7, <3>1, <3>2 DEF r
  <2> QED
    BY <2>6, <2>7
<1> QED
  BY <1>4, <1>5

\* What the handler leaves.
LEMMA RequestFacts ==
  ASSUME Sound, DispatchRequest, trouble' = {}
  PROVE  LET r == Head(toBridge)
             i == r.object
             n == r.name
             new == NewOf(Tables[i].stubs, n)
         IN  /\ r.new = new
             /\ new # "" => /\ new \in Made /\ Maker(new) = i /\ new # i /\ new \in Interfaces
                            /\ n \notin Tables[i].stubs.ends
             /\ resource' = [j \in Interfaces |->
                               IF j = new THEN IF MadeAt(new) = 0 THEN resource[i] ELSE MadeAt(new)
                               ELSE IF j = i /\ n \in Tables[i].stubs.ends THEN 0
                               ELSE resource[j]]
             /\ toClient' = toClient \o IF new = "" THEN <<>> ELSE Events(new, Told(new))
             /\ \A j : /\ r \in New(j) <=> new = j
                       /\ r \in Enders(j) <=> i = j /\ n \in Tables[i].stubs.ends
                       /\ r \in Others(j) <=> i = j /\ n \notin Tables[i].stubs.ends
<1> DEFINE r == Head(toBridge)
           i == r.object
           n == r.name
           new == NewOf(Tables[i].stubs, n)
<1>1. /\ i \in Interfaces /\ n \in DOMAIN Tables[i].opcodes /\ r = RequestOf(i, n)
  BY RequestFound
<1>2. Handle(i, EffectOf(i, n))
  <2>1. \A w : {Trouble(w, i, proxy[i])} # {}
    OBVIOUS
  <2> QED
    BY <2>1, RequestHandled
<1> HIDE DEF r
<1>3. new # "" => new \in Made /\ Maker(new) = i /\ n \notin Tables[i].stubs.ends
  BY <1>1, StubMakes
<1>4. r.new = new
  BY <1>1, Kinds
<1>5. \A j : /\ r \in New(j) <=> new = j
             /\ r \in Enders(j) <=> i = j /\ n \in Tables[i].stubs.ends
             /\ r \in Others(j) <=> i = j /\ n \notin Tables[i].stubs.ends
  <2> SUFFICES ASSUME NEW j
               PROVE  /\ r \in New(j) <=> new = j
                      /\ r \in Enders(j) <=> i = j /\ n \in Tables[i].stubs.ends
                      /\ r \in Others(j) <=> i = j /\ n \notin Tables[i].stubs.ends
    OBVIOUS
  <2> DEFINE x == RequestOf(i, n)
  <2>1. /\ x \in New(j) <=> x.new = j
        /\ x \in Enders(j) <=> i = j /\ n \in Tables[i].stubs.ends
        /\ x \in Others(j) <=> i = j /\ n \notin Tables[i].stubs.ends
    BY <1>1, Kinds
  <2>2. x = r
    BY <1>1
  <2> HIDE DEF x
  <2> QED
    BY <1>4, <2>1, <2>2
<1> HIDE DEF new
<1>6. EffectOf(i, n) = Does(n \in Tables[i].stubs.ends, new, MadeAt(new), Told(new))
  BY DEF EffectOf, new
<1> DEFINE ends == n \in Tables[i].stubs.ends
<1> HIDE DEF ends
<1>7. /\ EffectOf(i, n).makes = new /\ EffectOf(i, n).version = MadeAt(new)
      /\ EffectOf(i, n).tells = Told(new) /\ EffectOf(i, n).ends = ends
  <2>1. \A a, b, c, d : /\ Does(a, b, c, d).ends = a /\ Does(a, b, c, d).makes = b
                        /\ Does(a, b, c, d).version = c /\ Does(a, b, c, d).tells = d
    BY DEF Does
  <2>2. EffectOf(i, n) = Does(ends, new, MadeAt(new), Told(new))
    BY <1>6 DEF ends
  <2> QED
    BY <2>1, <2>2
<1>8. resource' = [j \in Interfaces |->
                     IF j = new THEN IF MadeAt(new) = 0 THEN resource[i] ELSE MadeAt(new)
                     ELSE IF j = i /\ ends THEN 0
                     ELSE resource[j]]
  BY <1>2, <1>7 DEF Handle
<1>9. toClient' = toClient \o IF new = "" THEN <<>> ELSE Events(new, Told(new))
  BY <1>2, <1>7 DEF Handle
<1>10. new # "" => new # i /\ new \in Interfaces
  BY <1>3, Objects DEF new
<1> QED
  BY <1>3, <1>4, <1>5, <1>8, <1>9, <1>10 DEF r, new, ends

\* One object at a time: what is made was due already, and what is due stays
\* due but for what the request ends.
LEMMA RequestDue ==
  ASSUME Sound, DispatchRequest, trouble' = {}, NEW j \in Interfaces
  PROVE  LET r == Head(toBridge)
             new == NewOf(Tables[r.object].stubs, r.name)
         IN  /\ Due(j)' <=> Due(j) /\ r \notin Enders(j)
             /\ j = new => resource[j] = 0 /\ ~Has(Tail(toBridge), New(j)) /\ Due(j)
             /\ j # new => (Has(Tail(toBridge), New(j)) <=> Has(toBridge, New(j)))
             /\ j = new => resource'[j] = IF MadeAt(j) = 0 THEN resource[r.object] ELSE MadeAt(j)
             /\ j = new => resource'[j] # 0
             /\ j # new => resource'[j] = IF r \in Enders(j) THEN 0 ELSE resource[j]
<1> DEFINE r == Head(toBridge)
           i == r.object
           n == r.name
           new == NewOf(Tables[i].stubs, n)
           q == toBridge
<1>1. /\ q \in Seq(Requests) /\ q # <<>> /\ toBridge' = Tail(q)
      /\ resource[i] # 0 /\ ~Has(q, New(i))
  BY RequestFound
<1>2. /\ new # "" => new # i
      /\ resource' = [x \in Interfaces |->
                        IF x = new THEN IF MadeAt(new) = 0 THEN resource[i] ELSE MadeAt(new)
                        ELSE IF x = i /\ n \in Tables[i].stubs.ends THEN 0
                        ELSE resource[x]]
  BY RequestFacts
<1>3. /\ r \in New(j) <=> new = j
      /\ r \in Enders(j) <=> i = j /\ n \in Tables[i].stubs.ends
  BY RequestFacts
<1>4. Ordered(j) /\ j # ""
  BY Objects DEF Sound
<1> HIDE DEF new, r
<1>5. Has(q, New(j)) <=> r \in New(j) \/ Has(Tail(q), New(j))
  BY <1>1, HasTail DEF r
<1>6. r \in New(j) => ~Has(Tail(q), New(j))
  BY <1>1, <1>4, OnceTail DEF Ordered, r
<1>7. j = new => resource[j] = 0 /\ ~Has(Tail(q), New(j)) /\ Due(j)
  BY <1>3, <1>4, <1>5, <1>6 DEF Ordered, Due
<1>8. j # new => (Has(Tail(q), New(j)) <=> Has(q, New(j)))
  BY <1>3, <1>5
<1>9. j = new => resource'[j] = IF MadeAt(j) = 0 THEN resource[i] ELSE MadeAt(j)
  BY <1>2
<1>10. j = new => resource'[j] # 0
  BY <1>1, <1>9
<1>11. j # new => resource'[j] = IF r \in Enders(j) THEN 0 ELSE resource[j]
  BY <1>2, <1>3
<1>12. Due(j)' <=> Due(j) /\ r \notin Enders(j)
  <2>1. CASE j = new
    <3>1. (resource[j])' # 0
      BY <1>10, <2>1
    <3>2. r \notin Enders(j)
      BY <1>2, <1>3, <1>4, <2>1
    <3> QED
      BY <1>7, <2>1, <3>1, <3>2 DEF Due
  <2>2. CASE j # new /\ r \in Enders(j)
    <3>1. (resource[j])' = 0 /\ ~Has(Tail(q), New(j))
      BY <1>1, <1>3, <1>8, <1>11, <2>2
    <3> QED
      BY <1>1, <2>2, <3>1 DEF Due
  <2>3. CASE j # new /\ r \notin Enders(j)
    <3>1. (resource[j])' = resource[j]
      BY <1>11, <2>3
    <3> QED
      BY <1>1, <1>8, <2>3, <3>1 DEF Due
  <2> QED
    BY <2>1, <2>2, <2>3
<1> QED
  BY <1>7, <1>8, <1>9, <1>10, <1>11, <1>12 DEF r, new

LEMMA RequestOrders ==
  ASSUME Sound, DispatchRequest, trouble' = {}, NEW j \in Interfaces
  PROVE  Ordered(j)' /\ (j # "wl_callback" => Shared(j)')
<1> DEFINE r == Head(toBridge)
           new == NewOf(Tables[r.object].stubs, r.name)
           q == toBridge
<1>1. /\ q \in Seq(Requests) /\ q # <<>> /\ toBridge' = Tail(q) /\ Tail(q) \in Seq(Requests)
      /\ proxy' = proxy
  BY RequestFound
<1>2. /\ Due(j)' <=> Due(j) /\ r \notin Enders(j)
      /\ j = new => ~Has(Tail(q), New(j))
      /\ j # new => (Has(Tail(q), New(j)) <=> Has(q, New(j)))
      /\ j # new => (resource[j])' = IF r \in Enders(j) THEN 0 ELSE resource[j]
  BY RequestDue
<1>3. Ordered(j) /\ (j # "wl_callback" => Shared(j))
  BY DEF Sound
<1> HIDE DEF new
<1>4. \A X : Has(Tail(q), X) => Has(q, X)
  BY <1>1, HasTail
<1>5. /\ Once(Tail(q), New(j)) /\ Once(Tail(q), Enders(j))
      /\ r \in Enders(j) => ~Has(Tail(q), Enders(j))
  <2>1. Once(q, New(j)) /\ Once(q, Enders(j))
    BY <1>3 DEF Ordered
  <2>2. Once(Tail(q), New(j))
    BY <1>1, <2>1, OnceTail
  <2>3. Once(Tail(q), Enders(j)) /\ (r \in Enders(j) => ~Has(Tail(q), Enders(j)))
    BY <1>1, <2>1, OnceTail
  <2> QED
    BY <2>2, <2>3
<1>6. /\ Before(Tail(q), New(j), Asks(j)) /\ Before(Tail(q), Others(j), Enders(j))
      /\ r \in Enders(j) => ~Has(q, Others(j))
  <2>1. Before(q, New(j), Asks(j)) /\ Before(q, Others(j), Enders(j))
    BY <1>3 DEF Ordered
  <2>2. Before(Tail(q), New(j), Asks(j))
    BY <1>1, <2>1, BeforeTail
  <2>3. Before(Tail(q), Others(j), Enders(j)) /\ (r \in Enders(j) => ~Has(q, Others(j)))
    BY <1>1, <2>1, BeforeTail
  <2> QED
    BY <2>2, <2>3
<1>7. Has(Tail(q), Asks(j)) => Due(j)'
  <2>1. r \in Enders(j) => ~Has(Tail(q), Asks(j))
    BY <1>1, <1>4, <1>5, <1>6, AsksSplit
  <2> QED
    BY <1>2, <1>3, <1>4, <2>1 DEF Ordered
<1>8. Has(Tail(q), New(j)) => (resource[j])' = 0
  BY <1>2, <1>3, <1>4 DEF Ordered
<1>9. Ordered(j)'
  BY <1>1, <1>5, <1>6, <1>7, <1>8 DEF Ordered
<1>10. j # "wl_callback" => Shared(j)'
  <2>1. SUFFICES ASSUME j # "wl_callback"
                 PROVE  Shared(j)'
    OBVIOUS
  <2>2. Has(q, Enders(j)) <=> r \in Enders(j) \/ Has(Tail(q), Enders(j))
    BY <1>1, HasTail
  <2>3. (proxy[j])' = proxy[j]
    BY <1>1
  <2>4. proxy[j] # 0 => Due(j)' /\ ~Has(Tail(q), Enders(j))
    BY <1>2, <1>3, <2>1, <2>2 DEF Shared
  <2>5. proxy[j] = 0 /\ Due(j)' => Has(Tail(q), Enders(j))
    BY <1>2, <1>3, <2>1, <2>2 DEF Shared
  <2> QED
    BY <1>1, <2>3, <2>4, <2>5 DEF Shared
<1> QED
  BY <1>9, <1>10

\* What is made has the version that was to come.
LEMMA RequestWill ==
  ASSUME Sound, DispatchRequest, trouble' = {}, NEW j \in Interfaces, Due(j)'
  PROVE  Will(j)' = Will(j)
<1> DEFINE r == Head(toBridge)
           i == r.object
           new == NewOf(Tables[r.object].stubs, r.name)
           q == toBridge
           t == Tail(toBridge)
<1>1. q \in Seq(Requests) /\ toBridge' = t /\ t \in Seq(Requests) /\ i \in Interfaces
      /\ resource[i] # 0
  BY RequestFound
<1>2. new # "" => new \in Made /\ Maker(new) = i
  BY RequestFacts
<1>3. ASSUME NEW x \in Interfaces
      PROVE  /\ x = new => /\ resource[x] = 0 /\ ~Has(t, New(x))
                           /\ MadeAt(x) = 0 => resource'[x] = resource[i]
             /\ x # new => resource'[x] = resource[x] \/ ~Due(x)'
             /\ Has(t, Asks(x)) => Due(x)'
  <2>1. /\ Due(x)' <=> Due(x) /\ r \notin Enders(x)
        /\ x = new => resource[x] = 0 /\ ~Has(t, New(x))
        /\ x = new => resource'[x] = IF MadeAt(x) = 0 THEN resource[i] ELSE MadeAt(x)
        /\ x # new => resource'[x] = IF r \in Enders(x) THEN 0 ELSE resource[x]
    BY RequestDue
  <2>2. Has(t, Asks(x)) => Due(x)'
    BY <1>1, RequestOrders DEF Ordered
  <2> HIDE DEF new, r
  <2> QED
    BY <2>1, <2>2
<1> HIDE DEF new, r
<1>4. ASSUME NEW x \in Interfaces, Due(x)', resource'[x] = 0
      PROVE  /\ x \in Made /\ Maker(x) \in Interfaces /\ Due(Maker(x))'
             /\ x # new /\ resource[x] = 0
  <2>1. Has(t, New(x)) /\ x # ""
    BY <1>1, <1>4, Objects DEF Due
  <2>2. x \in Made /\ Has(t, Asks(Maker(x)))
    BY <1>1, <2>1, AsksSplit
  <2>3. Maker(x) \in Interfaces
    BY <2>2, Objects
  <2>4. Due(Maker(x))'
    BY <1>3, <2>2, <2>3
  <2>5. x # new /\ resource[x] = 0
    BY <1>3, <1>4, <2>1
  <2> QED
    BY <2>2, <2>3, <2>4, <2>5
<1>5. ASSUME NEW x \in Interfaces, x \notin Made, Due(x)'
      PROVE  resource'[x] = resource[x]
  <2>1. x # new
    BY <1>2, <1>5, Objects
  <2> QED
    BY <1>3, <1>5, <2>1
<1>6. CASE MadeAt(j) # 0
  BY <1>6 DEF Will
<1>7. CASE MadeAt(j) = 0 /\ resource'[j] # 0 /\ j # new
  <2>1. (resource[j])' = resource[j] /\ resource[j] # 0
    BY <1>3, <1>7
  <2> QED
    BY <1>7, <2>1 DEF Will
<1>8. CASE MadeAt(j) = 0 /\ j = new
  <2>1. /\ (resource[j])' = resource[i] /\ resource[j] = 0
        /\ j \in Made /\ Maker(j) = i
    BY <1>2, <1>3, <1>8, Objects
  <2>2. Will(j)' = resource[i]
    BY <1>1, <1>8, <2>1 DEF Will
  <2>3. j \in {"wl_surface", "xdg_positioner", "xdg_surface", "xdg_toplevel"}
    BY <1>8, <2>1, WillOf
  <2>4. CASE j # "xdg_toplevel"
    <3>1. Will(j) = resource[Maker(j)]
      BY <1>8, <2>1, <2>3, <2>4, WillOf
    <3> QED
      BY <2>1, <2>2, <3>1
  <2>5. CASE j = "xdg_toplevel"
    <3>1. i = "xdg_surface"
      BY <2>1, <2>5 DEF Maker
    <3>2. Will(j) = resource["xdg_surface"]
      BY <1>1, <1>8, <2>1, <2>5, <3>1, WillOf
    <3> QED
      BY <2>2, <3>1, <3>2
  <2> QED
    BY <2>4, <2>5
<1>9. CASE MadeAt(j) = 0 /\ resource'[j] = 0 /\ j # new
  <2>1. j \in Made /\ Maker(j) \in Interfaces /\ Due(Maker(j))' /\ resource[j] = 0
    BY <1>4, <1>9
  <2>2. j \in {"wl_surface", "xdg_positioner", "xdg_surface", "xdg_toplevel"}
    BY <1>9, <2>1, WillOf
  <2>3. (resource[j])' = 0
    BY <1>9
  <2>4. CASE j = "wl_surface"
    <3>1. Maker(j) = "wl_compositor" /\ "wl_compositor" \notin Made
      BY <2>4 DEF Maker, Made
    <3>2. (resource["wl_compositor"])' = resource["wl_compositor"]
      BY <1>5, <2>1, <3>1
    <3> QED
      BY <1>9, <2>1, <2>3, <2>4, <3>2 DEF Will
  <2>5. CASE j \in {"xdg_positioner", "xdg_surface"}
    <3>1. Maker(j) = "xdg_wm_base" /\ "xdg_wm_base" \notin Made
      BY <2>5 DEF Maker, Made
    <3>2. (resource["xdg_wm_base"])' = resource["xdg_wm_base"]
      BY <1>5, <2>1, <3>1
    <3> QED
      BY <1>9, <2>1, <2>3, <2>5, <3>2 DEF Will
  <2>6. CASE j = "xdg_toplevel"
    <3> DEFINE s == "xdg_surface"
               b == "xdg_wm_base"
    <3>1. Maker(j) = s /\ Maker(s) = b /\ b \notin Made /\ MadeAt(s) = 0
      BY <2>6 DEF Maker, Made, MadeAt
    <3>2. s \in Interfaces /\ Due(s)'
      BY <2>1, <3>1
    <3>3. Will(j) = IF resource[s] # 0 THEN resource[s] ELSE resource[b]
      BY <1>9, <2>1, <2>6, WillOf
    <3>4. Will(j)' = IF (resource[s])' # 0 THEN (resource[s])' ELSE (resource[b])'
      BY <1>9, <2>3, <2>6 DEF Will
    <3>5. CASE s = new
      <4>1. resource[s] = 0 /\ (resource[s])' = resource[i]
        BY <1>3, <3>1, <3>2, <3>5
      <4>2. i = b
        BY <1>2, <3>1, <3>5
      <4> QED
        BY <1>1, <3>3, <3>4, <4>1, <4>2
    <3>6. CASE s # new
      <4>1. (resource[s])' = resource[s]
        BY <1>3, <3>2, <3>6
      <4>2. ASSUME resource[s] = 0
            PROVE  (resource[b])' = resource[b]
        <5>1. Maker(s) \in Interfaces /\ Due(Maker(s))'
          BY <1>4, <3>2, <4>1, <4>2
        <5>2. b \in Interfaces /\ Due(b)'
          BY <3>1, <5>1
        <5> QED
          BY <1>5, <3>1, <5>2
      <4> QED
        BY <3>3, <3>4, <4>1, <4>2
    <3> QED
      BY <3>5, <3>6
  <2> QED
    BY <2>2, <2>4, <2>5, <2>6
<1> QED
  BY <1>6, <1>7, <1>8, <1>9

\* What a new object is told.
LEMMA EventsTyped ==
  ASSUME NEW i \in Interfaces, NEW names \in Seq(Sent(i))
  PROVE  /\ Events(i, names) \in Seq(Signals) /\ DOMAIN Events(i, names) = DOMAIN names
         /\ \A k \in DOMAIN names : /\ Events(i, names)[k].object = i
                                    /\ Events(i, names)[k].name = names[k]
<1>1. Len(names) \in Nat /\ DOMAIN names = 1..Len(names)
  BY LenProperties
<1>2. \A k \in 1..Len(names) : Event(i, names[k]) \in Signals
  BY EventParts, ElementOfSeq
<1>3. Events(i, names) = [k \in 1..Len(names) |-> Event(i, names[k])]
  BY <1>1 DEF Events
<1>4. [k \in 1..Len(names) |-> Event(i, names[k])] \in Seq(Signals)
  BY <1>1, <1>2, IsASeq
<1>5. \A n : Event(i, n).object = i /\ Event(i, n).name = n
  BY DEF Event
<1> QED
  BY <1>1, <1>3, <1>4, <1>5

LEMMA ToldTyped ==
  ASSUME NEW j \in Made
  PROVE  Told(j) \in Seq(Sent(j)) /\ (j \in {"xdg_surface", "xdg_toplevel"} => Told(j) = <<>>)
<1>1. CASE j = "wl_keyboard"
  BY <1>1 DEF Told, Sent
<1>2. CASE j = "feedback"
  BY <1>2 DEF Told, Sent, FeedbackBatch
<1>3. CASE j \notin {"wl_keyboard", "feedback"}
  BY <1>3 DEF Told
<1> QED
  BY <1>1, <1>2, <1>3

\* The bridge's answer to a request.
LEMMA RequestTells ==
  ASSUME Sound, DispatchRequest, trouble' = {}
  PROVE  LET r == Head(toBridge)
             new == NewOf(Tables[r.object].stubs, r.name)
         IN  \E a \in Seq(Signals) :
               /\ toClient' = toClient \o a
               /\ \A k \in DOMAIN a : /\ a[k].object = new
                                      /\ new \notin {"xdg_surface", "xdg_toplevel"}
               /\ new = "feedback" => a = Events("feedback", FeedbackBatch)
<1> DEFINE r == Head(toBridge)
           new == NewOf(Tables[r.object].stubs, r.name)
<1>1. /\ new # "" => new \in Made /\ new \in Interfaces
      /\ toClient' = toClient \o IF new = "" THEN <<>> ELSE Events(new, Told(new))
  BY RequestFacts
<1> HIDE DEF new, r
<1>2. CASE new = ""
  <2>1. toClient' = toClient \o <<>>
    BY <1>1, <1>2
  <2>2. \A k \in DOMAIN <<>> : /\ <<>>[k].object = new
                               /\ new \notin {"xdg_surface", "xdg_toplevel"}
    OBVIOUS
  <2>3. <<>> \in Seq(Signals)
    OBVIOUS
  <2>4. new # "feedback"
    BY <1>2
  <2> QED
    BY <2>1, <2>2, <2>3, <2>4 DEF new, r
<1>3. CASE new # ""
  <2> DEFINE a == Events(new, Told(new))
  <2>1. /\ Told(new) \in Seq(Sent(new))
        /\ (new \in {"xdg_surface", "xdg_toplevel"} => Told(new) = <<>>)
    BY <1>1, <1>3, ToldTyped
  <2>2. /\ a \in Seq(Signals) /\ DOMAIN a = DOMAIN Told(new)
        /\ \A k \in DOMAIN Told(new) : a[k].object = new
    BY <1>1, <1>3, <2>1, EventsTyped
  <2>3. toClient' = toClient \o a
    BY <1>1, <1>3
  <2>4. new = "feedback" => a = Events("feedback", FeedbackBatch)
    BY DEF Told
  <2> HIDE DEF a
  <2>5. \A k \in DOMAIN a : /\ a[k].object = new
                            /\ new \notin {"xdg_surface", "xdg_toplevel"}
    BY <2>1, <2>2
  <2> QED
    BY <2>2, <2>3, <2>4, <2>5 DEF new, r
<1> QED
  BY <1>2, <1>3

\* The batch has each of its parts once, what ends a part behind it.
LEMMA BatchOrder ==
  LET a == Events("feedback", FeedbackBatch)
      done == Signal("feedback", "done")
  IN  /\ a \in Seq(Signals) /\ Once(a, done) /\ Before(a, Signal("feedback", "tranche_done"), done)
      /\ \A n \in {"tranche_done", "done"} : \A m \in Needs(n) :
           Ahead(a, Signal("feedback", m), Signal("feedback", n))
<1> DEFINE a == Events("feedback", FeedbackBatch)
           b == FeedbackBatch
<1>0. "feedback" \in Interfaces
  BY TheInterfaces DEF XdgInterfaces
<1>1. b \in Seq(Sent("feedback"))
  BY DEF FeedbackBatch, Sent
<1>2. /\ a \in Seq(Signals) /\ DOMAIN a = DOMAIN b
      /\ \A k \in DOMAIN b : a[k].object = "feedback" /\ a[k].name = b[k]
  BY <1>0, <1>1, EventsTyped
<1>3. /\ DOMAIN b = 1..7 /\ b[1] = "format_table" /\ b[2] = "main_device"
      /\ b[3] = "tranche_target_device" /\ b[4] = "tranche_flags" /\ b[5] = "tranche_formats"
      /\ b[6] = "tranche_done" /\ b[7] = "done"
  BY DEF FeedbackBatch
<1> HIDE DEF a, b
<1>4. \A n : \A k \in DOMAIN a : a[k] \in Signal("feedback", n) <=> b[k] = n
  BY <1>2, ElementOfSeq, LenProperties DEF Signal
<1>5. Once(a, Signal("feedback", "done"))
  BY <1>2, <1>3, <1>4 DEF Once
<1>6. Before(a, Signal("feedback", "tranche_done"), Signal("feedback", "done"))
  BY <1>2, <1>3, <1>4 DEF Before
<1>7. ASSUME NEW m \in {"tranche_target_device", "tranche_flags", "tranche_formats"}
      PROVE  Ahead(a, Signal("feedback", m), Signal("feedback", "tranche_done"))
  <2>1. \E k \in 1..5 : b[k] = m
    BY <1>3
  <2>2. \A j \in DOMAIN a : a[j] \in Signal("feedback", "tranche_done") => j = 6
    BY <1>2, <1>3, <1>4
  <2> QED
    BY <1>2, <1>3, <1>4, <2>1, <2>2 DEF Ahead
<1>8. ASSUME NEW m \in {"format_table", "main_device", "tranche_done"}
      PROVE  Ahead(a, Signal("feedback", m), Signal("feedback", "done"))
  <2>1. \E k \in 1..6 : b[k] = m
    BY <1>3
  <2>2. \A j \in DOMAIN a : a[j] \in Signal("feedback", "done") => j = 7
    BY <1>2, <1>3, <1>4
  <2> QED
    BY <1>2, <1>3, <1>4, <2>1, <2>2 DEF Ahead
<1>9. ASSUME NEW n \in {"tranche_done", "done"}, NEW m \in Needs(n)
      PROVE  Ahead(a, Signal("feedback", m), Signal("feedback", n))
  BY <1>7, <1>8, <1>9 DEF Needs
<1> QED
  BY <1>2, <1>5, <1>6, <1>9 DEF a

LEMMA RequestTellsFeedback ==
  ASSUME Sound, DispatchRequest, trouble' = {}
  PROVE  FeedbackTold'
<1> DEFINE r == Head(toBridge)
           new == NewOf(Tables[r.object].stubs, r.name)
           fb == "feedback"
           q == toClient
<1>1. /\ toBridge' = Tail(toBridge) /\ proxy' = proxy /\ heard' = heard /\ q \in Seq(Signals)
  BY RequestFound
<1>2. PICK a \in Seq(Signals) : /\ toClient' = q \o a
                                /\ \A k \in DOMAIN a : a[k].object = new
                                /\ new = fb => a = Events(fb, FeedbackBatch)
  BY RequestTells
<1>3. fb \in Interfaces
  BY TheInterfaces DEF XdgInterfaces
<1>4. /\ new = fb => ~Has(Tail(toBridge), New(fb)) /\ resource[fb] = 0 /\ Due(fb)
      /\ new # fb => (Has(Tail(toBridge), New(fb)) <=> Has(toBridge, New(fb)))
  BY <1>3, RequestDue
<1> HIDE DEF new, r
<1>5. CASE new # fb
  <2>1. \A k \in DOMAIN a : a[k].object # fb
    BY <1>2, <1>5
  <2>2. Has(toBridge', New(fb)) => Has(toBridge, New(fb))
    BY <1>1, <1>4, <1>5
  <2>3. (proxy[fb])' = proxy[fb]
    BY <1>1
  <2> QED
    BY <1>1, <1>2, <2>1, <2>2, <2>3, AddedTellsFeedback
<1>6. CASE new = fb
  <2>1. ~Has(q, Signed(fb))
    <3>1. Has(toBridge, New(fb))
      BY <1>4, <1>6 DEF Due
    <3> QED
      BY <3>1 DEF Sound, FeedbackTold
  <2>2. \A n : ~Has(q, Signal(fb, n))
    BY <2>1 DEF Has, Signed, Signal
  <2>3. /\ Once(a, Signal(fb, "done"))
        /\ Before(a, Signal(fb, "tranche_done"), Signal(fb, "done"))
        /\ \A n \in {"tranche_done", "done"} : \A m \in Needs(n) :
             Ahead(a, Signal(fb, m), Signal(fb, n))
    BY <1>2, <1>6, BatchOrder
  <2>4. Once(q \o a, Signal(fb, "done"))
    <3>1. Once(q, Signal(fb, "done"))
      BY <2>2 DEF Once, Has
    <3> QED
      BY <1>1, <2>2, <2>3, <3>1, OnceConcat
  <2>5. Before(q \o a, Signal(fb, "tranche_done"), Signal(fb, "done"))
    <3>1. Before(q, Signal(fb, "tranche_done"), Signal(fb, "done"))
      BY <2>2 DEF Before, Has
    <3> QED
      BY <1>1, <2>2, <2>3, <3>1, BeforeConcat
  <2>6. ASSUME NEW n \in {"tranche_done", "done"}, NEW m \in Needs(n)
        PROVE  Comes(m, n)'
    <3>1. Ahead(a, Signal(fb, m), Signal(fb, n))
      BY <2>3
    <3>2. Ahead(q \o a, Signal(fb, m), Signal(fb, n))
      BY <1>1, <2>2, <3>1, AheadAdded
    <3> QED
      BY <1>2, <3>2 DEF Comes
  <2> QED
    BY <1>1, <1>2, <1>4, <1>6, <2>4, <2>5, <2>6 DEF FeedbackTold
<1> QED
  BY <1>5, <1>6

LEMMA RequestConfigures ==
  ASSUME Sound, DispatchRequest, trouble' = {}
  PROVE  Configures'
<1> DEFINE r == Head(toBridge)
           new == NewOf(Tables[r.object].stubs, r.name)
<1>1. proxy' = proxy /\ heard' = heard
  BY RequestFound
<1>2. PICK a \in Seq(Signals) : /\ toClient' = toClient \o a
                                /\ \A k \in DOMAIN a :
                                     /\ a[k].object = new
                                     /\ new \notin {"xdg_surface", "xdg_toplevel"}
  BY RequestTells
<1>3. (proxy["xdg_surface"])' = proxy["xdg_surface"]
  BY <1>1
<1>4. (proxy["xdg_toplevel"])' = proxy["xdg_toplevel"]
  BY <1>1
<1> HIDE DEF new
<1>5. \A k \in DOMAIN a : /\ a[k].object # "xdg_surface"
                          /\ a[k].object = "xdg_toplevel" => a[k].name # "wm_capabilities"
  BY <1>2
<1> QED
  BY <1>1, <1>2, <1>3, <1>4, <1>5, AddedOthersConfigure

LEMMA RequestKeeps ==
  ASSUME Sound, DispatchRequest, trouble' = {}
  PROVE  Sound'
<1> DEFINE r == Head(toBridge)
           i == r.object
           new == NewOf(Tables[r.object].stubs, r.name)
           q == toBridge
<1>1. /\ q \in Seq(Requests) /\ q # <<>> /\ toBridge' = Tail(q) /\ Tail(q) \in Seq(Requests)
      /\ proxy' = proxy /\ heard' = heard /\ toClient \in Seq(Signals) /\ i \in Interfaces
  BY RequestFound
<1>2. Typed /\ resource \in [Interfaces -> 0..9]
  BY DEF Sound, Typed
<1>3. Typed'
  <2>1. toClient' \in Seq(Signals)
    <3>1. PICK a \in Seq(Signals) : toClient' = toClient \o a
      BY RequestTells
    <3> QED
      BY <1>1, <3>1, ConcatProperties
  <2>2. resource' = [j \in Interfaces |->
                       IF j = new THEN IF MadeAt(new) = 0 THEN resource[i] ELSE MadeAt(new)
                       ELSE IF j = i /\ r.name \in Tables[i].stubs.ends THEN 0
                       ELSE resource[j]]
    BY RequestFacts
  <2> HIDE DEF new, r
  <2>3. MadeAt(new) \in 0..9
    BY MadeAtTyped
  <2>4. resource' \in [Interfaces -> 0..9]
    BY <1>1, <1>2, <2>2, <2>3
  <2> QED
    BY <1>1, <1>2, <2>1, <2>4 DEF Typed
<1>4. ASSUME NEW j \in Interfaces
      PROVE  SameVersion(j)'
  <2>1. SameVersion(j) /\ (j # "wl_callback" => Shared(j))
    BY DEF Sound
  <2>2. proxy[j] # 0 /\ MadeAt(j) = 0 => Will(j)' = Will(j)
    <3>1. SUFFICES ASSUME proxy[j] # 0, MadeAt(j) = 0
                   PROVE  Will(j)' = Will(j)
      OBVIOUS
    <3>2. j # "wl_callback"
      BY <3>1, MadeAtTyped
    <3>3. Due(j) /\ ~Has(q, Enders(j))
      BY <2>1, <3>1, <3>2 DEF Shared
    <3>4. r \notin Enders(j)
      BY <1>1, <3>3, HasTail
    <3>5. Due(j)'
      BY <3>3, <3>4, RequestDue
    <3> QED
      BY <3>5, RequestWill
  <2>3. MadeAt(j) # 0 => (resource[j])' \in {0, MadeAt(j)}
    <3>1. /\ j = new => resource'[j] = IF MadeAt(j) = 0 THEN resource[i] ELSE MadeAt(j)
          /\ j # new => resource'[j] = IF r \in Enders(j) THEN 0 ELSE resource[j]
      BY RequestDue
    <3> HIDE DEF new, r
    <3> QED
      BY <2>1, <3>1 DEF SameVersion
  <2>4. (proxy[j])' = proxy[j]
    BY <1>1
  <2> QED
    BY <2>1, <2>2, <2>3, <2>4 DEF SameVersion
<1>5. OldEnough'
  <2>1. ASSUME NEW k \in DOMAIN Tail(q)
        PROVE  /\ k + 1 \in DOMAIN q /\ Tail(q)[k] = q[k + 1]
               /\ Tail(q)[k].object \in Interfaces /\ Has(Tail(q), Asks(Tail(q)[k].object))
    <3>1. Tail(q)[k] \in Requests
      BY <1>1, LenProperties, ElementOfSeq
    <3>2. k + 1 \in DOMAIN q /\ Tail(q)[k] = q[k + 1]
      BY <1>1, HeadAndTail
    <3>3. Tail(q)[k].object \in Interfaces
      BY <3>1, RequestParts
    <3>4. Tail(q)[k] \in Asks(Tail(q)[k].object)
      BY <3>1 DEF Asks
    <3> QED
      BY <3>2, <3>3, <3>4 DEF Has
  <2>2. ASSUME NEW j \in Interfaces, Has(Tail(q), Asks(j))
        PROVE  Will(j)' = Will(j)
    <3>1. Due(j)'
      BY <1>1, <2>2, RequestOrders DEF Ordered
    <3> QED
      BY <3>1, RequestWill
  <2>3. OldEnough
    BY DEF Sound
  <2> QED
    BY <1>1, <2>1, <2>2, <2>3 DEF OldEnough, Since
<1>6. \A j \in Interfaces : Ordered(j)' /\ (j # "wl_callback" => Shared(j)')
  BY RequestOrders
<1> QED
  BY <1>3, <1>4, <1>5, <1>6, RequestTellsFeedback, RequestConfigures DEF Sound

-----------------------------------------------------------------------------
(* The theorems                                                            *)

LEMMA WireInit ==
  ASSUME Init
  PROVE  WireInv
<1>1. /\ proxy = [i \in Interfaces |-> 0] /\ resource = [i \in Interfaces |-> 0]
      /\ toBridge = <<>> /\ toClient = <<>> /\ trouble = {}
      /\ heard = [i \in DOMAIN BatchEnd |-> {}]
  BY DEF Init
<1>2. Typed
  <2>1. DOMAIN BatchEnd = {"feedback", "xdg_surface"}
    BY DEF BatchEnd
  <2> QED
    BY <1>1, <2>1 DEF Typed
<1>3. \A X : ~Has(<<>>, X) /\ Once(<<>>, X)
  BY HasOne
<1>4. \A X, Y : Before(<<>>, X, Y)
  BY DEF Before
<1>5. ASSUME NEW j \in Interfaces
      PROVE  Ordered(j) /\ SameVersion(j) /\ Shared(j)
  <2>1. proxy[j] = 0 /\ resource[j] = 0
    BY <1>1
  <2>2. ~Due(j)
    BY <1>1, <1>3, <2>1 DEF Due
  <2>3. Ordered(j)
    BY <1>1, <1>3, <1>4, <2>1 DEF Ordered
  <2>4. SameVersion(j)
    BY <2>1 DEF SameVersion
  <2>5. Shared(j)
    BY <2>1, <2>2 DEF Shared
  <2> QED
    BY <2>3, <2>4, <2>5
<1>6. OldEnough /\ Configures
  BY <1>1 DEF OldEnough, Configures
<1>7. FeedbackTold
  <2>1. proxy["feedback"] = 0
    BY <1>1, TheInterfaces DEF XdgInterfaces
  <2> QED
    BY <1>1, <1>3, <1>4, <2>1 DEF FeedbackTold
<1>8. Routed /\ Allowed /\ EventsUnderstood
  BY <1>1 DEF Routed, Allowed, EventsUnderstood, Is
<1>9. Sound
  BY <1>2, <1>5, <1>6, <1>7 DEF Sound
<1> QED
  BY <1>8, <1>9 DEF WireInv

\* What can go wrong with an object.
LEMMA TroubleAllowed ==
  ASSUME NEW i, NEW v, NEW what,
         \/ what \in {"refused", "no implementation"} /\ i \in {"xdg_popup", "wl_touch"}
         \/ what = "rejected" /\ i = "params"
         \/ what = "unknown" /\ i \in {"wl_pointer", "wl_keyboard"} /\ v < 8,
         trouble' = {Trouble(what, i, v)}
  PROVE  WireInv'
<1>1. /\ Trouble(what, i, v).what = what /\ Trouble(what, i, v).object = i
      /\ Trouble(what, i, v).version = v
  BY DEF Trouble
<1>2. \A w : Is(w)' = IF w = what THEN {Trouble(what, i, v)} ELSE {}
  BY <1>1 DEF Is
<1>3. Routed' /\ Allowed' /\ EventsUnderstood'
  <2>1. Routed'
    BY <1>2 DEF Routed
  <2>2. Allowed'
    BY <1>1, <1>2 DEF Allowed
  <2>3. EventsUnderstood'
    BY <1>1, <1>2 DEF EventsUnderstood
  <2> QED
    BY <2>1, <2>2, <2>3
<1>4. ~Running'
  BY DEF Running
<1> QED
  BY <1>3, <1>4 DEF WireInv

LEMMA NoTrouble ==
  ASSUME trouble' = {}, Sound'
  PROVE  WireInv'
BY DEF WireInv, Routed, Allowed, EventsUnderstood, Is

\* One step keeps the invariant.
LEMMA WireStep ==
  ASSUME WireInv, Next
  PROVE  WireInv'
<1>1. ASSUME NEW g \in DOMAIN BindVersions, NEW v \in BindVersions[g], BindGlobal(g, v)
      PROVE  WireInv'
  <2>1. Running /\ trouble' = trouble
    BY <1>1 DEF BindGlobal
  <2>2. Sound
    BY <2>1 DEF WireInv
  <2> QED
    BY <1>1, <2>1, <2>2, BindKeeps, NoTrouble DEF Running
<1>2. ASSUME NEW i \in Interfaces, NEW n \in DOMAIN Tables[i].opcodes, CallStub(i, n)
      PROVE  WireInv'
  BY <1>2, CallKeeps
<1>3. CASE DispatchEvent
  <2>1. Sound
    BY <1>3 DEF DispatchEvent, WireInv
  <2>2. CASE trouble' = {}
    BY <1>3, <2>1, <2>2, EventKeeps, NoTrouble
  <2>3. CASE trouble' # {}
    BY <1>3, <2>1, <2>3, EventTrouble, TroubleAllowed
  <2> QED
    BY <2>2, <2>3
<1>4. CASE DispatchRequest
  <2>1. Sound
    BY <1>4 DEF DispatchRequest, WireInv
  <2>2. CASE trouble' = {}
    BY <1>4, <2>1, <2>2, RequestKeeps, NoTrouble
  <2>3. CASE trouble' # {}
    BY <1>4, <2>1, <2>3, RequestHandled, TroubleAllowed DEF Rejected
  <2> QED
    BY <2>2, <2>3
<1>5. CASE KeyboardEvent \/ PointerEvent \/ TopClose \/ BufferRelease \/ CallbackDone
  <2>1. Running /\ trouble' = trouble
    BY <1>5 DEF KeyboardEvent, PointerEvent, TopClose, BufferRelease, CallbackDone, Sends
  <2>2. Sound
    BY <2>1 DEF WireInv
  <2> QED
    BY <1>5, <2>1, <2>2, EventsKeep, NoTrouble DEF Running
<1>6. CASE EmitConfigure
  <2>1. Running /\ trouble' = trouble
    BY <1>6 DEF EmitConfigure
  <2>2. Sound
    BY <2>1 DEF WireInv
  <2> QED
    BY <1>6, <2>1, <2>2, ConfigureKeeps, NoTrouble DEF Running
<1> QED
  BY <1>1, <1>2, <1>3, <1>4, <1>5, <1>6 DEF Next

\* The inductive invariant: while nothing is wrong each object is made once,
\* asked only when it is made and ended last, both ends share objects and
\* versions, and what a batch of events needs comes ahead of its end; and what
\* goes wrong is what the properties allow.
THEOREM WireInvariant == Spec => []WireInv
<1>1. Init => WireInv
  BY WireInit
<1>2. WireInv /\ [Next]_vars => WireInv'
  <2> SUFFICES ASSUME WireInv, [Next]_vars
               PROVE  WireInv'
    OBVIOUS
  <2>1. CASE Next
    BY <2>1, WireStep
  <2>2. CASE UNCHANGED vars
    <3>1. /\ proxy' = proxy /\ resource' = resource /\ toBridge' = toBridge
          /\ toClient' = toClient /\ heard' = heard /\ trouble' = trouble
      BY <2>2 DEF vars
    <3>2. (Routed /\ Allowed /\ EventsUnderstood)' /\ (Running' => Running)
      BY <3>1 DEF WireInv, Routed, Allowed, EventsUnderstood, Is, Running
    <3>3. Sound => Sound'
      <4>1. Typed => Typed'
        BY <3>1 DEF Typed
      <4>2. \A j : Ordered(j) => Ordered(j)'
        BY <3>1 DEF Ordered, Due
      <4>3. \A j : Will(j)' = Will(j)
        BY <3>1 DEF Will
      <4>4. \A j : SameVersion(j) => SameVersion(j)'
        BY <3>1, <4>3 DEF SameVersion
      <4>5. \A j : Shared(j) => Shared(j)'
        BY <3>1 DEF Shared, Due
      <4>6. OldEnough => OldEnough'
        BY <3>1, <4>3 DEF OldEnough, Since
      <4>7. FeedbackTold => FeedbackTold'
        BY <3>1 DEF FeedbackTold, Comes
      <4>8. Configures => Configures'
        BY <3>1 DEF Configures, Knows, Follows, Event
      <4> QED
        BY <4>1, <4>2, <4>4, <4>5, <4>6, <4>7, <4>8 DEF Sound
    <3> QED
      BY <3>2, <3>3 DEF WireInv
  <2> QED
    BY <2>1, <2>2
<1> QED
  BY <1>1, <1>2, PTL DEF Spec

\* Every request runs the function of its own name, and every event the
\* listener's: the generated tables of both ends belong together.
THEOREM RequestsAreRouted == Spec => []Routed
<1>1. WireInv => Routed
  BY DEF WireInv
<1> QED
  BY <1>1, WireInvariant, PTL

\* What the version of a client's object lets it ask for finds its object,
\* old enough and with a handler: dispatch refuses and aborts for popups and
\* touch devices only, and only params are turned down whatever they ask.
THEOREM RequestsAreAllowed == Spec => []Allowed
<1>1. WireInv => Allowed
  BY DEF WireInv
<1> QED
  BY <1>1, WireInvariant, PTL

\* Clients are sent what their objects know, but for the input devices of an
\* old seat, and the end of a batch comes behind all of the batch.
THEOREM EventsAreUnderstood == Spec => []EventsUnderstood
<1>1. WireInv => EventsUnderstood
  BY DEF WireInv
<1> QED
  BY <1>1, WireInvariant, PTL

\* When nothing is in flight both ends have the same objects, but for callbacks.
THEOREM BothEndsAgree == Spec => []ObjectsAgree
<1>1. WireInv => ObjectsAgree
  <2>1. SUFFICES ASSUME Sound, toBridge = <<>>, NEW i \in Interfaces, i # "wl_callback"
                 PROVE  proxy[i] = 0 <=> resource[i] = 0
    BY DEF WireInv, ObjectsAgree
  <2>2. Shared(i)
    BY <2>1 DEF Sound
  <2>3. ~Has(toBridge, Enders(i)) /\ ~Has(toBridge, New(i))
    BY <2>1, HasOne
  <2> QED
    BY <2>2, <2>3 DEF Shared, Due
<1> QED
  BY <1>1, WireInvariant, PTL

\* The lengths of the queues after a step.
LEMMA QueueBounds ==
  ASSUME WireInv, TypeOK, Next
  PROVE  Len(toBridge') <= MaxQueue /\ Len(toClient') < MaxQueue + 7
<1>1. MaxQueue \in Nat /\ Len(toBridge) <= MaxQueue /\ Len(toClient) < MaxQueue + 7
  BY BindAssumption DEF TypeOK
<1>2. Sound
  <2>1. Running
    BY DEF Next, BindGlobal, CallStub, DispatchEvent, DispatchRequest, KeyboardEvent, PointerEvent,
           EmitConfigure, TopClose, BufferRelease, CallbackDone, Sends
  <2> QED
    BY <2>1 DEF WireInv
<1>3. /\ toBridge \in Seq(Requests) /\ toClient \in Seq(Signals)
      /\ Len(toBridge) \in Nat /\ Len(toClient) \in Nat
  BY <1>2, LenProperties DEF Sound, Typed
<1>4. ASSUME NEW a \in Seq(Signals), toClient' = toClient \o a, Len(a) <= 7,
                    Len(toClient) < MaxQueue
      PROVE  Len(toClient') < MaxQueue + 7
  <2>1. Len(toClient') = Len(toClient) + Len(a) /\ Len(a) \in Nat
    BY <1>3, <1>4, ConcatProperties, LenProperties
  <2> QED
    BY <1>1, <1>3, <1>4, <2>1
<1>5. ASSUME NEW i \in Interfaces, NEW n \in Sent(i), Sends(i, <<n>>)
      PROVE  Len(toBridge') <= MaxQueue /\ Len(toClient') < MaxQueue + 7
  <2>1. /\ toBridge' = toBridge /\ Len(toClient) < MaxQueue
        /\ toClient' = toClient \o Events(i, <<n>>)
    BY <1>5 DEF Sends
  <2>2. Events(i, <<n>>) = <<Event(i, n)>> /\ <<Event(i, n)>> \in Seq(Signals)
    BY OneEvent
  <2>3. Len(<<Event(i, n)>>) <= 7
    OBVIOUS
  <2> QED
    BY <1>1, <1>4, <2>1, <2>2, <2>3
<1>6. {"wl_keyboard", "wl_pointer", "xdg_toplevel", "wl_buffer", "wl_callback"} \subseteq Interfaces
  BY TheInterfaces DEF WlInterfaces, XdgInterfaces
<1>7. ASSUME NEW g \in DOMAIN BindVersions, NEW v \in BindVersions[g], BindGlobal(g, v)
      PROVE  Len(toBridge') <= MaxQueue /\ Len(toClient') < MaxQueue + 7
  <2>1. /\ toBridge' = toBridge /\ Len(toClient) < MaxQueue
        /\ toClient' = toClient \/ toClient' = Append(toClient, Event("wl_seat", "capabilities"))
    BY <1>7 DEF BindGlobal
  <2>2. Event("wl_seat", "capabilities") \in Signals
    BY TheInterfaces, EventParts DEF WlInterfaces, Sent
  <2>3. Len(Append(toClient, Event("wl_seat", "capabilities"))) = Len(toClient) + 1
    BY <1>3, <2>2, AppendProperties
  <2> QED
    BY <1>1, <1>3, <2>1, <2>3
<1>8. ASSUME NEW i \in Interfaces, NEW n \in DOMAIN Tables[i].opcodes, CallStub(i, n)
      PROVE  Len(toBridge') <= MaxQueue /\ Len(toClient') < MaxQueue + 7
  <2> DEFINE r == RequestOf(i, n)
  <2>1. r \in Requests /\ toClient' = toClient /\ Len(toBridge) < MaxQueue
    BY <1>8, Kinds DEF CallStub
  <2>2. toBridge' = Append(toBridge, r)
    BY <1>8 DEF CallStub, RequestOf
  <2> HIDE DEF r
  <2>3. Len(toBridge') = Len(toBridge) + 1
    BY <1>3, <2>1, <2>2, AppendProperties
  <2> QED
    BY <1>1, <1>3, <2>1, <2>3
<1>9. CASE DispatchEvent
  <2>1. toBridge' = toBridge /\ toClient' = Tail(toClient) /\ toClient # <<>>
    BY <1>9 DEF DispatchEvent
  <2>2. Len(toClient') = Len(toClient) - 1
    BY <1>3, <2>1, HeadTailProperties
  <2> QED
    BY <1>1, <1>3, <2>1, <2>2
<1>10. CASE DispatchRequest
  <2>1. toBridge' = Tail(toBridge) /\ toBridge # <<>> /\ Len(toClient) < MaxQueue
    BY <1>10 DEF DispatchRequest
  <2>2. Len(toBridge') = Len(toBridge) - 1
    BY <1>3, <2>1, HeadTailProperties
  <2>3. CASE trouble' # {}
    <3>1. toClient' = toClient
      BY <1>10, <2>3 DEF DispatchRequest
    <3> QED
      BY <1>1, <1>3, <2>2, <3>1
  <2>4. CASE trouble' = {}
    <3> DEFINE r == Head(toBridge)
               new == NewOf(Tables[r.object].stubs, r.name)
    <3>1. /\ new # "" => new \in Made /\ new \in Interfaces
          /\ toClient' = toClient \o IF new = "" THEN <<>> ELSE Events(new, Told(new))
      BY <1>2, <1>10, <2>4, RequestFacts
    <3> HIDE DEF new, r
    <3>2. CASE new = ""
      <4>1. toClient' = toClient
        BY <1>3, <3>1, <3>2, ConcatEmptySeq
      <4> QED
        BY <1>1, <1>3, <2>2, <4>1
    <3>3. CASE new # ""
      <4>1. Told(new) \in Seq(Sent(new)) /\ Len(Told(new)) <= 7
        <5>1. Told(new) \in Seq(Sent(new))
          BY <3>1, <3>3, ToldTyped
        <5>2. Len(Told(new)) <= 7
          BY DEF Told, FeedbackBatch
        <5> QED
          BY <5>1, <5>2
      <4>2. /\ Events(new, Told(new)) \in Seq(Signals)
            /\ DOMAIN Events(new, Told(new)) = DOMAIN Told(new)
        BY <3>1, <3>3, <4>1, EventsTyped
      <4>3. Len(Events(new, Told(new))) = Len(Told(new))
        BY <4>1, <4>2, LenProperties
      <4>4. Len(Events(new, Told(new))) <= 7
        BY <4>1, <4>3
      <4>5. toClient' = toClient \o Events(new, Told(new))
        BY <3>1, <3>3
      <4> QED
        BY <1>1, <1>3, <1>4, <2>1, <2>2, <4>2, <4>4, <4>5
    <3> QED
      BY <3>2, <3>3
  <2> QED
    BY <2>3, <2>4
<1>11. CASE KeyboardEvent
  <2>1. PICK n \in {"enter", "leave", "key", "modifiers", "repeat_info"} :
          Sends("wl_keyboard", <<n>>)
    BY <1>11 DEF KeyboardEvent
  <2>2. n \in Sent("wl_keyboard")
    BY DEF Sent
  <2> QED
    BY <1>5, <1>6, <2>1, <2>2
<1>12. CASE PointerEvent
  <2>1. PICK n \in {"enter", "leave", "motion", "button", "axis", "frame", "axis_source",
                    "axis_stop", "axis_value120"} :
          Sends("wl_pointer", <<n>>)
    BY <1>12 DEF PointerEvent
  <2>2. n \in Sent("wl_pointer")
    BY DEF Sent
  <2> QED
    BY <1>5, <1>6, <2>1, <2>2
<1>13. CASE TopClose
  <2>1. Sends("xdg_toplevel", <<"close">>) /\ "close" \in Sent("xdg_toplevel")
    BY <1>13 DEF TopClose, Sent
  <2> QED
    BY <1>5, <1>6, <2>1
<1>14. CASE BufferRelease
  <2>1. Sends("wl_buffer", <<"release">>) /\ "release" \in Sent("wl_buffer")
    BY <1>14 DEF BufferRelease, Sent
  <2> QED
    BY <1>5, <1>6, <2>1
<1>15. CASE CallbackDone
  <2>1. Sends("wl_callback", <<"done">>) /\ "done" \in Sent("wl_callback")
    BY <1>15 DEF CallbackDone, Sent
  <2> QED
    BY <1>5, <1>6, <2>1
<1>16. CASE EmitConfigure
  <2>1. /\ toBridge' = toBridge /\ Len(toClient) < MaxQueue
        /\ toClient' = toClient \o Events("xdg_toplevel", ConfigureEvents)
                                \o Events("xdg_surface", <<"configure">>)
    BY <1>16 DEF EmitConfigure
  <2>2. {"xdg_surface", "xdg_toplevel"} \subseteq Interfaces
    BY TheInterfaces DEF XdgInterfaces
  <2>3. ConfigureEvents \in Seq(Sent("xdg_toplevel")) /\ Len(ConfigureEvents) <= 2
    <3>1. /\ <<"wm_capabilities", "configure">> \in Seq(Sent("xdg_toplevel"))
          /\ Len(<<"wm_capabilities", "configure">>) <= 2
      BY DEF Sent
    <3>2. <<"configure">> \in Seq(Sent("xdg_toplevel")) /\ Len(<<"configure">>) <= 2
      BY DEF Sent
    <3> QED
      BY <3>1, <3>2 DEF ConfigureEvents
  <2>4. <<"configure">> \in Seq(Sent("xdg_surface")) /\ Len(<<"configure">>) = 1
    BY DEF Sent
  <2> DEFINE a == Events("xdg_toplevel", ConfigureEvents)
             b == Events("xdg_surface", <<"configure">>)
  <2>5. a \in Seq(Signals) /\ DOMAIN a = DOMAIN ConfigureEvents
    BY <2>2, <2>3, EventsTyped
  <2>6. b \in Seq(Signals) /\ DOMAIN b = DOMAIN <<"configure">>
    BY <2>2, <2>4, EventsTyped
  <2>7. Len(a) = Len(ConfigureEvents)
    BY <2>3, <2>5, LenProperties
  <2>8. Len(b) = 1
    BY <2>4, <2>6, LenProperties
  <2> HIDE DEF a, b
  <2>9. a \o b \in Seq(Signals) /\ Len(a \o b) = Len(a) + Len(b) /\ Len(a) \in Nat
    BY <2>5, <2>6, ConcatProperties, LenProperties
  <2>10. toClient' = toClient \o (a \o b)
    <3>1. toClient' = (toClient \o a) \o b
      BY <2>1 DEF a, b
    <3> QED
      BY <1>3, <2>5, <2>6, <3>1, ConcatAssociative
  <2>11. Len(a \o b) <= 7
    BY <2>3, <2>7, <2>8, <2>9
  <2> QED
    BY <1>1, <1>4, <2>1, <2>9, <2>10, <2>11
<1> QED
  BY <1>7, <1>8, <1>9, <1>10, <1>11, <1>12, <1>13, <1>14, <1>15, <1>16 DEF Next

LEMMA WireTypeStep ==
  ASSUME WireInv, TypeOK, Next
  PROVE  TypeOK'
<1>1. Running
  BY DEF Next, BindGlobal, CallStub, DispatchEvent, DispatchRequest, KeyboardEvent, PointerEvent,
         EmitConfigure, TopClose, BufferRelease, CallbackDone, Sends
<1>2. Sound
  BY <1>1 DEF WireInv
<1>3. bound' \subseteq DOMAIN Advertised
  <2>1. bound \subseteq DOMAIN Advertised
    BY DEF TypeOK
  <2>2. \/ bound' = bound
        \/ \E g \in DOMAIN BindVersions : bound' = bound \cup {g}
    BY DEF Next, BindGlobal, CallStub, DispatchEvent, DispatchRequest, KeyboardEvent, PointerEvent,
           EmitConfigure, TopClose, BufferRelease, CallbackDone, Sends
  <2> QED
    BY <2>1, <2>2, BindAssumption
<1>4. CASE trouble' = {}
  <2>1. Typed'
    BY <1>4, WireStep DEF WireInv, Sound, Running
  <2> QED
    BY <1>3, <1>4, <2>1, QueueBounds DEF TypeOK, Typed
<1>5. CASE trouble' # {}
  <2>1. /\ proxy' \in [Interfaces -> 0..9] /\ resource' \in [Interfaces -> 0..9]
        /\ \A t \in trouble' : t.object \in Interfaces /\ t.version \in 0..9
    <3>0. proxy \in [Interfaces -> 0..9] /\ resource \in [Interfaces -> 0..9]
      BY DEF TypeOK
    <3>1. \A w, i, v : Trouble(w, i, v).object = i /\ Trouble(w, i, v).version = v
      BY DEF Trouble
    <3>2. CASE DispatchEvent
      <4> DEFINE i == Head(toClient).object
      <4>1. /\ i \in Interfaces /\ proxy[i] \in 0..9 /\ resource' = resource
            /\ \/ proxy' = proxy
               \/ proxy' = [proxy EXCEPT !["wl_callback"] = 0]
        BY <1>2, <3>2, EventFacts
      <4>2. trouble' = {Trouble("unknown", i, proxy[i])}
        BY <1>2, <1>5, <3>2, EventTrouble
      <4> HIDE DEF i
      <4> QED
        BY <3>0, <3>1, <4>1, <4>2
    <3>3. CASE DispatchRequest
      <4> DEFINE i == Head(toBridge).object
      <4>1. i \in Interfaces /\ proxy[i] \in 0..9 /\ proxy' = proxy
        BY <1>2, <3>0, <3>3, RequestFound
      <4>2. resource' = resource
        BY <1>5, <3>3 DEF DispatchRequest
      <4>3. PICK w \in {"refused", "no implementation", "rejected"} : trouble' = {Trouble(w, i, proxy[i])}
        BY <1>2, <1>5, <3>3, RequestHandled
      <4> HIDE DEF i
      <4>4. Trouble(w, i, proxy[i]).object = i /\ Trouble(w, i, proxy[i]).version = proxy[i]
        BY DEF Trouble
      <4> DEFINE x == Trouble(w, i, proxy[i])
      <4>5. \A t \in trouble' : t.object = i /\ t.version = proxy[i]
        <5>1. trouble' = {x} /\ x.object = i /\ x.version = proxy[i]
          BY <4>3, <4>4
        <5> HIDE DEF x
        <5> QED
          BY <5>1
      <4> QED
        BY <3>0, <4>1, <4>2, <4>5
    <3>4. CASE ~DispatchEvent /\ ~DispatchRequest
      <4>1. trouble' = trouble
        BY <3>4 DEF Next, BindGlobal, CallStub, KeyboardEvent, PointerEvent, EmitConfigure,
                    TopClose, BufferRelease, CallbackDone, Sends
      <4> QED
        BY <1>1, <1>5, <4>1 DEF Running
    <3> QED
      BY <3>2, <3>3, <3>4
  <2> QED
    BY <1>3, <2>1, QueueBounds DEF TypeOK
<1> QED
  BY <1>4, <1>5

\* Every variable has its type, and the queues their bounds.
THEOREM WireTypeCorrect == Spec => []TypeOK
<1>1. Init => TypeOK
  <2> SUFFICES ASSUME Init PROVE TypeOK
    OBVIOUS
  <2>1. Len(<<>>) = 0 /\ MaxQueue \in Nat
    BY BindAssumption
  <2> QED
    BY <2>1 DEF Init, TypeOK
<1>2. WireInv /\ TypeOK /\ [Next]_vars => TypeOK'
  <2>1. WireInv /\ TypeOK /\ Next => TypeOK'
    BY WireTypeStep
  <2>2. TypeOK /\ UNCHANGED vars => TypeOK'
    BY DEF TypeOK, vars
  <2> QED
    BY <2>1, <2>2
<1> QED
  BY <1>1, <1>2, WireInvariant, PTL DEF Spec

=============================================================================
