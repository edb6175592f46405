---------------------------- MODULE SeatRelayProofs ----------------------------
(***************************************************************************)
(* Theorems about SeatRelay, for all keys, modifiers and keyboards.        *)
(***************************************************************************)
EXTENDS SeatRelay, TLAPS

-----------------------------------------------------------------------------
(* The handlers as functions of the seat                                   *)

SeatType == [pending : [key : Modifiers, press : BOOLEAN] \cup {NoKey},
             view : [Keyboards -> Views], odd : SUBSET Keyboards]

\* forward_key changes the keys that are down on the bound keyboards.
LEMMA ForwardKeyType ==
  ASSUME NEW st \in SeatType, NEW k \in Keys, NEW press \in BOOLEAN,
         bound \in SUBSET Keyboards
  PROVE  /\ ForwardKey(st, k, press) \in SeatType
         /\ ForwardKey(st, k, press).pending = st.pending
         /\ \A c \in bound : ForwardKey(st, k, press).view[c] =
                               [focus |-> st.view[c].focus, mods |-> st.view[c].mods,
                                down |-> Pressed(st.view[c].down, k, press)]
         /\ ForwardKey(st, k, press).odd
              = st.odd \cup {c \in bound : Unexpected(st.view[c], k, press)}
<1> DEFINE f == [c \in Keyboards |->
                   IF c \in bound THEN TellKey(st.view[c], k, press) ELSE st.view[c]]
           o == st.odd \cup {c \in bound : Unexpected(st.view[c], k, press)}
<1>1. ForwardKey(st, k, press) = [pending |-> st.pending, view |-> f, odd |-> o]
  BY DEF ForwardKey
<1>2. \A c \in Keyboards : st.view[c] \in Views
  BY DEF SeatType
<1>3. \A c \in bound : f[c] = [focus |-> st.view[c].focus, mods |-> st.view[c].mods,
                               down |-> Pressed(st.view[c].down, k, press)]
  BY <1>2 DEF Views, TellKey
<1>4. f \in [Keyboards -> Views]
  <2> SUFFICES ASSUME NEW c \in Keyboards PROVE f[c] \in Views
    OBVIOUS
  <2>1. CASE c \in bound
    <3>1. f[c] = [focus |-> st.view[c].focus, mods |-> st.view[c].mods,
                  down |-> Pressed(st.view[c].down, k, press)]
      BY <1>3, <2>1
    <3>2. /\ st.view[c].focus \in BOOLEAN /\ st.view[c].mods \in SUBSET Bits
          /\ Pressed(st.view[c].down, k, press) \in SUBSET Keys
      BY <1>2 DEF Views, Pressed
    <3> HIDE DEF f
    <3> QED
      BY <3>1, <3>2 DEF Views
  <2>2. CASE c \notin bound
    BY <1>2, <2>2
  <2> QED
    BY <2>1, <2>2
<1>5. o \in SUBSET Keyboards
  BY DEF SeatType
<1> HIDE DEF f, o
<1>6. st.pending \in [key : Modifiers, press : BOOLEAN] \cup {NoKey}
  BY DEF SeatType
<1>7. [pending |-> st.pending, view |-> f, odd |-> o] \in SeatType
  BY <1>4, <1>5, <1>6 DEF SeatType
<1> QED
  BY <1>1, <1>3, <1>7 DEF o

\* forward_mods changes the modifiers of the bound keyboards.
LEMMA ForwardModsType ==
  ASSUME NEW st \in SeatType, NEW mods \in SUBSET Bits, bound \in SUBSET Keyboards
  PROVE  /\ ForwardMods(st, mods) \in SeatType
         /\ ForwardMods(st, mods).pending = st.pending
         /\ \A c \in bound : ForwardMods(st, mods).view[c] =
                               [focus |-> st.view[c].focus, mods |-> mods,
                                down |-> st.view[c].down]
         /\ ForwardMods(st, mods).odd = st.odd
<1> DEFINE f == [c \in Keyboards |->
                   IF c \in bound THEN TellMods(st.view[c], mods) ELSE st.view[c]]
<1>1. ForwardMods(st, mods) = [pending |-> st.pending, view |-> f, odd |-> st.odd]
  BY DEF ForwardMods
<1>2. \A c \in Keyboards : st.view[c] \in Views
  BY DEF SeatType
<1>3. \A c \in bound : f[c] = [focus |-> st.view[c].focus, mods |-> mods,
                               down |-> st.view[c].down]
  BY <1>2 DEF Views, TellMods
<1>4. f \in [Keyboards -> Views]
  <2> SUFFICES ASSUME NEW c \in Keyboards PROVE f[c] \in Views
    OBVIOUS
  <2>1. CASE c \in bound
    <3>1. f[c] = [focus |-> st.view[c].focus, mods |-> mods, down |-> st.view[c].down]
      BY <1>3, <2>1
    <3>2. st.view[c].focus \in BOOLEAN /\ st.view[c].down \in SUBSET Keys
      BY <1>2 DEF Views
    <3> HIDE DEF f
    <3> QED
      BY <3>1, <3>2 DEF Views
  <2>2. CASE c \notin bound
    BY <1>2, <2>2
  <2> QED
    BY <2>1, <2>2
<1> HIDE DEF f
<1> QED
  BY <1>1, <1>3, <1>4 DEF SeatType

\* A seat whose pending place was set or cleared.
LEMMA PendingType ==
  ASSUME NEW st \in SeatType, NEW p \in [key : Modifiers, press : BOOLEAN] \cup {NoKey}
  PROVE  /\ [st EXCEPT !.pending = p] \in SeatType
         /\ [st EXCEPT !.pending = p].pending = p
         /\ [st EXCEPT !.pending = p].view = st.view
         /\ [st EXCEPT !.pending = p].odd = st.odd
BY DEF SeatType

\* up_key: a modifier key is held back and nothing is told.
LEMMA UpKeyModifier ==
  ASSUME NEW st \in SeatType, NEW k \in Modifiers, NEW press \in BOOLEAN
  PROVE  /\ UpKey(st, k, press) \in SeatType
         /\ UpKey(st, k, press).pending = [key |-> k, press |-> press]
         /\ UpKey(st, k, press).view = st.view
         /\ UpKey(st, k, press).odd = st.odd
BY PendingType DEF UpKey

\* up_mods with a key that was held back: the keyboards are told both.
LEMMA UpModsPending ==
  ASSUME NEW st \in SeatType, NEW mods \in SUBSET Bits, bound \in SUBSET Keyboards,
         st.pending # NoKey
  PROVE  /\ UpMods(st, mods) \in SeatType
         /\ UpMods(st, mods).pending = NoKey
         /\ \A c \in bound : UpMods(st, mods).view[c] =
              [focus |-> st.view[c].focus, mods |-> mods,
               down |-> Pressed(st.view[c].down, st.pending.key, st.pending.press)]
         /\ UpMods(st, mods).odd = st.odd \cup
              {c \in bound : Unexpected(st.view[c], st.pending.key, st.pending.press)}
<1>1. st.pending.key \in Keys /\ st.pending.press \in BOOLEAN
  BY KeyAssumption DEF SeatType
<1> DEFINE g == ForwardKey(st, st.pending.key, st.pending.press)
           h == FlushPending(st)
<1>2. /\ g \in SeatType
      /\ \A c \in bound : g.view[c] =
           [focus |-> st.view[c].focus, mods |-> st.view[c].mods,
            down |-> Pressed(st.view[c].down, st.pending.key, st.pending.press)]
      /\ g.odd = st.odd \cup
           {c \in bound : Unexpected(st.view[c], st.pending.key, st.pending.press)}
  BY <1>1, ForwardKeyType
<1>3. h = [g EXCEPT !.pending = NoKey]
  BY DEF FlushPending
<1> HIDE DEF g, h
<1>4. h \in SeatType /\ h.pending = NoKey /\ h.view = g.view /\ h.odd = g.odd
  BY <1>2, <1>3, PendingType
<1>5. UpMods(st, mods) = ForwardMods(h, mods)
  BY DEF UpMods, h
<1>6. /\ ForwardMods(h, mods) \in SeatType
      /\ ForwardMods(h, mods).pending = NoKey
      /\ \A c \in bound : ForwardMods(h, mods).view[c] =
           [focus |-> h.view[c].focus, mods |-> mods, down |-> h.view[c].down]
      /\ ForwardMods(h, mods).odd = h.odd
  BY <1>4, ForwardModsType
<1>7. \A c \in bound : /\ h.view[c].focus = st.view[c].focus
                       /\ h.view[c].down = Pressed(st.view[c].down, st.pending.key, st.pending.press)
  <2> SUFFICES ASSUME NEW c \in bound
               PROVE  /\ h.view[c].focus = st.view[c].focus
                      /\ h.view[c].down = Pressed(st.view[c].down, st.pending.key, st.pending.press)
    OBVIOUS
  <2>1. h.view[c] = g.view[c]
    BY <1>4
  <2>2. g.view[c] = [focus |-> st.view[c].focus, mods |-> st.view[c].mods,
                     down |-> Pressed(st.view[c].down, st.pending.key, st.pending.press)]
    BY <1>2
  <2> QED
    BY <2>1, <2>2
<1>8. \A c \in bound : UpMods(st, mods).view[c] =
        [focus |-> st.view[c].focus, mods |-> mods,
         down |-> Pressed(st.view[c].down, st.pending.key, st.pending.press)]
  BY <1>5, <1>6, <1>7
<1>9. UpMods(st, mods).odd = st.odd \cup
        {c \in bound : Unexpected(st.view[c], st.pending.key, st.pending.press)}
  BY <1>2, <1>4, <1>5, <1>6
<1> QED
  BY <1>5, <1>6, <1>8, <1>9

\* up_mods with no key held back.
LEMMA UpModsOnly ==
  ASSUME NEW st \in SeatType, NEW mods \in SUBSET Bits, bound \in SUBSET Keyboards,
         st.pending = NoKey
  PROVE  /\ UpMods(st, mods) \in SeatType
         /\ UpMods(st, mods).pending = NoKey
         /\ \A c \in bound : UpMods(st, mods).view[c] =
              [focus |-> st.view[c].focus, mods |-> mods, down |-> st.view[c].down]
         /\ UpMods(st, mods).odd = st.odd
BY ForwardModsType DEF UpMods, FlushPending

\* up_key and up_mods take a seat to a seat.
LEMMA UpKeyType ==
  ASSUME NEW st \in SeatType, NEW k \in Keys, NEW press \in BOOLEAN,
         bound \in SUBSET Keyboards
  PROVE  UpKey(st, k, press) \in SeatType
<1>1. CASE k \in Modifiers
  BY <1>1, UpKeyModifier
<1>2. CASE k \notin Modifiers
  BY <1>2, ForwardKeyType DEF UpKey
<1> QED
  BY <1>1, <1>2

LEMMA UpModsType ==
  ASSUME NEW st \in SeatType, NEW mods \in SUBSET Bits, bound \in SUBSET Keyboards
  PROVE  UpMods(st, mods) \in SeatType
BY UpModsPending, UpModsOnly

LEMMA ChordKeys ==
  /\ Super \in Keys /\ Super \in Modifiers /\ Return \in Keys /\ Return \notin Modifiers
  /\ Super # Return /\ {Bit[Super]} \in SUBSET Bits /\ {} \in SUBSET Bits
BY KeyAssumption

LEMMA SuperReturnType ==
  ASSUME NEW st \in SeatType, bound \in SUBSET Keyboards
  PROVE  SuperReturn(st) \in SeatType
<1> DEFINE s1 == UpKey(st, Super, TRUE)
           s2 == UpMods(s1, {Bit[Super]})
           s3 == UpKey(s2, Return, TRUE)
           s4 == UpKey(s3, Return, FALSE)
           s5 == UpKey(s4, Super, FALSE)
           s6 == UpMods(s5, {})
<1>1. s1 \in SeatType
  BY ChordKeys, UpKeyType
<1> HIDE DEF s1
<1>2. s2 \in SeatType
  BY <1>1, ChordKeys, UpModsType
<1> HIDE DEF s2
<1>3. s3 \in SeatType
  BY <1>2, ChordKeys, UpKeyType
<1> HIDE DEF s3
<1>4. s4 \in SeatType
  BY <1>3, ChordKeys, UpKeyType
<1> HIDE DEF s4
<1>5. s5 \in SeatType
  BY <1>4, ChordKeys, UpKeyType
<1> HIDE DEF s5
<1>6. s6 \in SeatType
  BY <1>5, ChordKeys, UpModsType
<1> QED
  BY <1>6 DEF SuperReturn, s1, s2, s3, s4, s5, s6

\* Every keyboard is in focus and was told that these keys are down; and that
\* these are the modifiers.
AllHold(st, down) == \A c \in bound : st.view[c].focus = TRUE /\ st.view[c].down = down
AllTold(st, mods, down) ==
  \A c \in bound : st.view[c] = [focus |-> TRUE, mods |-> mods, down |-> down]

LEMMA ToldHold ==
  ASSUME NEW st, NEW mods, NEW down, AllTold(st, mods, down)
  PROVE  AllHold(st, down)
BY DEF AllTold, AllHold

\* A key that is sent to keyboards in focus which expect it.
LEMMA ExpectedKey ==
  ASSUME NEW st \in SeatType, NEW k \in Keys, NEW press \in BOOLEAN, NEW mods, NEW down,
         bound \in SUBSET Keyboards, press = (k \notin down),
         AllTold(st, mods, down)
  PROVE  /\ ForwardKey(st, k, press) \in SeatType
         /\ ForwardKey(st, k, press).pending = st.pending
         /\ AllTold(ForwardKey(st, k, press), mods, Pressed(down, k, press))
         /\ ForwardKey(st, k, press).odd = st.odd
<1> DEFINE g == ForwardKey(st, k, press)
<1>1. /\ g \in SeatType /\ g.pending = st.pending
      /\ \A c \in bound : g.view[c] = [focus |-> st.view[c].focus, mods |-> st.view[c].mods,
                                       down |-> Pressed(st.view[c].down, k, press)]
      /\ g.odd = st.odd \cup {c \in bound : Unexpected(st.view[c], k, press)}
  BY ForwardKeyType
<1> HIDE DEF g
<1>2. \A c \in bound : ~Unexpected(st.view[c], k, press)
  BY DEF AllTold, Unexpected
<1>3. g.odd = st.odd
  BY <1>1, <1>2
<1>4. \A c \in bound : g.view[c] = [focus |-> TRUE, mods |-> mods, down |-> Pressed(down, k, press)]
  <2> SUFFICES ASSUME NEW c \in bound
               PROVE  g.view[c] = [focus |-> TRUE, mods |-> mods, down |-> Pressed(down, k, press)]
    OBVIOUS
  <2>1. st.view[c].focus = TRUE /\ st.view[c].mods = mods /\ st.view[c].down = down
    BY DEF AllTold
  <2> QED
    BY <1>1, <2>1
<1> QED
  BY <1>1, <1>3, <1>4 DEF g, AllTold

\* The modifiers, sent to keyboards in focus which expect the pending key.
LEMMA ExpectedMods ==
  ASSUME NEW st \in SeatType, NEW mods \in SUBSET Bits, NEW down,
         bound \in SUBSET Keyboards, st.pending # NoKey,
         (st.pending.press <=> st.pending.key \notin down),
         AllHold(st, down)
  PROVE  /\ UpMods(st, mods) \in SeatType
         /\ UpMods(st, mods).pending = NoKey
         /\ AllTold(UpMods(st, mods), mods, Pressed(down, st.pending.key, st.pending.press))
         /\ UpMods(st, mods).odd = st.odd
<1> DEFINE g == UpMods(st, mods)
           k == st.pending.key
           press == st.pending.press
<1>1. /\ g \in SeatType /\ g.pending = NoKey
      /\ \A c \in bound : g.view[c] = [focus |-> st.view[c].focus, mods |-> mods,
                                       down |-> Pressed(st.view[c].down, k, press)]
      /\ g.odd = st.odd \cup {c \in bound : Unexpected(st.view[c], k, press)}
  BY UpModsPending
<1>2. \A c \in bound : ~Unexpected(st.view[c], k, press)
  BY DEF AllHold, Unexpected
<1> HIDE DEF g, k, press, AllTold
<1>3. g.odd = st.odd
  BY <1>1, <1>2
<1>4. \A c \in bound : g.view[c] = [focus |-> TRUE, mods |-> mods, down |-> Pressed(down, k, press)]
  BY <1>1 DEF AllHold
<1> QED
  BY <1>1, <1>3, <1>4 DEF g, k, press, AllTold

\* The chord, sent to keyboards in focus on which no key is down, leaves them
\* as they were.
LEMMA SuperReturnQuiet ==
  ASSUME NEW st \in SeatType, bound \in SUBSET Keyboards,
         st.pending = NoKey,
         AllTold(st, {}, {})
  PROVE  /\ SuperReturn(st).pending = NoKey
         /\ AllTold(SuperReturn(st), {}, {})
         /\ SuperReturn(st).odd = st.odd
<1> DEFINE none == {}
           sup == {Super}
           both == {Super, Return}
           mod4 == {Bit[Super]}
<1> DEFINE s1 == UpKey(st, Super, TRUE)
           s2 == UpMods(s1, mod4)
           s3 == UpKey(s2, Return, TRUE)
           s4 == UpKey(s3, Return, FALSE)
           s5 == UpKey(s4, Super, FALSE)
           s6 == UpMods(s5, none)
<1> DEFINE super(press) == [key |-> Super, press |-> press]
<1>0. /\ NoKey # super(TRUE) /\ super(TRUE).key = Super /\ super(TRUE).press = TRUE
      /\ NoKey # super(FALSE) /\ super(FALSE).key = Super /\ super(FALSE).press = FALSE
  <2>1. super(TRUE) \in [key : Modifiers, press : BOOLEAN] /\ super(TRUE).key = Super
        /\ super(TRUE).press = TRUE
    BY ChordKeys
  <2>2. super(FALSE) \in [key : Modifiers, press : BOOLEAN] /\ super(FALSE).key = Super
        /\ super(FALSE).press = FALSE
    BY ChordKeys
  <2> HIDE DEF super
  <2> QED
    BY <2>1, <2>2, NoKeyAssumption
<1> HIDE DEF super
<1>a. /\ Pressed(none, Super, TRUE) = sup /\ Super \notin none
      /\ Pressed(sup, Return, TRUE) = both /\ TRUE = (Return \notin sup)
      /\ Pressed(both, Return, FALSE) = sup /\ FALSE = (Return \notin both)
      /\ Pressed(sup, Super, FALSE) = none /\ Super \in sup
      /\ mod4 \in SUBSET Bits /\ none \in SUBSET Bits
  BY ChordKeys DEF Pressed
<1> HIDE DEF none, sup, both, mod4
<1>b. AllTold(st, none, none)
  BY DEF none
<1>1. /\ s1 \in SeatType /\ s1.pending = super(TRUE) /\ s1.odd = st.odd
      /\ AllTold(s1, none, none)
  <2>1. s1 \in SeatType /\ s1.pending = super(TRUE) /\ s1.view = st.view /\ s1.odd = st.odd
    BY ChordKeys, UpKeyModifier DEF super
  <2> HIDE DEF s1
  <2> QED
    BY <1>b, <2>1 DEF AllTold
<1> HIDE DEF s1
<1>2. /\ s2 \in SeatType /\ s2.pending = NoKey /\ s2.odd = st.odd
      /\ AllTold(s2, mod4, sup)
  <2>1. s1.pending # NoKey /\ s1.pending.key = Super /\ s1.pending.press = TRUE
    BY <1>0, <1>1
  <2>2. AllHold(s1, none)
    BY <1>1, ToldHold
  <2>4. /\ s2 \in SeatType /\ s2.pending = NoKey /\ s2.odd = s1.odd
        /\ AllTold(s2, mod4, Pressed(none, Super, TRUE))
    BY <1>1, <1>a, <2>1, <2>2, ChordKeys, ExpectedMods
  <2> QED
    BY <1>1, <1>a, <2>4
<1> HIDE DEF s2
<1>3. /\ s3 \in SeatType /\ s3.pending = NoKey /\ s3.odd = st.odd
      /\ AllTold(s3, mod4, both)
  <2>1. s3 = ForwardKey(s2, Return, TRUE)
    BY ChordKeys DEF UpKey
  <2> HIDE DEF s3
  <2>3. /\ s3 \in SeatType /\ s3.pending = NoKey /\ s3.odd = s2.odd
        /\ AllTold(s3, mod4, Pressed(sup, Return, TRUE))
    BY <1>2, <2>1, <1>a, ChordKeys, ExpectedKey
  <2> QED
    BY <1>2, <1>a, <2>3
<1> HIDE DEF s3
<1>4. /\ s4 \in SeatType /\ s4.pending = NoKey /\ s4.odd = st.odd
      /\ AllTold(s4, mod4, sup)
  <2>1. s4 = ForwardKey(s3, Return, FALSE)
    BY ChordKeys DEF UpKey
  <2> HIDE DEF s4
  <2>3. /\ s4 \in SeatType /\ s4.pending = NoKey /\ s4.odd = s3.odd
        /\ AllTold(s4, mod4, Pressed(both, Return, FALSE))
    BY <1>3, <2>1, <1>a, ChordKeys, ExpectedKey
  <2> QED
    BY <1>3, <1>a, <2>3
<1> HIDE DEF s4
<1>5. /\ s5 \in SeatType /\ s5.pending = super(FALSE) /\ s5.odd = st.odd
      /\ AllTold(s5, mod4, sup)
  <2>1. s5 \in SeatType /\ s5.pending = super(FALSE) /\ s5.view = s4.view /\ s5.odd = s4.odd
    BY <1>4, ChordKeys, UpKeyModifier DEF super
  <2> HIDE DEF s5
  <2> QED
    BY <1>4, <2>1 DEF AllTold
<1> HIDE DEF s5
<1>6. /\ s6.pending = NoKey /\ s6.odd = st.odd
      /\ AllTold(s6, none, none)
  <2>1. s5.pending # NoKey /\ s5.pending.key = Super /\ s5.pending.press = FALSE
    BY <1>0, <1>5
  <2>2. AllHold(s5, sup)
    BY <1>5, ToldHold
  <2>4. /\ s6.pending = NoKey /\ s6.odd = s5.odd
        /\ AllTold(s6, none, Pressed(sup, Super, FALSE))
    BY <1>5, <1>a, <2>1, <2>2, ChordKeys, ExpectedMods
  <2> QED
    BY <1>5, <1>a, <2>4
<1> QED
  BY <1>6 DEF none, mod4, SuperReturn, s1, s2, s3, s4, s5, s6

-----------------------------------------------------------------------------
(* The types                                                               *)

LEMMA SeatHasType == TypeOK => Seat \in SeatType
BY DEF TypeOK, Seat, SeatType

\* What a handler makes of the seat is a seat.
LEMMA BecomesType ==
  ASSUME NEW st \in SeatType, SeatBecomes(st)
  PROVE  /\ pending' \in [key : Modifiers, press : BOOLEAN] \cup {NoKey}
         /\ view' \in [Keyboards -> Views] /\ odd' \in SUBSET Keyboards
BY DEF SeatBecomes, SeatType

LEMMA TypeStep == TypeOK /\ [Next]_vars => TypeOK'
<1> SUFFICES ASSUME TypeOK, [Next]_vars PROVE TypeOK'
  OBVIOUS
<1>s. Seat \in SeatType /\ bound \in SUBSET Keyboards
  BY SeatHasType DEF TypeOK
<1>m. \A down \in SUBSET Keys : Mask(down) \in SUBSET Bits
  BY KeyAssumption DEF Mask
<1>p. \A k \in Keys, press \in BOOLEAN : Pressed(physical, k, press) \in SUBSET Keys
  BY DEF TypeOK, Pressed
<1>1. ASSUME NEW k \in Keys, ParentKey(k) PROVE TypeOK'
  <2>1. UpKey(Seat, k, k \notin physical) \in SeatType
    BY <1>s, UpKeyType
  <2>2. physical' \in SUBSET Keys /\ owesMods' \in BOOLEAN
    BY <1>1, <1>p DEF ParentKey
  <2> QED
    BY <1>1, <2>1, <2>2, BecomesType DEF ParentKey, TypeOK, clientVars
<1>2. ASSUME NEW k \in Keys, KeyElsewhere(k) PROVE TypeOK'
  BY <1>2, <1>p DEF KeyElsewhere, TypeOK, clientVars
<1>3. CASE ParentMods
  <2>1. UpMods(Seat, Mask(physical)) \in SeatType
    BY <1>s, <1>m, UpModsType DEF TypeOK
  <2> QED
    BY <1>3, <2>1, BecomesType DEF ParentMods, TypeOK, clientVars
<1>4. CASE ParentEnter
  <2>1. \A c \in Keyboards : view[c] \in Views /\ Entered(view[c]) \in Views
    BY DEF TypeOK, Entered, Views
  <2>2. view' \in [Keyboards -> Views]
    BY <1>4, <2>1 DEF ParentEnter
  <2> QED
    BY <1>4, <2>2 DEF ParentEnter, TypeOK, clientVars
<1>5. CASE ParentLeave
  <2>1. \A c \in Keyboards : view[c] \in Views /\ Left(view[c]) \in Views
    BY DEF TypeOK, Left, Views
  <2>2. view' \in [Keyboards -> Views]
    BY <1>5, <2>1 DEF ParentLeave
  <2> QED
    BY <1>5, <2>2 DEF ParentLeave, TypeOK, clientVars
<1>6. CASE Chord
  <2>1. SuperReturn(Seat) \in SeatType
    BY <1>s, SuperReturnType
  <2> QED
    BY <1>6, <2>1, BecomesType DEF Chord, TypeOK, clientVars, parentVars
<1>7. ASSUME NEW c \in Keyboards, GetKeyboard(c) PROVE TypeOK'
  <2>1. NewView \in Views
    BY DEF NewView, Views
  <2> QED
    BY <1>7, <2>1 DEF GetKeyboard, TypeOK, parentVars
<1>8. ASSUME NEW c \in Keyboards, ReleaseKeyboard(c) PROVE TypeOK'
  BY <1>8 DEF ReleaseKeyboard, TypeOK, parentVars
<1>9. CASE ChangeWindow
  BY <1>9 DEF ChangeWindow, TypeOK, parentVars
<1>10. CASE UNCHANGED vars
  BY <1>10 DEF vars, TypeOK
<1> QED
  BY <1>1, <1>2, <1>3, <1>4, <1>5, <1>6, <1>7, <1>8, <1>9, <1>10 DEF Next

LEMMA TypeInit == Init => TypeOK
<1>1. NewView \in Views
  BY DEF NewView, Views
<1>2. Init => view \in [Keyboards -> Views]
  BY <1>1 DEF Init
<1> QED
  BY <1>2 DEF Init, TypeOK

\* Every variable keeps its type, whatever the world does.
THEOREM SeatTypeCorrect == Spec => []TypeOK
<1>1. TypeOK /\ [Next]_vars => TypeOK'
  BY TypeStep
<1> QED
  BY <1>1, TypeInit, PTL DEF Spec

-----------------------------------------------------------------------------
(* The client knows the keyboard as the parent does                        *)

\* With a bit for each modifier, a modifier key always changes the mask: the
\* parent owes the modifiers that release the pending key.
LEMMA MaskChanges ==
  ASSUME DistinctBits, NEW k \in Modifiers, NEW press \in BOOLEAN, press = (k \notin physical)
  PROVE  Mask(Pressed(physical, k, press)) # Mask(physical)
<1>1. CASE k \in physical
  <2>1. Bit[k] \in Mask(physical)
    BY <1>1 DEF Mask
  <2>2. Bit[k] \notin Mask(Pressed(physical, k, press))
    BY <1>1 DEF Mask, Pressed, DistinctBits
  <2> QED
    BY <2>1, <2>2
<1>2. CASE k \notin physical
  <2>1. Bit[k] \notin Mask(physical)
    BY <1>2 DEF Mask, DistinctBits
  <2>2. Bit[k] \in Mask(Pressed(physical, k, press))
    BY <1>2 DEF Mask, Pressed
  <2> QED
    BY <2>1, <2>2
<1> QED
  BY <1>1, <1>2

LEMMA MaskKeeps ==
  ASSUME NEW k, k \notin Modifiers, NEW press \in BOOLEAN
  PROVE  Mask(Pressed(physical, k, press)) = Mask(physical)
<1>1. Pressed(physical, k, press) \cap Modifiers = physical \cap Modifiers
  BY DEF Pressed
<1> QED
  BY <1>1 DEF Mask

LEMMA SeatInvInit == Init => SeatInv
BY TypeInit DEF Init, SeatInv, Sensible, OutOfFocus, InFocus, Completed, PendingIsLast

LEMMA SeatInvStep ==
  ASSUME DistinctBits, QuietWorld, SeatInv, [Next]_vars
  PROVE  SeatInv'
<1>t. TypeOK /\ TypeOK'
  BY TypeStep DEF SeatInv
<1>s. Seat \in SeatType /\ bound \in SUBSET Keyboards
  BY <1>t, SeatHasType DEF TypeOK
<1>r. Seat.pending = pending /\ Seat.view = view /\ Seat.odd = {}
  BY DEF Seat, SeatInv, Sensible
<1>h. focused => AllHold(Seat, Told)
  BY <1>t, <1>r DEF SeatInv, InFocus, AllHold, TypeOK, Views
<1>q. focused /\ ~owesMods => /\ pending = NoKey /\ Told = physical
                              /\ AllTold(Seat, Mask(physical), physical)
  <2> SUFFICES ASSUME focused, ~owesMods
               PROVE  pending = NoKey /\ Told = physical /\ AllTold(Seat, Mask(physical), physical)
    OBVIOUS
  <2>1. pending = NoKey /\ Told = physical
    BY DEF SeatInv, Completed, Told
  <2>2. \A c \in bound : view[c] \in Views /\ view[c].focus = TRUE /\ view[c].down = physical
                         /\ view[c].mods = Mask(physical)
    BY <1>t, <1>s, <2>1 DEF SeatInv, InFocus, Completed, TypeOK, Views
  <2>3. \A c \in bound : view[c] = [focus |-> TRUE, mods |-> Mask(physical), down |-> physical]
    BY <2>2 DEF Views
  <2> QED
    BY <1>r, <2>1, <2>3 DEF AllTold
\* Keyboards that hold what was told of them are in focus.
<1>f. ASSUME NEW st, NEW mods, AllTold(st, mods, Told'), view' = st.view,
             focused', window', bound' = bound
      PROVE  InFocus'
  BY <1>f DEF AllTold, InFocus
<1>1. ASSUME NEW k \in Keys, ParentKey(k) PROVE SeatInv'
  <2> DEFINE press == k \notin physical
             st == UpKey(Seat, k, press)
  <2>0. /\ focused /\ ~owesMods /\ focused' /\ window' /\ bound' = bound
        /\ physical' = Pressed(physical, k, press)
        /\ pending' = st.pending /\ view' = st.view /\ odd' = st.odd
        /\ owesMods' = (Mask(physical') # Mask(physical))
    BY <1>1 DEF ParentKey, SeatBecomes, clientVars, SeatInv, InFocus
  <2>p. press \in BOOLEAN /\ press = (k \notin physical)
    OBVIOUS
  <2> HIDE DEF press
  <2>1. CASE k \in Modifiers
    <3>1. st.pending = [key |-> k, press |-> press] /\ st.view = view /\ st.odd = {}
      BY <1>s, <1>r, <2>1, <2>p, UpKeyModifier
    <3>2. owesMods'
      BY <2>0, <2>1, <2>p, MaskChanges
    <3> HIDE DEF st
    <3>3. pending' # NoKey /\ pending'.key = k /\ pending'.press = press
      <4> DEFINE p == [key |-> k, press |-> press]
      <4>1. p \in [key : Modifiers, press : BOOLEAN] /\ p.key = k /\ p.press = press
        BY <2>1, <2>p
      <4>2. pending' = p
        BY <2>0, <3>1
      <4> HIDE DEF p
      <4> QED
        BY <4>1, <4>2, NoKeyAssumption
    <3>4. Told' = physical
      <4>1. Told' = Pressed(physical', k, ~press)
        BY <3>3 DEF Told
      <4>2. Pressed(Pressed(physical, k, press), k, ~press) = physical
        BY <2>p DEF Pressed
      <4> QED
        BY <2>0, <4>1, <4>2
    <3>5. InFocus'
      BY <1>q, <1>r, <1>f, <2>0, <3>1, <3>4 DEF AllTold
    <3>6. PendingIsLast'
      <4>1. press <=> k \in Pressed(physical, k, press)
        BY DEF Pressed
      <4> QED
        BY <2>0, <3>3, <4>1 DEF PendingIsLast
    <3> QED
      BY <1>t, <2>0, <3>1, <3>2, <3>5, <3>6 DEF SeatInv, Sensible, OutOfFocus, Completed
  <2>2. CASE k \notin Modifiers
    <3>1. st = ForwardKey(Seat, k, press)
      BY <2>2 DEF UpKey
    <3>2. ~owesMods' /\ Mask(physical') = Mask(physical)
      BY <2>0, <2>2, <2>p, MaskKeeps
    <3> HIDE DEF st
    <3>3. /\ st.pending = NoKey /\ st.odd = {}
          /\ AllTold(st, Mask(physical), Pressed(physical, k, press))
      BY <1>s, <1>r, <1>q, <2>0, <2>p, <3>1, ExpectedKey
    <3>4. pending' = NoKey /\ Told' = physical'
      BY <2>0, <3>3 DEF Told
    <3>5. InFocus'
      BY <1>f, <2>0, <3>3, <3>4
    <3>6. Completed'
      BY <2>0, <3>2, <3>3, <3>4 DEF Completed, AllTold
    <3> QED
      BY <1>t, <2>0, <3>3, <3>4, <3>5, <3>6 DEF SeatInv, Sensible, OutOfFocus, PendingIsLast
  <2> QED
    BY <2>1, <2>2
<1>2. ASSUME NEW k \in Keys, KeyElsewhere(k) PROVE SeatInv'
  <2>1. ~focused /\ ~owesMods /\ pending = NoKey
    BY <1>2 DEF KeyElsewhere, SeatInv, OutOfFocus, Completed
  <2> QED
    BY <1>t, <1>2, <2>1 DEF KeyElsewhere, clientVars, SeatInv, Sensible, OutOfFocus, InFocus,
                            Completed, PendingIsLast
<1>3. CASE ParentMods
  <2> DEFINE mods == Mask(physical)
             st == UpMods(Seat, mods)
  <2>0. /\ owesMods /\ focused /\ focused' /\ ~owesMods' /\ window' /\ bound' = bound
        /\ physical' = physical
        /\ pending' = st.pending /\ view' = st.view /\ odd' = st.odd
    BY <1>3 DEF ParentMods, SeatBecomes, clientVars, SeatInv, InFocus, OutOfFocus
  <2>m. mods \in SUBSET Bits
    BY KeyAssumption DEF Mask
  <2> HIDE DEF mods
  <2>1. st.pending = NoKey /\ st.odd = {} /\ AllTold(st, mods, physical)
    <3>1. CASE pending = NoKey
      <4>1. AllHold(Seat, physical)
        BY <1>h, <2>0, <3>1 DEF Told
      <4>2. /\ st.pending = NoKey /\ st.odd = {}
            /\ \A c \in bound : st.view[c] =
                 [focus |-> Seat.view[c].focus, mods |-> mods, down |-> Seat.view[c].down]
        BY <1>s, <1>r, <2>m, <3>1, UpModsOnly
      <4> HIDE DEF st
      <4> QED
        BY <4>1, <4>2 DEF AllTold, AllHold
    <3>2. CASE pending # NoKey
      <4>1. pending.press \in BOOLEAN /\ (pending.press <=> pending.key \in physical)
        BY <1>t, <3>2 DEF TypeOK, SeatInv, PendingIsLast
      <4>2. AllHold(Seat, Pressed(physical, pending.key, ~pending.press))
        BY <1>h, <2>0, <3>2 DEF Told
      <4> DEFINE down == Pressed(physical, pending.key, ~pending.press)
      <4>3. /\ (pending.press <=> pending.key \notin down)
            /\ Pressed(down, pending.key, pending.press) = physical
        BY <4>1 DEF Pressed
      <4> HIDE DEF down
      <4>4. AllHold(Seat, down)
        BY <4>2 DEF down
      <4>5. /\ st.pending = NoKey /\ st.odd = {}
            /\ AllTold(st, mods, Pressed(down, pending.key, pending.press))
        BY <1>s, <1>r, <2>m, <3>2, <4>3, <4>4, ExpectedMods
      <4> QED
        BY <4>3, <4>5
    <3> QED
      BY <3>1, <3>2
  <2> HIDE DEF st
  <2>2. pending' = NoKey /\ Told' = physical
    BY <2>0, <2>1 DEF Told
  <2>3. InFocus'
    BY <1>f, <2>0, <2>1, <2>2
  <2>4. Mask(physical') = mods
    BY <2>0 DEF mods
  <2>5. Completed'
    BY <2>0, <2>1, <2>2, <2>4 DEF Completed, AllTold
  <2> QED
    BY <1>t, <2>0, <2>1, <2>2, <2>3, <2>5 DEF SeatInv, Sensible, OutOfFocus, PendingIsLast
<1>4. CASE ParentEnter
  <2>1. /\ window /\ window' /\ ~focused /\ focused' /\ owesMods' /\ bound' = bound
        /\ physical' = physical /\ pending' = pending /\ odd' = odd
        /\ \A c \in bound : view'[c] = [focus |-> TRUE, down |-> physical, mods |-> {}]
    BY <1>s, <1>4 DEF ParentEnter, QuietWorld, clientVars, Entered
  <2>2. pending' = NoKey /\ Told' = physical
    BY <2>1 DEF SeatInv, OutOfFocus, Completed, Told
  <2>3. InFocus'
    BY <2>1, <2>2 DEF InFocus
  <2> QED
    BY <1>t, <2>1, <2>2, <2>3 DEF SeatInv, Sensible, OutOfFocus, Completed, PendingIsLast
<1>5. CASE ParentLeave
  <2>1. /\ window /\ focused /\ ~owesMods /\ ~focused' /\ ~owesMods' /\ bound' = bound
        /\ pending' = pending /\ odd' = odd /\ physical' = physical
        /\ view' = [c \in Keyboards |-> IF c \in bound THEN Left(view[c]) ELSE view[c]]
    BY <1>5 DEF ParentLeave, clientVars, SeatInv, InFocus
  <2>2. \A c \in bound : view'[c].focus = FALSE /\ view'[c].down = {}
    BY <1>s, <1>t, <2>1 DEF Left, TypeOK, Views
  <2> QED
    BY <1>t, <2>1, <2>2 DEF SeatInv, Sensible, OutOfFocus, InFocus, Completed, PendingIsLast
<1>6. CASE Chord
  <2> DEFINE st == SuperReturn(Seat)
  <2>0. /\ focused /\ ~owesMods /\ physical = {} /\ focused' /\ ~owesMods' /\ window'
        /\ bound' = bound /\ physical' = {}
        /\ pending' = st.pending /\ view' = st.view /\ odd' = st.odd
    BY <1>6 DEF Chord, QuietWorld, SeatBecomes, clientVars, parentVars, SeatInv, InFocus
  <2>m. Mask(physical) = {} /\ Mask(physical') = {}
    BY <2>0 DEF Mask
  <2>1. AllTold(Seat, {}, {}) /\ pending = NoKey
    BY <1>q, <2>0, <2>m
  <2>2. st.pending = NoKey /\ AllTold(st, {}, {}) /\ st.odd = {}
    BY <1>s, <1>r, <2>1, SuperReturnQuiet
  <2> HIDE DEF st
  <2>3. pending' = NoKey /\ Told' = {}
    BY <2>0, <2>2 DEF Told
  <2>4. InFocus'
    BY <1>f, <2>0, <2>2, <2>3
  <2>5. Completed'
    BY <2>0, <2>m, <2>2, <2>3 DEF Completed, AllTold
  <2> QED
    BY <1>t, <2>0, <2>2, <2>3, <2>4, <2>5 DEF SeatInv, Sensible, OutOfFocus, PendingIsLast
<1>7. ASSUME NEW c \in Keyboards, GetKeyboard(c) PROVE SeatInv'
  <2>1. /\ ~focused /\ ~focused' /\ ~owesMods /\ ~owesMods' /\ bound' = bound \cup {c}
        /\ pending' = pending /\ odd' = odd /\ view' = [view EXCEPT ![c] = NewView]
    BY <1>7 DEF GetKeyboard, ClientMayChange, QuietWorld, parentVars, SeatInv, OutOfFocus
  <2>2. \A d \in bound' : ~view'[d].focus /\ view'[d].down = {}
    BY <1>s, <1>t, <2>1 DEF SeatInv, OutOfFocus, TypeOK, NewView
  <2> QED
    BY <1>t, <2>1, <2>2 DEF SeatInv, Sensible, OutOfFocus, InFocus, Completed, PendingIsLast
<1>8. ASSUME NEW c \in Keyboards, ReleaseKeyboard(c) PROVE SeatInv'
  <2>1. /\ ~focused /\ ~focused' /\ ~owesMods /\ ~owesMods' /\ bound' = bound \ {c}
        /\ pending' = pending /\ odd' = odd /\ view' = view
    BY <1>8 DEF ReleaseKeyboard, ClientMayChange, QuietWorld, parentVars, SeatInv, OutOfFocus
  <2> QED
    BY <1>t, <2>1 DEF SeatInv, Sensible, OutOfFocus, InFocus, Completed, PendingIsLast
<1>9. CASE ChangeWindow
  <2>1. /\ ~focused /\ ~focused' /\ ~owesMods /\ ~owesMods' /\ bound' = bound
        /\ pending' = pending /\ odd' = odd /\ view' = view
    BY <1>9 DEF ChangeWindow, ClientMayChange, QuietWorld, parentVars, SeatInv, OutOfFocus
  <2> QED
    BY <1>t, <2>1 DEF SeatInv, Sensible, OutOfFocus, InFocus, Completed, PendingIsLast
<1>10. CASE UNCHANGED vars
  BY <1>t, <1>10 DEF vars, SeatInv, Sensible, OutOfFocus, InFocus, Completed, PendingIsLast, Told
<1> QED
  BY <1>1, <1>2, <1>3, <1>4, <1>5, <1>6, <1>7, <1>8, <1>9, <1>10 DEF Next

LEMMA SeatInvAlways ==
  ASSUME DistinctBits, QuietWorld
  PROVE  Spec => []SeatInv
<1>1. SeatInv /\ [Next]_vars => SeatInv'
  BY SeatInvStep
<1> QED
  BY <1>1, SeatInvInit, PTL DEF Spec

\* With a bit for each modifier and a quiet world, the client's keyboards know
\* the focus, the keys and the modifiers as the parent does.
THEOREM KeyboardFaithful ==
  ASSUME DistinctBits, QuietWorld
  PROVE  Spec => []KeysFaithful
<1>1. SeatInv => KeysFaithful
  <2> SUFFICES ASSUME SeatInv, NEW c \in bound
               PROVE  /\ focused /\ ~owesMods =>
                           view[c] = [focus |-> TRUE, down |-> physical, mods |-> Mask(physical)]
                      /\ ~focused => ~view[c].focus /\ view[c].down = {}
    BY DEF KeysFaithful
  <2>1. view[c] \in Views
    BY DEF SeatInv, TypeOK
  <2>2. ASSUME focused, ~owesMods
        PROVE  view[c].focus = TRUE /\ view[c].down = physical /\ view[c].mods = Mask(physical)
    BY <2>1, <2>2 DEF SeatInv, InFocus, Completed, Told, Views
  <2> QED
    BY <2>1, <2>2 DEF SeatInv, OutOfFocus, Views
<1> QED
  BY <1>1, SeatInvAlways, PTL

\* Under the same assumptions no keyboard is sent a key it does not expect.
THEOREM KeyboardSensible ==
  ASSUME DistinctBits, QuietWorld
  PROVE  Spec => []Sensible
<1>1. SeatInv => Sensible
  BY DEF SeatInv
<1> QED
  BY <1>1, SeatInvAlways, PTL
=============================================================================
