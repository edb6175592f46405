------------------------------- MODULE SeatRelay -------------------------------
(***************************************************************************)
(* The keyboard of the bridge's seat: how the key, modifiers, enter and    *)
(* leave events of the parent's keyboard reach the client's keyboards, and *)
(* what SIGUSR1 (the Super+Return chord) puts between them.                *)
(*                                                                         *)
(* The parent sends a key, then, when the key changed the modifiers, the   *)
(* modifiers.  The bridge holds a modifier key back until the modifiers    *)
(* come, in one place for one key.                                         *)
(***************************************************************************)
EXTENDS Naturals, FiniteSets

CONSTANTS Keys,          \* the keys of the keyboard
          Modifiers,     \* those is_modifier_key knows
          Bits,          \* the bits of a modifier mask
          Bit,           \* Bit[k]: the bit modifier k sets
          Super, Return, \* the keys of the chord (125 and 28)
          Keyboards,     \* the wl_keyboards clients make
          WorldMay,      \* what the world around the bridge may do
          NoKey          \* no pending key

WorldEvents == {"late_keyboard",   \* a keyboard or the window comes while focused
                "chord",           \* SIGUSR1 while focused and no key is down
                "chord_any_time"}  \* SIGUSR1 at any time

ASSUME KeyAssumption == /\ Modifiers \subseteq Keys
                        /\ Super \in Modifiers
                        /\ Return \in Keys \ Modifiers
                        /\ Bit \in [Modifiers -> Bits]
ASSUME WorldAssumption == WorldMay \subseteq WorldEvents
ASSUME NoKeyAssumption == NoKey \notin [key : Modifiers, press : BOOLEAN]

VARIABLES
  physical,  \* the keys held down on the parent's keyboard
  focused,   \* the bridge's window has the parent's keyboard focus
  owesMods,  \* the parent's modifiers event for the last change is on its way
  pending,   \* have_pending_key, pending_key and pending_key_state
  window,    \* main_surface is not null
  bound,     \* G.keyboards
  view,      \* what each keyboard was told: focus, the keys down, the modifiers
  odd        \* keyboards sent a key out of focus, a press of a key that is
             \* down, or a release of one that is not

vars == <<physical, focused, owesMods, pending, window, bound, view, odd>>
parentVars == <<physical, focused, owesMods>>
clientVars == <<window, bound>>

Views == [focus : BOOLEAN, down : SUBSET Keys, mods : SUBSET Bits]
NewView == [focus |-> FALSE, down |-> {}, mods |-> {}]

Init ==
  /\ physical = {} /\ focused = FALSE /\ owesMods = FALSE
  /\ pending = NoKey
  /\ window = FALSE
  /\ bound = {}
  /\ view = [c \in Keyboards |-> NewView]
  /\ odd = {}

\* The modifier mask the parent sends for the keys that are down.
Mask(down) == {Bit[k] : k \in down \cap Modifiers}

-----------------------------------------------------------------------------
(* The handlers of the parent's keyboard, as functions of the seat          *)

Seat == [pending |-> pending, view |-> view, odd |-> odd]

SeatBecomes(st) == pending' = st.pending /\ view' = st.view /\ odd' = st.odd

Pressed(down, k, press) == IF press THEN down \cup {k} ELSE down \ {k}

\* A key event that v does not expect.
Unexpected(v, k, press) == ~v.focus \/ (press = (k \in v.down))

\* A keyboard is told a key; it is told the modifiers.
TellKey(v, k, press) == [v EXCEPT !.down = Pressed(v.down, k, press)]
TellMods(v, mods) == [v EXCEPT !.mods = mods]

\* forward_key: every keyboard is sent the key, in focus or not.
ForwardKey(st, k, press) ==
  [pending |-> st.pending,
   view |-> [c \in Keyboards |->
               IF c \in bound THEN TellKey(st.view[c], k, press) ELSE st.view[c]],
   odd |-> st.odd \cup {c \in bound : Unexpected(st.view[c], k, press)}]

\* forward_mods
ForwardMods(st, mods) ==
  [pending |-> st.pending,
   view |-> [c \in Keyboards |-> IF c \in bound THEN TellMods(st.view[c], mods) ELSE st.view[c]],
   odd |-> st.odd]

\* up_key: a modifier key takes the one pending place.
UpKey(st, k, press) ==
  IF k \in Modifiers
  THEN [st EXCEPT !.pending = [key |-> k, press |-> press]]
  ELSE ForwardKey(st, k, press)

\* Mutants: the pending key is dropped; it is forwarded and not cleared.
DropPending(st) == [st EXCEPT !.pending = NoKey]
KeepPending(st) ==
  IF st.pending = NoKey THEN st ELSE ForwardKey(st, st.pending.key, st.pending.press)

\* The first half of up_mods: the pending key goes ahead of the modifiers.
FlushPending(st) ==
  IF st.pending = NoKey
  THEN st
  ELSE [ForwardKey(st, st.pending.key, st.pending.press) EXCEPT !.pending = NoKey]

\* Mutant: the modifiers do not release the pending key, which the next replaces.
ModsWithoutKey(st, mods) == ForwardMods(st, mods)

\* up_mods
UpMods(st, mods) == ForwardMods(FlushPending(st), mods)

\* deliver_super_return
SuperReturn(st) ==
  LET pressed  == UpMods(UpKey(st, Super, TRUE), {Bit[Super]})
      returned == UpKey(UpKey(pressed, Return, TRUE), Return, FALSE)
  IN UpMods(UpKey(returned, Super, FALSE), {})

\* What up_kenter tells a keyboard: the keys that are down, no modifiers.
Entered(v) ==
  IF window THEN [focus |-> TRUE, down |-> physical, mods |-> {}] ELSE [v EXCEPT !.mods = {}]

\* What up_kleave tells a keyboard.
Left(v) == IF window THEN [v EXCEPT !.focus = FALSE, !.down = {}] ELSE v

-----------------------------------------------------------------------------
(* The parent's events                                                     *)

\* A key goes down or up while the window has the focus.
ParentKey(k) ==
  /\ focused
  /\ ~owesMods
  /\ physical' = Pressed(physical, k, k \notin physical)
  /\ SeatBecomes(UpKey(Seat, k, k \notin physical))
  /\ owesMods' = (Mask(physical') # Mask(physical))
  /\ UNCHANGED <<focused, clientVars>>

\* The modifiers that follow a key or the focus.
ParentMods ==
  /\ owesMods
  /\ SeatBecomes(UpMods(Seat, Mask(physical)))
  /\ owesMods' = FALSE
  /\ UNCHANGED <<physical, focused, clientVars>>

\* A key goes down or up while another window has the focus.
KeyElsewhere(k) ==
  /\ ~focused
  /\ physical' = Pressed(physical, k, k \notin physical)
  /\ UNCHANGED <<focused, owesMods, pending, clientVars, view, odd>>

\* up_kenter, of the keys that are down.  The parent maps and focuses a window
\* that has shown a frame, so there is a main surface, unless it went since.
ParentEnter ==
  /\ ~focused
  /\ window \/ "late_keyboard" \in WorldMay
  /\ focused' = TRUE
  /\ owesMods' = TRUE
  /\ view' = [c \in Keyboards |-> IF c \in bound THEN Entered(view[c]) ELSE view[c]]
  /\ UNCHANGED <<physical, pending, clientVars, odd>>

\* up_kleave: the pending key stays pending.
ParentLeave ==
  /\ focused
  /\ ~owesMods
  /\ focused' = FALSE
  /\ view' = [c \in Keyboards |-> IF c \in bound THEN Left(view[c]) ELSE view[c]]
  /\ UNCHANGED <<physical, owesMods, pending, clientVars, odd>>

\* on_usr1 was called, and the main loop has come round: between any two of
\* the parent's events.
Chord ==
  /\ \/ "chord_any_time" \in WorldMay
     \/ "chord" \in WorldMay /\ focused /\ ~owesMods /\ physical = {}
  /\ SeatBecomes(SuperReturn(Seat))
  /\ UNCHANGED <<parentVars, clientVars>>

-----------------------------------------------------------------------------
(* The clients                                                             *)

ClientMayChange == focused => "late_keyboard" \in WorldMay

\* seat_keyboard: no enter is sent, even in focus.
GetKeyboard(c) ==
  /\ ClientMayChange
  /\ c \notin bound
  /\ bound' = bound \cup {c}
  /\ view' = [view EXCEPT ![c] = NewView]
  /\ UNCHANGED <<parentVars, pending, window, odd>>

\* keyboard_release
ReleaseKeyboard(c) ==
  /\ ClientMayChange
  /\ c \in bound
  /\ bound' = bound \ {c}
  /\ UNCHANGED <<parentVars, pending, window, view, odd>>

\* xs_toplevel makes the main surface, surface_destroy unmakes it.
ChangeWindow ==
  /\ ClientMayChange
  /\ window' = ~window
  /\ UNCHANGED <<parentVars, pending, bound, view, odd>>

Next ==
  \/ \E k \in Keys : ParentKey(k) \/ KeyElsewhere(k)
  \/ ParentMods
  \/ ParentEnter
  \/ ParentLeave
  \/ Chord
  \/ \E c \in Keyboards : GetKeyboard(c) \/ ReleaseKeyboard(c)
  \/ ChangeWindow

Spec == Init /\ [][Next]_vars

\* The parent completes every key and every enter with its modifiers.
LiveSpec == Spec /\ WF_vars(ParentMods)

-----------------------------------------------------------------------------
(* Properties                                                              *)

\* Every variable has its type.
TypeOK ==
  /\ physical \in SUBSET Keys
  /\ focused \in BOOLEAN /\ owesMods \in BOOLEAN /\ window \in BOOLEAN
  /\ pending \in [key : Modifiers, press : BOOLEAN] \cup {NoKey}
  /\ bound \in SUBSET Keyboards /\ odd \in SUBSET Keyboards
  /\ view \in [Keyboards -> Views]

\* Once the parent's events are complete, every keyboard of the client knows
\* the focus, the keys that are down and the modifiers as the parent does,
\* through every enter and leave and although modifier keys are held back.
KeysFaithful ==
  \A c \in bound :
    /\ focused /\ ~owesMods =>
         view[c] = [focus |-> TRUE, down |-> physical, mods |-> Mask(physical)]
    /\ ~focused => ~view[c].focus /\ view[c].down = {}

\* No keyboard is sent a key out of focus, the press of a key that is down or
\* the release of one that is not.
Sensible == odd = {}

\* tests/suite.c:578: "modifier key delivered".  Every modifier key that is held
\* back, pressed or released, reaches every keyboard: it is not dropped, not
\* replaced by the next one, and not kept for ever.
Knows(c, k, press) == (k \in view[c].down) = press

PendingDelivered ==
  \A k \in Modifiers, press \in BOOLEAN :
    pending = [key |-> k, press |-> press] ~> \A c \in bound : Knows(c, k, press)

\* When no key is down on the parent's keyboard, none is down for the client.
NothingStuck ==
  focused /\ ~owesMods /\ physical = {} => \A c \in bound : view[c].down = {}

-----------------------------------------------------------------------------
(* The inductive invariant behind KeysFaithful and Sensible                *)

\* No two modifiers share a bit; the chord comes only with no key down, and
\* the client's keyboards and window change only out of focus.
DistinctBits == \A j, k \in Modifiers : Bit[j] = Bit[k] => j = k
QuietWorld == WorldMay \subseteq {"chord"}

\* What the keyboards believe is down: all that is, but for the pending key.
Told == IF pending = NoKey THEN physical ELSE Pressed(physical, pending.key, ~pending.press)

OutOfFocus ==
  ~focused => /\ ~owesMods
              /\ \A c \in bound : ~view[c].focus /\ view[c].down = {}

InFocus ==
  focused => /\ window
             /\ \A c \in bound : view[c].focus /\ view[c].down = Told

Completed ==
  ~owesMods => /\ pending = NoKey
               /\ focused => \A c \in bound : view[c].mods = Mask(physical)

PendingIsLast == pending # NoKey => (pending.press <=> pending.key \in physical)

SeatInv == TypeOK /\ Sensible /\ OutOfFocus /\ InFocus /\ Completed /\ PendingIsLast
=============================================================================
