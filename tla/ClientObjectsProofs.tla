------------------------- MODULE ClientObjectsProofs --------------------------
(***************************************************************************)
(* Theorems about ClientObjects, for any clients, callbacks and rules that *)
(* may be broken.                                                          *)
(***************************************************************************)
EXTENDS ClientObjects, TLAPS

-----------------------------------------------------------------------------
(* The types                                                               *)

LEMMA ClientTypeInit == Init => TypeOK
BY NoneAssumption, CompositorAssumption DEF Init, TypeOK, Broke

LEMMA ClientTypeStep == TypeOK /\ [Next]_vars => TypeOK'
<1> SUFFICES ASSUME TypeOK, [Next]_vars PROVE TypeOK'
  OBVIOUS
<1> USE NoneAssumption, RuleAssumption, OwnerAssumption
    DEF TypeOK, Breaks, When, Rules, connVars, loopVars, windowVars, seatVars, frameVars, Served,
       Dispatching, ShellObjects, Fields, Freed
<1>1. ASSUME NEW c \in Clients, BindGlobal(c) PROVE TypeOK'
  BY <1>1 DEF BindGlobal, Hook
<1>2. ASSUME NEW c \in Clients, ClientLeaves(c) PROVE TypeOK'
  BY <1>2 DEF ClientLeaves, ClientGone
<1>3. ASSUME NEW c \in Clients, CompSurface(c) PROVE TypeOK'
  BY <1>3 DEF CompSurface
<1>4. ASSUME NEW c \in Clients, XdgGetSurface(c) PROVE TypeOK'
  BY <1>4 DEF XdgGetSurface
<1>5. ASSUME NEW c \in Clients, XsToplevel(c) PROVE TypeOK'
  BY <1>5 DEF XsToplevel, BreaksCalm
<1>6. ASSUME NEW c \in Clients, XsAck(c) PROVE TypeOK'
  BY <1>6 DEF XsAck
<1>7. ASSUME NEW c \in Clients, TopDestroy(c) \/ XsDestroy(c) PROVE TypeOK'
  <2>1. ASSUME NEW r \in {"toplevel", "xdg"}, ShellDestroy(c, r) PROVE TypeOK'
    BY <2>1 DEF ShellDestroy
  <2> QED
    BY <1>7, <2>1 DEF TopDestroy, XsDestroy
<1>8. ASSUME NEW c \in Clients, SurfaceDestroy(c) PROVE TypeOK'
  BY <1>8 DEF SurfaceDestroy, MainWithout
<1>9. ASSUME NEW c \in Clients, ShellRequestFaults(c) PROVE TypeOK'
  BY <1>9 DEF ShellRequestFaults, Use
<1>10. ASSUME NEW c \in Clients, CommitFaults(c) PROVE TypeOK'
  BY <1>10 DEF CommitFaults, Use
<1>11. ASSUME NEW c \in Clients, SeatKeyboard(c) PROVE TypeOK'
  BY <1>11 DEF SeatKeyboard, BreaksCalm
<1>12. ASSUME NEW c \in Clients, SeatPointer(c) PROVE TypeOK'
  BY <1>12 DEF SeatPointer, BreaksCalm
<1>13. ASSUME NEW c \in Clients, KeyboardRelease(c) PROVE TypeOK'
  BY <1>13 DEF KeyboardRelease, BreaksCalm
<1>14. ASSUME NEW c \in Clients, PointerRelease(c) PROVE TypeOK'
  BY <1>14 DEF PointerRelease, BreaksCalm, WithoutLink
<1>15. ASSUME NEW c \in Clients, SurfaceFrame(c) PROVE TypeOK'
  BY <1>15 DEF SurfaceFrame
<1>16. ASSUME NEW c \in Clients, CommitShown(c) PROVE TypeOK'
  BY <1>16 DEF CommitShown, CommitsFrame, HandOver
<1>17. ASSUME NEW c \in Clients, CommitWaits(c) PROVE TypeOK'
  BY <1>17 DEF CommitWaits, CommitsFrame
<1>18. ASSUME NEW c \in Clients, CommitBare(c) PROVE TypeOK'
  BY <1>18 DEF CommitBare
<1>19. CASE KeyboardFocus
  BY <1>19 DEF KeyboardFocus, Dropped
<1>20. CASE UpPointerEnter
  BY <1>20 DEF UpPointerEnter, Dropped
<1>21. CASE UpPointerLeave
  BY <1>21 DEF UpPointerLeave, Dropped, Left
<1>22. CASE UpPointerEvent
  BY <1>22 DEF UpPointerEvent
<1>23. CASE KeyboardEventFaults
  BY <1>23 DEF KeyboardEventFaults, Use
<1>24. CASE PointerEventFaults
  BY <1>24 DEF PointerEventFaults, Use
<1>25. CASE EnterFaults
  BY <1>25 DEF EnterFaults, StaleMain, Use
<1>26. CASE TopClose
  BY <1>26 DEF TopClose
<1>27. CASE ConfigureFaults
  BY <1>27 DEF ConfigureFaults, Use
<1>28. CASE PumpQueue
  BY <1>28 DEF PumpQueue, HandOver
<1>29. CASE ReleaseFaults
  BY <1>29 DEF ReleaseFaults, CommitsFrame, Use
<1>30. ASSUME NEW k \in Callbacks, UpFrameDone(k) PROVE TypeOK'
  BY <1>30 DEF UpFrameDone
<1>31. ASSUME NEW k \in Callbacks, DoneFaults(k) PROVE TypeOK'
  BY <1>31 DEF DoneFaults, Use
<1>33. CASE ToClients
  BY <1>33 DEF ToClients
<1>34. CASE ToParent
  BY <1>34 DEF ToParent, LoopTest
<1>32. CASE UNCHANGED vars
  BY <1>32 DEF vars
<1> QED
  BY <1>1, <1>2, <1>3, <1>4, <1>5, <1>6, <1>7, <1>8, <1>9, <1>10, <1>11, <1>12, <1>13, <1>14,
     <1>15, <1>16, <1>17, <1>18, <1>19, <1>20, <1>21, <1>22, <1>23, <1>24, <1>25, <1>26, <1>27,
        <1>28,
     <1>29, <1>30, <1>31, <1>32, <1>33, <1>34
     DEF Next, WindowRequest, SeatRequest, FrameRequest, SeatEvent, FrameEvent

\* Every variable keeps its type, and main_surface always has its toplevel.
THEOREM ClientTypeCorrect == Spec => []TypeOK
  BY ClientTypeInit, ClientTypeStep, PTL DEF Spec

-----------------------------------------------------------------------------
(* Surfaces                                                                *)

LEMMA ShapedStep ==
  ASSUME ClientInv, [Next]_vars
  PROVE  Shaped'
<1>t. TypeOK'
  BY ClientTypeStep DEF ClientInv
<1> USE <1>t, NoneAssumption, CompositorAssumption, OwnerAssumption
    DEF ClientInv, Shaped, TypeOK, Breaks, When, Broke, connVars, loopVars, windowVars, seatVars,
       frameVars, Served, Dispatching
<1>1. ASSUME NEW c \in Clients, BindGlobal(c) PROVE Shaped'
  BY <1>1 DEF BindGlobal, Hook
<1>2. ASSUME NEW c \in Clients, ClientLeaves(c) PROVE Shaped'
  BY <1>2 DEF ClientLeaves, ClientGone
<1>3. ASSUME NEW c \in Clients, CompSurface(c) PROVE Shaped'
  BY <1>3 DEF CompSurface
<1>4. ASSUME NEW c \in Clients, XdgGetSurface(c) PROVE Shaped'
  BY <1>4 DEF XdgGetSurface
<1>5. ASSUME NEW c \in Clients, XsToplevel(c) PROVE Shaped'
  BY <1>5 DEF XsToplevel, BreaksCalm
<1>6. ASSUME NEW c \in Clients, XsAck(c) PROVE Shaped'
  BY <1>6 DEF XsAck
<1>7. ASSUME NEW c \in Clients, TopDestroy(c) \/ XsDestroy(c) PROVE Shaped'
  BY <1>7 DEF TopDestroy, XsDestroy, ShellDestroy
<1>8. ASSUME NEW c \in Clients, SurfaceDestroy(c) PROVE Shaped'
  BY <1>8 DEF SurfaceDestroy, MainWithout
<1>9. ASSUME NEW c \in Clients, ShellRequestFaults(c) PROVE Shaped'
  BY <1>9 DEF ShellRequestFaults, Use
<1>10. ASSUME NEW c \in Clients, CommitFaults(c) PROVE Shaped'
  BY <1>10 DEF CommitFaults, Use
<1>11. ASSUME NEW c \in Clients, SeatKeyboard(c) PROVE Shaped'
  BY <1>11 DEF SeatKeyboard, BreaksCalm
<1>12. ASSUME NEW c \in Clients, SeatPointer(c) PROVE Shaped'
  BY <1>12 DEF SeatPointer, BreaksCalm
<1>13. ASSUME NEW c \in Clients, KeyboardRelease(c) PROVE Shaped'
  BY <1>13 DEF KeyboardRelease, BreaksCalm
<1>14. ASSUME NEW c \in Clients, PointerRelease(c) PROVE Shaped'
  BY <1>14 DEF PointerRelease, BreaksCalm, WithoutLink
<1>15. ASSUME NEW c \in Clients, SurfaceFrame(c) PROVE Shaped'
  BY <1>15 DEF SurfaceFrame
<1>16. ASSUME NEW c \in Clients, CommitShown(c) PROVE Shaped'
  BY <1>16 DEF CommitShown, CommitsFrame, HandOver
<1>17. ASSUME NEW c \in Clients, CommitWaits(c) PROVE Shaped'
  BY <1>17 DEF CommitWaits, CommitsFrame
<1>18. ASSUME NEW c \in Clients, CommitBare(c) PROVE Shaped'
  BY <1>18 DEF CommitBare
<1>19. CASE KeyboardFocus
  BY <1>19 DEF KeyboardFocus, Dropped
<1>20. CASE UpPointerEnter
  BY <1>20 DEF UpPointerEnter, Dropped
<1>21. CASE UpPointerLeave
  BY <1>21 DEF UpPointerLeave, Dropped, Left
<1>22. CASE UpPointerEvent
  BY <1>22 DEF UpPointerEvent
<1>23. CASE KeyboardEventFaults
  BY <1>23 DEF KeyboardEventFaults, Use
<1>24. CASE PointerEventFaults
  BY <1>24 DEF PointerEventFaults, Use
<1>25. CASE EnterFaults
  BY <1>25 DEF EnterFaults, StaleMain, Use
<1>26. CASE TopClose
  BY <1>26 DEF TopClose
<1>27. CASE ConfigureFaults
  BY <1>27 DEF ConfigureFaults, Use
<1>28. CASE PumpQueue
  BY <1>28 DEF PumpQueue, HandOver
<1>29. CASE ReleaseFaults
  BY <1>29 DEF ReleaseFaults, CommitsFrame, Use
<1>30. ASSUME NEW k \in Callbacks, UpFrameDone(k) PROVE Shaped'
  BY <1>30 DEF UpFrameDone
<1>31. ASSUME NEW k \in Callbacks, DoneFaults(k) PROVE Shaped'
  BY <1>31 DEF DoneFaults, Use
<1>33. CASE ToClients
  BY <1>33 DEF ToClients
<1>34. CASE ToParent
  BY <1>34 DEF ToParent, LoopTest
<1>32. CASE UNCHANGED vars
  BY <1>32 DEF vars
<1> QED
  BY <1>1, <1>2, <1>3, <1>4, <1>5, <1>6, <1>7, <1>8, <1>9, <1>10, <1>11, <1>12, <1>13, <1>14,
     <1>15, <1>16, <1>17, <1>18, <1>19, <1>20, <1>21, <1>22, <1>23, <1>24, <1>25, <1>26, <1>27,
        <1>28,
     <1>29, <1>30, <1>31, <1>32, <1>33, <1>34
     DEF Next, WindowRequest, SeatRequest, FrameRequest, SeatEvent, FrameEvent

-----------------------------------------------------------------------------
(* Whole windows                                                           *)

LEMMA WholeStep ==
  ASSUME ClientInv, [Next]_vars
  PROVE  Whole'
<1>t. TypeOK'
  BY ClientTypeStep DEF ClientInv
<1> USE <1>t, NoneAssumption, CompositorAssumption, OwnerAssumption
    DEF ClientInv, Whole, TypeOK, ShellObjects, Fields, Breaks, When, Broke, connVars, loopVars,
       windowVars, seatVars, frameVars, Served, Dispatching
<1>1. ASSUME NEW c \in Clients, BindGlobal(c) PROVE Whole'
  BY <1>1 DEF BindGlobal, Hook
<1>2. ASSUME NEW c \in Clients, ClientLeaves(c) PROVE Whole'
  BY <1>2 DEF ClientLeaves, ClientGone
<1>3. ASSUME NEW c \in Clients, CompSurface(c) PROVE Whole'
  BY <1>3 DEF CompSurface
<1>4. ASSUME NEW c \in Clients, XdgGetSurface(c) PROVE Whole'
  BY <1>4 DEF XdgGetSurface
<1>5. ASSUME NEW c \in Clients, XsToplevel(c) PROVE Whole'
  BY <1>5 DEF XsToplevel, BreaksCalm
<1>6. ASSUME NEW c \in Clients, XsAck(c) PROVE Whole'
  BY <1>6 DEF XsAck
<1>7. ASSUME NEW c \in Clients, TopDestroy(c) \/ XsDestroy(c) PROVE Whole'
  BY <1>7 DEF TopDestroy, XsDestroy, ShellDestroy
<1>8. ASSUME NEW c \in Clients, SurfaceDestroy(c) PROVE Whole'
  BY <1>8 DEF SurfaceDestroy, MainWithout
<1>9. ASSUME NEW c \in Clients, ShellRequestFaults(c) PROVE Whole'
  BY <1>9 DEF ShellRequestFaults, Use
<1>10. ASSUME NEW c \in Clients, CommitFaults(c) PROVE Whole'
  BY <1>10 DEF CommitFaults, Use
<1>11. ASSUME NEW c \in Clients, SeatKeyboard(c) PROVE Whole'
  BY <1>11 DEF SeatKeyboard, BreaksCalm
<1>12. ASSUME NEW c \in Clients, SeatPointer(c) PROVE Whole'
  BY <1>12 DEF SeatPointer, BreaksCalm
<1>13. ASSUME NEW c \in Clients, KeyboardRelease(c) PROVE Whole'
  BY <1>13 DEF KeyboardRelease, BreaksCalm
<1>14. ASSUME NEW c \in Clients, PointerRelease(c) PROVE Whole'
  BY <1>14 DEF PointerRelease, BreaksCalm, WithoutLink
<1>15. ASSUME NEW c \in Clients, SurfaceFrame(c) PROVE Whole'
  BY <1>15 DEF SurfaceFrame
<1>16. ASSUME NEW c \in Clients, CommitShown(c) PROVE Whole'
  BY <1>16 DEF CommitShown, CommitsFrame, HandOver
<1>17. ASSUME NEW c \in Clients, CommitWaits(c) PROVE Whole'
  BY <1>17 DEF CommitWaits, CommitsFrame
<1>18. ASSUME NEW c \in Clients, CommitBare(c) PROVE Whole'
  BY <1>18 DEF CommitBare
<1>19. CASE KeyboardFocus
  BY <1>19 DEF KeyboardFocus, Dropped
<1>20. CASE UpPointerEnter
  BY <1>20 DEF UpPointerEnter, Dropped
<1>21. CASE UpPointerLeave
  BY <1>21 DEF UpPointerLeave, Dropped, Left
<1>22. CASE UpPointerEvent
  BY <1>22 DEF UpPointerEvent
<1>23. CASE KeyboardEventFaults
  BY <1>23 DEF KeyboardEventFaults, Use
<1>24. CASE PointerEventFaults
  BY <1>24 DEF PointerEventFaults, Use
<1>25. CASE EnterFaults
  BY <1>25 DEF EnterFaults, StaleMain, Use
<1>26. CASE TopClose
  BY <1>26 DEF TopClose
<1>27. CASE ConfigureFaults
  BY <1>27 DEF ConfigureFaults, Use
<1>28. CASE PumpQueue
  BY <1>28 DEF PumpQueue, HandOver
<1>29. CASE ReleaseFaults
  BY <1>29 DEF ReleaseFaults, CommitsFrame, Use
<1>30. ASSUME NEW k \in Callbacks, UpFrameDone(k) PROVE Whole'
  BY <1>30 DEF UpFrameDone
<1>31. ASSUME NEW k \in Callbacks, DoneFaults(k) PROVE Whole'
  BY <1>31 DEF DoneFaults, Use
<1>33. CASE ToClients
  BY <1>33 DEF ToClients
<1>34. CASE ToParent
  BY <1>34 DEF ToParent, LoopTest
<1>32. CASE UNCHANGED vars
  BY <1>32 DEF vars
<1> QED
  BY <1>1, <1>2, <1>3, <1>4, <1>5, <1>6, <1>7, <1>8, <1>9, <1>10, <1>11, <1>12, <1>13, <1>14,
     <1>15, <1>16, <1>17, <1>18, <1>19, <1>20, <1>21, <1>22, <1>23, <1>24, <1>25, <1>26, <1>27,
        <1>28,
     <1>29, <1>30, <1>31, <1>32, <1>33, <1>34
     DEF Next, WindowRequest, SeatRequest, FrameRequest, SeatEvent, FrameEvent

-----------------------------------------------------------------------------
(* The one that is hooked                                                  *)

LEMMA HookedStep ==
  ASSUME ClientInv, [Next]_vars
  PROVE  Hooked'
<1>t. TypeOK'
  BY ClientTypeStep DEF ClientInv
<1> USE <1>t, NoneAssumption, CompositorAssumption, OwnerAssumption
    DEF ClientInv, Hooked, Shaped, TypeOK, Gone, Guest, Breaks, When, Broke, connVars, loopVars,
       windowVars, seatVars, frameVars, Served, Dispatching
<1>1. ASSUME NEW c \in Clients, BindGlobal(c) PROVE Hooked'
  BY <1>1 DEF BindGlobal, Hook
<1>2. ASSUME NEW c \in Clients, ClientLeaves(c) PROVE Hooked'
  BY <1>2 DEF ClientLeaves, ClientGone
<1>3. ASSUME NEW c \in Clients, CompSurface(c) PROVE Hooked'
  BY <1>3 DEF CompSurface
<1>4. ASSUME NEW c \in Clients, XdgGetSurface(c) PROVE Hooked'
  BY <1>4 DEF XdgGetSurface
<1>5. ASSUME NEW c \in Clients, XsToplevel(c) PROVE Hooked'
  BY <1>5 DEF XsToplevel, BreaksCalm
<1>6. ASSUME NEW c \in Clients, XsAck(c) PROVE Hooked'
  BY <1>6 DEF XsAck
<1>7. ASSUME NEW c \in Clients, TopDestroy(c) \/ XsDestroy(c) PROVE Hooked'
  BY <1>7 DEF TopDestroy, XsDestroy, ShellDestroy
<1>8. ASSUME NEW c \in Clients, SurfaceDestroy(c) PROVE Hooked'
  BY <1>8 DEF SurfaceDestroy, MainWithout
<1>9. ASSUME NEW c \in Clients, ShellRequestFaults(c) PROVE Hooked'
  BY <1>9 DEF ShellRequestFaults, Use
<1>10. ASSUME NEW c \in Clients, CommitFaults(c) PROVE Hooked'
  BY <1>10 DEF CommitFaults, Use
<1>11. ASSUME NEW c \in Clients, SeatKeyboard(c) PROVE Hooked'
  BY <1>11 DEF SeatKeyboard, BreaksCalm
<1>12. ASSUME NEW c \in Clients, SeatPointer(c) PROVE Hooked'
  BY <1>12 DEF SeatPointer, BreaksCalm
<1>13. ASSUME NEW c \in Clients, KeyboardRelease(c) PROVE Hooked'
  BY <1>13 DEF KeyboardRelease, BreaksCalm
<1>14. ASSUME NEW c \in Clients, PointerRelease(c) PROVE Hooked'
  BY <1>14 DEF PointerRelease, BreaksCalm, WithoutLink
<1>15. ASSUME NEW c \in Clients, SurfaceFrame(c) PROVE Hooked'
  BY <1>15 DEF SurfaceFrame
<1>16. ASSUME NEW c \in Clients, CommitShown(c) PROVE Hooked'
  BY <1>16 DEF CommitShown, CommitsFrame, HandOver
<1>17. ASSUME NEW c \in Clients, CommitWaits(c) PROVE Hooked'
  BY <1>17 DEF CommitWaits, CommitsFrame
<1>18. ASSUME NEW c \in Clients, CommitBare(c) PROVE Hooked'
  BY <1>18 DEF CommitBare
<1>19. CASE KeyboardFocus
  <2>1. conn'[Compositor] = "away" <=> conn[Compositor] = "away"
    BY <1>19 DEF KeyboardFocus, Dropped
  <2>2. UNCHANGED hooked /\ broken \subseteq broken'
    BY <1>19 DEF KeyboardFocus
  <2> QED
    BY <2>1, <2>2
<1>20. CASE UpPointerEnter
  <2>1. conn'[Compositor] = "away" <=> conn[Compositor] = "away"
    BY <1>20 DEF UpPointerEnter, Dropped
  <2>2. UNCHANGED hooked /\ broken \subseteq broken'
    BY <1>20 DEF UpPointerEnter
  <2> QED
    BY <2>1, <2>2
<1>21. CASE UpPointerLeave
  <2>1. conn'[Compositor] = "away" <=> conn[Compositor] = "away"
    BY <1>21 DEF UpPointerLeave, Dropped
  <2>2. UNCHANGED hooked /\ broken \subseteq broken'
    BY <1>21 DEF UpPointerLeave
  <2> QED
    BY <2>1, <2>2
<1>22. CASE UpPointerEvent
  BY <1>22 DEF UpPointerEvent
<1>23. CASE KeyboardEventFaults
  BY <1>23 DEF KeyboardEventFaults, Use
<1>24. CASE PointerEventFaults
  BY <1>24 DEF PointerEventFaults, Use
<1>25. CASE EnterFaults
  BY <1>25 DEF EnterFaults, StaleMain, Use
<1>26. CASE TopClose
  BY <1>26 DEF TopClose
<1>27. CASE ConfigureFaults
  BY <1>27 DEF ConfigureFaults, Use
<1>28. CASE PumpQueue
  BY <1>28 DEF PumpQueue, HandOver
<1>29. CASE ReleaseFaults
  BY <1>29 DEF ReleaseFaults, CommitsFrame, Use
<1>30. ASSUME NEW k \in Callbacks, UpFrameDone(k) PROVE Hooked'
  BY <1>30 DEF UpFrameDone
<1>31. ASSUME NEW k \in Callbacks, DoneFaults(k) PROVE Hooked'
  BY <1>31 DEF DoneFaults, Use
<1>33. CASE ToClients
  BY <1>33 DEF ToClients
<1>34. CASE ToParent
  BY <1>34 DEF ToParent, LoopTest
<1>32. CASE UNCHANGED vars
  BY <1>32 DEF vars
<1> QED
  BY <1>1, <1>2, <1>3, <1>4, <1>5, <1>6, <1>7, <1>8, <1>9, <1>10, <1>11, <1>12, <1>13, <1>14,
     <1>15, <1>16, <1>17, <1>18, <1>19, <1>20, <1>21, <1>22, <1>23, <1>24, <1>25, <1>26, <1>27,
        <1>28,
     <1>29, <1>30, <1>31, <1>32, <1>33, <1>34
     DEF Next, WindowRequest, SeatRequest, FrameRequest, SeatEvent, FrameEvent

-----------------------------------------------------------------------------
(* The compositor's end                                                    *)

LEMMA EndsStep ==
  ASSUME ClientInv, [Next]_vars
  PROVE  CompositorEnds'
<1>t. TypeOK'
  BY ClientTypeStep DEF ClientInv
<1> USE <1>t, NoneAssumption, CompositorAssumption, OwnerAssumption
    DEF ClientInv, CompositorEnds, Hooked, TypeOK, Gone, Guest, Breaks, When, Broke, connVars,
       loopVars, windowVars, seatVars, frameVars, Served, Dispatching
<1>1. ASSUME NEW c \in Clients, BindGlobal(c) PROVE CompositorEnds'
  BY <1>1 DEF BindGlobal, Hook
<1>2. ASSUME NEW c \in Clients, ClientLeaves(c) PROVE CompositorEnds'
  <2>1. CASE c = Compositor
    <3>1. Gone(Compositor)' /\ (Dispatching' => "ends_in_time" \in broken')
      BY <1>2, <2>1 DEF ClientLeaves
    <3>2. hooked = Compositor \/ "compositor_first" \in broken'
      BY <1>2, <2>1 DEF ClientLeaves
    <3>3. hooked = Compositor => compositorGone' = TRUE /\ run' = FALSE
      BY <1>2, <2>1 DEF ClientLeaves, ClientGone
    <3> QED
      BY <3>1, <3>2, <3>3
  <2>2. CASE c # Compositor
    <3>1. UNCHANGED half /\ broken \subseteq broken' /\ (Gone(Compositor)' <=> Gone(Compositor))
      BY <1>2, <2>2 DEF ClientLeaves
    <3>2. hooked # c => compositorGone' = compositorGone /\ run' = run
      BY <1>2, <2>2 DEF ClientLeaves, ClientGone
    <3>3. hooked = c => "compositor_first" \in broken
      BY <2>2
    <3> QED
      BY <3>1, <3>2, <3>3
  <2> QED
    BY <2>1, <2>2
<1>3. ASSUME NEW c \in Clients, CompSurface(c) PROVE CompositorEnds'
  BY <1>3 DEF CompSurface
<1>4. ASSUME NEW c \in Clients, XdgGetSurface(c) PROVE CompositorEnds'
  BY <1>4 DEF XdgGetSurface
<1>5. ASSUME NEW c \in Clients, XsToplevel(c) PROVE CompositorEnds'
  BY <1>5 DEF XsToplevel, BreaksCalm
<1>6. ASSUME NEW c \in Clients, XsAck(c) PROVE CompositorEnds'
  BY <1>6 DEF XsAck
<1>7. ASSUME NEW c \in Clients, TopDestroy(c) \/ XsDestroy(c) PROVE CompositorEnds'
  BY <1>7 DEF TopDestroy, XsDestroy, ShellDestroy
<1>8. ASSUME NEW c \in Clients, SurfaceDestroy(c) PROVE CompositorEnds'
  BY <1>8 DEF SurfaceDestroy, MainWithout
<1>9. ASSUME NEW c \in Clients, ShellRequestFaults(c) PROVE CompositorEnds'
  BY <1>9 DEF ShellRequestFaults, Use
<1>10. ASSUME NEW c \in Clients, CommitFaults(c) PROVE CompositorEnds'
  BY <1>10 DEF CommitFaults, Use
<1>11. ASSUME NEW c \in Clients, SeatKeyboard(c) PROVE CompositorEnds'
  BY <1>11 DEF SeatKeyboard, BreaksCalm
<1>12. ASSUME NEW c \in Clients, SeatPointer(c) PROVE CompositorEnds'
  BY <1>12 DEF SeatPointer, BreaksCalm
<1>13. ASSUME NEW c \in Clients, KeyboardRelease(c) PROVE CompositorEnds'
  BY <1>13 DEF KeyboardRelease, BreaksCalm
<1>14. ASSUME NEW c \in Clients, PointerRelease(c) PROVE CompositorEnds'
  BY <1>14 DEF PointerRelease, BreaksCalm, WithoutLink
<1>15. ASSUME NEW c \in Clients, SurfaceFrame(c) PROVE CompositorEnds'
  BY <1>15 DEF SurfaceFrame
<1>16. ASSUME NEW c \in Clients, CommitShown(c) PROVE CompositorEnds'
  BY <1>16 DEF CommitShown, CommitsFrame, HandOver
<1>17. ASSUME NEW c \in Clients, CommitWaits(c) PROVE CompositorEnds'
  BY <1>17 DEF CommitWaits, CommitsFrame
<1>18. ASSUME NEW c \in Clients, CommitBare(c) PROVE CompositorEnds'
  BY <1>18 DEF CommitBare
<1>19. CASE KeyboardFocus
  <2>1. Gone(Compositor)' <=> Gone(Compositor)
    BY <1>19 DEF KeyboardFocus, Dropped, Sound, Links
  <2>2. UNCHANGED <<half, run, compositorGone>> /\ broken \subseteq broken'
    BY <1>19 DEF KeyboardFocus
  <2> QED
    BY <2>1, <2>2
<1>20. CASE UpPointerEnter
  <2>1. Gone(Compositor)' <=> Gone(Compositor)
    BY <1>20 DEF UpPointerEnter, Dropped, Sound, Links
  <2>2. UNCHANGED <<half, run, compositorGone>> /\ broken \subseteq broken'
    BY <1>20 DEF UpPointerEnter
  <2> QED
    BY <2>1, <2>2
<1>21. CASE UpPointerLeave
  <2>1. Gone(Compositor)' <=> Gone(Compositor)
    BY <1>21 DEF UpPointerLeave, Dropped, Sound, Links
  <2>2. UNCHANGED <<half, run, compositorGone>> /\ broken \subseteq broken'
    BY <1>21 DEF UpPointerLeave
  <2> QED
    BY <2>1, <2>2
<1>22. CASE UpPointerEvent
  BY <1>22 DEF UpPointerEvent
<1>23. CASE KeyboardEventFaults
  BY <1>23 DEF KeyboardEventFaults, Use
<1>24. CASE PointerEventFaults
  BY <1>24 DEF PointerEventFaults, Use
<1>25. CASE EnterFaults
  BY <1>25 DEF EnterFaults, StaleMain, Use
<1>26. CASE TopClose
  BY <1>26 DEF TopClose
<1>27. CASE ConfigureFaults
  BY <1>27 DEF ConfigureFaults, Use
<1>28. CASE PumpQueue
  BY <1>28 DEF PumpQueue, HandOver
<1>29. CASE ReleaseFaults
  BY <1>29 DEF ReleaseFaults, CommitsFrame, Use
<1>30. ASSUME NEW k \in Callbacks, UpFrameDone(k) PROVE CompositorEnds'
  BY <1>30 DEF UpFrameDone
<1>31. ASSUME NEW k \in Callbacks, DoneFaults(k) PROVE CompositorEnds'
  BY <1>31 DEF DoneFaults, Use
<1>33. CASE ToClients
  BY <1>33 DEF ToClients
<1>34. CASE ToParent
  BY <1>34 DEF ToParent, LoopTest
<1>32. CASE UNCHANGED vars
  BY <1>32 DEF vars
<1> QED
  BY <1>1, <1>2, <1>3, <1>4, <1>5, <1>6, <1>7, <1>8, <1>9, <1>10, <1>11, <1>12, <1>13, <1>14,
     <1>15, <1>16, <1>17, <1>18, <1>19, <1>20, <1>21, <1>22, <1>23, <1>24, <1>25, <1>26, <1>27,
        <1>28,
     <1>29, <1>30, <1>31, <1>32, <1>33, <1>34
     DEF Next, WindowRequest, SeatRequest, FrameRequest, SeatEvent, FrameEvent

-----------------------------------------------------------------------------
(* The compositor alone                                                    *)

LEMMA AloneStep ==
  ASSUME ClientInv, [Next]_vars
  PROVE  Alone'
<1>t. TypeOK'
  BY ClientTypeStep DEF ClientInv
<1> USE <1>t, NoneAssumption, CompositorAssumption, OwnerAssumption
    DEF ClientInv, Alone, Shaped, TwoClients, TypeOK, Gone, Guest, Breaks, When, Broke, connVars,
       loopVars, windowVars, seatVars, frameVars, Served, Dispatching
<1>1. ASSUME NEW c \in Clients, BindGlobal(c) PROVE Alone'
  BY <1>1 DEF BindGlobal, Hook
<1>2. ASSUME NEW c \in Clients, ClientLeaves(c) PROVE Alone'
  BY <1>2 DEF ClientLeaves, ClientGone
<1>3. ASSUME NEW c \in Clients, CompSurface(c) PROVE Alone'
  BY <1>3 DEF CompSurface
<1>4. ASSUME NEW c \in Clients, XdgGetSurface(c) PROVE Alone'
  BY <1>4 DEF XdgGetSurface
<1>5. ASSUME NEW c \in Clients, XsToplevel(c) PROVE Alone'
  BY <1>5 DEF XsToplevel, BreaksCalm
<1>6. ASSUME NEW c \in Clients, XsAck(c) PROVE Alone'
  BY <1>6 DEF XsAck
<1>7. ASSUME NEW c \in Clients, TopDestroy(c) \/ XsDestroy(c) PROVE Alone'
  BY <1>7 DEF TopDestroy, XsDestroy, ShellDestroy
<1>8. ASSUME NEW c \in Clients, SurfaceDestroy(c) PROVE Alone'
  BY <1>8 DEF SurfaceDestroy, MainWithout
<1>9. ASSUME NEW c \in Clients, ShellRequestFaults(c) PROVE Alone'
  BY <1>9 DEF ShellRequestFaults, Use
<1>10. ASSUME NEW c \in Clients, CommitFaults(c) PROVE Alone'
  BY <1>10 DEF CommitFaults, Use
<1>11. ASSUME NEW c \in Clients, SeatKeyboard(c) PROVE Alone'
  BY <1>11 DEF SeatKeyboard, BreaksCalm
<1>12. ASSUME NEW c \in Clients, SeatPointer(c) PROVE Alone'
  BY <1>12 DEF SeatPointer, BreaksCalm
<1>13. ASSUME NEW c \in Clients, KeyboardRelease(c) PROVE Alone'
  BY <1>13 DEF KeyboardRelease, BreaksCalm
<1>14. ASSUME NEW c \in Clients, PointerRelease(c) PROVE Alone'
  BY <1>14 DEF PointerRelease, BreaksCalm, WithoutLink
<1>15. ASSUME NEW c \in Clients, SurfaceFrame(c) PROVE Alone'
  BY <1>15 DEF SurfaceFrame
<1>16. ASSUME NEW c \in Clients, CommitShown(c) PROVE Alone'
  BY <1>16 DEF CommitShown, CommitsFrame, HandOver
<1>17. ASSUME NEW c \in Clients, CommitWaits(c) PROVE Alone'
  BY <1>17 DEF CommitWaits, CommitsFrame
<1>18. ASSUME NEW c \in Clients, CommitBare(c) PROVE Alone'
  BY <1>18 DEF CommitBare
<1>19. CASE KeyboardFocus
  BY <1>19 DEF KeyboardFocus, Dropped
<1>20. CASE UpPointerEnter
  BY <1>20 DEF UpPointerEnter, Dropped
<1>21. CASE UpPointerLeave
  BY <1>21 DEF UpPointerLeave, Dropped, Left
<1>22. CASE UpPointerEvent
  BY <1>22 DEF UpPointerEvent
<1>23. CASE KeyboardEventFaults
  BY <1>23 DEF KeyboardEventFaults, Use
<1>24. CASE PointerEventFaults
  BY <1>24 DEF PointerEventFaults, Use
<1>25. CASE EnterFaults
  BY <1>25 DEF EnterFaults, StaleMain, Use
<1>26. CASE TopClose
  BY <1>26 DEF TopClose
<1>27. CASE ConfigureFaults
  BY <1>27 DEF ConfigureFaults, Use
<1>28. CASE PumpQueue
  BY <1>28 DEF PumpQueue, HandOver
<1>29. CASE ReleaseFaults
  BY <1>29 DEF ReleaseFaults, CommitsFrame, Use
<1>30. ASSUME NEW k \in Callbacks, UpFrameDone(k) PROVE Alone'
  BY <1>30 DEF UpFrameDone
<1>31. ASSUME NEW k \in Callbacks, DoneFaults(k) PROVE Alone'
  BY <1>31 DEF DoneFaults, Use
<1>33. CASE ToClients
  BY <1>33 DEF ToClients
<1>34. CASE ToParent
  BY <1>34 DEF ToParent, LoopTest
<1>32. CASE UNCHANGED vars
  BY <1>32 DEF vars
<1> QED
  BY <1>1, <1>2, <1>3, <1>4, <1>5, <1>6, <1>7, <1>8, <1>9, <1>10, <1>11, <1>12, <1>13, <1>14,
     <1>15, <1>16, <1>17, <1>18, <1>19, <1>20, <1>21, <1>22, <1>23, <1>24, <1>25, <1>26, <1>27,
        <1>28,
     <1>29, <1>30, <1>31, <1>32, <1>33, <1>34
     DEF Next, WindowRequest, SeatRequest, FrameRequest, SeatEvent, FrameEvent

-----------------------------------------------------------------------------
(* The pointers                                                            *)

LEMMA InsideStep ==
  ASSUME ClientInv, [Next]_vars
  PROVE  Inside'
<1>t. TypeOK'
  BY ClientTypeStep DEF ClientInv
<1> USE <1>t, NoneAssumption, CompositorAssumption, OwnerAssumption
    DEF ClientInv, Inside, TypeOK, Breaks, When, Broke, connVars, loopVars, windowVars, seatVars,
       frameVars, Served, Dispatching
<1>1. ASSUME NEW c \in Clients, BindGlobal(c) PROVE Inside'
  BY <1>1 DEF BindGlobal, Hook
<1>2. ASSUME NEW c \in Clients, ClientLeaves(c) PROVE Inside'
  BY <1>2 DEF ClientLeaves, ClientGone
<1>3. ASSUME NEW c \in Clients, CompSurface(c) PROVE Inside'
  BY <1>3 DEF CompSurface
<1>4. ASSUME NEW c \in Clients, XdgGetSurface(c) PROVE Inside'
  BY <1>4 DEF XdgGetSurface
<1>5. ASSUME NEW c \in Clients, XsToplevel(c) PROVE Inside'
  BY <1>5 DEF XsToplevel, BreaksCalm
<1>6. ASSUME NEW c \in Clients, XsAck(c) PROVE Inside'
  BY <1>6 DEF XsAck
<1>7. ASSUME NEW c \in Clients, TopDestroy(c) \/ XsDestroy(c) PROVE Inside'
  BY <1>7 DEF TopDestroy, XsDestroy, ShellDestroy
<1>8. ASSUME NEW c \in Clients, SurfaceDestroy(c) PROVE Inside'
  BY <1>8 DEF SurfaceDestroy, MainWithout
<1>9. ASSUME NEW c \in Clients, ShellRequestFaults(c) PROVE Inside'
  BY <1>9 DEF ShellRequestFaults, Use
<1>10. ASSUME NEW c \in Clients, CommitFaults(c) PROVE Inside'
  BY <1>10 DEF CommitFaults, Use
<1>11. ASSUME NEW c \in Clients, SeatKeyboard(c) PROVE Inside'
  BY <1>11 DEF SeatKeyboard, BreaksCalm
<1>12. ASSUME NEW c \in Clients, SeatPointer(c) PROVE Inside'
  BY <1>12 DEF SeatPointer, BreaksCalm
<1>13. ASSUME NEW c \in Clients, KeyboardRelease(c) PROVE Inside'
  BY <1>13 DEF KeyboardRelease, BreaksCalm
<1>14. ASSUME NEW c \in Clients, PointerRelease(c) PROVE Inside'
  BY <1>14 DEF PointerRelease, BreaksCalm, WithoutLink
<1>15. ASSUME NEW c \in Clients, SurfaceFrame(c) PROVE Inside'
  BY <1>15 DEF SurfaceFrame
<1>16. ASSUME NEW c \in Clients, CommitShown(c) PROVE Inside'
  BY <1>16 DEF CommitShown, CommitsFrame, HandOver
<1>17. ASSUME NEW c \in Clients, CommitWaits(c) PROVE Inside'
  BY <1>17 DEF CommitWaits, CommitsFrame
<1>18. ASSUME NEW c \in Clients, CommitBare(c) PROVE Inside'
  BY <1>18 DEF CommitBare
<1>19. CASE KeyboardFocus
  BY <1>19 DEF KeyboardFocus, Dropped
<1>20. CASE UpPointerEnter
  BY <1>20 DEF UpPointerEnter, Dropped
<1>21. CASE UpPointerLeave
  BY <1>21 DEF UpPointerLeave, Dropped, Left
<1>22. CASE UpPointerEvent
  BY <1>22 DEF UpPointerEvent
<1>23. CASE KeyboardEventFaults
  BY <1>23 DEF KeyboardEventFaults, Use
<1>24. CASE PointerEventFaults
  BY <1>24 DEF PointerEventFaults, Use
<1>25. CASE EnterFaults
  BY <1>25 DEF EnterFaults, StaleMain, Use
<1>26. CASE TopClose
  BY <1>26 DEF TopClose
<1>27. CASE ConfigureFaults
  BY <1>27 DEF ConfigureFaults, Use
<1>28. CASE PumpQueue
  BY <1>28 DEF PumpQueue, HandOver
<1>29. CASE ReleaseFaults
  BY <1>29 DEF ReleaseFaults, CommitsFrame, Use
<1>30. ASSUME NEW k \in Callbacks, UpFrameDone(k) PROVE Inside'
  BY <1>30 DEF UpFrameDone
<1>31. ASSUME NEW k \in Callbacks, DoneFaults(k) PROVE Inside'
  BY <1>31 DEF DoneFaults, Use
<1>33. CASE ToClients
  BY <1>33 DEF ToClients
<1>34. CASE ToParent
  BY <1>34 DEF ToParent, LoopTest
<1>32. CASE UNCHANGED vars
  BY <1>32 DEF vars
<1> QED
  BY <1>1, <1>2, <1>3, <1>4, <1>5, <1>6, <1>7, <1>8, <1>9, <1>10, <1>11, <1>12, <1>13, <1>14,
     <1>15, <1>16, <1>17, <1>18, <1>19, <1>20, <1>21, <1>22, <1>23, <1>24, <1>25, <1>26, <1>27,
        <1>28,
     <1>29, <1>30, <1>31, <1>32, <1>33, <1>34
     DEF Next, WindowRequest, SeatRequest, FrameRequest, SeatEvent, FrameEvent

-----------------------------------------------------------------------------
(* The callbacks                                                           *)

LEMMA KeptStep ==
  ASSUME ClientInv, [Next]_vars
  PROVE  CallbackKept'
<1>t. TypeOK'
  BY ClientTypeStep DEF ClientInv
<1> USE <1>t, NoneAssumption, CompositorAssumption, OwnerAssumption
    DEF ClientInv, CallbackKept, Shaped, TypeOK, Breaks, When, Broke, connVars, loopVars,
       windowVars, seatVars, frameVars, Served, Dispatching
<1>1. ASSUME NEW c \in Clients, BindGlobal(c) PROVE CallbackKept'
  BY <1>1 DEF BindGlobal, Hook
<1>2. ASSUME NEW c \in Clients, ClientLeaves(c) PROVE CallbackKept'
  BY <1>2 DEF ClientLeaves, ClientGone
<1>3. ASSUME NEW c \in Clients, CompSurface(c) PROVE CallbackKept'
  BY <1>3 DEF CompSurface
<1>4. ASSUME NEW c \in Clients, XdgGetSurface(c) PROVE CallbackKept'
  BY <1>4 DEF XdgGetSurface
<1>5. ASSUME NEW c \in Clients, XsToplevel(c) PROVE CallbackKept'
  BY <1>5 DEF XsToplevel, BreaksCalm
<1>6. ASSUME NEW c \in Clients, XsAck(c) PROVE CallbackKept'
  BY <1>6 DEF XsAck
<1>7. ASSUME NEW c \in Clients, TopDestroy(c) \/ XsDestroy(c) PROVE CallbackKept'
  BY <1>7 DEF TopDestroy, XsDestroy, ShellDestroy
<1>8. ASSUME NEW c \in Clients, SurfaceDestroy(c) PROVE CallbackKept'
  BY <1>8 DEF SurfaceDestroy, MainWithout
<1>9. ASSUME NEW c \in Clients, ShellRequestFaults(c) PROVE CallbackKept'
  BY <1>9 DEF ShellRequestFaults, Use
<1>10. ASSUME NEW c \in Clients, CommitFaults(c) PROVE CallbackKept'
  BY <1>10 DEF CommitFaults, Use
<1>11. ASSUME NEW c \in Clients, SeatKeyboard(c) PROVE CallbackKept'
  BY <1>11 DEF SeatKeyboard, BreaksCalm
<1>12. ASSUME NEW c \in Clients, SeatPointer(c) PROVE CallbackKept'
  BY <1>12 DEF SeatPointer, BreaksCalm
<1>13. ASSUME NEW c \in Clients, KeyboardRelease(c) PROVE CallbackKept'
  BY <1>13 DEF KeyboardRelease, BreaksCalm
<1>14. ASSUME NEW c \in Clients, PointerRelease(c) PROVE CallbackKept'
  BY <1>14 DEF PointerRelease, BreaksCalm, WithoutLink
<1>15. ASSUME NEW c \in Clients, SurfaceFrame(c) PROVE CallbackKept'
  BY <1>15 DEF SurfaceFrame
<1>16. ASSUME NEW c \in Clients, CommitShown(c) PROVE CallbackKept'
  BY <1>16 DEF CommitShown, CommitsFrame, HandOver
<1>17. ASSUME NEW c \in Clients, CommitWaits(c) PROVE CallbackKept'
  BY <1>17 DEF CommitWaits, CommitsFrame
<1>18. ASSUME NEW c \in Clients, CommitBare(c) PROVE CallbackKept'
  BY <1>18 DEF CommitBare
<1>19. CASE KeyboardFocus
  BY <1>19 DEF KeyboardFocus, Dropped
<1>20. CASE UpPointerEnter
  BY <1>20 DEF UpPointerEnter, Dropped
<1>21. CASE UpPointerLeave
  BY <1>21 DEF UpPointerLeave, Dropped, Left
<1>22. CASE UpPointerEvent
  BY <1>22 DEF UpPointerEvent
<1>23. CASE KeyboardEventFaults
  BY <1>23 DEF KeyboardEventFaults, Use
<1>24. CASE PointerEventFaults
  BY <1>24 DEF PointerEventFaults, Use
<1>25. CASE EnterFaults
  BY <1>25 DEF EnterFaults, StaleMain, Use
<1>26. CASE TopClose
  BY <1>26 DEF TopClose
<1>27. CASE ConfigureFaults
  BY <1>27 DEF ConfigureFaults, Use
<1>28. CASE PumpQueue
  BY <1>28 DEF PumpQueue, HandOver
<1>29. CASE ReleaseFaults
  BY <1>29 DEF ReleaseFaults, CommitsFrame, Use
<1>30. ASSUME NEW k \in Callbacks, UpFrameDone(k) PROVE CallbackKept'
  BY <1>30 DEF UpFrameDone
<1>31. ASSUME NEW k \in Callbacks, DoneFaults(k) PROVE CallbackKept'
  BY <1>31 DEF DoneFaults, Use
<1>33. CASE ToClients
  BY <1>33 DEF ToClients
<1>34. CASE ToParent
  BY <1>34 DEF ToParent, LoopTest
<1>32. CASE UNCHANGED vars
  BY <1>32 DEF vars
<1> QED
  BY <1>1, <1>2, <1>3, <1>4, <1>5, <1>6, <1>7, <1>8, <1>9, <1>10, <1>11, <1>12, <1>13, <1>14,
     <1>15, <1>16, <1>17, <1>18, <1>19, <1>20, <1>21, <1>22, <1>23, <1>24, <1>25, <1>26, <1>27,
        <1>28,
     <1>29, <1>30, <1>31, <1>32, <1>33, <1>34
     DEF Next, WindowRequest, SeatRequest, FrameRequest, SeatEvent, FrameEvent

\* What is stale of a client that is there was destroyed out of order.
LEMMA StaleIsBroken ==
  ASSUME ClientInv, NEW c \in Clients, ~Gone(c), Stale(c)
  PROVE  "whole_window" \in broken
<1> SUFFICES ASSUME ~Broke({"whole_window"}) PROVE FALSE
  BY DEF Broke
<1>1. fields[c] \cap ShellObjects \subseteq resources[c]
  BY DEF ClientInv, Whole
<1>2. \A r \in {"xdg", "toplevel"} : r \in fields[c] => r \in resources[c]
  BY <1>1 DEF ShellObjects
<1> QED
  BY <1>2 DEF Stale, StaleToplevel

-----------------------------------------------------------------------------
(* The events                                                              *)

\* Where the bridge would use what the compositor had, its end was met in the
\* half of the parent.
LEMMA GoneInTurn ==
  ASSUME ClientInv, Dispatching, Gone(Compositor)
  PROVE  TwoClients \/ (Gone(Compositor) /\ "ends_in_time" \in broken)
BY DEF ClientInv, CompositorEnds, TwoClients, Broke

LEMMA SoundStep ==
  ASSUME ClientInv, [Next]_vars
  PROVE  EventsSound'
<1>t. TypeOK'
  BY ClientTypeStep DEF ClientInv
<1> USE <1>t, NoneAssumption, CompositorAssumption, OwnerAssumption
    DEF ClientInv, EventsSound, TwoClients, Alone, Shaped, Whole, TypeOK, Gone, Stale,
       StaleToplevel, Links, Sound, ShellObjects, Fields, Breaks, When, Broke, connVars, loopVars,
       windowVars, seatVars, frameVars, Served, Dispatching
<1>1. ASSUME NEW c \in Clients, BindGlobal(c) PROVE EventsSound'
  BY <1>1 DEF BindGlobal, Hook
<1>2. ASSUME NEW c \in Clients, ClientLeaves(c) PROVE EventsSound'
  BY <1>2 DEF ClientLeaves, ClientGone
<1>3. ASSUME NEW c \in Clients, CompSurface(c) PROVE EventsSound'
  BY <1>3 DEF CompSurface
<1>4. ASSUME NEW c \in Clients, XdgGetSurface(c) PROVE EventsSound'
  BY <1>4 DEF XdgGetSurface
<1>5. ASSUME NEW c \in Clients, XsToplevel(c) PROVE EventsSound'
  BY <1>5 DEF XsToplevel, BreaksCalm
<1>6. ASSUME NEW c \in Clients, XsAck(c) PROVE EventsSound'
  BY <1>6 DEF XsAck
<1>7. ASSUME NEW c \in Clients, TopDestroy(c) \/ XsDestroy(c) PROVE EventsSound'
  BY <1>7 DEF TopDestroy, XsDestroy, ShellDestroy
<1>8. ASSUME NEW c \in Clients, SurfaceDestroy(c) PROVE EventsSound'
  BY <1>8 DEF SurfaceDestroy, MainWithout
<1>9. ASSUME NEW c \in Clients, ShellRequestFaults(c) PROVE EventsSound'
  BY <1>9 DEF ShellRequestFaults, Use
<1>10. ASSUME NEW c \in Clients, CommitFaults(c) PROVE EventsSound'
  <2>1. "whole_window" \in broken
    BY <1>10, StaleIsBroken DEF CommitFaults
  <2>2. fault' = "window" /\ UNCHANGED <<conn, broken>>
    BY <1>10 DEF CommitFaults, Use
  <2> QED
    BY <2>1, <2>2
<1>11. ASSUME NEW c \in Clients, SeatKeyboard(c) PROVE EventsSound'
  BY <1>11 DEF SeatKeyboard, BreaksCalm
<1>12. ASSUME NEW c \in Clients, SeatPointer(c) PROVE EventsSound'
  BY <1>12 DEF SeatPointer, BreaksCalm
<1>13. ASSUME NEW c \in Clients, KeyboardRelease(c) PROVE EventsSound'
  BY <1>13 DEF KeyboardRelease, BreaksCalm
<1>14. ASSUME NEW c \in Clients, PointerRelease(c) PROVE EventsSound'
  BY <1>14 DEF PointerRelease, BreaksCalm, WithoutLink
<1>15. ASSUME NEW c \in Clients, SurfaceFrame(c) PROVE EventsSound'
  BY <1>15 DEF SurfaceFrame
<1>16. ASSUME NEW c \in Clients, CommitShown(c) PROVE EventsSound'
  BY <1>16 DEF CommitShown, CommitsFrame, HandOver
<1>17. ASSUME NEW c \in Clients, CommitWaits(c) PROVE EventsSound'
  BY <1>17 DEF CommitWaits, CommitsFrame
<1>18. ASSUME NEW c \in Clients, CommitBare(c) PROVE EventsSound'
  BY <1>18 DEF CommitBare
<1>19. CASE KeyboardFocus
  BY <1>19 DEF KeyboardFocus, Dropped
<1>20. CASE UpPointerEnter
  BY <1>20 DEF UpPointerEnter, Dropped
<1>21. CASE UpPointerLeave
  BY <1>21 DEF UpPointerLeave, Dropped, Left
<1>22. CASE UpPointerEvent
  BY <1>22 DEF UpPointerEvent
<1>23. CASE KeyboardEventFaults
  <2>1. TwoClients \/ (Gone(Compositor) /\ "ends_in_time" \in broken)
    BY <1>23, GoneInTurn DEF KeyboardEventFaults
  <2>2. UNCHANGED <<conn, broken>>
    BY <1>23 DEF KeyboardEventFaults, Use
  <2> QED
    BY <2>1, <2>2
<1>24. CASE PointerEventFaults
  <2>1. TwoClients \/ (Gone(Compositor) /\ "ends_in_time" \in broken)
    BY <1>24, GoneInTurn DEF PointerEventFaults
  <2>2. UNCHANGED <<conn, broken>>
    BY <1>24 DEF PointerEventFaults, Use
  <2> QED
    BY <2>1, <2>2
<1>25. CASE EnterFaults
  <2>1. TwoClients \/ (Gone(Compositor) /\ "ends_in_time" \in broken)
    <3>1. main \in Clients /\ "toplevel" \in fields[main] /\ StaleMain
      BY <1>25 DEF EnterFaults, StaleMain
    <3>2. Gone(main)
      BY <3>1 DEF StaleMain
    <3> QED
      BY <1>25, <3>2, GoneInTurn DEF EnterFaults, StaleMain
  <2>2. UNCHANGED <<conn, broken>>
    BY <1>25 DEF EnterFaults, Use
  <2> QED
    BY <2>1, <2>2
<1>26. CASE TopClose
  BY <1>26 DEF TopClose
<1>27. CASE ConfigureFaults
  <2>1. \/ TwoClients \/ "whole_window" \in broken
        \/ Gone(Compositor) /\ "ends_in_time" \in broken
    <3>1. main \in Clients /\ Stale(main) /\ Dispatching
      BY <1>27 DEF ConfigureFaults
    <3>2. CASE Gone(main)
      BY <3>1, <3>2, GoneInTurn
    <3>3. CASE ~Gone(main)
      BY <3>1, <3>3, StaleIsBroken
    <3> QED
      BY <3>2, <3>3
  <2>2. fault' = "window" /\ UNCHANGED <<conn, broken>>
    BY <1>27 DEF ConfigureFaults, Use
  <2> QED
    BY <2>1, <2>2
<1>28. CASE PumpQueue
  BY <1>28 DEF PumpQueue, HandOver
<1>29. CASE ReleaseFaults
  <2>1. TwoClients \/ (Gone(Compositor) /\ "ends_in_time" \in broken)
    <3>1. CASE Dispatching
      BY <1>29, <3>1, GoneInTurn DEF ReleaseFaults
    <3>2. ASSUME NEW c \in Clients, CommitsFrame(c) PROVE TwoClients
      BY <1>29, <3>2 DEF ReleaseFaults, CommitsFrame
    <3> QED
      BY <1>29, <3>1, <3>2 DEF ReleaseFaults
  <2>2. UNCHANGED <<conn, broken>>
    BY <1>29 DEF ReleaseFaults, Use
  <2> QED
    BY <2>1, <2>2
<1>30. ASSUME NEW k \in Callbacks, UpFrameDone(k) PROVE EventsSound'
  BY <1>30 DEF UpFrameDone
<1>31. ASSUME NEW k \in Callbacks, DoneFaults(k) PROVE EventsSound'
  <2>1. TwoClients \/ (Gone(Compositor) /\ "ends_in_time" \in broken)
    BY <1>31, GoneInTurn DEF DoneFaults
  <2>2. UNCHANGED <<conn, broken>>
    BY <1>31 DEF DoneFaults, Use
  <2> QED
    BY <2>1, <2>2
<1>33. CASE ToClients
  BY <1>33 DEF ToClients
<1>34. CASE ToParent
  BY <1>34 DEF ToParent, LoopTest
<1>32. CASE UNCHANGED vars
  BY <1>32 DEF vars
<1> QED
  BY <1>1, <1>2, <1>3, <1>4, <1>5, <1>6, <1>7, <1>8, <1>9, <1>10, <1>11, <1>12, <1>13, <1>14,
     <1>15, <1>16, <1>17, <1>18, <1>19, <1>20, <1>21, <1>22, <1>23, <1>24, <1>25, <1>26, <1>27,
        <1>28,
     <1>29, <1>30, <1>31, <1>32, <1>33, <1>34
     DEF Next, WindowRequest, SeatRequest, FrameRequest, SeatEvent, FrameEvent

-----------------------------------------------------------------------------
(* The properties                                                          *)

LEMMA ClientInvAlways == Spec => []ClientInv
<1>1. Init => ClientInv
  <2> SUFFICES ASSUME Init PROVE ClientInv
    OBVIOUS
  <2> USE NoneAssumption, CompositorAssumption, OwnerAssumption DEF Init
  <2>1. Shaped /\ Whole
    BY DEF Shaped, Whole
  <2>2. Hooked /\ Alone /\ CompositorEnds
    BY DEF Hooked, Alone, CompositorEnds, Gone
  <2>3. Inside /\ CallbackKept /\ EventsSound
    BY DEF Inside, CallbackKept, EventsSound
  <2> QED
    BY <2>1, <2>2, <2>3, ClientTypeInit DEF ClientInv
<1>2. ClientInv /\ [Next]_vars => ClientInv'
  BY ClientTypeStep, ShapedStep, WholeStep, HookedStep, EndsStep, AloneStep, InsideStep, KeptStep,
     SoundStep DEF ClientInv
<1> QED
  BY <1>1, <1>2, PTL DEF Spec

\* Unless two clients share the window or the seat, a surface is destroyed
\* without its shell objects, or the compositor's end is met while the parent's
\* events are dispatched, no event reaches a freed object: neither however
\* clients come and go, nor in what is left of the turn in which they go.
THEOREM EventsAlwaysSound == Spec => []EventsSound
<1>1. ClientInv => EventsSound
  BY DEF ClientInv
<1> QED
  BY <1>1, ClientInvAlways, PTL

\* The compositor's end, and no other client's, is taken for it and stops the
\* loop, as long as the compositor is the first to bind.
THEOREM CompositorAlwaysEnds == Spec => []CompositorEnds
<1>1. ClientInv => CompositorEnds
  BY DEF ClientInv
<1> QED
  BY <1>1, ClientInvAlways, PTL

\* No callback is forgotten or handed over twice, for any number of surfaces.
THEOREM CallbacksKept == Spec => []CallbackKept
<1>1. ClientInv => CallbackKept
  BY DEF ClientInv
<1> QED
  BY <1>1, ClientInvAlways, PTL

\* Every pointer is told to enter and to leave in turn.
THEOREM PointersPaired == Spec => []PointerPaired
<1>1. ClientInv => PointerPaired
  BY DEF ClientInv, Inside, PointerPaired
<1> QED
  BY <1>1, ClientInvAlways, PTL
=============================================================================
