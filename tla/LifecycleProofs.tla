--------------------------- MODULE LifecycleProofs ---------------------------
(***************************************************************************)
(* Theorems about Lifecycle, for every number of waits and any signals.    *)
(***************************************************************************)
EXTENDS Lifecycle, TLAPS

-----------------------------------------------------------------------------
(* The types                                                               *)

\* The codes main returns.
LEMMA ExitCodes ==
  /\ 2 \in Codes /\ 0 \in Codes /\ NoCode \notin Codes
  /\ \A s \in Signals : 128 + s \in Codes /\ s # 0
BY SignalAssumption DEF Codes, NoCode

LEMMA EndCodes ==
  ASSUME NEW end \in Unasked \cup Asked \cup {Alive}
  PROVE  end.code \in Codes \cup {NoCode}
BY DEF Codes, NoCode, Unasked, Asked, Exited, Signaled, Alive

\* The process before, while it runs, and when it has ended.
LEMMA ProcTypes ==
  /\ NoProc \in Procs
  /\ \A p \in Procs :
       /\ p.end.code \in Codes \cup {NoCode}
       /\ [p EXCEPT !.state = "running"] \in Procs
       /\ [p EXCEPT !.sent = "SIGTERM"] \in Procs
       /\ [p EXCEPT !.sent = "SIGKILL"] \in Procs
       /\ \A end \in Unasked \cup Asked, unasked \in BOOLEAN :
            [p EXCEPT !.state = "ended", !.end = end, !.unasked = unasked] \in Procs
<1>1. NoProc \in Procs
  <2> HIDE DEF Alive
  <2> QED
    BY DEF NoProc, Procs
<1>2. \A p \in Procs : p.end.code \in Codes \cup {NoCode}
  BY EndCodes DEF Procs
<1>3. \A p \in Procs : /\ [p EXCEPT !.state = "running"] \in Procs
                       /\ [p EXCEPT !.sent = "SIGTERM"] \in Procs
                       /\ [p EXCEPT !.sent = "SIGKILL"] \in Procs
  BY DEF Procs
<1>4. \A p \in Procs : \A end \in Unasked \cup Asked, unasked \in BOOLEAN :
        [p EXCEPT !.state = "ended", !.end = end, !.unasked = unasked] \in Procs
  BY DEF Procs
<1> QED
  BY <1>1, <1>2, <1>3, <1>4

LEMMA LifeTypeInit == Init => TypeOK /\ Looking
<1> SUFFICES ASSUME Init PROVE TypeOK /\ Looking
  OBVIOUS
<1>1. proc \in Procs
  BY ProcTypes DEF Init
<1>2. tries \in 0..Waits /\ tries < Waits
  BY WaitsAssumption DEF Init
<1> QED
  BY <1>1, <1>2 DEF Init, TypeOK, Startup, Looking

LEMMA EndTypes ==
  ASSUME TypeOK, Looking, NEW end \in Unasked \cup Asked, NEW unasked \in BOOLEAN,
         Ends(end, unasked)
  PROVE  (TypeOK /\ Looking)'
<1>1. proc' \in Procs
  BY ProcTypes DEF Ends, TypeOK
<1> QED
  BY <1>1 DEF Ends, TypeOK, Looking, bridgeVars, goneVars, waitVars, signalVars, worldVars,
              parentVars

LEMMA LifeTypeStep == TypeOK /\ Looking /\ [Next]_vars => (TypeOK /\ Looking)'
<1> SUFFICES ASSUME TypeOK, Looking, [Next]_vars PROVE (TypeOK /\ Looking)'
  OBVIOUS
<1> USE DEF TypeOK, Looking, Startup, Loop, Shutdown, Ended, bridgeVars, goneVars, waitVars,
            signalVars, worldVars, parentVars
<1>1. CASE StartFails
  BY <1>1, ExitCodes DEF StartFails
<1>2. CASE Start
  BY <1>2 DEF Start
<1>3. CASE SpawnChild
  <2>1. /\ proc' \in Procs
        /\ pc' \in {"done", "handlers"}
        /\ exitCode' \in Codes \cup {NoCode}
        /\ child' \in BOOLEAN
    BY <1>3, ExitCodes, ProcTypes DEF SpawnChild
  <2>2. pc = "spawn" /\ UNCHANGED <<run, ready, goneVars, tries, childCode, signalVars,
                                   parentVars, clientLeft, display, noChild>>
    BY <1>3 DEF SpawnChild
  <2> QED
    BY <2>1, <2>2
<1>4. CASE InstallHandlers
  BY <1>4 DEF InstallHandlers
<1>5. CASE Top
  BY <1>5 DEF Top
<1>6. CASE EnterPoll
  BY <1>6 DEF EnterPoll
<1>7. CASE PollReturns
  BY <1>7 DEF PollReturns, Readable
<1>8. CASE DispatchParent
  BY <1>8 DEF DispatchParent
<1>9. CASE DispatchClients
  BY <1>9 DEF DispatchClients
<1>10. CASE Reap
  BY <1>10, ProcTypes DEF Reap, ChildEnded
<1>11. CASE LoopEnds
  BY <1>11 DEF LoopEnds
<1>12. CASE StopChild
  <2>1. proc' \in Procs
    BY <1>12, ProcTypes DEF StopChild
  <2>2. /\ pc = "stop" /\ pc' \in {"wait", "decide"}
        /\ UNCHANGED <<bridgeVars, signalVars, parentVars, clientLeft, display, noChild>>
    BY <1>12 DEF StopChild
  <2> QED
    BY <2>1, <2>2
<1>13. CASE ChildReaped
  BY <1>13, ProcTypes DEF ChildReaped
<1>14. CASE WaitChild
  BY <1>14, WaitsAssumption DEF WaitChild, LookAgain
<1>15. CASE KillChild
  <2>1. proc' \in Procs
    BY <1>15, ProcTypes DEF KillChild
  <2>2. /\ pc = "kill" /\ pc' \in {"last"}
        /\ UNCHANGED <<bridgeVars, signalVars, parentVars, clientLeft, display, noChild>>
    BY <1>15 DEF KillChild
  <2> QED
    BY <2>1, <2>2
<1>16. CASE LastWait
  BY <1>16, ProcTypes DEF LastWait
<1>17. CASE Decide
  BY <1>17, ExitCodes DEF Decide, ReturnCode
<1>18. CASE Finish
  BY <1>18 DEF Finish
<1>19. ASSUME NEW s \in Signals, OnSignal(s) PROVE (TypeOK /\ Looking)'
  <2>1. pc' = Interrupted /\ pc \in Loop \cup Shutdown /\ tries' = tries
    BY <1>19 DEF OnSignal, HandlersInstalled
  <2>2. /\ Interrupted \in Loop \cup Shutdown
        /\ Interrupted \in Loop \cup {"stop", "wait"} => pc \in Loop \cup {"stop", "wait"}
    BY <2>1 DEF Interrupted
  <2>3. gotSignal' \in {0} \cup Signals
    BY <1>19 DEF OnSignal
  <2>4. Looking'
    BY <2>1, <2>2
  <2>5. pc' \in Startup \cup Loop \cup Shutdown \cup Ended
    BY <2>1, <2>2
  <2>6. /\ run' \in BOOLEAN /\ chord' = chord /\ ready' = ready
        /\ parentClosed' = parentClosed /\ compositorGone' = compositorGone /\ child' = child
        /\ childCode' = childCode /\ exitCode' = exitCode /\ proc' = proc
        /\ closeSent' = closeSent /\ parentLost' = parentLost /\ clientLeft' = clientLeft
        /\ display' = display /\ noChild' = noChild
    BY <1>19 DEF OnSignal
  <2> QED
    BY <2>1, <2>3, <2>4, <2>5, <2>6
<1>20. CASE OnUsr1
  BY <1>20 DEF OnUsr1, Interrupted, HandlersInstalled
<1>21. CASE EarlySignal
  BY <1>21 DEF EarlySignal
<1>22. CASE ChildEnds
  BY <1>22, EndTypes DEF ChildEnds
<1>23. CASE ChildStops
  BY <1>23, EndTypes DEF ChildStops
<1>24. CASE ChildKilled
  <2>1. Signaled(9) \in Unasked
    BY DEF Unasked
  <2> QED
    BY <1>24, <2>1, EndTypes DEF ChildKilled
<1>25. CASE ParentCloses
  BY <1>25 DEF ParentCloses
<1>26. CASE ParentDies
  BY <1>26 DEF ParentDies
<1>27. CASE ClientLeaves
  BY <1>27 DEF ClientLeaves
<1>28. CASE SessionImports
  BY <1>28 DEF SessionImports
<1>29. CASE UNCHANGED vars
  BY <1>29 DEF vars
<1> QED
  BY <1>1, <1>2, <1>3, <1>4, <1>5, <1>6, <1>7, <1>8, <1>9, <1>10, <1>11, <1>12, <1>13, <1>14,
     <1>15, <1>16, <1>17, <1>18, <1>19, <1>20, <1>21, <1>22, <1>23, <1>24, <1>25, <1>26,
     <1>27, <1>28, <1>29 DEF Next, BridgeStep

\* Every variable keeps its type, and main looks for the child at most Waits
\* times.
THEOREM LifeTypeCorrect == Spec => []TypeOK
<1>1. TypeOK /\ Looking /\ [Next]_vars => (TypeOK /\ Looking)'
  BY LifeTypeStep
<1> QED
  BY <1>1, LifeTypeInit, PTL DEF Spec

-----------------------------------------------------------------------------
(* No orphans, and no crash that goes unreported                           *)

\* What the changes of the process leave as it was.
LEMMA ProcChanges ==
  ASSUME NEW p \in Procs
  PROVE  /\ LET q == [p EXCEPT !.state = "running"]
            IN q.state = "running" /\ q.sent = p.sent /\ q.end = p.end /\ q.unasked = p.unasked
         /\ \A sent : LET q == [p EXCEPT !.sent = sent]
                      IN q.state = p.state /\ q.sent = sent /\ q.end = p.end /\ q.unasked = p.unasked
         /\ \A end, unasked :
              LET q == [p EXCEPT !.state = "ended", !.end = end, !.unasked = unasked]
              IN q.state = "ended" /\ q.sent = p.sent /\ q.end = end /\ q.unasked = unasked
BY DEF Procs

LEMMA AliveIsNoEnd == /\ \A end \in Unasked \cup Asked : end # Alive
                      /\ Signaled(9) # Alive
BY DEF Unasked, Asked, Alive, Exited, Signaled

Safe == KilledAlone /\ ChildKnown /\ ChildAsked /\ CrashKept

LEMMA LifeInvInit == Init => LifeInv
<1>1. NoProc.state = "none" /\ NoProc.unasked = FALSE
  BY DEF NoProc
<1> HIDE DEF NoProc
<1> QED
  BY <1>1, LifeTypeInit DEF Init, LifeInv, KilledAlone, ChildKnown, ChildAsked, CrashKept, Untouched, Loop,
     Over

LEMMA LifeInvStep ==
  ASSUME HandlersFirst, LifeInv, [Next]_vars
  PROVE  LifeInv'
<1>t. TypeOK /\ TypeOK' /\ Looking' /\ proc \in Procs /\ proc.unasked \in BOOLEAN
  BY LifeTypeStep DEF LifeInv, TypeOK, Procs
<1> SUFFICES Safe'
  BY <1>t DEF Safe, LifeInv
<1>s. Safe
  BY DEF LifeInv, Safe
<1>n. NoProc.state = "none" /\ NoProc.sent = "nothing" /\ NoProc.unasked = FALSE
  BY DEF NoProc
<1> USE <1>s DEF Safe, KilledAlone, ChildKnown, ChildAsked, CrashKept, Untouched, Over, Startup, Loop,
                 bridgeVars, goneVars, waitVars, signalVars, worldVars, parentVars
<1>c. proc.end # Alive => proc.end.code # NoCode
  BY <1>t, ExitCodes DEF Procs, Unasked, Asked, Alive, Exited, Signaled, NoCode
<1>e. ASSUME NEW end, end # Alive, Ends(end, FALSE)
      PROVE  Safe'
  <2>1. /\ proc.state = "running" /\ proc'.state = "ended" /\ proc'.sent = proc.sent
        /\ proc'.end # Alive /\ proc'.unasked = FALSE
    BY <1>t, <1>e, ProcChanges DEF Ends
  <2>2. pc' = pc /\ child' = child
    BY <1>e DEF Ends
  <2> QED
    BY <1>n, <2>1, <2>2
<1>1. CASE StartFails
  BY <1>1, <1>n DEF StartFails
<1>2. CASE Start
  BY <1>2, <1>n DEF Start
<1>3. CASE SpawnChild
  <2>1. /\ pc = "spawn" /\ gotSignal' = gotSignal /\ parentClosed' = parentClosed
        /\ childCode' = childCode
    BY <1>3 DEF SpawnChild
  <2>2. CASE pc' = "done" /\ UNCHANGED <<child, proc>>
    BY <1>n, <2>1, <2>2
  <2>3. CASE pc' = "handlers" /\ child' = TRUE /\ proc' = [proc EXCEPT !.state = "running"]
    <3>1. proc'.state = "running" /\ proc'.sent = "nothing" /\ proc'.unasked = FALSE
      BY <1>n, <1>t, <2>1, <2>3, ProcChanges
    <3> QED
      BY <2>1, <2>3, <3>1
  <2> QED
    BY <1>3, <2>2, <2>3 DEF SpawnChild
<1>4. CASE InstallHandlers
  BY <1>4 DEF InstallHandlers
<1>5. CASE Top
  BY <1>5 DEF Top
<1>6. CASE EnterPoll
  BY <1>6 DEF EnterPoll
<1>7. CASE PollReturns
  BY <1>7 DEF PollReturns, Readable
<1>8. CASE DispatchParent
  BY <1>8 DEF DispatchParent
<1>9. CASE DispatchClients
  BY <1>9 DEF DispatchClients
<1>10. CASE Reap
  BY <1>10 DEF Reap, ChildEnded
<1>11. CASE LoopEnds
  BY <1>11 DEF LoopEnds
<1>12. CASE StopChild
  BY <1>12, <1>t, ProcChanges DEF StopChild
<1>13. CASE ChildReaped
  BY <1>13 DEF ChildReaped
<1>14. CASE WaitChild
  BY <1>14 DEF WaitChild, LookAgain
<1>15. CASE KillChild
  BY <1>15, <1>t, ProcChanges DEF KillChild
<1>16. CASE LastWait
  BY <1>16 DEF LastWait
<1>17. CASE Decide
  <2>1. /\ pc = "decide" /\ pc' = "finish" /\ child' = child /\ proc' = proc
        /\ gotSignal' = gotSignal /\ parentClosed' = parentClosed /\ exitCode' = ReturnCode
    BY <1>17 DEF Decide
  <2>2. proc.unasked => childCode = proc.end.code /\ childCode # NoCode
    BY <1>c, <2>1
  <2>3. proc.unasked /\ gotSignal = 0 /\ ~parentClosed => exitCode' = proc.end.code
    BY <2>1, <2>2 DEF ReturnCode
  <2> QED
    BY <2>1, <2>3
<1>18. CASE Finish
  BY <1>18 DEF Finish
<1>19. ASSUME NEW s \in Signals, OnSignal(s) PROVE Safe'
  <2>1. /\ pc' = Interrupted /\ pc \in Loop \cup Shutdown /\ gotSignal' # 0
        /\ proc' = proc /\ child' = child /\ childCode' = childCode
    BY <1>19, ExitCodes DEF OnSignal, HandlersInstalled
  <2> QED
    BY <2>1 DEF Interrupted, Shutdown
<1>20. CASE OnUsr1
  <2>1. /\ pc' = Interrupted /\ pc \in Loop \cup Shutdown
        /\ proc' = proc /\ child' = child /\ childCode' = childCode
        /\ gotSignal' = gotSignal /\ parentClosed' = parentClosed /\ exitCode' = exitCode
    BY <1>20 DEF OnUsr1, HandlersInstalled
  <2> QED
    BY <2>1 DEF Interrupted, Shutdown
<1>21. CASE EarlySignal
  <2>1. pc \in Startup /\ ~child /\ pc' = "killed" /\ proc' = proc
    BY <1>21 DEF EarlySignal, HandlersFirst
  <2>2. proc.state = "none"
    BY <1>n, <2>1
  <2> QED
    BY <2>1, <2>2
<1>22. CASE ChildEnds
  <2>1. PICK end \in Unasked : proc.sent = "nothing" /\ Ends(end, TRUE)
    BY <1>22 DEF ChildEnds
  <2>2. end # Alive
    BY AliveIsNoEnd
  <2>3. /\ proc.state = "running" /\ proc'.state = "ended" /\ proc'.sent = "nothing"
        /\ proc'.end # Alive /\ proc'.unasked = TRUE
    BY <1>t, <2>1, <2>2, ProcChanges DEF Ends
  <2>4. pc' = pc /\ child' = child
    BY <2>1 DEF Ends
  <2>5. pc \in Untouched
    BY <1>n, <1>t, <2>1, <2>3 DEF TypeOK, Shutdown, Ended
  <2> QED
    BY <2>3, <2>4, <2>5
<1>23. CASE ChildStops
  <2>1. PICK end \in Asked : Ends(end, FALSE)
    BY <1>23 DEF ChildStops
  <2> QED
    BY <1>e, <2>1, AliveIsNoEnd
<1>24. CASE ChildKilled
  <2>1. Ends(Signaled(9), FALSE) /\ Signaled(9) # Alive
    BY <1>24, AliveIsNoEnd DEF ChildKilled
  <2> QED
    BY <1>e, <2>1
<1>25. CASE ParentCloses
  BY <1>25 DEF ParentCloses
<1>26. CASE ParentDies
  BY <1>26 DEF ParentDies
<1>27. CASE ClientLeaves
  BY <1>27 DEF ClientLeaves
<1>28. CASE SessionImports
  BY <1>28 DEF SessionImports
<1>29. CASE UNCHANGED vars
  BY <1>29 DEF vars
<1> QED
  BY <1>1, <1>2, <1>3, <1>4, <1>5, <1>6, <1>7, <1>8, <1>9, <1>10, <1>11, <1>12, <1>13, <1>14,
     <1>15, <1>16, <1>17, <1>18, <1>19, <1>20, <1>21, <1>22, <1>23, <1>24, <1>25, <1>26,
     <1>27, <1>28, <1>29 DEF Next, BridgeStep

LEMMA LifeInvAlways ==
  ASSUME HandlersFirst
  PROVE  Spec => []LifeInv
<1>1. LifeInv /\ [Next]_vars => LifeInv'
  BY LifeInvStep
<1> QED
  BY <1>1, LifeInvInit, PTL DEF Spec

\* Once the handlers come before the signals, the bridge leaves no compositor
\* behind, however it ends.
THEOREM NeverOrphans ==
  ASSUME HandlersFirst
  PROVE  Spec => []NoOrphan
<1>1. LifeInv => NoOrphan
  <2> SUFFICES ASSUME LifeInv, pc \in Ended, proc.state = "running" PROVE proc.sent = "SIGKILL"
    BY DEF NoOrphan
  <2>1. pc = "done"
    BY DEF LifeInv, KilledAlone, Ended
  <2> QED
    BY <2>1 DEF LifeInv, ChildAsked, Over
<1> QED
  BY <1>1, LifeInvAlways, PTL

\* A compositor's end that nobody asked for is reported, whatever the order in
\* which its connection and its process end.
THEOREM CrashesReported ==
  ASSUME HandlersFirst
  PROVE  Spec => []CrashReported
<1>1. LifeInv => CrashReported
  BY DEF LifeInv, CrashKept, CrashReported
<1> QED
  BY <1>1, LifeInvAlways, PTL

-----------------------------------------------------------------------------
(* The display of the user manager                                         *)

DisplayInv ==
  /\ DisplayRestored
  /\ noChild \/ pc \in {"start", "spawn"} => display = "parent"

LEMMA DisplayInvStep ==
  ASSUME HandlersFirst, "late_import" \notin WorldMay, LifeInv, DisplayInv, [Next]_vars
  PROVE  DisplayInv'
<1> USE DEF DisplayInv, DisplayRestored, bridgeVars, goneVars, waitVars, signalVars,
            worldVars, parentVars
<1>1. CASE SessionImports
  <2>1. pc # "done" /\ pc' = pc /\ ~noChild /\ noChild' = noChild
    BY <1>1 DEF SessionImports, LifeInv, ChildAsked, Over
  <2>2. pc \notin {"start", "spawn"}
    <3>1. proc.state = "running"
      BY <1>1 DEF SessionImports
    <3>2. NoProc.state # "running"
      BY DEF NoProc
    <3> QED
      BY <3>1, <3>2 DEF LifeInv, ChildKnown
  <2> QED
    BY <2>1, <2>2
<1>2. CASE Finish
  <2>1. pc = "finish" /\ pc' = "done" /\ noChild' = noChild
    BY <1>2 DEF Finish
  <2>2. noChild => display' = display
    BY <1>2 DEF Finish
  <2>3. ~noChild /\ HadParentDisplay => display' = "parent"
    BY <1>2 DEF Finish
  <2> QED
    BY <2>1, <2>2, <2>3
<1>3. ASSUME NEW s \in Signals, OnSignal(s) PROVE DisplayInv'
  BY <1>3 DEF OnSignal, HandlersInstalled, Interrupted, Loop, Shutdown
<1>4. CASE StartFails
  BY <1>4 DEF StartFails
<1>5. CASE Start
  BY <1>5 DEF Start
<1>6. CASE SpawnChild
  BY <1>6 DEF SpawnChild
<1>7. CASE InstallHandlers
  BY <1>7 DEF InstallHandlers
<1>8. CASE Top
  BY <1>8 DEF Top
<1>9. CASE EnterPoll
  BY <1>9 DEF EnterPoll
<1>10. CASE PollReturns
  BY <1>10 DEF PollReturns
<1>11. CASE DispatchParent
  BY <1>11 DEF DispatchParent
<1>12. CASE DispatchClients
  BY <1>12 DEF DispatchClients
<1>13. CASE Reap
  BY <1>13 DEF Reap, ChildEnded
<1>14. CASE LoopEnds
  BY <1>14 DEF LoopEnds
<1>15. CASE StopChild
  BY <1>15 DEF StopChild
<1>16. CASE ChildReaped
  BY <1>16 DEF ChildReaped
<1>17. CASE WaitChild
  BY <1>17 DEF WaitChild, LookAgain
<1>18. CASE KillChild
  BY <1>18 DEF KillChild
<1>19. CASE LastWait
  BY <1>19 DEF LastWait
<1>20. CASE Decide
  BY <1>20 DEF Decide
<1>21. CASE OnUsr1
  BY <1>21 DEF OnUsr1, HandlersInstalled, Interrupted, Loop, Shutdown
<1>22. CASE EarlySignal
  BY <1>22 DEF EarlySignal
<1>23. CASE ChildEnds
  BY <1>23 DEF ChildEnds, Ends
<1>24. CASE ChildStops
  BY <1>24 DEF ChildStops, Ends
<1>25. CASE ChildKilled
  BY <1>25 DEF ChildKilled, Ends
<1>26. CASE ParentCloses
  BY <1>26 DEF ParentCloses
<1>27. CASE ParentDies
  BY <1>27 DEF ParentDies
<1>28. CASE ClientLeaves
  BY <1>28 DEF ClientLeaves
<1>29. CASE UNCHANGED vars
  BY <1>29 DEF vars
<1> QED
  BY <1>1, <1>2, <1>3, <1>4, <1>5, <1>6, <1>7, <1>8, <1>9, <1>10, <1>11, <1>12, <1>13,
     <1>14, <1>15, <1>16, <1>17, <1>18, <1>19, <1>20, <1>21, <1>22, <1>23, <1>24, <1>25, <1>26,
     <1>27, <1>28, <1>29 DEF Next, BridgeStep

\* With no script of the session left to import the compositor's display late,
\* the user manager has the parent's display again when the bridge is gone.
THEOREM DisplayComesBack ==
  ASSUME HandlersFirst, "late_import" \notin WorldMay
  PROVE  Spec => []DisplayRestored
<1>1. Init => DisplayInv
  BY DEF Init, DisplayInv, DisplayRestored
<1>2. LifeInv /\ DisplayInv /\ [Next]_vars => DisplayInv'
  BY DisplayInvStep
<1>3. DisplayInv => DisplayRestored
  BY DEF DisplayInv
<1> QED
  BY <1>1, <1>2, <1>3, LifeInvAlways, PTL DEF Spec
-----------------------------------------------------------------------------
(* A closed window                                                         *)

\* A child that was sent nothing and has ended did so unasked; before the loop
\* nothing was closed; and the code is 0 or of such a child once it is chosen.
CloseInv ==
  /\ proc.state = "ended" /\ proc.sent = "nothing" => proc.unasked
  /\ pc \in Startup => ~parentClosed
  /\ pc \in {"finish", "done"} /\ parentClosed /\ gotSignal = 0
       => exitCode = 0 \/ (proc.unasked /\ proc.state = "ended" /\ exitCode = proc.end.code)

LEMMA CloseInvStep ==
  ASSUME LifeInv, CloseInv, [Next]_vars
  PROVE  CloseInv'
<1>t. proc \in Procs /\ pc \in Startup \cup Loop \cup Shutdown \cup Ended
  BY DEF LifeInv, TypeOK
<1>n. NoProc.state = "none" /\ NoProc.sent = "nothing"
  BY DEF NoProc
<1>k. ChildKnown /\ ChildAsked
  BY DEF LifeInv
<1>e. ASSUME NEW end, NEW unasked, Ends(end, unasked), proc.sent = "nothing" => unasked
      PROVE  CloseInv'
  <2>1. /\ proc.state = "running" /\ proc'.state = "ended" /\ proc'.sent = proc.sent
        /\ proc'.unasked = unasked
    BY <1>t, <1>e, ProcChanges DEF Ends
  <2>2. UNCHANGED <<pc, parentClosed, gotSignal, exitCode>>
    BY <1>e DEF Ends, bridgeVars, goneVars, signalVars
  <2> QED
    BY <1>e, <2>1, <2>2 DEF CloseInv
<1> USE DEF CloseInv, Startup, bridgeVars, goneVars, waitVars, signalVars, worldVars, parentVars
<1>1. CASE StartFails
  BY <1>1 DEF StartFails
<1>2. CASE Start
  BY <1>2 DEF Start
<1>3. CASE SpawnChild
  <2>1. pc = "spawn" /\ pc' \in {"done", "handlers"} /\ ~parentClosed'
    BY <1>3 DEF SpawnChild
  <2>2. proc' = proc \/ proc' = [proc EXCEPT !.state = "running"]
    BY <1>3 DEF SpawnChild
  <2>3. proc'.state # "ended"
    BY <1>k, <1>n, <1>t, <2>1, <2>2, ProcChanges DEF ChildKnown
  <2> QED
    BY <2>1, <2>3
<1>4. CASE InstallHandlers
  BY <1>4 DEF InstallHandlers
<1>5. CASE Top
  BY <1>5 DEF Top
<1>6. CASE EnterPoll
  BY <1>6 DEF EnterPoll
<1>7. CASE PollReturns
  BY <1>7 DEF PollReturns
<1>8. CASE DispatchParent
  BY <1>8 DEF DispatchParent
<1>9. CASE DispatchClients
  BY <1>9 DEF DispatchClients
<1>10. CASE Reap
  <2>1. /\ pc = "reap" /\ pc' = "finish" /\ proc.state = "ended" /\ proc' = proc
        /\ exitCode' = proc.end.code
    BY <1>10 DEF Reap, ChildEnded
  <2>2. proc.sent = "nothing"
    BY <1>k, <2>1 DEF ChildAsked, Untouched, Loop
  <2> QED
    BY <2>1, <2>2
<1>11. CASE LoopEnds
  BY <1>11 DEF LoopEnds
<1>12. CASE StopChild
  <2>1. proc' = proc \/ (proc'.state = proc.state /\ proc'.sent = "SIGTERM" /\ proc'.end = proc.end)
    BY <1>12, <1>t, ProcChanges DEF StopChild
  <2> QED
    BY <1>12, <2>1 DEF StopChild
<1>13. CASE ChildReaped
  BY <1>13 DEF ChildReaped
<1>14. CASE WaitChild
  BY <1>14 DEF WaitChild, LookAgain
<1>15. CASE KillChild
  <2>1. proc'.sent = "SIGKILL"
    BY <1>15, <1>t, ProcChanges DEF KillChild
  <2> QED
    BY <1>15, <2>1 DEF KillChild
<1>16. CASE LastWait
  BY <1>16 DEF LastWait
<1>17. CASE Decide
  BY <1>17 DEF Decide, ReturnCode
<1>18. CASE Finish
  BY <1>18 DEF Finish
<1>19. ASSUME NEW s \in Signals, OnSignal(s) PROVE CloseInv'
  <2>1. gotSignal' # 0
    BY <1>19, ExitCodes DEF OnSignal
  <2> QED
    BY <1>19, <2>1 DEF OnSignal, HandlersInstalled, Interrupted, Loop, Shutdown
<1>20. CASE OnUsr1
  BY <1>20 DEF OnUsr1, HandlersInstalled, Interrupted, Loop, Shutdown
<1>21. CASE EarlySignal
  BY <1>21 DEF EarlySignal
<1>22. CASE ChildEnds
  BY <1>22, <1>e DEF ChildEnds
<1>23. CASE ChildStops
  BY <1>23, <1>e DEF ChildStops
<1>24. CASE ChildKilled
  BY <1>24, <1>e DEF ChildKilled
<1>25. CASE ParentCloses
  BY <1>25 DEF ParentCloses
<1>26. CASE ParentDies
  BY <1>26 DEF ParentDies
<1>27. CASE ClientLeaves
  BY <1>27 DEF ClientLeaves
<1>28. CASE SessionImports
  BY <1>28 DEF SessionImports
<1>29. CASE UNCHANGED vars
  BY <1>29 DEF vars
<1> QED
  BY <1>1, <1>2, <1>3, <1>4, <1>5, <1>6, <1>7, <1>8, <1>9, <1>10, <1>11, <1>12, <1>13,
     <1>14, <1>15, <1>16, <1>17, <1>18, <1>19, <1>20, <1>21, <1>22, <1>23, <1>24, <1>25, <1>26,
     <1>27, <1>28, <1>29 DEF Next, BridgeStep

\* When no signal comes before the handlers, a bridge that has read the close of
\* its window exits 0, and only the end of a compositor that nobody had asked to
\* end makes it another code.
THEOREM ClosesReported ==
  ASSUME HandlersFirst
  PROVE  Spec => []CloseReported
<1>1. Init => CloseInv
  <2> SUFFICES ASSUME Init PROVE CloseInv
    OBVIOUS
  <2>1. proc.state # "ended"
    BY DEF Init, NoProc
  <2> QED
    BY <2>1 DEF Init, CloseInv
<1>2. LifeInv /\ CloseInv /\ [Next]_vars => CloseInv'
  BY CloseInvStep
<1>3. CloseInv => CloseReported
  BY DEF CloseInv, CloseReported
<1> QED
  BY <1>1, <1>2, <1>3, LifeInvAlways, PTL DEF Spec
-----------------------------------------------------------------------------
(* The exit codes without a child                                          *)

\* Without a child main never waits for one and has no code of one; nothing
\* closes before the loop, and what closed was closed by someone.
AloneInv ==
  /\ noChild => ~child /\ childCode = NoCode /\ pc \notin {"spawn", "wait", "kill", "last"}
  /\ pc \in Startup => ~parentClosed /\ ~compositorGone
  /\ parentClosed => closeSent
  /\ compositorGone => clientLeft
  /\ noChild /\ pc \in {"finish", "done"} /\ gotSignal = 0 /\ ~parentClosed /\ ~compositorGone
       => exitCode = 2

LEMMA AloneInvStep ==
  ASSUME TypeOK, AloneInv, [Next]_vars
  PROVE  AloneInv'
<1> USE DEF AloneInv, Startup, bridgeVars, goneVars, waitVars, signalVars, worldVars, parentVars
<1>1. CASE StartFails
  BY <1>1 DEF StartFails
<1>2. CASE Start
  BY <1>2 DEF Start
<1>3. CASE SpawnChild
  BY <1>3 DEF SpawnChild
<1>4. CASE InstallHandlers
  BY <1>4 DEF InstallHandlers
<1>5. CASE Top
  BY <1>5 DEF Top
<1>6. CASE EnterPoll
  BY <1>6 DEF EnterPoll
<1>7. CASE PollReturns
  BY <1>7 DEF PollReturns
<1>8. CASE DispatchParent
  BY <1>8 DEF DispatchParent, CloseUnread, LossSeen
<1>9. CASE DispatchClients
  BY <1>9 DEF DispatchClients, Readable
<1>10. CASE Reap
  BY <1>10 DEF Reap, ChildEnded
<1>11. CASE LoopEnds
  BY <1>11 DEF LoopEnds
<1>12. CASE StopChild
  BY <1>12 DEF StopChild
<1>13. CASE ChildReaped
  BY <1>13 DEF ChildReaped
<1>14. CASE WaitChild
  BY <1>14 DEF WaitChild, LookAgain
<1>15. CASE KillChild
  BY <1>15 DEF KillChild
<1>16. CASE LastWait
  BY <1>16 DEF LastWait
<1>17. CASE Decide
  BY <1>17 DEF Decide, ReturnCode
<1>18. CASE Finish
  BY <1>18 DEF Finish
<1>19. ASSUME NEW s \in Signals, OnSignal(s) PROVE AloneInv'
  <2>1. gotSignal' # 0
    BY <1>19, ExitCodes DEF OnSignal
  <2> QED
    BY <1>19, <2>1 DEF OnSignal, HandlersInstalled, Interrupted, Loop, Shutdown
<1>20. CASE OnUsr1
  BY <1>20 DEF OnUsr1, HandlersInstalled, Interrupted, Loop, Shutdown
<1>21. CASE EarlySignal
  BY <1>21 DEF EarlySignal
<1>22. CASE ChildEnds
  BY <1>22 DEF ChildEnds, Ends
<1>23. CASE ChildStops
  BY <1>23 DEF ChildStops, Ends
<1>24. CASE ChildKilled
  BY <1>24 DEF ChildKilled, Ends
<1>25. CASE ParentCloses
  BY <1>25 DEF ParentCloses
<1>26. CASE ParentDies
  BY <1>26 DEF ParentDies
<1>27. CASE ClientLeaves
  BY <1>27 DEF ClientLeaves
<1>28. CASE SessionImports
  BY <1>28 DEF SessionImports
<1>29. CASE UNCHANGED vars
  BY <1>29 DEF vars
<1> QED
  BY <1>1, <1>2, <1>3, <1>4, <1>5, <1>6, <1>7, <1>8, <1>9, <1>10, <1>11, <1>12, <1>13,
     <1>14, <1>15, <1>16, <1>17, <1>18, <1>19, <1>20, <1>21, <1>22, <1>23, <1>24, <1>25, <1>26,
     <1>27, <1>28, <1>29 DEF Next, BridgeStep

LEMMA AloneInvAlways == Spec => []AloneInv
<1>1. Init => AloneInv
  BY DEF Init, AloneInv
<1>2. TypeOK /\ AloneInv /\ [Next]_vars => AloneInv'
  BY AloneInvStep
<1> QED
  BY <1>1, <1>2, LifeTypeCorrect, PTL DEF Spec

\* Without a child a lost parent, and nothing else, exits 2.
THEOREM LossesExitTwo == Spec => []LossExitsTwo
<1>1. AloneInv => LossExitsTwo
  BY DEF AloneInv, LossExitsTwo
<1> QED
  BY <1>1, AloneInvAlways, PTL
=============================================================================
