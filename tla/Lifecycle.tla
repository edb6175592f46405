------------------------------- MODULE Lifecycle -------------------------------
(***************************************************************************)
(* The life of the bridge process: startup, the child it spawns, the main  *)
(* loop, the signals, and the ways in which it ends.  The frames and the   *)
(* keys that pass meanwhile are in FramePath and SeatRelay.                *)
(*                                                                         *)
(* The bridge is one thread; pc is where it is.  Signals, the child, the   *)
(* parent and the clients act between any two of its steps.                *)
(***************************************************************************)
EXTENDS Integers

CONSTANTS HadParentDisplay, \* WAYLAND_DISPLAY was set and fits
          Signals,          \* of SIGTERM (15) and SIGINT (2), those that come
          Waits,            \* the 10 ms waits for the child after SIGTERM (50)
          WorldMay          \* what else may happen

WorldEvents == {"early_signal",  \* a signal after the fork, before the handlers are installed
                "late_import"}   \* the session's scripts outlive the compositor

ASSUME OptionAssumption == HadParentDisplay \in BOOLEAN
ASSUME SignalAssumption == Signals \subseteq {2, 15}
ASSUME WaitsAssumption == Waits \in Nat \ {0}
ASSUME WorldAssumption == WorldMay \subseteq WorldEvents

VARIABLES
  noChild,       \* G.no_child, the option --no-child
  pc,            \* where main is
  run,           \* G.run
  gotSignal,     \* got_signal
  chord,         \* inject_chord
  ready,         \* the descriptors poll reported
  parentClosed,  \* G.parent_closed
  compositorGone, \* compositor_gone
  child,         \* G.child > 0
  tries,         \* how often main has looked for the child after SIGTERM
  childCode,     \* child_code, NoCode before
  exitCode,      \* what main returns, NoCode before
  proc,          \* the child process: its state, the signal it was sent,
                 \* how it ended and whether it did so unasked
  closeSent,     \* the parent has sent the close of the window
  parentLost,    \* the parent's connection is gone
  clientLeft,    \* the first client has disconnected
  display        \* WAYLAND_DISPLAY of the systemd user manager

goneVars == <<parentClosed, compositorGone>>
waitVars == <<child, tries, childCode>>
bridgeVars == <<run, ready, goneVars, waitVars, exitCode>>
signalVars == <<gotSignal, chord>>
parentVars == <<closeSent, parentLost>>
worldVars == <<proc, parentVars, clientLeft, display, noChild>>
vars == <<noChild, pc, run, gotSignal, chord, ready, parentClosed, compositorGone, child, tries,
          childCode, exitCode, proc, closeSent, parentLost, clientLeft, display>>

NoCode == -1
Codes == {0, 1, 2, 127} \cup {128 + s : s \in {2, 9, 11, 15}}
Startup == {"start", "spawn", "handlers"}
Loop == {"top", "armed", "poll", "parent", "clients", "reap"}
Shutdown == {"stop", "wait", "kill", "last", "decide", "finish"}
Ended == {"done", "killed"}

\* The ways a process ends: WIFEXITED, or WIFSIGNALED as the shell counts.
Exited(n) == [how |-> "exited", code |-> n]
Signaled(s) == [how |-> "signaled", code |-> 128 + s]
Unasked == {Exited(0), Exited(1), Exited(127), Signaled(9), Signaled(11)}
Asked == {Exited(0), Exited(1), Signaled(15)}
Alive == [how |-> "alive", code |-> NoCode]

Procs == [state : {"none", "running", "ended"}, sent : {"nothing", "SIGTERM", "SIGKILL"},
          end : Unasked \cup Asked \cup {Alive}, unasked : BOOLEAN]
NoProc == [state |-> "none", sent |-> "nothing", end |-> Alive, unasked |-> FALSE]

Init ==
  /\ noChild \in BOOLEAN
  /\ pc = "start" /\ run = TRUE /\ gotSignal = 0 /\ chord = FALSE /\ ready = {}
  /\ parentClosed = FALSE /\ compositorGone = FALSE /\ child = FALSE
  /\ tries = 0 /\ childCode = NoCode /\ exitCode = NoCode
  /\ proc = NoProc
  /\ closeSent = FALSE /\ parentLost = FALSE /\ clientLeft = FALSE
  /\ display = "parent"

-----------------------------------------------------------------------------
(* Startup                                                                 *)

\* No vkms device, no parent, no globals, no runtime directory or no socket.
StartFails ==
  /\ pc = "start"
  /\ pc' = "done" /\ exitCode' = 2
  /\ UNCHANGED <<run, ready, goneVars, waitVars, signalVars, worldVars>>

Start ==
  /\ pc = "start"
  /\ pc' = IF noChild THEN "handlers" ELSE "spawn"
  /\ UNCHANGED <<bridgeVars, signalVars, worldVars>>

\* spawn_child: fork may fail.
SpawnChild ==
  /\ pc = "spawn"
  /\ \/ /\ pc' = "done" /\ exitCode' = 2
        /\ UNCHANGED <<child, proc>>
     \/ /\ pc' = "handlers"
        /\ child' = TRUE
        /\ proc' = [proc EXCEPT !.state = "running"]
        /\ UNCHANGED exitCode
  /\ UNCHANGED <<run, ready, goneVars, tries, childCode, signalVars,
                 parentVars, clientLeft, display, noChild>>

InstallHandlers ==
  /\ pc = "handlers"
  /\ pc' = "top"
  /\ UNCHANGED <<bridgeVars, signalVars, worldVars>>

-----------------------------------------------------------------------------
(* The main loop                                                           *)

\* The head of the loop: the chord is delivered and the events are flushed.
Top ==
  /\ pc = "top"
  /\ pc' = IF run THEN "armed" ELSE "stop"
  /\ chord' = (chord /\ ~run)
  /\ UNCHANGED <<bridgeVars, gotSignal, worldVars>>

\* The call of poll.  A signal between Top and here is not seen by it.
EnterPoll ==
  /\ pc = "armed"
  /\ pc' = "poll"
  /\ UNCHANGED <<bridgeVars, signalVars, worldVars>>

Readable == (IF (closeSent /\ ~parentClosed) \/ parentLost THEN {"parent"} ELSE {})
              \cup (IF clientLeft /\ ~compositorGone THEN {"server"} ELSE {})

\* Mutant: poll never times out.
WakesOnEvents == Readable # {}

\* With a child, poll times out after 200 ms.
Wakes == Readable # {} \/ child

PollReturns ==
  /\ pc = "poll"
  /\ Wakes
  /\ pc' = "parent"
  /\ ready' = Readable
  /\ UNCHANGED <<run, goneVars, waitVars, exitCode, signalVars, worldVars>>

CloseUnread == "parent" \in ready /\ closeSent /\ ~parentClosed
LossSeen == "parent" \in ready /\ parentLost /\ ~CloseUnread

\* Mutant: a lost connection is taken for a close.
LossIsClose ==
  /\ pc = "parent"
  /\ pc' = "clients"
  /\ parentClosed' = (parentClosed \/ CloseUnread \/ LossSeen)
  /\ run' = (run /\ ~CloseUnread /\ ~LossSeen)
  /\ UNCHANGED <<ready, compositorGone, waitVars, exitCode, signalVars, worldVars>>

\* The parent's events: top_close, or the failure of the connection, which
\* leaves the loop.
DispatchParent ==
  /\ pc = "parent"
  /\ pc' = IF LossSeen THEN "stop" ELSE "clients"
  /\ parentClosed' = (parentClosed \/ CloseUnread)
  /\ run' = (run /\ ~CloseUnread)
  /\ UNCHANGED <<ready, compositorGone, waitVars, exitCode, signalVars, worldVars>>

\* The clients' requests: client_gone, when the first client disconnects.
DispatchClients ==
  LET gone == "server" \in ready /\ clientLeft
  IN /\ pc = "clients"
     /\ pc' = "reap"
     /\ compositorGone' = (compositorGone \/ gone)
     /\ run' = (run /\ ~gone)
     /\ UNCHANGED <<ready, parentClosed, waitVars, exitCode, signalVars, worldVars>>

\* A child that has ended ends the bridge with its code, at once.
ChildEnded(next) ==
  /\ pc = "reap" /\ child /\ proc.state = "ended"
  /\ child' = FALSE /\ run' = FALSE
  /\ exitCode' = proc.end.code
  /\ pc' = next
  /\ UNCHANGED <<ready, goneVars, tries, childCode, signalVars, worldVars>>

\* Mutant: the code is returned without finish.
ReapReturns == ChildEnded("done")
Reap == ChildEnded("finish")

\* The end of the loop's body.
LoopEnds ==
  /\ pc = "reap"
  /\ ~(child /\ proc.state = "ended")
  /\ pc' = IF parentClosed THEN "stop" ELSE "top"
  /\ UNCHANGED <<bridgeVars, signalVars, worldVars>>
-----------------------------------------------------------------------------
(* Shutdown                                                                *)

\* After the loop: a child is sent SIGTERM.
StopChild ==
  /\ pc = "stop"
  /\ pc' = IF child THEN "wait" ELSE "decide"
  /\ proc' = IF child THEN [proc EXCEPT !.sent = "SIGTERM"] ELSE proc
  /\ UNCHANGED <<bridgeVars, signalVars, parentVars, clientLeft, display, noChild>>

\* Main has looked for the child and it has ended.
ChildReaped ==
  /\ pc = "wait" /\ proc.state = "ended"
  /\ pc' = "decide"
  /\ child' = FALSE
  /\ childCode' = proc.end.code
  /\ UNCHANGED <<run, ready, goneVars, tries, exitCode, signalVars, worldVars>>

\* Main has looked and it has not, when it was the last time to look.
LookAgain(last) ==
  /\ pc = "wait" /\ proc.state # "ended"
  /\ tries' = tries + 1
  /\ pc' = IF last THEN "kill" ELSE "wait"
  /\ UNCHANGED <<run, ready, goneVars, child, childCode, exitCode, signalVars, worldVars>>

WaitChild == LookAgain(tries + 1 = Waits)

\* Mutant: main does not insist.
LeavesChild ==
  /\ pc = "kill"
  /\ pc' = "decide"
  /\ UNCHANGED <<bridgeVars, signalVars, worldVars>>

KillChild ==
  /\ pc = "kill"
  /\ pc' = "last"
  /\ proc' = [proc EXCEPT !.sent = "SIGKILL"]
  /\ UNCHANGED <<bridgeVars, signalVars, parentVars, clientLeft, display, noChild>>

\* The last wait, which takes no code from a child that exited.
LastWait ==
  /\ pc = "last" /\ proc.state = "ended"
  /\ pc' = "decide"
  /\ childCode' = IF proc.end.how = "signaled" THEN proc.end.code ELSE childCode
  /\ UNCHANGED <<run, ready, goneVars, child, tries, exitCode, signalVars, worldVars>>

\* Mutant: the end of the compositor's connection decides.
CodeOfClient ==
  IF gotSignal # 0 THEN 128 + gotSignal
  ELSE IF parentClosed \/ compositorGone THEN 0
  ELSE IF childCode # NoCode THEN childCode
  ELSE 2

\* Mutant: the child's code decides before the close.
CodeOfChild ==
  IF gotSignal # 0 THEN 128 + gotSignal
  ELSE IF childCode # NoCode THEN childCode
  ELSE IF parentClosed \/ compositorGone THEN 0
  ELSE 2

\* The returns at the end of main.
ReturnCode ==
  IF gotSignal # 0 THEN 128 + gotSignal
  ELSE IF parentClosed THEN 0
  ELSE IF childCode # NoCode THEN childCode
  ELSE IF compositorGone THEN 0
  ELSE 2

Decide ==
  /\ pc = "decide"
  /\ pc' = "finish"
  /\ exitCode' = ReturnCode
  /\ UNCHANGED <<run, ready, goneVars, waitVars, signalVars, worldVars>>

\* finish and restore_user_environment.
Finish ==
  /\ pc = "finish"
  /\ pc' = "done"
  /\ display' = IF noChild \/ ~HadParentDisplay THEN display ELSE "parent"
  /\ UNCHANGED <<bridgeVars, signalVars, proc, parentVars, clientLeft, noChild>>

-----------------------------------------------------------------------------
(* Signals                                                                 *)

\* Where the bridge sleeps in a system call that a signal interrupts: poll,
\* whose EINTR goes to the head of the loop, and the last waitpid.
Interrupted ==
  IF pc = "poll" /\ Readable = {} THEN "top"
  ELSE IF pc = "last" /\ proc.state # "ended" THEN "decide"
  ELSE pc

HandlersInstalled == pc \in Loop \cup Shutdown

\* on_sig
OnSignal(s) ==
  /\ HandlersInstalled
  /\ gotSignal' = s
  /\ run' = FALSE
  /\ pc' = Interrupted
  /\ UNCHANGED <<ready, goneVars, waitVars, exitCode, chord, worldVars>>

\* on_usr1
OnUsr1 ==
  /\ HandlersInstalled
  /\ chord' = TRUE
  /\ pc' = Interrupted
  /\ UNCHANGED <<bridgeVars, gotSignal, worldVars>>

\* Before its handler is installed a signal kills the bridge.
EarlySignal ==
  /\ pc \in Startup /\ Signals # {} /\ (child => "early_signal" \in WorldMay)
  /\ pc' = "killed"
  /\ UNCHANGED <<bridgeVars, signalVars, worldVars>>

-----------------------------------------------------------------------------
(* The child, the parent, the first client and the session                 *)

Ends(end, unasked) ==
  /\ proc.state = "running"
  /\ proc' = [proc EXCEPT !.state = "ended", !.end = end, !.unasked = unasked]
  /\ UNCHANGED <<pc, bridgeVars, signalVars, parentVars, clientLeft, display, noChild>>

ChildEnds == proc.sent = "nothing" /\ \E end \in Unasked : Ends(end, TRUE)
ChildStops == proc.sent # "nothing" /\ \E end \in Asked : Ends(end, FALSE)
ChildKilled == proc.sent = "SIGKILL" /\ Ends(Signaled(9), FALSE)

\* The user closes the window.
ParentCloses ==
  /\ pc \notin Startup /\ ~closeSent /\ ~parentLost
  /\ closeSent' = TRUE
  /\ UNCHANGED <<pc, bridgeVars, signalVars, proc, parentLost, clientLeft, display, noChild>>

ParentDies ==
  /\ pc \notin Startup /\ ~parentLost
  /\ parentLost' = TRUE
  /\ UNCHANGED <<pc, bridgeVars, signalVars, proc, closeSent, clientLeft, display, noChild>>

ClientLeaves ==
  /\ pc \notin Startup /\ ~clientLeft
  /\ clientLeft' = TRUE
  /\ UNCHANGED <<pc, bridgeVars, signalVars, proc, parentVars, display, noChild>>

\* The session's scripts import the compositor's WAYLAND_DISPLAY.
SessionImports ==
  /\ ~noChild
  /\ \/ proc.state = "running" /\ proc.sent # "SIGKILL"
     \/ proc.state # "none" /\ "late_import" \in WorldMay
  /\ display' = "private"
  /\ UNCHANGED <<pc, bridgeVars, signalVars, proc, parentVars, clientLeft, noChild>>

-----------------------------------------------------------------------------
BridgeStep ==
  \/ StartFails \/ Start \/ SpawnChild \/ InstallHandlers
  \/ Top \/ EnterPoll \/ PollReturns \/ DispatchParent \/ DispatchClients \/ Reap \/ LoopEnds
  \/ StopChild \/ ChildReaped \/ WaitChild \/ KillChild \/ LastWait \/ Decide \/ Finish

Next ==
  \/ BridgeStep
  \/ \E s \in Signals : OnSignal(s)
  \/ OnUsr1 \/ EarlySignal
  \/ ChildEnds \/ ChildStops \/ ChildKilled
  \/ ParentCloses \/ ParentDies \/ ClientLeaves \/ SessionImports

Spec == Init /\ [][Next]_vars

\* The bridge runs, signals do not come forever within each of poll's
\* timeouts, and SIGKILL ends a process.
LiveSpec == Spec /\ WF_vars(BridgeStep) /\ SF_vars(PollReturns) /\ WF_vars(ChildKilled)

-----------------------------------------------------------------------------
(* Properties                                                              *)

\* Every variable has its type.
TypeOK ==
  /\ noChild \in BOOLEAN
  /\ pc \in Startup \cup Loop \cup Shutdown \cup Ended
  /\ run \in BOOLEAN /\ gotSignal \in {0} \cup Signals /\ chord \in BOOLEAN
  /\ ready \in SUBSET {"parent", "server"}
  /\ parentClosed \in BOOLEAN /\ compositorGone \in BOOLEAN /\ child \in BOOLEAN
  /\ tries \in 0..Waits
  /\ childCode \in Codes \cup {NoCode} /\ exitCode \in Codes \cup {NoCode}
  /\ proc \in Procs
  /\ closeSent \in BOOLEAN /\ parentLost \in BOOLEAN /\ clientLeft \in BOOLEAN
  /\ display \in {"parent", "private"}

\* However the bridge ends, it leaves no compositor behind: the child has ended
\* or SIGKILL is on its way to it.
NoOrphan == pc \in Ended => proc.state # "running" \/ proc.sent = "SIGKILL"

\* The end of a compositor that nobody asked to end is the bridge's exit code,
\* whether its connection or its process ends first.
CrashReported ==
  pc = "done" /\ proc.unasked /\ gotSignal = 0 /\ ~parentClosed => exitCode = proc.end.code

\* Once the bridge is gone, the user manager has the parent's display again.
DisplayRestored == pc = "done" /\ HadParentDisplay => display = "parent"

\* Whatever stops the session of a child stops the bridge: a signal, the close
\* of the window, the loss of the parent, the first client or the child.
Stopped == gotSignal # 0 \/ closeSent \/ parentLost \/ clientLeft \/ proc.state = "ended"
Stops == ~noChild /\ Stopped ~> pc \in Ended

\* A chord that was asked for is delivered, or the session of the child ends.
ChordDelivered == ~noChild /\ chord ~> ~chord \/ pc \in Ended

\* docs/usage.md:37: "Close the desktop window. The bridge exits 0, and Hyprland and
\* the terminal exit with it."  A bridge that has read the close and was sent no
\* signal exits 0, with whatever code a compositor ends that was told to, also when
\* it has to be killed and whatever else is lost.  One exit can hide the close: that of
\* a compositor that had ended before anyone asked it to, which is then the code.
CloseReported ==
  pc = "done" /\ parentClosed /\ gotSignal = 0
    => exitCode = 0 \/ (proc.unasked /\ exitCode = proc.end.code)

\* The same without that exception.
CloseExitsZero == pc = "done" /\ parentClosed /\ gotSignal = 0 => exitCode = 0

\* Without a child, a lost parent exits 2, unless something else ended the session.
LossExitsTwo ==
  noChild /\ pc = "done" /\ parentLost /\ ~closeSent /\ ~clientLeft /\ gotSignal = 0
    => exitCode = 2

-----------------------------------------------------------------------------
(* The inductive invariant behind NoOrphan and CrashReported               *)

HandlersFirst == "early_signal" \notin WorldMay

Untouched == {"handlers", "stop"} \cup Loop   \* the child was sent nothing yet
Over == {"decide", "finish", "done"}          \* main is done with the child

ChildKnown ==
  /\ pc \in {"start", "spawn"} => ~child /\ proc = NoProc
  /\ proc.state = "running" => child
  /\ pc \in Untouched /\ ~child => proc.state = "none"
  /\ proc.unasked => proc.state = "ended"
  /\ proc.state = "ended" => proc.end # Alive

ChildAsked ==
  /\ pc \in Untouched => proc.sent = "nothing"
  /\ pc \in {"wait", "kill"} => proc.sent = "SIGTERM"
  /\ pc = "last" => proc.sent = "SIGKILL"
  /\ pc \in Over /\ proc.state = "running" => proc.sent = "SIGKILL"

CrashKept ==
  /\ pc \in {"kill", "last"} => ~proc.unasked
  /\ pc = "decide" /\ proc.unasked => childCode = proc.end.code
  /\ pc \in {"finish", "done"} /\ proc.unasked /\ gotSignal = 0 /\ ~parentClosed
       => exitCode = proc.end.code

\* While main may still look for the child, it has looked less than Waits times.
Looking == pc \in Startup \cup Loop \cup {"stop", "wait"} => tries < Waits

\* A signal that kills the bridge comes before there is a child.
KilledAlone == pc = "killed" => proc.state = "none"

LifeInv == TypeOK /\ Looking /\ KilledAlone /\ ChildKnown /\ ChildAsked /\ CrashKept
=============================================================================
