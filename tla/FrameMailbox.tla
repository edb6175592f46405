----------------------------- MODULE FrameMailbox -----------------------------
(***************************************************************************)
(* What the frame path of the bridge promises a client and the parent: a   *)
(* mailbox of one frame.  A committed frame is shown at once when nothing  *)
(* waits; otherwise it takes the place of the frame that waits.  The frame *)
(* that waits is the next one shown, so no frame is ever shown after one   *)
(* that was committed later.                                               *)
(***************************************************************************)
CONSTANTS Buffers,      \* the client's buffers
          None          \* no buffer

VARIABLES latest,       \* the frame committed last
          waiting,      \* the frame in the mailbox
          shown,        \* the frame the parent window shows
          open          \* the session goes on

vars == <<latest, waiting, shown, open>>

Init ==
  /\ latest = None
  /\ waiting = None
  /\ shown = None
  /\ open = TRUE

\* A frame is shown as it is committed: nothing may be waiting.
Present(b) ==
  /\ open
  /\ waiting = None
  /\ latest' = b
  /\ shown' = b
  /\ UNCHANGED <<waiting, open>>

\* A frame has to wait; one that was waiting is superseded.
Hold(b) ==
  /\ open
  /\ latest' = b
  /\ waiting' = b
  /\ UNCHANGED <<shown, open>>

\* The frame that waits is shown.
CatchUp ==
  /\ open
  /\ waiting # None
  /\ shown' = waiting
  /\ waiting' = None
  /\ UNCHANGED <<latest, open>>

\* The session ends, with or without the frame that waits.
Close ==
  /\ open
  /\ open' = FALSE
  /\ waiting' \in {waiting, None}
  /\ UNCHANGED <<latest, shown>>

Next ==
  \/ \E b \in Buffers : Present(b) \/ Hold(b)
  \/ CatchUp
  \/ Close

SafeSpec == Init /\ [][Next]_vars

\* A frame that waits does not wait for ever.
Spec == SafeSpec /\ WF_vars(CatchUp)

\* No frame is lost: the one committed last waits, or it is shown.
LatestKept == open => latest = IF waiting = None THEN shown ELSE waiting
=============================================================================
