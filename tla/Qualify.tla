-------------------------------- MODULE Qualify --------------------------------
(***************************************************************************)
(* The VKMS qualification probe: for each format it draws a pattern into a *)
(* buffer, hands the buffer's descriptor to a second process over a socket *)
(* pair, and passes when that process has read the pattern back.           *)
(*                                                                         *)
(* Every call may fail, and either process may be killed at any point.     *)
(***************************************************************************)
EXTENDS Naturals, FiniteSets, Sequences, TLAPS

CONSTANT Formats \* the formats main qualifies, in order

ASSUME FormatAssumption == Formats \in Seq({"XRGB8888", "ARGB8888"}) /\ Formats # <<>>

VARIABLES
  pc,     \* the probe: what it does next, or how it ended
  nth,    \* the format it is at
  drawn,  \* drawn[k]: the channels of the k-th buffer that hold the pattern
  passed, \* the formats it printed PASS for
  ends,   \* the ends of the socket pair it has open: 0 it writes, 1 it reads
  child,  \* the second process: its state, its exit code and its open ends
  sent    \* the descriptor is in the socket

vars == <<pc, nth, drawn, passed, ends, child, sent>>

Channels == {"blue", "green", "red", "alpha"}
ProbeEnded == {"pass", "exit 1", "killed"}
ChildRuns == {"start", "receive", "compare"}
NoChild == [state |-> "none", code |-> 0, ends |-> {}]
Exited(code) == [state |-> "ended", code |-> code, ends |-> {}]
Killed == [state |-> "ended", code |-> 137, ends |-> {}]

\* The channels child_check compares.
Compared(format) == IF format = "XRGB8888" THEN {"blue", "green", "red"} ELSE Channels

Init ==
  /\ pc = "prepare" /\ nth = 1 /\ drawn = [k \in DOMAIN Formats |-> {}] /\ passed = {}
  /\ ends = {} /\ child = NoChild /\ sent = FALSE

\* die and fail end the probe, which closes its ends; so does a signal.
Stops(how) == pc' = how /\ ends' = {} /\ UNCHANGED <<nth, drawn, passed, child, sent>>

Held(end) == end \in ends \/ end \in child.ends

-----------------------------------------------------------------------------
(* The probe                                                               *)

\* main up to the first format: find the VKMS node, open and reopen it, and
\* set up GBM and EGL on it.
Prepare ==
  /\ pc = "prepare"
  /\ \/ pc' = "draw" /\ UNCHANGED <<nth, drawn, passed, ends, child, sent>>
     \/ Stops("exit 1")

\* qualify_format: allocate, export, import and draw.
Draw ==
  /\ pc = "draw"
  /\ \/ /\ \E right \in SUBSET Channels : drawn' = [drawn EXCEPT ![nth] = right]
        /\ pc' = "fork" /\ UNCHANGED <<nth, passed, ends, child, sent>>
     \/ Stops("exit 1")

\* pass_fd_and_check: socketpair and fork; the child has both ends, too.
Fork ==
  /\ pc = "fork"
  /\ \/ /\ ends' = {0, 1} /\ child' = [state |-> "start", code |-> 0, ends |-> {0, 1}]
        /\ sent' = FALSE /\ pc' = "send" /\ UNCHANGED <<nth, drawn, passed>>
     \/ Stops("exit 1")

\* The probe closes the end it does not use and sends; SIGPIPE ends it when
\* there is nobody to read.
Send ==
  /\ pc = "send"
  /\ \/ /\ 1 \in child.ends
        /\ sent' = TRUE /\ ends' = {0} /\ pc' = "close"
        /\ UNCHANGED <<nth, drawn, passed, child>>
     \/ child.ends = {} /\ Stops("killed")
     \/ Stops("exit 1")
CloseEnd ==
  /\ pc = "close"
  /\ ends' = {} /\ pc' = "wait" /\ UNCHANGED <<nth, drawn, passed, child, sent>>

\* Mutant: the exit status of the second process is not looked at.
AnyStatus == child.state = "ended"
CleanStatus == child.state = "ended" /\ child.code = 0

\* waitpid, and what qualify_format and main do when the readback passed.
Wait ==
  /\ pc = "wait" /\ child.state = "ended"
  /\ IF ~CleanStatus THEN Stops("exit 1")
     ELSE /\ passed' = passed \cup {Formats[nth]}
          /\ child' = NoChild
          /\ IF nth = Len(Formats) THEN pc' = "pass" /\ UNCHANGED nth
             ELSE pc' = "draw" /\ nth' = nth + 1
          /\ UNCHANGED <<drawn, ends, sent>>

-----------------------------------------------------------------------------
(* The second process                                                      *)

ChildBecomes(new) == child' = new /\ UNCHANGED <<pc, nth, drawn, passed, ends>>

\* Mutant: the child keeps the end the probe writes.
KeepsBoth == {0, 1}
ClosesWritingEnd == {1}
ChildStarts ==
  /\ child.state = "start"
  /\ ChildBecomes([child EXCEPT !.state = "receive", !.ends = ClosesWritingEnd])
  /\ UNCHANGED sent

\* recvmsg returns the descriptor; when it fails, or returns nothing because
\* nobody can write any more, the child exits with 1.
Receive ==
  /\ child.state = "receive"
  /\ \/ sent /\ sent' = FALSE /\ ChildBecomes([child EXCEPT !.state = "compare"])
     \/ (sent \/ ~Held(0)) /\ ChildBecomes(Exited(1)) /\ UNCHANGED sent

\* child_check: its own mapping, between the start and the end of a read.
Compare ==
  /\ child.state = "compare"
  /\ \/ ChildBecomes(Exited(IF Compared(Formats[nth]) \subseteq drawn[nth] THEN 0 ELSE 1))
     \/ ChildBecomes(Exited(1))
  /\ UNCHANGED sent

-----------------------------------------------------------------------------
ProbeStep == Prepare \/ Draw \/ Fork \/ Send \/ CloseEnd \/ Wait
ChildStep == ChildStarts \/ Receive \/ Compare

ProbeKilled == pc \notin ProbeEnded /\ Stops("killed")
ChildKilled == child.state \in ChildRuns /\ ChildBecomes(Killed) /\ UNCHANGED sent

Next == ProbeStep \/ ChildStep \/ ProbeKilled \/ ChildKilled

\* Each process runs.
Spec == Init /\ [][Next]_vars /\ WF_vars(ProbeStep) /\ WF_vars(ChildStep)

-----------------------------------------------------------------------------
(* Properties                                                              *)

\* Every variable has its type.
TypeOK ==
  /\ pc \in {"prepare", "draw", "fork", "send", "close", "wait"} \cup ProbeEnded
  /\ nth \in DOMAIN Formats /\ drawn \in [DOMAIN Formats -> SUBSET Channels]
  /\ passed \subseteq {Formats[k] : k \in DOMAIN Formats}
  /\ ends \subseteq {0, 1} /\ sent \in BOOLEAN
  /\ child \in [state : ChildRuns \cup {"none", "ended"}, code : {0, 1, 137}, ends : SUBSET {0, 1}]

\* PASS qualification means that every format was drawn in every channel it has.
PassMeansRead ==
  pc = "pass" => \A k \in DOMAIN Formats :
    /\ {"blue", "green", "red"} \subseteq drawn[k]
    /\ Formats[k] = "ARGB8888" => "alpha" \in drawn[k]

\* Whatever fails and whoever is killed, neither process waits for ever.
BothEnd == <>[](pc \in ProbeEnded /\ child.state \notin ChildRuns)

-----------------------------------------------------------------------------
(* The inductive invariant behind PassMeansRead                            *)

\* The k-th buffer holds the pattern in every channel that is compared.
Good(k) == Compared(Formats[k]) \subseteq drawn[k]

QualifyInv ==
  /\ TypeOK
  /\ pc \in {"prepare", "draw", "fork"} => child = NoChild
  /\ \A k \in 1..nth : k # nth => Good(k)
  /\ child.state = "ended" /\ child.code = 0 => Good(nth)
  /\ pc = "pass" => nth = Len(Formats) /\ Good(nth)

-----------------------------------------------------------------------------
(* The theorem, for every sequence of formats                              *)

\* The formats are those of 1..Len(Formats), and there is a first.
LEMMA FormatIndices ==
  /\ Len(Formats) \in Nat \ {0}
  /\ DOMAIN Formats = 1..Len(Formats)
  /\ \A k \in DOMAIN Formats : Formats[k] \in {"XRGB8888", "ARGB8888"}
BY FormatAssumption

ChildTypes == [state : ChildRuns \cup {"none", "ended"}, code : {0, 1, 137}, ends : SUBSET {0, 1}]

\* What the child process becomes is of its type, with the state and code it
\* was given.
LEMMA ChildBecomesTyped ==
  /\ NoChild \in ChildTypes /\ NoChild.state = "none"
  /\ Killed \in ChildTypes /\ Killed.code = 137
  /\ \A code \in {0, 1} : Exited(code) \in ChildTypes /\ Exited(code).code = code
  /\ \A c \in ChildTypes :
       \A state \in ChildRuns : /\ [c EXCEPT !.state = state] \in ChildTypes
                                /\ [c EXCEPT !.state = state].state = state
BY DEF ChildTypes, ChildRuns, NoChild, Killed, Exited

LEMMA QualifyInvInit == Init => QualifyInv
<1> SUFFICES ASSUME Init PROVE QualifyInv
  OBVIOUS
<1>1. TypeOK
  <2>1. 1 \in 1..Len(Formats)
    BY FormatIndices
  <2>2. nth \in DOMAIN Formats
    BY <2>1, FormatIndices, Zenon DEF Init
  <2>3. child \in ChildTypes
    BY ChildBecomesTyped DEF Init
  <2>4. drawn \in [DOMAIN Formats -> SUBSET Channels]
    BY DEF Init
  <2> QED
    BY <2>2, <2>3, <2>4 DEF Init, TypeOK, ChildTypes
<1>2. child.state = "none"
  BY ChildBecomesTyped DEF Init
<1> QED
  BY <1>1, <1>2 DEF Init, QualifyInv

\* A step that ends the probe keeps the invariant.
LEMMA StopsKeeps ==
  ASSUME QualifyInv, NEW how \in {"exit 1", "killed"}, Stops(how)
  PROVE  QualifyInv'
BY DEF QualifyInv, TypeOK, Stops, ProbeEnded, Good

\* So does a step of the second process that is its own.
LEMMA ChildKeeps ==
  ASSUME QualifyInv, NEW new \in ChildTypes, ChildBecomes(new), sent' \in BOOLEAN,
         child.state \in ChildRuns,
         new.state = "ended" /\ new.code = 0 => Good(nth)
  PROVE  QualifyInv'
<1>1. child # NoChild
  BY ChildBecomesTyped DEF ChildRuns
<1>2. TypeOK'
  BY DEF QualifyInv, TypeOK, ChildBecomes, ChildTypes
<1>3. UNCHANGED <<pc, nth, drawn>> /\ child' = new
  BY DEF ChildBecomes
<1> QED
  BY <1>1, <1>2, <1>3 DEF QualifyInv, Good

LEMMA QualifyInvStep == QualifyInv /\ [Next]_vars => QualifyInv'
<1> SUFFICES ASSUME QualifyInv, [Next]_vars PROVE QualifyInv'
  OBVIOUS
<1>t. /\ TypeOK /\ child \in ChildTypes /\ nth \in 1..Len(Formats) /\ Len(Formats) \in Nat
      /\ NoChild.state = "none" /\ NoChild \in ChildTypes
  BY FormatIndices, ChildBecomesTyped DEF QualifyInv, TypeOK, ChildTypes
<1>1. CASE Prepare
  <2>1. CASE pc' = "draw" /\ UNCHANGED <<nth, drawn, passed, ends, child, sent>>
    BY <1>1, <2>1 DEF Prepare, QualifyInv, TypeOK, Good
  <2> QED
    BY <1>1, <2>1, StopsKeeps DEF Prepare
<1>2. CASE Draw
  <2>1. ASSUME NEW right \in SUBSET Channels, drawn' = [drawn EXCEPT ![nth] = right],
               pc' = "fork", UNCHANGED <<nth, passed, ends, child, sent>>
        PROVE  QualifyInv'
    <3>1. child = NoChild /\ child' = NoChild
      BY <1>2, <2>1 DEF Draw, QualifyInv
    <3>2. drawn' \in [DOMAIN Formats -> SUBSET Channels]
      BY <2>1 DEF QualifyInv, TypeOK
    <3>3. TypeOK'
      BY <2>1, <3>2 DEF QualifyInv, TypeOK
    <3>4. \A k \in 1..nth : k # nth => Good(k)'
      BY <1>t, <2>1, FormatIndices DEF QualifyInv, TypeOK, Good
    <3> QED
      BY <1>t, <2>1, <3>1, <3>3, <3>4 DEF QualifyInv
  <2> QED
    BY <1>2, <2>1, StopsKeeps DEF Draw
<1>3. CASE Fork
  <2>1. CASE /\ ends' = {0, 1} /\ child' = [state |-> "start", code |-> 0, ends |-> {0, 1}]
             /\ sent' = FALSE /\ pc' = "send" /\ UNCHANGED <<nth, drawn, passed>>
    <3>1. child' \in ChildTypes /\ child'.state = "start"
      BY <2>1 DEF ChildTypes, ChildRuns
    <3> QED
      BY <2>1, <3>1 DEF QualifyInv, TypeOK, ChildTypes, Good
  <2> QED
    BY <1>3, <2>1, StopsKeeps DEF Fork
<1>4. CASE Send
  <2>1. CASE /\ sent' = TRUE /\ ends' = {0} /\ pc' = "close"
             /\ UNCHANGED <<nth, drawn, passed, child>>
    BY <2>1 DEF QualifyInv, TypeOK, Good
  <2> QED
    BY <1>4, <2>1, StopsKeeps DEF Send
<1>5. CASE CloseEnd
  BY <1>5 DEF CloseEnd, QualifyInv, TypeOK, Good
<1>6. CASE Wait
  <2>1. CASE ~CleanStatus
    BY <1>6, <2>1, StopsKeeps DEF Wait
  <2>2. CASE CleanStatus
    <3>1. Good(nth) /\ child' = NoChild /\ UNCHANGED <<drawn, ends, sent>>
          /\ passed' = passed \cup {Formats[nth]}
      BY <1>6, <2>2 DEF Wait, CleanStatus, QualifyInv
    <3>2. \A k \in 1..nth : Good(k)'
      BY <3>1 DEF QualifyInv, Good
    <3>3. passed' \subseteq {Formats[k] : k \in DOMAIN Formats}
      BY <1>t, <3>1, FormatIndices DEF TypeOK
    <3>4. CASE nth = Len(Formats) /\ pc' = "pass" /\ nth' = nth
      <4>1. TypeOK'
        BY <1>t, <3>1, <3>3, <3>4 DEF TypeOK, ProbeEnded, ChildTypes
      <4> QED
        BY <1>t, <3>1, <3>2, <3>4, <4>1 DEF QualifyInv, Good
    <3>5. CASE nth # Len(Formats) /\ pc' = "draw" /\ nth' = nth + 1
      <4>n. nth + 1 \in 1..Len(Formats)
        BY <1>t, <3>5
      <4>1. nth' \in DOMAIN Formats
        BY <3>5, <4>n, FormatIndices, Zenon
      <4>2. TypeOK'
        BY <1>t, <3>1, <3>3, <3>5, <4>1 DEF TypeOK, ChildTypes
      <4>3. \A k \in 1..nth' : k # nth' => Good(k)'
        BY <1>t, <3>2, <3>5
      <4> QED
        BY <1>t, <3>1, <3>5, <4>2, <4>3 DEF QualifyInv
    <3> QED
      BY <1>6, <2>2, <3>4, <3>5 DEF Wait
  <2> QED
    BY <2>1, <2>2
<1>7. CASE ChildStarts
  <2> DEFINE new == [child EXCEPT !.state = "receive", !.ends = ClosesWritingEnd]
  <2>1. child.state \in ChildRuns /\ sent' \in BOOLEAN /\ ChildBecomes(new)
    BY <1>7, <1>t DEF ChildStarts, ChildRuns, TypeOK
  <2>2. "receive" \in ChildRuns /\ ClosesWritingEnd \in SUBSET {0, 1}
    BY DEF ChildRuns, ClosesWritingEnd
  <2>3. new \in ChildTypes /\ new.state = "receive"
    BY <1>t, <2>2 DEF ChildTypes
  <2> HIDE DEF new
  <2> QED
    BY <2>1, <2>3, ChildKeeps
<1>8. CASE Receive
  <2>1. child.state \in ChildRuns /\ sent' \in BOOLEAN
    BY <1>8, <1>t DEF Receive, ChildRuns, TypeOK
  <2>2. [child EXCEPT !.state = "compare"] \in ChildTypes
        /\ [child EXCEPT !.state = "compare"].state = "compare"
    BY <1>t, ChildBecomesTyped DEF ChildRuns
  <2>3. Exited(1) \in ChildTypes /\ Exited(1).code = 1
    BY ChildBecomesTyped
  <2>4. CASE ChildBecomes([child EXCEPT !.state = "compare"])
    BY <2>1, <2>2, <2>4, ChildKeeps
  <2>5. CASE ChildBecomes(Exited(1))
    BY <2>1, <2>3, <2>5, ChildKeeps
  <2> QED
    BY <1>8, <2>4, <2>5 DEF Receive
<1>9. CASE Compare
  <2>1. child.state \in ChildRuns /\ sent' \in BOOLEAN
    BY <1>9, <1>t DEF Compare, ChildRuns, TypeOK
  <2>2. \A code \in {0, 1} : Exited(code) \in ChildTypes /\ Exited(code).code = code
    BY ChildBecomesTyped
  <2>3. CASE Good(nth) /\ ChildBecomes(Exited(0))
    BY <2>1, <2>2, <2>3, ChildKeeps
  <2>4. CASE ChildBecomes(Exited(1))
    BY <2>1, <2>2, <2>4, ChildKeeps
  <2> QED
    BY <1>9, <2>3, <2>4 DEF Compare, Good
<1>10. CASE ProbeKilled
  BY <1>10, StopsKeeps DEF ProbeKilled
<1>11. CASE ChildKilled
  <2>1. child.state \in ChildRuns /\ sent' \in BOOLEAN /\ ChildBecomes(Killed)
    BY <1>11, <1>t DEF ChildKilled, TypeOK
  <2>2. Killed \in ChildTypes /\ Killed.code = 137
    BY ChildBecomesTyped
  <2> QED
    BY <2>1, <2>2, ChildKeeps
<1>12. CASE UNCHANGED vars
  BY <1>12 DEF vars, QualifyInv, TypeOK, Good
<1> QED
  BY <1>1, <1>2, <1>3, <1>4, <1>5, <1>6, <1>7, <1>8, <1>9, <1>10, <1>11, <1>12
     DEF Next, ProbeStep, ChildStep

\* Whatever calls fail and whichever process is killed, the probe prints PASS
\* qualification only when the second process has compared every format.
THEOREM PassIsEarned == Spec => []PassMeansRead
<1>1. QualifyInv => PassMeansRead
  <2> SUFFICES ASSUME QualifyInv, pc = "pass", NEW k \in DOMAIN Formats
               PROVE  /\ {"blue", "green", "red"} \subseteq drawn[k]
                      /\ Formats[k] = "ARGB8888" => "alpha" \in drawn[k]
    BY DEF PassMeansRead
  <2>1. Good(k)
    BY FormatIndices DEF QualifyInv
  <2> QED
    BY <2>1, FormatIndices DEF Good, Compared, Channels
<1> QED
  BY <1>1, QualifyInvInit, QualifyInvStep, PTL DEF Spec
=============================================================================
