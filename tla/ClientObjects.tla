----------------------------- MODULE ClientObjects -----------------------------
(***************************************************************************)
(* The objects of several clients, and what the bridge keeps of them when  *)
(* their requests come in other orders than one compositor's, or when a    *)
(* client is gone: the window (main_surface), the links in G.keyboards and *)
(* G.pointers, the frame callbacks and the surface whose frame waits.      *)
(*                                                                         *)
(* No resource has a destructor.  When a client disconnects, libwayland    *)
(* frees its resources and the bridge's pointers to them stay.  An event   *)
(* that names an object of another client makes libwayland drop the client *)
(* it was for.                                                             *)
(*                                                                         *)
(* Each turn of main's loop has two halves: in the first the events of the *)
(* parent are dispatched, in the second the clients' requests and ends.    *)
(* The compositor's end only clears G.run: what is left of the turn is     *)
(* still done.  The first half flushes to the clients as well, and a flush *)
(* to a socket that has failed ends that client between two of the events. *)
(*                                                                         *)
(* Frames and slots are those of FramePath, seen from here as "shown" or   *)
(* "waits"; a client has one surface, keyboard and pointer.                *)
(***************************************************************************)
EXTENDS Naturals, FiniteSets

CONSTANTS Clients,      \* whoever connects to the bridge's socket
          Compositor,   \* the one the bridge was started for
          Callbacks,    \* the wl_callbacks of frame requests
          OwnerOf,      \* OwnerOf[k]: the client that asks for callback k
          MayBreak,     \* the rules some client may break,
          MaxBroken,    \* this many of them in one behaviour (a bound)
          None          \* a null pointer

Rules == {"compositor_first", \* the compositor is the first to bind a global
          "guests_look_on",   \* nobody else makes a window, keyboard or pointer
          "settles_first",    \* devices and window do not change under a focus
          "whole_window",     \* a surface and its shell objects are destroyed in one go
          "awaits_frame",     \* a frame is asked for when the last was answered
          "ends_in_time"}     \* the compositor's end is met in the second half

Freed == {"keyboard", "pointer", "window", "callback", "buffer"}

ASSUME CompositorAssumption == Compositor \in Clients
ASSUME OwnerAssumption == OwnerOf \in [Callbacks -> Clients]
ASSUME RuleAssumption == MayBreak \subseteq Rules /\ MaxBroken \in Nat
ASSUME NoneAssumption == None \notin Clients \cup Callbacks \cup Freed

VARIABLES
  conn,      \* the clients' connections
  hooked,    \* whose end ends the session: gone_listener and client_hooked
  half,      \* whose half of the loop's turn it is, or that the loop is over
  run,       \* G.run
  compositorGone, \* compositor_gone
  resources, \* the shell objects of each client that exist
  fields,    \* what is set in its surface_state; empty also when that is freed
  main,      \* main_surface, by its client
  keyboards, \* G.keyboards, by client
  pointers,  \* G.pointers, by client
  inside,    \* the pointers that were told to enter and not to leave
  odd,       \* pointers that were sent an event out of focus
  focus,     \* what of the parent's seat is on the bridge's window
  frame,     \* s->frame
  cb,        \* the callbacks
  waiting,   \* queued_surface, by client
  fault,     \* the freed object an event was sent to or named
  broken     \* the rules that were broken so far

vars == <<conn, hooked, half, run, compositorGone, resources, fields, main,
          keyboards, pointers, inside, odd, focus, frame, cb, waiting, fault, broken>>
loopVars == <<half, run, compositorGone>>
connVars == <<conn, hooked, loopVars, fault>>
windowVars == <<resources, fields, main>>
seatVars == <<keyboards, pointers, inside, odd, focus>>
frameVars == <<frame, cb, waiting>>

ShellObjects == {"surface", "xdg", "toplevel"}
Fields == {"xdg", "toplevel", "ack"}

Init ==
  /\ conn = [c \in Clients |-> "away"] /\ hooked = None
  /\ half = "parent" /\ run = TRUE /\ compositorGone = FALSE
  /\ resources = [c \in Clients |-> {}] /\ fields = [c \in Clients |-> {}] /\ main = None
  /\ keyboards = {} /\ pointers = {} /\ inside = {} /\ odd = {} /\ focus = {}
  /\ frame = [c \in Clients |-> None] /\ cb = [k \in Callbacks |-> "new"] /\ waiting = None
  /\ fault = None /\ broken = {}

Guest(c) == c # Compositor
Gone(c) == conn[c] = "gone"

\* Client c is being served; an event of the parent is being dispatched.
Served(c) == half = "clients" /\ conn[c] = "on"
Dispatching == half = "parent"

\* A step that breaks these rules, where a client may.
When(cond, rule) == IF cond THEN {rule} ELSE {}
Breaks(rules) ==
  /\ rules \subseteq MayBreak
  /\ broken' = broken \cup rules
  /\ Cardinality(broken') <= MaxBroken

\* A freed object is used: nothing is known of what follows.
Use(what) ==
  /\ fault' = what
  /\ half' = "over"
  /\ UNCHANGED <<conn, hooked, run, compositorGone, windowVars, seatVars, frameVars, broken>>

-----------------------------------------------------------------------------
(* Connections                                                             *)

\* Mutant: the last client that binds is hooked.
HookLast(c) == c

\* bind_global hooks the first client that binds anything.
Hook(c) == IF hooked = None THEN c ELSE hooked

BindGlobal(c) ==
  /\ half = "clients" /\ conn[c] = "away"
  /\ Breaks(When(Guest(c) /\ hooked = None, "compositor_first"))
  /\ conn' = [conn EXCEPT ![c] = "on"]
  /\ hooked' = Hook(c)
  /\ UNCHANGED <<loopVars, fault, windowVars, seatVars, frameVars>>

\* Mutant: the loop is not told.
NobodyTold(c) ==
  /\ compositorGone' = (compositorGone \/ hooked = c)
  /\ UNCHANGED run

\* client_gone, for the client that is hooked.
ClientGone(c) ==
  /\ compositorGone' = (compositorGone \/ hooked = c)
  /\ run' = (run /\ hooked # c)

\* A client disconnects: its resources are freed, the bridge's pointers stay.
\* In the second half that is read from its socket; in the first a flush meets
\* it, at the start or after one of the events that flush.
ClientLeaves(c) ==
  /\ half # "over" /\ conn[c] \in {"on", "doomed"}
  /\ Breaks(When(Dispatching /\ ~Guest(c), "ends_in_time"))
  /\ conn' = [conn EXCEPT ![c] = "gone"]
  /\ ClientGone(c)
  /\ UNCHANGED <<hooked, half, fault, windowVars, seatVars, frameVars>>

-----------------------------------------------------------------------------
(* The loop                                                                *)

LoopTest == IF run THEN "parent" ELSE "over"

\* The parent's events are dispatched, or there were none.
ToClients ==
  /\ half = "parent" /\ half' = "clients"
  /\ UNCHANGED <<conn, hooked, run, compositorGone, fault, windowVars, seatVars, frameVars, broken>>

\* The clients are served: the loop tests G.run.
ToParent ==
  /\ half = "clients" /\ half' = LoopTest
  /\ UNCHANGED <<conn, hooked, run, compositorGone, fault, windowVars, seatVars, frameVars, broken>>

-----------------------------------------------------------------------------
(* The window                                                              *)

\* Making a window, or a change of devices.
BreaksCalm(c) ==
  Breaks(When(Guest(c), "guests_look_on") \cup When(focus # {}, "settles_first"))

\* comp_surface, for a client that has no surface.
CompSurface(c) ==
  /\ Served(c) /\ resources[c] = {}
  /\ resources' = [resources EXCEPT ![c] = {"surface"}]
  /\ UNCHANGED <<connVars, fields, main, seatVars, frameVars, broken>>

\* xdg_get_surface and xs_toplevel.
XdgGetSurface(c) ==
  /\ Served(c) /\ resources[c] = {"surface"}
  /\ resources' = [resources EXCEPT ![c] = @ \cup {"xdg"}]
  /\ fields' = [fields EXCEPT ![c] = @ \cup {"xdg"}]
  /\ UNCHANGED <<connVars, main, seatVars, frameVars, broken>>

XsToplevel(c) ==
  /\ Served(c) /\ resources[c] = {"surface", "xdg"}
  /\ BreaksCalm(c)
  /\ resources' = [resources EXCEPT ![c] = @ \cup {"toplevel"}]
  /\ fields' = [fields EXCEPT ![c] = @ \cup {"toplevel"}]
  /\ main' = c
  /\ UNCHANGED <<connVars, seatVars, frameVars>>

\* xs_ack
XsAck(c) ==
  /\ Served(c) /\ {"surface", "xdg"} \subseteq resources[c]
  /\ fields' = [fields EXCEPT ![c] = @ \cup {"ack"}]
  /\ UNCHANGED <<connVars, resources, main, seatVars, frameVars, broken>>

\* xs_ack and xs_toplevel write to the surface_state that surface_destroy freed.
ShellRequestFaults(c) ==
  /\ Served(c) /\ "xdg" \in resources[c] /\ "surface" \notin resources[c]
  /\ Use("window")

\* The resource is freed, and the surface_state still names it.
ShellDestroy(c, r) ==
  /\ Served(c) /\ r \in resources[c]
  /\ Breaks({"whole_window"})
  /\ resources' = [resources EXCEPT ![c] = @ \ {r}]
  /\ UNCHANGED <<connVars, fields, main, seatVars, frameVars>>

TopDestroy(c) == ShellDestroy(c, "toplevel")
XsDestroy(c) == ShellDestroy(c, "xdg")

\* Mutant: the window stays the main one.
MainStays(c) == main

MainWithout(c) == IF main = c THEN None ELSE main

\* surface_destroy: the surface_state is freed, with or after the shell objects
\* that refer to it.  A pointer leaves a surface that is gone.  The place in the
\* queue is given up first: FramePath has what happens otherwise.
SurfaceDestroy(c) ==
  /\ Served(c) /\ "surface" \in resources[c] /\ waiting # c
  /\ \E others \in SUBSET (resources[c] \ {"surface"}) :
       /\ resources' = [resources EXCEPT ![c] = others]
       /\ Breaks(When(others # {}, "whole_window") \cup When(focus # {}, "settles_first"))
  /\ fields' = [fields EXCEPT ![c] = {}]
  /\ main' = MainWithout(c)
  /\ inside' = IF main = c THEN inside \ {c} ELSE inside
  /\ frame' = [frame EXCEPT ![c] = None]
  /\ cb' = [k \in Callbacks |-> IF frame[c] = k THEN "new" ELSE cb[k]]
  /\ UNCHANGED <<connVars, keyboards, pointers, odd, focus, waiting>>

\* surface_state c names a toplevel, or any shell object, that is freed.
StaleToplevel(c) == Gone(c) \/ ("toplevel" \in fields[c] /\ "toplevel" \notin resources[c])
Stale(c) == StaleToplevel(c) \/ ("xdg" \in fields[c] /\ "xdg" \notin resources[c])

-----------------------------------------------------------------------------
(* Keyboards and pointers                                                  *)

\* seat_keyboard and seat_pointer; keyboard_release and pointer_release.
SeatKeyboard(c) ==
  /\ Served(c) /\ c \notin keyboards /\ BreaksCalm(c)
  /\ keyboards' = keyboards \cup {c}
  /\ UNCHANGED <<connVars, windowVars, pointers, inside, odd, focus, frameVars>>

SeatPointer(c) ==
  /\ Served(c) /\ c \notin pointers /\ BreaksCalm(c)
  /\ pointers' = pointers \cup {c}
  /\ inside' = inside \ {c}
  /\ UNCHANGED <<connVars, windowVars, keyboards, odd, focus, frameVars>>

KeyboardRelease(c) ==
  /\ Served(c) /\ c \in keyboards /\ BreaksCalm(c)
  /\ keyboards' = keyboards \ {c}
  /\ UNCHANGED <<connVars, windowVars, pointers, inside, odd, focus, frameVars>>

WithoutLink(c) == pointers \ {c}

PointerRelease(c) ==
  /\ Served(c) /\ c \in pointers /\ BreaksCalm(c)
  /\ pointers' = WithoutLink(c)
  /\ inside' = inside \ {c}
  /\ UNCHANGED <<connVars, windowVars, keyboards, odd, focus, frameVars>>

\* Enter and leave name main_surface to every device: libwayland drops the
\* clients whose object it is not.
Dropped(devices) ==
  [c \in Clients |-> IF main # None /\ c \in devices \ {main} THEN "doomed" ELSE conn[c]]

\* Every link leads to a resource, and so does main_surface where it is named.
Links(devices) == \A c \in devices : ~Gone(c)
StaleMain == main # None /\ (Gone(main) \/ "surface" \notin resources[main])
Sound(devices) == Links(devices) /\ (StaleMain => devices = {})

\* up_kenter, up_kleave
KeyboardFocus ==
  /\ Dispatching /\ Sound(keyboards)
  /\ focus' = IF "keyboard" \in focus THEN focus \ {"keyboard"} ELSE focus \cup {"keyboard"}
  /\ conn' = Dropped(keyboards)
  /\ UNCHANGED <<hooked, loopVars, fault, windowVars, keyboards, pointers, inside, odd, frameVars,
                 broken>>

\* up_pointer_enter
UpPointerEnter ==
  /\ Dispatching /\ "pointer" \notin focus /\ Sound(pointers)
  /\ Breaks(When(main = None, "settles_first"))
  /\ focus' = focus \cup {"pointer"}
  /\ inside' = IF main = None THEN inside ELSE inside \cup pointers
  /\ conn' = Dropped(pointers)
  /\ UNCHANGED <<hooked, loopVars, fault, windowVars, keyboards, pointers, odd, frameVars>>

\* Mutant: leave is not forwarded.
LeaveUnsent == inside

\* up_pointer_leave
Left == IF main = None THEN inside ELSE inside \ pointers

UpPointerLeave ==
  /\ Dispatching /\ "pointer" \in focus /\ Sound(pointers)
  /\ focus' = focus \ {"pointer"}
  /\ inside' = Left
  /\ conn' = Dropped(pointers)
  /\ UNCHANGED <<hooked, loopVars, fault, windowVars, keyboards, pointers, odd, frameVars, broken>>

\* Motion, button, axis and frame go to every pointer, entered or not.
UpPointerEvent ==
  /\ Dispatching /\ "pointer" \in focus /\ Links(pointers)
  /\ odd' = odd \cup (pointers \ inside)
  /\ UNCHANGED <<connVars, windowVars, keyboards, pointers, inside, focus, frameVars,
                 broken>>

\* Any event of the parent's seat, where a link leads to a freed resource or
\* an enter or leave names one.
KeyboardEventFaults ==
  /\ Dispatching /\ ~Links(keyboards)
  /\ Use("keyboard")

PointerEventFaults ==
  /\ Dispatching /\ ~Links(pointers)
  /\ Use("pointer")

EnterFaults ==
  /\ Dispatching /\ keyboards \cup pointers # {} /\ StaleMain
  /\ Use("window")

-----------------------------------------------------------------------------
(* Configure and close                                                     *)

\* top_close: the window's client is told, and this turn is the last.
TopClose ==
  /\ Dispatching
  /\ main # None => ~StaleToplevel(main)
  /\ run' = FALSE
  /\ UNCHANGED <<conn, hooked, half, compositorGone, fault, windowVars, seatVars, frameVars,
                 broken>>

\* xs_configure and top_close with a window whose objects are freed; the
\* configure that answers a first commit.
ConfigureFaults ==
  /\ Dispatching
  /\ main # None /\ "toplevel" \in fields[main] /\ Stale(main)
  /\ Use("window")

CommitFaults(c) ==
  /\ Served(c) /\ "surface" \in resources[c]
  /\ {"xdg", "toplevel"} \subseteq fields[c] /\ "ack" \notin fields[c] /\ Stale(c)
  /\ Use("window")

-----------------------------------------------------------------------------
(* Frames and their callbacks                                              *)

\* surface_frame: the callback takes the place of the one before.
SurfaceFrame(c) ==
  /\ Served(c) /\ "surface" \in resources[c]
  /\ Breaks(When(frame[c] # None, "awaits_frame"))
  /\ \E k \in Callbacks :
       /\ OwnerOf[k] = c /\ cb[k] \in {"new", "answered"}
       /\ frame' = [frame EXCEPT ![c] = k]
       /\ cb' = [cb EXCEPT ![k] = "asked"]
  /\ UNCHANGED <<connVars, windowVars, seatVars, waiting>>

\* Mutant: the callback goes with the frame and stays on the surface.
HandOverTwice(c) ==
  /\ cb' = [k \in Callbacks |-> IF frame[c] = k THEN "handed" ELSE cb[k]]
  /\ frame' = frame

\* The callback goes with the frame: surface->frame becomes the data of the
\* parent's callback.
HandOver(c) ==
  /\ cb' = [k \in Callbacks |-> IF frame[c] = k THEN "handed" ELSE cb[k]]
  /\ frame' = [frame EXCEPT ![c] = None]

CommitsFrame(c) == Served(c) /\ "surface" \in resources[c] /\ "toplevel" \in fields[c]

\* surface_commit of a window: the frame is shown, or it waits in the place of
\* the one that waited, whose buffer goes back to its client.
CommitShown(c) ==
  /\ CommitsFrame(c)
  /\ HandOver(c)
  /\ UNCHANGED <<connVars, windowVars, seatVars, waiting, broken>>

CommitWaits(c) ==
  /\ CommitsFrame(c)
  /\ waiting # None => ~Gone(waiting)
  /\ waiting' = c
  /\ UNCHANGED <<connVars, windowVars, seatVars, frame, cb, broken>>

\* surface_commit of any other surface with a buffer: its callback is answered
\* and destroyed.
CommitBare(c) ==
  /\ Served(c) /\ "surface" \in resources[c] /\ "toplevel" \notin fields[c]
  /\ frame[c] # None
  /\ cb' = [cb EXCEPT ![frame[c]] = "new"]
  /\ frame' = [frame EXCEPT ![c] = None]
  /\ UNCHANGED <<connVars, windowVars, seatVars, waiting, broken>>

\* pump_queue: the parent has released a slot and the waiting frame is shown.
PumpQueue ==
  /\ Dispatching /\ waiting # None /\ ~Gone(waiting)
  /\ HandOver(waiting)
  /\ waiting' = None
  /\ UNCHANGED <<connVars, windowVars, seatVars, broken>>

\* The waiting frame's buffer is released to a client that is gone, when the
\* frame is shown or superseded.
ReleaseFaults ==
  /\ waiting # None /\ Gone(waiting)
  /\ Dispatching \/ \E c \in Clients : CommitsFrame(c)
  /\ Use("buffer")

\* up_frame_done: the callback is answered, and its resource is not destroyed.
UpFrameDone(k) ==
  /\ Dispatching /\ cb[k] = "handed" /\ ~Gone(OwnerOf[k])
  /\ cb' = [cb EXCEPT ![k] = "answered"]
  /\ UNCHANGED <<connVars, windowVars, seatVars, frame, waiting, broken>>

DoneFaults(k) ==
  /\ Dispatching /\ cb[k] = "handed" /\ Gone(OwnerOf[k])
  /\ Use("callback")

-----------------------------------------------------------------------------
WindowRequest(c) ==
  CompSurface(c) \/ XdgGetSurface(c) \/ XsToplevel(c) \/ XsAck(c) \/ TopDestroy(c) \/ XsDestroy(c)
  \/ SurfaceDestroy(c) \/ ShellRequestFaults(c) \/ CommitFaults(c)

SeatRequest(c) == SeatKeyboard(c) \/ SeatPointer(c) \/ KeyboardRelease(c) \/ PointerRelease(c)

FrameRequest(c) == SurfaceFrame(c) \/ CommitShown(c) \/ CommitWaits(c) \/ CommitBare(c)

SeatEvent ==
  KeyboardFocus \/ UpPointerEnter \/ UpPointerLeave \/ UpPointerEvent
  \/ KeyboardEventFaults \/ PointerEventFaults \/ EnterFaults

FrameEvent == PumpQueue \/ ReleaseFaults \/ \E k \in Callbacks : UpFrameDone(k) \/ DoneFaults(k)

Next ==
  \/ \E c \in Clients :
       BindGlobal(c) \/ ClientLeaves(c) \/ WindowRequest(c) \/ SeatRequest(c) \/ FrameRequest(c)
  \/ ToClients \/ ToParent
  \/ SeatEvent
  \/ TopClose \/ ConfigureFaults
  \/ FrameEvent

Spec == Init /\ [][Next]_vars

-----------------------------------------------------------------------------
(* Properties                                                              *)

\* Every variable has its type, and main_surface is a surface with a toplevel:
\* it is not one that surface_destroy freed.
TypeOK ==
  /\ conn \in [Clients -> {"away", "on", "doomed", "gone"}]
  /\ hooked \in Clients \cup {None}
  /\ half \in {"parent", "clients", "over"} /\ run \in BOOLEAN /\ compositorGone \in BOOLEAN
  /\ resources \in [Clients -> SUBSET ShellObjects] /\ fields \in [Clients -> SUBSET Fields]
  /\ main \in Clients \cup {None} /\ waiting \in Clients \cup {None}
  /\ main # None => "toplevel" \in fields[main]
  /\ keyboards \subseteq Clients /\ pointers \subseteq Clients
  /\ inside \subseteq Clients /\ odd \subseteq Clients
  /\ focus \subseteq {"keyboard", "pointer"}
  /\ frame \in [Clients -> Callbacks \cup {None}]
  /\ cb \in [Callbacks -> {"new", "asked", "handed", "answered"}]
  /\ fault \in Freed \cup {None} /\ broken \subseteq Rules

\* One rule of these was broken.
Broke(rules) == broken \cap rules # {}

\* Another client than the compositor comes first or makes more than surfaces.
TwoClients == Broke({"compositor_first", "guests_look_on"})

\* With one compositor no event is sent to a freed object or names one, and
\* libwayland drops no client for an event that names another one's object,
\* in whatever order clients come and go and change what they have, and
\* although what is left of the turn in which the compositor ends is still
\* done.  Two things are needed to use a freed object: a surface destroyed
\* before or without its shell objects, or a flush to the compositor that fails
\* while the parent's events are being dispatched.
EventsSound ==
  /\ fault # None => \/ TwoClients
                     \/ fault = "window" /\ Broke({"whole_window"})
                     \/ Gone(Compositor) /\ Broke({"ends_in_time"})
  /\ \A c \in Clients : conn[c] = "doomed" => TwoClients

\* The bridge takes the compositor's end for what it is, and no other client's:
\* compositor_gone is set exactly when the compositor is gone, whatever else
\* connects and leaves, the loop does not run on, and the parent's events are
\* dispatched no more, unless that end was met between two of them.
CompositorEnds ==
  Broke({"compositor_first"}) \/
    /\ compositorGone <=> Gone(Compositor)
    /\ compositorGone => ~run
    /\ compositorGone /\ Dispatching => Broke({"ends_in_time"})

\* A callback that was asked for is on its surface until it is handed over or
\* answered, and no longer: none is forgotten before its surface is, and none is
\* handed over twice.
CallbackKept ==
  \A k \in Callbacks :
    (cb[k] = "asked" <=> frame[OwnerOf[k]] = k) \/ Broke({"awaits_frame"})

\* Out of the parent's focus no pointer believes it is inside, and none was
\* ever sent motion or a button that it could not attribute to a surface.
PointerPaired ==
  Broke({"settles_first"})
  \/ (odd = {} /\ ("pointer" \notin focus => inside = {}))

\* tests/suite.c:607: "diagnostic disconnect keeps the bridge".  A client that
\* looks on, as the suite's extra one does, costs the bridge nothing: no freed
\* object is used.
DisconnectKeeps == fault = None

\* tests/suite.c:647: "client disconnect stops bridge".  It stops, and uses no
\* freed object on the way.
DisconnectStops == compositorGone => fault = None

-----------------------------------------------------------------------------
(* The inductive invariant behind EventsSound, CompositorEnds, CallbackKept *)
(* and PointerPaired                                                       *)

\* A surface's callback is its client's; a surface_state has fields only while
\* its surface exists; who has a device has been here.
Shaped ==
  /\ \A c \in keyboards \cup pointers : conn[c] # "away"
  /\ \A c \in Clients : frame[c] # None => OwnerOf[frame[c]] = c
  /\ \A c \in Clients : fields[c] # {} => "surface" \in resources[c]

\* Nobody outlives a surface, unless a client leaves its shell objects behind.
Whole ==
  Broke({"whole_window"})
  \/ \A c \in Clients : /\ fields[c] \cap ShellObjects \subseteq resources[c]
                        /\ resources[c] # {} => "surface" \in resources[c]

\* The compositor is the one that is hooked.
Hooked ==
  Broke({"compositor_first"}) \/
    /\ hooked \in {None, Compositor}
    /\ hooked = Compositor <=> conn[Compositor] # "away"

\* Whatever the bridge keeps is the compositor's.
Alone ==
  TwoClients \/
    /\ keyboards \subseteq {Compositor} /\ pointers \subseteq {Compositor}
    /\ main \in {None, Compositor} /\ waiting \in {None, Compositor}
    /\ \A c \in Clients : "toplevel" \in fields[c] => c = Compositor
    /\ \A k \in Callbacks : cb[k] = "handed" => OwnerOf[k] = Compositor

\* Exactly in the parent's focus, which is on a window, is every pointer inside.
Inside ==
  Broke({"settles_first"}) \/
    /\ odd = {}
    /\ "pointer" \in focus => main # None /\ inside = pointers
    /\ "pointer" \notin focus => inside = {}

ClientInv ==
  /\ TypeOK /\ Shaped /\ Whole /\ Hooked /\ Alone /\ Inside
  /\ CallbackKept /\ CompositorEnds /\ EventsSound
=============================================================================
