--------------------------- MODULE ParentConnection ----------------------------
(***************************************************************************)
(* The bridge as a client of its parent compositor: the globals it binds   *)
(* and at which versions, the round trips of main, the seats and the input *)
(* devices it asks for, and the requests and events that follow, each with *)
(* the version it needs (ProtocolTables).                                  *)
(*                                                                         *)
(* What the events do to frames, keys and the session is in FramePath,     *)
(* SeatRelay and Lifecycle.                                                *)
(***************************************************************************)
EXTENDS ProtocolTables, SequencesExt

CONSTANTS Parents,  \* what parents there are: the version of each global, 0 for none
          Seats,    \* the parent's seats
          WorldMay, \* "caps_lost", "seat_removed": what may become of a seat the bridge uses
          MaxQueue  \* messages in flight, both ways, when a side sends of its own accord (a bound)

NoSeat == "no seat"
Devices == {"wl_pointer", "wl_keyboard"}
Needed == {"wl_compositor", "wl_shm", "xdg_wm_base"}
Globals == Needed \cup {"wl_seat"}
Windows == {"wl_surface", "xdg_surface", "xdg_toplevel"}
Objects == Globals \cup Devices \cup Windows \cup {"wl_registry", "wl_callback", "wl_buffer"}

ASSUME ParentAssumption ==
  /\ Parents \subseteq [Globals -> Nat]
  /\ IsFiniteSet(Seats) /\ NoSeat \notin Seats /\ Seats \cap Objects = {}
  /\ WorldMay \subseteq {"caps_lost", "seat_removed"} /\ MaxQueue \in Nat

VARIABLES
  phase,    \* main: "connect", "globals", "seats", "window", "running" or "failed"
  version,  \* the version of the bridge's objects, 0 for none
  seat,     \* G.seat
  device,   \* G.pointer, G.keyboard: the seat it was got from
  unheard,  \* the seats bound in the first round trip whose capabilities have not come
  offered,  \* the parent's globals
  caps,     \* the capabilities of the parent's seats that are there
  knows,    \* the bridge's objects the parent has and sends events for, its seats by name
  toBridge, \* events in flight
  toParent, \* requests in flight
  trouble   \* the requests the parent refuses and the events no function of the bridge takes

bridgeVars == <<phase, version, seat, device, unheard>>
parentVars == <<offered, caps, knows>>
vars == <<bridgeVars, parentVars, toBridge, toParent, trouble>>

-----------------------------------------------------------------------------
(* Versions                                                                *)

\* Mutant: the seat is bound at the version the bridge itself offers.
HighestSeatNine == [wl_compositor |-> 4, wl_shm |-> 1, wl_seat |-> 9, xdg_wm_base |-> 1]

\* Mutant: one version too low for damage_buffer.
HighestCompositorThree == [wl_compositor |-> 3, wl_shm |-> 1, wl_seat |-> 7, xdg_wm_base |-> 1]

\* registry_global binds no version above these.
Highest == [wl_compositor |-> 4, wl_shm |-> 1, wl_seat |-> 7, xdg_wm_base |-> 1]
BindVersion(g, v) == IF v < Highest[g] THEN v ELSE Highest[g]

\* The functions of the listener structs; an object without one drops its events.
PointerListener == {"enter", "leave", "motion", "button", "axis", "frame", "axis_source",
                    "axis_stop", "axis_discrete"}
KeyboardListener == {"keymap", "enter", "leave", "key", "modifiers", "repeat_info"}
SeatListener == {"capabilities", "name"}
ToplevelListener == {"configure", "close", "configure_bounds", "wm_capabilities"}
RegistryListener == {"global", "global_remove"}
Listeners ==
  [wl_registry |-> RegistryListener, wl_seat |-> SeatListener,
   wl_pointer |-> PointerListener, wl_keyboard |-> KeyboardListener,
   wl_callback |-> {"done"}, wl_buffer |-> {"release"}, xdg_wm_base |-> {"ping"},
   xdg_surface |-> {"configure"}, xdg_toplevel |-> ToplevelListener]
Takes(o, name) == o \notin DOMAIN Listeners \/ name \in Listeners[o]

\* The parent's messages, with the version each came with.
Messages(o) ==
  CASE o = "xdg_wm_base"  -> XdgWmBaseMessages
    [] o = "xdg_surface"  -> XdgSurfaceMessages
    [] o = "xdg_toplevel" -> XdgToplevelMessages
    [] o = "wl_shm"       -> [requests |-> First(<<"create_pool">>), events |-> First(<<"format">>)]
    [] o = "wl_registry"  -> [requests |-> <<>>, events |-> <<>>]
    [] OTHER              -> [requests |-> WlRequests[o], events |-> WlEvents[o]]

-----------------------------------------------------------------------------
(* Messages in flight                                                      *)

Event(o, name) == [object |-> o, name |-> name, seat |-> NoSeat, global |-> "", caps |-> {}]
GlobalEvent(g, s) == [Event("wl_registry", "global") EXCEPT !.global = g, !.seat = s]
CapsEvent(s, c) == [Event("wl_seat", "capabilities") EXCEPT !.seat = s, !.caps = c]
Done == Event("sync", "done")

Request(o, name) == [object |-> o, name |-> name, seat |-> NoSeat, makes |-> ""]
Make(o, name, new) == [Request(o, name) EXCEPT !.makes = new]
Bind(g, s) == [Request("wl_registry", "bind") EXCEPT !.makes = g, !.seat = s]
Get == [wl_pointer |-> "get_pointer", wl_keyboard |-> "get_keyboard"]
GetDevice(d, s) == [Make("wl_seat", Get[d], d) EXCEPT !.seat = s]
Sync == Request("wl_display", "sync")

Running == trouble = {} /\ phase # "failed"
Here == DOMAIN caps
InFlight == Len(toBridge) + Len(toParent)

-----------------------------------------------------------------------------
(* The bridge                                                              *)

Init ==
  /\ phase = "connect" /\ version = [o \in Objects |-> 0]
  /\ seat = NoSeat /\ device = [d \in Devices |-> NoSeat] /\ unheard = {}
  /\ offered \in Parents
  /\ \E seats \in SUBSET Seats :
       /\ offered["wl_seat"] = 0 => seats = {}
       /\ caps \in [seats -> SUBSET Devices]
  /\ knows = {} /\ toBridge = <<>> /\ toParent = <<>> /\ trouble = {}

Connect ==
  /\ phase = "connect"
  /\ phase' = "globals"
  /\ toParent' = <<Request("wl_display", "get_registry"), Sync>>
  /\ UNCHANGED <<version, seat, device, unheard, parentVars, toBridge, trouble>>

\* The next event is the one named; its function runs.
Hears(o, name) ==
  /\ Running /\ toBridge # <<>>
  /\ Head(toBridge).object = o /\ Head(toBridge).name = name
  /\ toBridge' = Tail(toBridge)
  /\ UNCHANGED <<parentVars, trouble>>
Asks(requests) == toParent' = toParent \o requests

\* registry_global: a global is bound, a later one of its kind in its place.
RegistryGlobal ==
  LET e == Head(toBridge)
      g == e.global
  IN /\ Hears("wl_registry", "global")
     /\ version' = [version EXCEPT ![g] = BindVersion(g, offered[g])]
     /\ Asks(<<Bind(g, e.seat)>>)
     /\ seat' = IF g = "wl_seat" THEN e.seat ELSE seat
     /\ unheard' = IF g = "wl_seat" /\ phase = "globals" THEN unheard \cup {e.seat} ELSE unheard
     /\ UNCHANGED <<phase, device>>

\* registry_remove
RegistryRemove ==
  /\ Hears("wl_registry", "global_remove")
  /\ UNCHANGED <<bridgeVars, toParent>>

\* Mutant: one device is asked for at a time.
NewDevicesOne(c) ==
  IF "wl_pointer" \in c /\ device["wl_pointer"] = NoSeat THEN {"wl_pointer"}
  ELSE IF "wl_keyboard" \in c /\ device["wl_keyboard"] = NoSeat THEN {"wl_keyboard"} ELSE {}

\* A device is asked for once.
NewDevices(c) == {d \in c : device[d] = NoSeat}

SeatCaps ==
  LET e == Head(toBridge)
      new == NewDevices(e.caps)
  IN /\ Hears("wl_seat", "capabilities")
     /\ device' = [d \in Devices |-> IF d \in new THEN e.seat ELSE device[d]]
     /\ version' = [o \in Objects |-> IF o \in new THEN version["wl_seat"] ELSE version[o]]
     /\ Asks(SetToSeq({GetDevice(d, e.seat) : d \in new}))
     /\ unheard' = unheard \ {e.seat}
     /\ UNCHANGED <<phase, seat>>

\* Mutant: main makes its window after one round trip.
AfterGlobalsAtOnce == "window"
AfterGlobals == "seats"

\* main makes its window on the globals it found.
MakeWindow ==
  /\ version' = [o \in Objects |-> CASE o = "wl_surface" -> version["wl_compositor"]
                                   [] o \in {"xdg_surface", "xdg_toplevel"} ->
                                        version["xdg_wm_base"]
                                   [] OTHER -> version[o]]
  /\ Asks(<<Make("wl_compositor", "create_surface", "wl_surface"),
            Make("xdg_wm_base", "get_xdg_surface", "xdg_surface"),
            Make("xdg_surface", "get_toplevel", "xdg_toplevel"),
            Request("xdg_toplevel", "set_title"), Request("xdg_toplevel", "set_app_id"),
            Request("xdg_toplevel", "set_fullscreen"), Request("wl_surface", "commit"), Sync>>)

\* A round trip of main ends.
RoundTrip ==
  /\ Hears("sync", "done")
  /\ phase' = CASE phase = "globals" -> AfterGlobals
                [] phase = "seats"   -> IF \E g \in Needed : version[g] = 0
                                        THEN "failed" ELSE "window"
                [] OTHER             -> "running"
  /\ CASE phase' = "seats"  -> Asks(<<Sync>>) /\ UNCHANGED version
       [] phase' = "window" -> MakeWindow
       [] OTHER             -> UNCHANGED <<version, toParent>>
  /\ UNCHANGED <<seat, device, unheard>>

\* xdg_ping and xs_configure answer at once.
Ping == Hears("xdg_wm_base", "ping") /\ Asks(<<Request("xdg_wm_base", "pong")>>)
        /\ UNCHANGED bridgeVars
Configured == Hears("xdg_surface", "configure")
              /\ Asks(<<Request("xdg_surface", "ack_configure")>>) /\ UNCHANGED bridgeVars

\* Any other event; libwayland ends a program that has no function for it.
OtherEvent ==
  LET e == Head(toBridge)
  IN /\ Running /\ toBridge # <<>>
     /\ <<e.object, e.name>> \notin
          {<<"wl_registry", "global">>, <<"wl_registry", "global_remove">>,
           <<"wl_seat", "capabilities">>, <<"sync", "done">>, <<"xdg_wm_base", "ping">>,
           <<"xdg_surface", "configure">>}
     /\ toBridge' = Tail(toBridge)
     /\ trouble' = IF Takes(e.object, e.name) THEN {} ELSE {<<"event", e.object, e.name>>}
     /\ UNCHANGED <<bridgeVars, parentVars, toParent>>

\* stage_buffer, with the pool of ensure_pool and the listener of arm_slots.
StageBuffer ==
  /\ Running /\ phase = "running" /\ InFlight < MaxQueue
  /\ version' = [version EXCEPT !["wl_buffer"] = version["wl_shm"],
                                !["wl_callback"] = version["wl_surface"]]
  /\ Asks(<<Make("wl_shm", "create_pool", "wl_buffer"), Request("wl_surface", "attach"),
            Request("wl_surface", "damage_buffer"),
            Make("wl_surface", "frame", "wl_callback"), Request("wl_surface", "commit")>>)
  /\ UNCHANGED <<phase, seat, device, unheard, parentVars, toBridge, trouble>>

\* pointer_set_cursor and the titles of the client's toplevel.
RelayRequest ==
  /\ Running /\ phase = "running" /\ InFlight < MaxQueue
  /\ \/ device["wl_pointer"] # NoSeat /\ Asks(<<Request("wl_pointer", "set_cursor")>>)
     \/ \E name \in {"set_title", "set_app_id"} : Asks(<<Request("xdg_toplevel", name)>>)
  /\ UNCHANGED <<bridgeVars, parentVars, toBridge, trouble>>

-----------------------------------------------------------------------------
(* The parent                                                              *)

\* The next request, and the events that answer it.
Handles(name) ==
  /\ Running /\ toParent # <<>> /\ Head(toParent).name = name
  /\ toParent' = Tail(toParent)
  /\ UNCHANGED <<bridgeVars, offered, caps>>
Tells(events) == toBridge' = toBridge \o events

Announces ==
  LET found == {GlobalEvent(g, NoSeat) : g \in {n \in Needed : offered[n] # 0}}
                 \cup {GlobalEvent("wl_seat", s) : s \in Here}
  IN /\ Handles("get_registry") /\ Tells(SetToSeq(found))
     /\ knows' = knows \cup {"wl_registry"} /\ UNCHANGED trouble
Answers == Handles("sync") /\ Tells(<<Done>>) /\ UNCHANGED <<knows, trouble>>

\* A seat that is bound tells its capabilities, and from version 2 its name; one
\* that has gone in the meantime is silent.
BindDone ==
  LET r == Head(toParent)
      s == r.seat
  IN /\ Handles("bind")
     /\ knows' = knows \cup {r.makes} \cup ({s} \cap Here)
     /\ Tells(IF s \notin Here THEN <<>>
              ELSE <<CapsEvent(s, caps[s])>> \o
                   (IF version["wl_seat"] >= 2 THEN <<Event("wl_seat", "name")>> ELSE <<>>))
     /\ UNCHANGED trouble

\* Any other request: refused when it is newer than the object, or makes one.
HandleRequest ==
  LET r == Head(toParent)
      rows == Messages(r.object).requests
  IN /\ toParent # <<>> /\ r.name \notin {"get_registry", "sync", "bind"} /\ Handles(r.name)
     /\ trouble' = IF \E k \in DOMAIN rows : rows[k].name = r.name
                                             /\ rows[k].since <= version[r.object]
                   THEN {} ELSE {<<"request", r.object, r.name>>}
     /\ knows' = IF r.makes \in {""} \cup Devices /\ (r.seat \in Here => r.makes \notin caps[r.seat])
                 THEN knows ELSE knows \cup {r.makes}
     /\ UNCHANGED toBridge

\* The parent sends an event of an object it knows, as new as the object.
ParentEvent ==
  /\ Running /\ InFlight < MaxQueue
  /\ \E o \in knows \cap Objects : \E k \in DOMAIN Messages(o).events :
       LET row == Messages(o).events[k]
       IN /\ row.since <= version[o] /\ row.name # "capabilities"
          /\ Tells(<<Event(o, row.name)>>)
          /\ knows' = knows \ (IF o = "wl_callback" THEN {o} ELSE {})
  /\ UNCHANGED <<bridgeVars, offered, caps, toParent, trouble>>

\* The bridge's devices that seat s no longer has.
Lost(s, c) == {d \in Devices : device[d] = s /\ d \notin c}

\* A seat gets and loses devices; one that lost a device is silent on it.
CapsChange(s) ==
  /\ Running /\ InFlight < MaxQueue /\ s \in Here
  /\ \E c \in SUBSET Devices :
       /\ c # caps[s] /\ (caps[s] \subseteq c \/ "caps_lost" \in WorldMay)
       /\ caps' = [caps EXCEPT ![s] = c]
       /\ knows' = knows \ Lost(s, c)
       /\ IF s \in knows THEN Tells(<<CapsEvent(s, c)>>) ELSE UNCHANGED toBridge
  /\ UNCHANGED <<bridgeVars, offered, toParent, trouble>>

\* A seat is plugged in, with a name that is not in use any more.
Named(q, s) == \E k \in DOMAIN q : q[k].seat = s
SeatAppears(s) ==
  /\ Running /\ InFlight < MaxQueue /\ s \notin Here \cup unheard
  /\ ~Named(toBridge, s) /\ ~Named(toParent, s)
  /\ offered["wl_seat"] # 0
  /\ \E c \in SUBSET Devices :
       caps' = [other \in Here \cup {s} |-> IF other = s THEN c ELSE caps[other]]
  /\ IF "wl_registry" \in knows THEN Tells(<<GlobalEvent("wl_seat", s)>>) ELSE UNCHANGED toBridge
  /\ UNCHANGED <<bridgeVars, offered, knows, toParent, trouble>>

\* A seat is unplugged, whether or not the bridge has heard of it.
Unused(s) == Lost(s, {}) = {} /\ \A k \in DOMAIN toBridge : toBridge[k].seat = s => toBridge[k].caps = {}
SeatRemoved(s) ==
  /\ Unused(s) \/ "seat_removed" \in WorldMay
  /\ Running /\ InFlight < MaxQueue /\ s \in Here
  /\ caps' = [other \in Here \ {s} |-> caps[other]]
  /\ knows' = knows \ (Lost(s, {}) \cup {s})
  /\ IF "wl_registry" \in knows THEN Tells(<<Event("wl_registry", "global_remove")>>)
     ELSE UNCHANGED toBridge
  /\ UNCHANGED <<bridgeVars, offered, toParent, trouble>>

-----------------------------------------------------------------------------
Next ==
  \/ Connect \/ RegistryGlobal \/ RegistryRemove \/ SeatCaps \/ RoundTrip
  \/ Ping \/ Configured \/ OtherEvent \/ StageBuffer \/ RelayRequest
  \/ Announces \/ Answers \/ BindDone \/ HandleRequest \/ ParentEvent
  \/ \E s \in Seats : CapsChange(s) \/ SeatAppears(s) \/ SeatRemoved(s)

Spec == Init /\ [][Next]_vars

-----------------------------------------------------------------------------
(* Properties                                                              *)

\* Every variable has its type.
TypeOK ==
  /\ phase \in {"connect", "globals", "seats", "window", "running", "failed"}
  /\ version \in [Objects -> Nat] /\ seat \in Seats \cup {NoSeat}
  /\ device \in [Devices -> Seats \cup {NoSeat}] /\ unheard \subseteq Seats
  /\ offered \in Parents /\ caps \in UNION {[S -> SUBSET Devices] : S \in SUBSET Seats}
  /\ knows \subseteq Objects \cup Seats

\* The bridge has a function for every event of every object at the version it
\* bound, whatever the parent offers.
EventsTaken == \A t \in trouble : t[1] = "request"

\* The parent refuses no request: it is as new as the object's version, but for
\* damage_buffer with a compositor older than 4.
RequestsTaken ==
  \A t \in trouble : t[1] = "request" => t[3] = "damage_buffer" /\ offered["wl_compositor"] < 4

\* Once the window is made, the bridge has heard the capabilities of every seat
\* there was when it connected and still is there.
SeatsHeard == phase \in {"window", "running"} => unheard \cap Here = {}

\* When nothing is in flight, the bridge listens to a pointer and a keyboard the
\* parent sends events for, if any of the parent's seats has one.
InputHeard ==
  Running /\ phase = "running" /\ toBridge = <<>> /\ toParent = <<>> =>
    \A d \in Devices : (\E s \in Here : d \in caps[s]) => d \in knows
=============================================================================
