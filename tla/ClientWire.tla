------------------------------ MODULE ClientWire -------------------------------
(***************************************************************************)
(* Requests and events on the wire between a client and the bridge: the    *)
(* versions of globals and of the objects made from them, the generated    *)
(* tables at both ends (ProtocolTables), the bridge's implementation       *)
(* structs, and messages in flight while objects come and go.              *)
(*                                                                         *)
(* There is one object of each interface at a time, made again only when   *)
(* both ends have forgotten the last one.  What a request does besides     *)
(* making and ending objects is in the other modules.                      *)
(***************************************************************************)
EXTENDS ProtocolTables, FiniteSets

CONSTANTS BindVersions, \* BindVersions[g]: what the client may bind global g at
          MaxGlobals,   \* globals bound in one behaviour (a bound)
          MaxObjects,   \* the client's objects at one time (a bound)
          MaxQueue      \* messages in flight when one more is sent (a bound)

VARIABLES
  proxy,    \* the client's objects: their version, 0 for none
  resource, \* the bridge's objects, likewise
  toBridge, \* requests in flight
  toClient, \* events in flight
  bound,    \* the globals the client has bound (a ghost, for MaxGlobals)
  heard,    \* heard[i]: the events the client has had of the batch that i's last event ends
  trouble   \* what went wrong, with which object of the client, of which version

vars == <<proxy, resource, toBridge, toClient, bound, heard, trouble>>

-----------------------------------------------------------------------------
(* The tables put together                                                 *)

Table(messages, handlers, codes, listener, opcodes, since, stubs) ==
  [messages |-> messages, handlers |-> handlers, codes |-> codes, listener |-> listener,
   opcodes |-> opcodes, since |-> since, stubs |-> stubs]

\* Function f, and g where f says nothing.
With(f, g) == [x \in DOMAIN f \cup DOMAIN g |-> IF x \in DOMAIN f THEN f[x] ELSE g[x]]

Names(rows) == [i \in DOMAIN rows |-> rows[i].name]
Numbers(rows) ==
  [n \in {rows[i].name : i \in DOMAIN rows} |-> (CHOOSE i \in DOMAIN rows : rows[i].name = n) - 1]
Sinces(rows) ==
  [n \in {rows[i].name : i \in DOMAIN rows} |->
     rows[CHOOSE i \in DOMAIN rows : rows[i].name = n].since]

WlTable(i) ==
  Table([requests |-> WlRequests[i], events |-> WlEvents[i]],
        Names(WlRequests[i]), Numbers(WlEvents[i]), Names(WlEvents[i]),
        Numbers(WlRequests[i]), With(Sinces(WlRequests[i]), Sinces(WlEvents[i])), WlStubs[i])

XdgTables ==
  [xdg_wm_base    |-> Table(XdgWmBaseMessages, XdgWmBaseHandlers, XdgWmBaseEventCodes,
                            XdgWmBaseListener, XdgWmBaseOpcodes, XdgWmBaseSince, XdgWmBaseStubs),
   xdg_positioner |-> Table(XdgPositionerMessages, XdgPositionerHandlers, <<>>,
                            <<>>, XdgPositionerOpcodes, XdgPositionerSince, XdgPositionerStubs),
   xdg_surface    |-> Table(XdgSurfaceMessages, XdgSurfaceHandlers, XdgSurfaceEventCodes,
                            XdgSurfaceListener, XdgSurfaceOpcodes, XdgSurfaceSince,
                            XdgSurfaceStubs),
   xdg_toplevel   |-> Table(XdgToplevelMessages, XdgToplevelHandlers, XdgToplevelEventCodes,
                            XdgToplevelListener, XdgToplevelOpcodes, XdgToplevelSince,
                            XdgToplevelStubs),
   xdg_popup      |-> Table(XdgPopupMessages, XdgPopupHandlers, XdgPopupEventCodes,
                            XdgPopupListener, XdgPopupOpcodes, XdgPopupSince, XdgPopupStubs),
   dmabuf         |-> Table(DmabufMessages, DmabufHandlers, DmabufEventCodes,
                            DmabufListener, DmabufOpcodes, DmabufSince, DmabufStubs),
   params         |-> Table(ParamsMessages, ParamsHandlers, ParamsEventCodes,
                            ParamsListener, ParamsOpcodes, ParamsSince, ParamsStubs),
   feedback       |-> Table(FeedbackMessages, FeedbackHandlers, FeedbackEventCodes,
                            FeedbackListener, FeedbackOpcodes, FeedbackSince, FeedbackStubs)]

Tables == With([i \in DOMAIN WlRequests |-> WlTable(i)], XdgTables)
Interfaces == DOMAIN Tables

-----------------------------------------------------------------------------
(* The bridge's implementation structs: what each function does to objects *)

\* A handler ends its resource, or makes one of a version (0: the version of
\* its own resource) and sends it events, or neither; one posts a protocol error
\* whatever it is sent.  (Those that do so for some arguments or in some states
\* are the other modules'.)
Does(ends, makes, version, tells) ==
  [ends |-> ends, makes |-> makes, version |-> version, tells |-> tells, rejects |-> FALSE]
Nothing == Does(FALSE, "", 0, <<>>)
Rejects == [Nothing EXCEPT !.rejects = TRUE]
Destroys == Does(TRUE, "", 0, <<>>)
Makes(i, version, tells) == Does(FALSE, i, version, tells)
Idle(names) == [n \in names |-> Nothing]
NoImplementation == <<>>

SurfaceImpl ==
  With([destroy |-> Destroys, frame |-> Makes("wl_callback", 1, <<>>)],
       Idle({"attach", "damage", "set_opaque_region", "set_input_region", "commit",
             "set_buffer_transform", "set_buffer_scale", "damage_buffer", "offset"}))
RegionImpl == With([destroy |-> Destroys], Idle({"add", "subtract"}))
CompImpl ==
  [create_surface |-> Makes("wl_surface", 0, <<>>), create_region |-> Makes("wl_region", 1, <<>>)]
PointerImpl == With([release |-> Destroys], Idle({"set_cursor"}))
KeyboardImpl == [release |-> Destroys]

\* Mutant: a released seat stays.
SeatImplKeeps ==
  [get_pointer  |-> Makes("wl_pointer", 9, <<>>),
   get_keyboard |-> Makes("wl_keyboard", 9, <<"keymap", "repeat_info">>),
   get_touch    |-> Makes("wl_touch", 1, <<>>),
   release      |-> Nothing]

\* A keyboard is told the keymap the parent has sent before.
SeatImpl ==
  [get_pointer  |-> Makes("wl_pointer", 9, <<>>),
   get_keyboard |-> Makes("wl_keyboard", 9, <<"keymap", "repeat_info">>),
   get_touch    |-> Makes("wl_touch", 1, <<>>),
   release      |-> Destroys]
BufferImpl == [destroy |-> Destroys]
ParamsImpl ==
  With([destroy |-> Destroys, create_immed |-> Makes("wl_buffer", 1, <<>>), create |-> Rejects],
       Idle({"add", "set_sampling_device"}))

\* send_feedback
FeedbackBatch ==
  <<"format_table", "main_device", "tranche_target_device", "tranche_flags", "tranche_formats",
    "tranche_done", "done">>
FeedbackImpl == [destroy |-> Destroys]
DmabufImpl ==
  [destroy |-> Destroys, create_params |-> Makes("params", 4, <<>>),
   get_default_feedback |-> Makes("feedback", 4, FeedbackBatch),
   get_surface_feedback |-> Makes("feedback", 4, FeedbackBatch)]
ToplevelImpl ==
  With([destroy |-> Destroys],
       Idle({"set_parent", "set_title", "set_app_id", "show_window_menu", "move", "resize",
             "set_max_size", "set_min_size", "set_maximized", "unset_maximized", "set_fullscreen",
             "unset_fullscreen", "set_minimized"}))
XsImpl ==
  With([destroy |-> Destroys, get_toplevel |-> Makes("xdg_toplevel", 0, <<>>),
        get_popup |-> Makes("xdg_popup", 1, <<>>)],
       Idle({"set_window_geometry", "ack_configure"}))
PosImpl ==
  With([destroy |-> Destroys],
       Idle({"set_size", "set_anchor_rect", "set_anchor", "set_gravity",
             "set_constraint_adjustment", "set_offset", "set_reactive", "set_parent_size",
             "set_parent_configure"}))
XdgBaseImpl ==
  With([destroy |-> Destroys, create_positioner |-> Makes("xdg_positioner", 0, <<>>),
        get_xdg_surface |-> Makes("xdg_surface", 0, <<>>)], Idle({"pong"}))

\* Popups, touch devices and callbacks have no implementation.
Impl ==
  [wl_compositor |-> CompImpl, wl_surface |-> SurfaceImpl, wl_region |-> RegionImpl,
   wl_seat |-> SeatImpl, wl_pointer |-> PointerImpl, wl_keyboard |-> KeyboardImpl,
   wl_touch |-> NoImplementation, wl_callback |-> NoImplementation, wl_buffer |-> BufferImpl,
   xdg_wm_base |-> XdgBaseImpl, xdg_positioner |-> PosImpl, xdg_surface |-> XsImpl,
   xdg_toplevel |-> ToplevelImpl, xdg_popup |-> NoImplementation,
   dmabuf |-> DmabufImpl, params |-> ParamsImpl, feedback |-> FeedbackImpl]

\* The globals of main, with the version each is offered at.
Advertised == [wl_compositor |-> 6, wl_seat |-> 9, xdg_wm_base |-> 6, dmabuf |-> 4]

\* libwayland refuses to bind another global, and version 0.
ASSUME BindAssumption ==
  /\ DOMAIN BindVersions \subseteq DOMAIN Advertised
  /\ \A g \in DOMAIN BindVersions : BindVersions[g] \subseteq Nat \ {0}
  /\ MaxGlobals \in Nat /\ MaxObjects \in Nat /\ MaxQueue \in Nat

-----------------------------------------------------------------------------
(* The client                                                              *)

\* The batches of events that belong together: the event that ends one, and
\* the batch the events of an object belong to.
BatchEnd == [feedback |-> "done", xdg_surface |-> "configure"]
BatchOf == [feedback |-> "feedback", xdg_surface |-> "xdg_surface", xdg_toplevel |-> "xdg_surface"]

Init ==
  /\ proxy = [i \in Interfaces |-> 0] /\ resource = [i \in Interfaces |-> 0]
  /\ toBridge = <<>> /\ toClient = <<>>
  /\ bound = {} /\ heard = [i \in DOMAIN BatchEnd |-> {}] /\ trouble = {}

Running == trouble = {}
Entries(queue) == {queue[k] : k \in DOMAIN queue}

\* The client's objects.
Alive == {i \in Interfaces : proxy[i] # 0}

\* Both ends have forgotten the last object of interface i, and its batch.
Unused(i) ==
  /\ proxy[i] = 0 /\ resource[i] = 0
  /\ \A m \in Entries(toBridge) : m.object # i /\ m.new # i
  /\ \A e \in Entries(toClient) : e.object # i
  /\ i = "xdg_toplevel" => \A e \in Entries(toClient) : e.object # "xdg_surface"

\* An event for the object of interface i; the code is the sender's macro.
Event(i, name) == [object |-> i, code |-> Tables[i].codes[name], name |-> name]
Events(i, names) == [k \in DOMAIN names |-> Event(i, names[k])]

\* The client binds a global; bind_global makes the resource, and nothing on
\* the wire can come between.
BindGlobal(g, version) ==
  /\ Running /\ Unused(g) /\ version <= Advertised[g] /\ Len(toClient) < MaxQueue
  /\ Cardinality(bound \cup {g}) <= MaxGlobals
  /\ bound' = bound \cup {g}
  /\ proxy' = [proxy EXCEPT ![g] = version]
  /\ resource' = [resource EXCEPT ![g] = version]
  /\ toClient' = IF g = "wl_seat" THEN Append(toClient, Event(g, "capabilities")) ELSE toClient
  /\ UNCHANGED <<toBridge, heard, trouble>>

\* The object a stub makes: none, or of an interface.
Makers(stubs) == DOMAIN stubs.makes
NewOf(stubs, name) == IF name \in Makers(stubs) THEN stubs.makes[name] ELSE ""

\* The client calls the stub of a request its object's version has.  A new
\* proxy has the version of the one it is made from; a destructor ends it.
CallStub(i, name) ==
  LET stubs == Tables[i].stubs
      new == NewOf(stubs, name)
  IN /\ Running /\ proxy[i] # 0 /\ Len(toBridge) < MaxQueue
     /\ SinceIn(Tables[i].since, name) <= proxy[i]
     /\ new # "" => Unused(new) /\ Cardinality(Alive) < MaxObjects
     /\ toBridge' = Append(toBridge, [object |-> i, opcode |-> Tables[i].opcodes[name],
                                      new |-> new, name |-> name])
     /\ proxy' = [j \in Interfaces |-> IF j = new THEN proxy[i]
                                       ELSE IF j = i /\ name \in stubs.ends THEN 0
                                       ELSE proxy[j]]
     /\ heard' = [b \in DOMAIN heard |->
                    IF b = i /\ name \in stubs.ends THEN {} ELSE heard[b]]
     /\ UNCHANGED <<resource, toClient, bound, trouble>>

Trouble(what, i, version) == [what |-> what, object |-> i, version |-> version]

\* What the client has when a batch ends: the whole tranche before it is done
\* and the table, and the size with a configure.
Complete(e) ==
  CASE e.object = "feedback" /\ e.name = "tranche_done" ->
         {"tranche_target_device", "tranche_flags", "tranche_formats"} \subseteq heard[e.object]
    [] e.object = "feedback" /\ e.name = "done" ->
         {"format_table", "main_device", "tranche_done"} \subseteq heard[e.object]
    [] e.object = "xdg_surface" /\ proxy["xdg_toplevel"] # 0 ->
         /\ "configure" \in heard[e.object]
         /\ proxy["xdg_toplevel"] >= 5 => "wm_capabilities" \in heard[e.object]
    [] OTHER -> TRUE

\* The client's libwayland calls the listener's function at the event's code;
\* an event for an object that is gone is dropped.
DispatchEvent ==
  LET e == Head(toClient)
      i == e.object
      ran == Tables[i].listener[e.code + 1]
  IN /\ Running /\ toClient # <<>>
     /\ toClient' = Tail(toClient)
     /\ IF proxy[i] = 0 THEN UNCHANGED <<heard, trouble, proxy>>
        ELSE /\ trouble' = CASE ran # e.name -> {Trouble("misrouted", i, proxy[i])}
                             [] SinceIn(Tables[i].since, ran) > proxy[i] ->
                                  {Trouble("unknown", i, proxy[i])}
                             [] ~Complete(e) -> {Trouble("incomplete", i, proxy[i])}
                             [] OTHER -> {}
             /\ heard' = [b \in DOMAIN heard |->
                            IF i \notin DOMAIN BatchOf \/ BatchOf[i] # b THEN heard[b]
                            ELSE IF i = b /\ e.name = BatchEnd[b] THEN {}
                            ELSE heard[b] \cup {e.name}]
             /\ proxy' = IF i = "wl_callback" THEN [proxy EXCEPT ![i] = 0] ELSE proxy
     /\ UNCHANGED <<resource, toBridge, bound>>

-----------------------------------------------------------------------------
(* The bridge                                                              *)

\* libwayland refuses an opcode the interface does not have and a request that
\* is newer than the resource.
Accepts(i, opcode) ==
  /\ opcode < Len(Tables[i].messages.requests)
  /\ Tables[i].messages.requests[opcode + 1].since <= resource[i]

\* The function of the implementation struct that libwayland calls.
Field(i, opcode) == Tables[i].handlers[opcode + 1]

\* A handler makes or ends its objects and sends what it sends.
Handle(i, effect) ==
  /\ resource' = [j \in Interfaces |->
                    IF j = effect.makes
                    THEN IF effect.version = 0 THEN resource[i] ELSE effect.version
                    ELSE IF j = i /\ effect.ends THEN 0
                    ELSE resource[j]]
  /\ toClient' = toClient \o (IF effect.makes = "" THEN <<>>
                              ELSE Events(effect.makes, effect.tells))

DispatchRequest ==
  LET r == Head(toBridge)
      i == r.object
  IN /\ Running /\ toBridge # <<>> /\ Len(toClient) < MaxQueue
     /\ toBridge' = Tail(toBridge)
     /\ trouble' =
          CASE ~Accepts(i, r.opcode) -> {Trouble("refused", i, proxy[i])}
            [] Accepts(i, r.opcode) /\ Impl[i] = NoImplementation ->
                 {Trouble("no implementation", i, proxy[i])}
            [] OTHER -> IF Field(i, r.opcode) # r.name THEN {Trouble("misrouted", i, proxy[i])}
                        ELSE IF Impl[i][r.name].rejects THEN {Trouble("rejected", i, proxy[i])}
                        ELSE {}
     /\ IF trouble' = {} THEN Handle(i, Impl[i][Field(i, r.opcode)])
        ELSE UNCHANGED <<resource, toClient>>
     /\ UNCHANGED <<proxy, bound, heard>>

\* The bridge sends an event of its own accord, or of its parent's.
Sends(i, names) ==
  /\ Running /\ resource[i] # 0 /\ Len(toClient) < MaxQueue
  /\ toClient' = toClient \o Events(i, names)
  /\ UNCHANGED <<proxy, toBridge, bound, heard, trouble>>

\* forward_key, forward_mods, up_kenter, up_kleave, up_repeat
KeyboardEvent ==
  \E name \in {"enter", "leave", "key", "modifiers", "repeat_info"} :
    Sends("wl_keyboard", <<name>>) /\ UNCHANGED resource

\* up_pointer_*: axis_value120 for pointers of version 8, which all are.
PointerEvent ==
  \E name \in {"enter", "leave", "motion", "button", "axis", "frame", "axis_source", "axis_stop",
               "axis_value120"} :
    /\ name = "axis_value120" => resource["wl_pointer"] >= 8
    /\ Sends("wl_pointer", <<name>>) /\ UNCHANGED resource

\* Mutant: the capabilities go to toplevels of any version.
ConfigureAlways == <<"wm_capabilities", "configure">>
ConfigureEvents ==
  IF resource["xdg_toplevel"] >= 5 THEN <<"wm_capabilities", "configure">> ELSE <<"configure">>

\* emit_configure, of a window with both shell objects.
EmitConfigure ==
  /\ Running /\ resource["xdg_surface"] # 0 /\ resource["xdg_toplevel"] # 0
  /\ Len(toClient) < MaxQueue
  /\ toClient' = toClient \o Events("xdg_toplevel", ConfigureEvents)
                         \o Events("xdg_surface", <<"configure">>)
  /\ UNCHANGED <<proxy, resource, toBridge, bound, heard, trouble>>

\* top_close; release_client
TopClose == Sends("xdg_toplevel", <<"close">>) /\ UNCHANGED resource
BufferRelease == Sends("wl_buffer", <<"release">>) /\ UNCHANGED resource

\* A callback is answered: surface_commit destroys it, up_frame_done does not.
CallbackDone ==
  /\ proxy["wl_callback"] # 0 /\ Sends("wl_callback", <<"done">>)
  /\ \A e \in Entries(toClient) : e.object # "wl_callback"
  /\ resource' = [resource EXCEPT !["wl_callback"] = 0] \/ UNCHANGED resource

-----------------------------------------------------------------------------
Next ==
  \/ \E g \in DOMAIN BindVersions : \E v \in BindVersions[g] : BindGlobal(g, v)
  \/ \E i \in Interfaces : \E name \in DOMAIN Tables[i].opcodes : CallStub(i, name)
  \/ DispatchEvent \/ DispatchRequest
  \/ KeyboardEvent \/ PointerEvent \/ EmitConfigure \/ TopClose \/ BufferRelease \/ CallbackDone

Spec == Init /\ [][Next]_vars

-----------------------------------------------------------------------------
(* Properties                                                              *)

\* Every variable has its type.
TypeOK ==
  /\ proxy \in [Interfaces -> 0..9] /\ resource \in [Interfaces -> 0..9]
  /\ Len(toBridge) <= MaxQueue /\ Len(toClient) < MaxQueue + 7
  /\ bound \subseteq DOMAIN Advertised
  /\ \A t \in trouble : t.object \in Interfaces /\ t.version \in 0..9

Is(what) == {t \in trouble : t.what = what}

\* The tables belong together: a request runs the function of its own name, an
\* event the listener's function of its own name.
Routed == Is("misrouted") = {}

\* What a client's version allows it to ask for is accepted and has a handler,
\* but for popups and touch devices; of all handlers only create of a dma-buf's
\* params turns down every client.
Allowed ==
  /\ \A t \in Is("refused") \cup Is("no implementation") : t.object \in {"xdg_popup", "wl_touch"}
  /\ \A t \in Is("rejected") : t.object = "params"

\* No client is sent an event that is newer than its object, but for input
\* devices of a seat bound below version 8; and done, tranche_done and the
\* surface's configure come when what they conclude has come.
EventsUnderstood ==
  /\ \A t \in Is("unknown") : t.object \in {"wl_pointer", "wl_keyboard"} /\ t.version < 8
  /\ Is("incomplete") = {}

\* When nothing is in flight both ends have the same objects: none is lost or
\* left behind, but for callbacks that the parent's frames answered.
ObjectsAgree ==
  Running /\ toBridge = <<>> /\ toClient = <<>> =>
    \A i \in Interfaces \ {"wl_callback"} : proxy[i] = 0 <=> resource[i] = 0
=============================================================================
