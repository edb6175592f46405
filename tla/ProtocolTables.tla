---------------------------- MODULE ProtocolTables -----------------------------
(***************************************************************************)
(* The tables wayland-scanner generated for xdg-shell and linux-dmabuf,    *)
(* one definition for each table, macro list or group of stubs in gen/,    *)
(* and those of libwayland's own interfaces.                               *)
(*                                                                         *)
(* A request goes through four of them: the client's stub names a macro,   *)
(* the macro is the opcode, the bridge's libwayland finds the message and  *)
(* its since version by the opcode, and then calls the function that is at *)
(* the opcode's place in a struct.  An event goes the same way back.       *)
(* Nothing but the names says that the tables belong together.             *)
(***************************************************************************)
EXTENDS Naturals, Sequences

\* A message with its name and the version it came with.
Row(name, since) == [name |-> name, since |-> since]
First(names) == [i \in DOMAIN names |-> Row(names[i], 1)]

\* A macro list that says nothing of a name says 1.
SinceIn(list, name) == IF name \in DOMAIN list THEN list[name] ELSE 1
AllFirst == <<>>

-----------------------------------------------------------------------------
(* xdg_wm_base                                                             *)

XdgWmBaseMessages ==
  [requests |-> First(<<"destroy", "create_positioner", "get_xdg_surface", "pong">>),
   events   |-> First(<<"ping">>)]
XdgWmBaseHandlers == <<"destroy", "create_positioner", "get_xdg_surface", "pong">>
XdgWmBaseEventCodes == [ping |-> 0]
XdgWmBaseListener == <<"ping">>
XdgWmBaseOpcodes == [destroy |-> 0, create_positioner |-> 1, get_xdg_surface |-> 2, pong |-> 3]
XdgWmBaseSince == AllFirst
XdgWmBaseStubs ==
  [ends |-> {"destroy"},
   makes |-> [create_positioner |-> "xdg_positioner", get_xdg_surface |-> "xdg_surface"]]

(* xdg_positioner                                                          *)

XdgPositionerMessages ==
  [requests |-> First(<<"destroy", "set_size", "set_anchor_rect", "set_anchor", "set_gravity",
                        "set_constraint_adjustment", "set_offset">>)
                \o <<Row("set_reactive", 3), Row("set_parent_size", 3),
                     Row("set_parent_configure", 3)>>,
   events   |-> <<>>]
XdgPositionerHandlers ==
  <<"destroy", "set_size", "set_anchor_rect", "set_anchor", "set_gravity",
    "set_constraint_adjustment", "set_offset", "set_reactive", "set_parent_size",
    "set_parent_configure">>
XdgPositionerOpcodes ==
  [destroy |-> 0, set_size |-> 1, set_anchor_rect |-> 2, set_anchor |-> 3, set_gravity |-> 4,
   set_constraint_adjustment |-> 5, set_offset |-> 6, set_reactive |-> 7,
   set_parent_size |-> 8, set_parent_configure |-> 9]
XdgPositionerSince == [set_reactive |-> 3, set_parent_size |-> 3, set_parent_configure |-> 3]
XdgPositionerStubs == [ends |-> {"destroy"}, makes |-> <<>>]

(* xdg_surface                                                             *)

XdgSurfaceMessages ==
  [requests |-> First(<<"destroy", "get_toplevel", "get_popup", "set_window_geometry",
                        "ack_configure">>),
   events   |-> First(<<"configure">>)]
XdgSurfaceHandlers ==
  <<"destroy", "get_toplevel", "get_popup", "set_window_geometry", "ack_configure">>
XdgSurfaceEventCodes == [configure |-> 0]
XdgSurfaceListener == <<"configure">>
XdgSurfaceOpcodes ==
  [destroy |-> 0, get_toplevel |-> 1, get_popup |-> 2, set_window_geometry |-> 3,
   ack_configure |-> 4]
XdgSurfaceSince == AllFirst
XdgSurfaceStubs ==
  [ends |-> {"destroy"}, makes |-> [get_toplevel |-> "xdg_toplevel", get_popup |-> "xdg_popup"]]

(* xdg_toplevel                                                            *)

XdgToplevelMessages ==
  [requests |-> First(<<"destroy", "set_parent", "set_title", "set_app_id", "show_window_menu",
                        "move", "resize", "set_max_size", "set_min_size", "set_maximized",
                        "unset_maximized", "set_fullscreen", "unset_fullscreen",
                        "set_minimized">>),
   events   |-> <<Row("configure", 1), Row("close", 1), Row("configure_bounds", 4),
                  Row("wm_capabilities", 5)>>]
XdgToplevelHandlers ==
  <<"destroy", "set_parent", "set_title", "set_app_id", "show_window_menu", "move", "resize",
    "set_max_size", "set_min_size", "set_maximized", "unset_maximized", "set_fullscreen",
    "unset_fullscreen", "set_minimized">>
XdgToplevelEventCodes ==
  [configure |-> 0, close |-> 1, configure_bounds |-> 2, wm_capabilities |-> 3]
XdgToplevelListener == <<"configure", "close", "configure_bounds", "wm_capabilities">>

\* Mutant: two opcodes are swapped.
XdgToplevelOpcodesSwapped ==
  [destroy |-> 0, set_parent |-> 1, set_title |-> 2, set_app_id |-> 3, show_window_menu |-> 4,
   move |-> 6, resize |-> 5, set_max_size |-> 7, set_min_size |-> 8, set_maximized |-> 9,
   unset_maximized |-> 10, set_fullscreen |-> 11, unset_fullscreen |-> 12, set_minimized |-> 13]
XdgToplevelOpcodes ==
  [destroy |-> 0, set_parent |-> 1, set_title |-> 2, set_app_id |-> 3, show_window_menu |-> 4,
   move |-> 5, resize |-> 6, set_max_size |-> 7, set_min_size |-> 8, set_maximized |-> 9,
   unset_maximized |-> 10, set_fullscreen |-> 11, unset_fullscreen |-> 12, set_minimized |-> 13]
XdgToplevelSince == [configure_bounds |-> 4, wm_capabilities |-> 5]
XdgToplevelStubs == [ends |-> {"destroy"}, makes |-> <<>>]

(* xdg_popup                                                               *)

XdgPopupMessages ==
  [requests |-> <<Row("destroy", 1), Row("grab", 1), Row("reposition", 3)>>,
   events   |-> <<Row("configure", 1), Row("popup_done", 1), Row("repositioned", 3)>>]
XdgPopupHandlers == <<"destroy", "grab", "reposition">>
XdgPopupEventCodes == [configure |-> 0, popup_done |-> 1, repositioned |-> 2]
XdgPopupListener == <<"configure", "popup_done", "repositioned">>
XdgPopupOpcodes == [destroy |-> 0, grab |-> 1, reposition |-> 2]
XdgPopupSince == [repositioned |-> 3, reposition |-> 3]
XdgPopupStubs == [ends |-> {"destroy"}, makes |-> <<>>]

-----------------------------------------------------------------------------
(* zwp_linux_dmabuf_v1                                                     *)

DmabufMessages ==
  [requests |-> <<Row("destroy", 1), Row("create_params", 1), Row("get_default_feedback", 4),
                  Row("get_surface_feedback", 4)>>,
   events   |-> <<Row("format", 1), Row("modifier", 3)>>]
DmabufHandlers == <<"destroy", "create_params", "get_default_feedback", "get_surface_feedback">>
DmabufEventCodes == [format |-> 0, modifier |-> 1]
DmabufListener == <<"format", "modifier">>
DmabufOpcodes ==
  [destroy |-> 0, create_params |-> 1, get_default_feedback |-> 2, get_surface_feedback |-> 3]

\* Mutant: a request of version 4 is offered to any client.
DmabufSinceMissed == [modifier |-> 3, get_surface_feedback |-> 4]
DmabufSince == [modifier |-> 3, get_default_feedback |-> 4, get_surface_feedback |-> 4]
DmabufStubs ==
  [ends |-> {"destroy"},
   makes |-> [create_params |-> "params", get_default_feedback |-> "feedback",
              get_surface_feedback |-> "feedback"]]

(* zwp_linux_buffer_params_v1                                              *)

ParamsMessages ==
  [requests |-> <<Row("destroy", 1), Row("add", 1), Row("create", 1), Row("create_immed", 2),
                  Row("set_sampling_device", 6)>>,
   events   |-> First(<<"created", "failed">>)]
ParamsHandlers == <<"destroy", "add", "create", "create_immed", "set_sampling_device">>
ParamsEventCodes == [created |-> 0, failed |-> 1]
ParamsListener == <<"created", "failed">>
ParamsOpcodes ==
  [destroy |-> 0, add |-> 1, create |-> 2, create_immed |-> 3, set_sampling_device |-> 4]
ParamsSince == [create_immed |-> 2, set_sampling_device |-> 6]
ParamsStubs == [ends |-> {"destroy"}, makes |-> [create_immed |-> "wl_buffer"]]

(* zwp_linux_dmabuf_feedback_v1                                            *)

FeedbackMessages ==
  [requests |-> First(<<"destroy">>),
   events   |-> First(<<"done", "format_table", "main_device", "tranche_done",
                        "tranche_target_device", "tranche_formats", "tranche_flags">>)]
FeedbackHandlers == <<"destroy">>
FeedbackEventCodes ==
  [done |-> 0, format_table |-> 1, main_device |-> 2, tranche_done |-> 3,
   tranche_target_device |-> 4, tranche_formats |-> 5, tranche_flags |-> 6]
FeedbackListener ==
  <<"done", "format_table", "main_device", "tranche_done", "tranche_target_device",
    "tranche_formats", "tranche_flags">>
FeedbackOpcodes == [destroy |-> 0]
FeedbackSince == AllFirst
FeedbackStubs == [ends |-> {"destroy"}, makes |-> <<>>]

-----------------------------------------------------------------------------
(* libwayland's interfaces, the same tables at both ends                   *)

WlRequests ==
  [wl_compositor |-> First(<<"create_surface", "create_region">>),
   wl_surface    |-> First(<<"destroy", "attach", "damage", "frame", "set_opaque_region",
                             "set_input_region", "commit">>)
                     \o <<Row("set_buffer_transform", 2), Row("set_buffer_scale", 3),
                          Row("damage_buffer", 4), Row("offset", 5)>>,
   wl_region     |-> First(<<"destroy", "add", "subtract">>),
   wl_seat       |-> First(<<"get_pointer", "get_keyboard", "get_touch">>)
                     \o <<Row("release", 5)>>,
   wl_pointer    |-> <<Row("set_cursor", 1), Row("release", 3)>>,
   wl_keyboard   |-> <<Row("release", 3)>>,
   wl_touch      |-> <<Row("release", 3)>>,
   wl_callback   |-> <<>>,
   wl_buffer     |-> First(<<"destroy">>)]

WlEvents ==
  [wl_compositor |-> <<>>, wl_surface |-> First(<<"enter", "leave">>), wl_region |-> <<>>,
   wl_seat       |-> <<Row("capabilities", 1), Row("name", 2)>>,
   wl_pointer    |-> First(<<"enter", "leave", "motion", "button", "axis">>)
                     \o <<Row("frame", 5), Row("axis_source", 5), Row("axis_stop", 5),
                          Row("axis_discrete", 5), Row("axis_value120", 8)>>,
   wl_keyboard   |-> First(<<"keymap", "enter", "leave", "key", "modifiers">>)
                     \o <<Row("repeat_info", 4)>>,
   wl_touch      |-> <<>>,
   wl_callback   |-> First(<<"done">>),
   wl_buffer     |-> First(<<"release">>)]

WlStubs ==
  [i \in DOMAIN WlRequests |->
     [ends  |-> {"destroy", "release"},
      makes |-> CASE i = "wl_compositor" -> [create_surface |-> "wl_surface",
                                             create_region |-> "wl_region"]
                  [] i = "wl_surface"    -> [frame |-> "wl_callback"]
                  [] i = "wl_seat"       -> [get_pointer |-> "wl_pointer",
                                             get_keyboard |-> "wl_keyboard",
                                             get_touch |-> "wl_touch"]
                  [] OTHER               -> <<>>]]
=============================================================================
