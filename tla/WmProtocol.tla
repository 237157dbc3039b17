----------------------------- MODULE WmProtocol -----------------------------
(***************************************************************************)
(* Windows, their focus and stacking, and the external window managers     *)
(* that come and go: handlers/xdg_shell.rs, the built-in WM of             *)
(* wm/floating.rs, WmProtocolState of wm/protocol.rs and what its requests *)
(* reach back to (handlers/wm_protocol.rs).  All of it runs on the         *)
(* compositor's thread, one handler at a time; the interleavings are those *)
(* of its clients' requests.                                               *)
(*                                                                         *)
(* Left out: geometry, the workspace filter (Workspaces decides it; here a *)
(* frame may show any windows), and fields that nothing reads: the phase   *)
(* flags, z_index and binding_modes.  A configure is only seen when it is  *)
(* the first one acknowledged.                                             *)
(***************************************************************************)
EXTENDS RenderCommands, FiniteSets

CONSTANTS
  Wms, NoWm,      \* external window managers, each binding once
  NoWindow,
  Modes, NoMode,  \* names of binding modes; NoMode is the empty string
  MaxPending      \* bound: commands gathered between two frames

ASSUME WmAssumption ==
  /\ IsFiniteSet(Windows) /\ Windows = 1..Cardinality(Windows)
  /\ NoWm \notin Wms /\ NoWindow \notin Windows /\ NoMode \in Modes /\ MaxPending \in Nat

VARIABLES
  window_ids,       \* windows registered; their ids grow with their age
  next_window_id,
  sized,            \* windows that have acknowledged a size
  focus_stack,      \* the built-in WM's, focused window last
  stack,            \* the Space
  kb,               \* window with the seat's keyboard focus, maybe closed by now
  wm_client,        \* the WM in charge
  unbound, managers,\* WMs yet to bind; WMs whose manager object lives
  clients,          \* WMs connected, in charge or not
  handles,          \* window objects alive: <<WM, window>>
  window_objects,   \* WM whose object the compositor uses for a window
  pending,          \* pending_render_commands
  borders,          \* windows with a border
  wm_seat, keybindings, active_mode  \* keybindings: modes one chord is bound in

compositorVars == <<window_ids, next_window_id, sized, focus_stack, stack, kb>>
clientVars     == <<wm_client, unbound, managers, clients, handles, window_objects>>
seatVars       == <<wm_seat, keybindings, active_mode>>
wmVars         == <<compositorVars, clientVars, pending, borders, seatVars>>

NoObjects == [w \in Windows |-> NoWm]

is_wm_connected == wm_client # NoWm

(***************************************************************************)
(* Applications and the user.                                              *)
(***************************************************************************)

register_window(id) == window_ids' = window_ids \cup {id} /\ next_window_id' = id + 1

\* Vec::retain, every occurrence of w goes.
retain(focus, w) == FoldLeft(LAMBDA kept, v : IF v = w THEN kept ELSE Append(kept, v), <<>>, focus)

\* The built-in WM's book of windows.
on_new_toplevel(focus, id) == Append(focus, id)
on_close_toplevel(focus, w) == retain(focus, w)

\* A WM in charge gets an object for the window ...
notify_new_window(id) ==
  IF is_wm_connected
  THEN /\ handles' = handles \cup {<<wm_client, id>>}
       /\ window_objects' = [window_objects EXCEPT ![id] = wm_client]
  ELSE UNCHANGED <<handles, window_objects>>

\* ... and hears of its end; without one the entries stay.
notify_window_closed(w) ==
  IF is_wm_connected
  THEN window_objects' = [window_objects EXCEPT ![w] = NoWm] /\ borders' = borders \ {w}
  ELSE UNCHANGED <<window_objects, borders>>

\* The built-in WM places and focuses the window whoever is in charge; an
\* external WM hears of it afterwards.
new_toplevel ==
  LET id == next_window_id
  IN /\ id \in Windows
     /\ register_window(id)
     /\ focus_stack' = on_new_toplevel(focus_stack, id)
     /\ stack' = map_element(stack, id) /\ kb' = id
     /\ notify_new_window(id)
     /\ UNCHANGED <<sized, wm_client, unbound, managers, clients, pending, borders, seatVars>>

\* An application acknowledges its first configure.
AckConfigure(w) ==
  /\ w \in window_ids \ sized /\ sized' = sized \cup {w}
  /\ UNCHANGED <<window_ids, next_window_id, focus_stack, stack, kb, clientVars, pending, borders, seatVars>>

\* Mutant: the window is not taken off the Space.
DestroyedStays(w) ==
  /\ w \in window_ids
  /\ window_ids' = window_ids \ {w} /\ sized' = sized \ {w}
  /\ focus_stack' = on_close_toplevel(focus_stack, w)
  /\ notify_window_closed(w)
  /\ UNCHANGED <<next_window_id, stack, kb, wm_client, unbound, managers, clients, handles, pending, seatVars>>

\* The seat's focus is left alone: it may stay on a surface that is dead.
toplevel_destroyed(w) ==
  /\ w \in window_ids
  /\ window_ids' = window_ids \ {w} /\ sized' = sized \ {w}
  /\ focus_stack' = on_close_toplevel(focus_stack, w)
  /\ stack' = unmap_elem(stack, w)
  /\ notify_window_closed(w)
  /\ UNCHANGED <<next_window_id, kb, wm_client, unbound, managers, clients, handles, pending, seatVars>>

\* Mutant: the window is not removed from its old place.
RaiseAgain(focus, w) == Append(focus, w)

raise_to_top(focus, w) == Append(retain(focus, w), w)

on_pointer_focus(focus, w) == raise_to_top(focus, w)

\* A click on a window that is shown.
PointerPress(w) ==
  /\ Contains(stack, w)
  /\ focus_stack' = on_pointer_focus(focus_stack, w)
  /\ stack' = raise_element(stack, w) /\ kb' = w
  /\ UNCHANGED <<window_ids, next_window_id, sized, clientVars, pending, borders, seatVars>>

\* The focused window goes to the bottom of the focus stack.
focus_next(focus) == IF Len(focus) < 2 THEN focus
                     ELSE <<Last(focus)>> \o Front(focus)

\* Alt+Tab works under an external WM too, unless it has bound the chord.
AltTab ==
  /\ focus_stack # <<>>
  /\ focus_stack' = focus_next(focus_stack)
  /\ stack' = raise_element(stack, Last(focus_stack')) /\ kb' = Last(focus_stack')
  /\ UNCHANGED <<window_ids, next_window_id, sized, clientVars, pending, borders, seatVars>>

(***************************************************************************)
(* A frame.  With a WM in charge, start_render_phase empties the commands  *)
(* just before they are taken; the built-in WM places every window, oldest *)
(* first, with ZOrder::Preserve.                                           *)
(***************************************************************************)
by_age(ids) == SetToSortSeq(ids, <)

on_render == [i \in 1..Cardinality(window_ids) |-> Fresh(by_age(window_ids)[i])]

start_render_phase(commands) == <<>>

RenderFrame ==
  /\ pending' = IF is_wm_connected THEN <<>> ELSE pending
  /\ LET commands == IF is_wm_connected THEN start_render_phase(pending) ELSE on_render
     IN \E shown \in SUBSET window_ids :
          stack' = apply_render_commands(stack, commands, window_ids, shown)
  /\ UNCHANGED <<window_ids, next_window_id, sized, focus_stack, kb, clientVars, borders, seatVars>>

(***************************************************************************)
(* External window managers.                                               *)
(***************************************************************************)

\* Windows without an acknowledged size are not in the list a new WM gets.
existing_windows == window_ids \cap sized

\* The new WM gets an object for each of them; objects is what was in use.
send_full_window_list(m, objects) ==
  /\ handles' = handles \cup ({m} \X existing_windows)
  /\ window_objects' = [w \in Windows |-> IF w \in existing_windows THEN m ELSE objects[w]]

\* Mutant: the objects of the WM that is replaced stay in use.
BindOverOld(m) ==
  /\ m \in unbound
  /\ unbound' = unbound \ {m} /\ clients' = clients \cup {m} /\ managers' = managers \cup {m}
  /\ wm_client' = m
  /\ send_full_window_list(m, window_objects)
  /\ borders' = IF is_wm_connected THEN {} ELSE borders
  /\ UNCHANGED <<compositorVars, pending, seatVars>>

\* Replacing a WM drops its window objects and borders, but neither its
\* commands nor its bindings and seat.
bind(m) ==
  /\ m \in unbound
  /\ unbound' = unbound \ {m} /\ clients' = clients \cup {m} /\ managers' = managers \cup {m}
  /\ wm_client' = m
  /\ send_full_window_list(m, IF is_wm_connected THEN NoObjects ELSE window_objects)
  /\ borders' = IF is_wm_connected THEN {} ELSE borders
  /\ UNCHANGED <<compositorVars, pending, seatVars>>

\* The manager object goes, with the rest of its client's objects or alone;
\* only the one in charge takes the seat's state with it.
ManagerGone(m, gone) ==
  LET current == m \in managers /\ wm_client = m
  IN /\ managers' = managers \ {m}
     /\ wm_client' = IF current THEN NoWm ELSE wm_client
     /\ window_objects' = IF current THEN NoObjects
                          ELSE [w \in Windows |-> IF w \in gone THEN NoWm ELSE window_objects[w]]
     /\ borders' = IF current THEN {} ELSE borders \ gone
     /\ IF current THEN wm_seat' = NoWm /\ keybindings' = {} /\ active_mode' = NoMode
                   ELSE UNCHANGED seatVars

ManagerDestroyed(m) ==
  /\ m \in managers
  /\ ManagerGone(m, {})
  /\ UNCHANGED <<compositorVars, unbound, clients, handles, pending>>

\* A WM exits or crashes: every object it has is destroyed, and a window
\* object takes along the entries of its window, whose they may be.
Disconnect(m) ==
  /\ m \in clients
  /\ clients' = clients \ {m} /\ handles' = { h \in handles : h[1] # m }
  /\ ManagerGone(m, { w \in Windows : <<m, w>> \in handles })
  /\ UNCHANGED <<compositorVars, unbound, pending>>

WindowObjectDestroyed(m, w) ==
  /\ <<m, w>> \in handles /\ handles' = handles \ {<<m, w>>}
  /\ window_objects' = [window_objects EXCEPT ![w] = NoWm]
  /\ borders' = borders \ {w}
  /\ UNCHANGED <<compositorVars, wm_client, unbound, managers, clients, pending, seatVars>>

\* set_focus, through any window object that lives.
focus_window(m, w) ==
  /\ <<m, w>> \in handles /\ w \in window_ids
  /\ stack' = raise_element(stack, w) /\ kb' = w
  /\ UNCHANGED <<window_ids, next_window_id, sized, focus_stack, clientVars, pending, borders, seatVars>>

\* Placement requests.  A sibling is known by the object the compositor uses.
PlacementRequest(m, w) ==
  /\ <<m, w>> \in handles /\ Len(pending) < MaxPending
  /\ \/ pending' = SetPosition(pending, w)
     \/ \E z \in {Top, Bottom} : pending' = SetZ(pending, w, z)
     \/ \E s \in Windows : /\ window_objects[s] = m
                           /\ \E z \in {Above(s), Below(s)} : pending' = SetZ(pending, w, z)
     \/ \E v \in BOOLEAN : pending' = SetVisible(pending, w, v)
  /\ UNCHANGED <<compositorVars, clientVars, borders, seatVars>>

set_borders(m, w) ==
  /\ <<m, w>> \in handles
  /\ \E b \in {borders \cup {w}, borders \ {w}} : borders' = b
  /\ UNCHANGED <<compositorVars, clientVars, pending, seatVars>>

\* Any request on a seat object makes it the WM's seat if there is none;
\* destroying one drops the seat and all bindings, whose they may be.
SeatRequest(m) ==
  /\ m \in clients
  /\ \/ /\ wm_seat' = IF wm_seat = NoWm THEN m ELSE wm_seat
        /\ \/ /\ \E o \in Modes : \E k \in {keybindings \cup {o}, keybindings \ {o}} : keybindings' = k
              /\ UNCHANGED active_mode
           \/ active_mode' \in Modes /\ UNCHANGED keybindings
     \/ wm_seat' = NoWm /\ keybindings' = {} /\ UNCHANGED active_mode
  /\ UNCHANGED <<compositorVars, clientVars, pending, borders>>

WmInit ==
  /\ window_ids = {} /\ next_window_id = 1 /\ sized = {}
  /\ focus_stack = <<>> /\ stack = <<>> /\ kb = NoWindow
  /\ wm_client = NoWm /\ unbound = Wms /\ managers = {} /\ clients = {}
  /\ handles = {} /\ window_objects = NoObjects
  /\ pending = <<>> /\ borders = {}
  /\ wm_seat = NoWm /\ keybindings = {} /\ active_mode = NoMode

WmNext ==
  \/ new_toplevel \/ AltTab \/ RenderFrame
  \/ \E w \in Windows : AckConfigure(w) \/ toplevel_destroyed(w) \/ PointerPress(w)
  \/ \E m \in Wms : bind(m) \/ ManagerDestroyed(m) \/ Disconnect(m) \/ SeatRequest(m)
  \/ \E m \in Wms, w \in Windows :
       WindowObjectDestroyed(m, w) \/ focus_window(m, w) \/ PlacementRequest(m, w) \/ set_borders(m, w)

WmSpec == WmInit /\ [][WmNext]_wmVars

-----------------------------------------------------------------------------
\* The built-in WM's focus stack holds every registered window exactly once,
\* although windows come, are clicked, cycled and closed, also while an
\* external WM is in charge.
FocusStackExact == IsInjective(focus_stack) /\ ToSet(focus_stack) = window_ids

\* A window that is closed has left the Space for good, and none is on it
\* twice: neither clicks and Alt+Tab, nor a WM that still holds an object of a
\* window that is gone, nor the frames' placements put it there again.
NoGhosts == IsInjective(stack) /\ ToSet(stack) \subseteq window_ids

\* The objects the compositor sends events on belong to the WM in charge,
\* live, and stand for windows that exist: through replacements, crashes and
\* destructors in any order, no event goes to a WM that was replaced.  And a
\* border is drawn only while some WM holds an object of the window: no WM
\* leaves its borders behind when it goes.
ObjectsOfCurrent ==
  /\ \A w \in Windows : window_objects[w] # NoWm =>
       /\ window_objects[w] = wm_client
       /\ <<wm_client, w>> \in handles /\ w \in window_ids
  /\ \A w \in borders : \E m \in clients : <<m, w>> \in handles

(***************************************************************************)
(* What the repository says and the code does not do: TLC refutes each of  *)
(* these (README, Deviations).                                             *)
(***************************************************************************)

\* Commands that a frame takes off the queue are applied by it: "for this
\* frame, apply any commands accumulated from previous dispatches".
AccumulatedAreApplied ==
  [][(pending # <<>> /\ pending' = <<>>) =>
       \E shown \in SUBSET window_ids :
         stack' = apply_render_commands(stack, pending, window_ids, shown)]_wmVars

\* The seat that binding events go to is that of the WM in charge.
SeatOfTheWm == (is_wm_connected /\ wm_seat # NoWm) => wm_seat = wm_client

\* A WM that connects gets the full window list.
NewWmKnowsWindows ==
  [][(wm_client' # wm_client /\ wm_client' # NoWm) =>
       \A w \in window_ids : window_objects'[w] = wm_client']_wmVars

\* While a WM stays in charge and keeps its object of a window, the
\* compositor keeps using it: the WM that was replaced can go in peace.
HotSwapKeepsObjects ==
  [][\A w \in window_ids' :
       (/\ is_wm_connected /\ wm_client' = wm_client
        /\ window_objects[w] = wm_client /\ <<wm_client, w>> \in handles')
         => window_objects'[w] = wm_client]_wmVars

\* Without an external WM the window on top of the focus stack has the
\* keyboard focus.
FocusAgrees == (unbound = Wms /\ focus_stack # <<>>) => kb = Last(focus_stack)
=============================================================================
