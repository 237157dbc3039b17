--------------------------- MODULE RenderCommands ---------------------------
(***************************************************************************)
(* The render commands of a window manager: how a WM's placement requests  *)
(* are gathered (wm/protocol.rs, Dispatch for wayray_wm_window_v1), how    *)
(* their z-order directives reorder a stack (wm/types.rs, restack) and how *)
(* a batch of them is applied to the Space (state.rs,                      *)
(* apply_render_commands; the Space is the vendored smithay's).            *)
(*                                                                         *)
(* A stack is a sequence of windows, bottom first.  Where on the screen a  *)
(* command puts its window is left out.  The operators take the state they *)
(* change as arguments: RenderBatch exercises them by themselves, and      *)
(* WmProtocol inside the compositor.                                       *)
(***************************************************************************)
EXTENDS Integers, Sequences, SequencesExt

CONSTANT Windows   \* WindowIds

Preserve   == [kind |-> "preserve"]
Top        == [kind |-> "top"]
Bottom     == [kind |-> "bottom"]
Above(sib) == [kind |-> "above", sibling |-> sib]
Below(sib) == [kind |-> "below", sibling |-> sib]
ZOrder     == {Preserve, Top, Bottom} \cup [kind : {"above", "below"}, sibling : Windows]

RenderCommand == [id : Windows, z_order : ZOrder, visible : BOOLEAN]

\* A request that no earlier command of the window can carry makes a command
\* of its own, with these values for the rest.
Fresh(w) == [id |-> w, z_order |-> Preserve, visible |-> TRUE]

(***************************************************************************)
(* Gathering.  set_position always adds a command; the others change the   *)
(* first command of the window, if it has one.                             *)
(***************************************************************************)
CommandsOf(pending, w) == { i \in DOMAIN pending : pending[i].id = w }

FirstOf(I) == CHOOSE i \in I : \A j \in I : i <= j
LastOf(I)  == CHOOSE i \in I : \A j \in I : j <= i

SetPosition(pending, w) == Append(pending, Fresh(w))

SetZ(pending, w, z) ==
  IF CommandsOf(pending, w) # {}
  THEN [pending EXCEPT ![FirstOf(CommandsOf(pending, w))].z_order = z]
  ELSE Append(pending, [Fresh(w) EXCEPT !.z_order = z])

SetVisible(pending, w, v) ==
  IF CommandsOf(pending, w) # {}
  THEN [pending EXCEPT ![FirstOf(CommandsOf(pending, w))].visible = v]
  ELSE Append(pending, [Fresh(w) EXCEPT !.visible = v])

(***************************************************************************)
(* The Space of smithay: mapping a window, mapped or not, puts it on top.  *)
(***************************************************************************)
index_of(stack, w) == FirstOf({ i \in DOMAIN stack : stack[i] = w })

Without(stack, w) == IF Contains(stack, w) THEN RemoveAt(stack, index_of(stack, w)) ELSE stack

map_element(stack, w)   == Append(Without(stack, w), w)
raise_element(stack, w) == IF Contains(stack, w) THEN map_element(stack, w) ELSE stack
unmap_elem(stack, w)    == Without(stack, w)

(***************************************************************************)
(* Reordering.                                                             *)
(***************************************************************************)

\* Mutant: to lower a window is to swap it with the lowest.
RestackBySwap(order, cmd) ==
  LET rest == Without(order, cmd.id)
      z    == cmd.z_order
  IN IF ~ Contains(order, cmd.id) \/ z = Preserve THEN order ELSE
     CASE z = Top    -> Append(rest, cmd.id)
       [] z = Bottom -> [i \in DOMAIN order |-> IF i = 1 THEN cmd.id
                                                ELSE IF order[i] = cmd.id THEN Head(order) ELSE order[i]]
       [] OTHER -> IF ~ Contains(rest, z.sibling) THEN order
                   ELSE InsertAt(rest, IF z.kind = "above" THEN index_of(rest, z.sibling) + 1
                                                           ELSE index_of(rest, z.sibling), cmd.id)

\* One directive.  A window that is not in the stack, an unknown sibling and
\* the window itself as a sibling change nothing.
Restacked(order, cmd) ==
  LET rest == Without(order, cmd.id)
      z    == cmd.z_order
  IN IF ~ Contains(order, cmd.id) \/ z = Preserve THEN order ELSE
     CASE z = Top    -> Append(rest, cmd.id)
       [] z = Bottom -> <<cmd.id>> \o rest
       [] OTHER -> IF ~ Contains(rest, z.sibling) THEN order
                   ELSE InsertAt(rest, IF z.kind = "above" THEN index_of(rest, z.sibling) + 1
                                                           ELSE index_of(rest, z.sibling), cmd.id)

restack(stack, commands) == FoldLeft(Restacked, stack, commands)

(***************************************************************************)
(* Applying a batch: first position and visibility command by command,     *)
(* then the z-order, reached by raising every window of the wanted order   *)
(* in turn.  registered are the windows the compositor knows, shown those  *)
(* the workspace filter lets through.                                      *)
(***************************************************************************)
Place(stack, cmd, registered, shown) ==
  CASE cmd.id \notin registered                                     -> stack
    [] cmd.id \in registered /\ cmd.visible /\ cmd.id \in shown      -> map_element(stack, cmd.id)
    [] cmd.id \in registered /\ (~ cmd.visible \/ cmd.id \notin shown) -> unmap_elem(stack, cmd.id)

\* Mutant: the z-order is worked out before the windows are mapped.
ApplyOrderFirst(stack, commands, registered, shown) ==
  FoldLeft(LAMBDA st, cmd : Place(st, cmd, registered, shown), restack(stack, commands), commands)

apply_render_commands(stack, commands, registered, shown) ==
  LET placed == FoldLeft(LAMBDA st, cmd : Place(st, cmd, registered, shown), stack, commands)
  IN IF \A i \in DOMAIN commands : commands[i].z_order = Preserve
     THEN placed
     ELSE FoldLeft(raise_element, placed, restack(placed, commands))
=============================================================================
