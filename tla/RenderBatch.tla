----------------------------- MODULE RenderBatch -----------------------------
(***************************************************************************)
(* The operators of RenderCommands by themselves: requests are gathered    *)
(* and now and then a batch is applied.  All windows are registered; shown *)
(* is the workspace filter's verdict, and may change at any frame.         *)
(***************************************************************************)
EXTENDS RenderCommands

CONSTANT MaxPending   \* bound: requests gathered between two frames

VARIABLES
  scene,     \* the Space's stack
  pending,   \* commands gathered since the last frame
  requested      \* history: what the last show or hide since then asked for

renderVars == <<scene, pending, requested>>

RenderInit ==
  /\ scene = SetToSeq(Windows)
  /\ pending = <<>>
  /\ requested = [w \in Windows |-> "nothing"]

Request ==
  /\ Len(pending) < MaxPending
  /\ \E w \in Windows :
       \/ pending' = SetPosition(pending, w) /\ UNCHANGED requested
       \/ \E z \in ZOrder \ {Preserve} : pending' = SetZ(pending, w, z) /\ UNCHANGED requested
       \/ \E v \in BOOLEAN : /\ pending' = SetVisible(pending, w, v)
                             /\ requested' = [requested EXCEPT ![w] = IF v THEN "show" ELSE "hide"]
  /\ UNCHANGED scene

Frame ==
  /\ \E shown \in SUBSET Windows :
       scene' = apply_render_commands(scene, pending, Windows, shown)
  /\ pending' = <<>>
  /\ requested' = [w \in Windows |-> "nothing"]

RenderNext == Request \/ Frame

RenderSpec == RenderInit /\ [][RenderNext]_renderVars

-----------------------------------------------------------------------------
\* A frame with something to apply is drawn in this step.
Drawn == pending # <<>> /\ pending' = <<>>

\* v is somewhere below w.
Under(stack, v, w) == \E i, j \in DOMAIN stack : i < j /\ stack[i] = v /\ stack[j] = w

\* What a directive asks of the stack that comes out.  A window or a sibling
\* that is not in it is left alone.
Holds(stack, w, z) ==
  LET i == CHOOSE n \in DOMAIN stack : stack[n] = w
  IN CASE z = Top    -> i = Len(stack)
       [] z = Bottom -> i = 1
       [] z.kind = "above" -> (Contains(stack, z.sibling) /\ z.sibling # w) => (i > 1 /\ stack[i - 1] = z.sibling)
       [] z.kind = "below" -> (Contains(stack, z.sibling) /\ z.sibling # w) => (i < Len(stack) /\ stack[i + 1] = z.sibling)

\* "Directives are applied in command order, so later commands win on
\* conflict": when a frame is drawn, the last directive holds of the stack,
\* although every command before and after it has moved windows around, also
\* those it does not name.
LastDirectiveWins ==
  [][LET directed == { i \in DOMAIN pending : pending[i].z_order # Preserve }
     IN (Drawn /\ directed # {}) =>
          LET last == pending[LastOf(directed)]
          IN Contains(scene', last.id) => Holds(scene', last.id, last.z_order)]_renderVars

\* Windows no command names keep their order among themselves.
OthersKeepOrder ==
  [][Drawn => \A v, w \in Windows :
       (CommandsOf(pending, v) = {} /\ CommandsOf(pending, w) = {})
         => (Under(scene', v, w) <=> Under(scene, v, w))]_renderVars

(***************************************************************************)
(* What the repository says and the code does not do: TLC refutes each of  *)
(* these (README, Deviations).                                             *)
(***************************************************************************)

\* ZOrder::Preserve is to "keep current z-order (no change)": a frame all of
\* whose commands preserve, and which shows what was shown, keeps the stack.
PreserveKeepsOrder ==
  [][(Drawn /\ \A i \in DOMAIN pending : pending[i].z_order = Preserve
            /\ ToSet(scene') = ToSet(scene))
        => scene' = scene]_renderVars

\* "hide window (remains managed)": a window that was last asked to hide is
\* not shown by the frame that follows.
HideIsObeyed ==
  [][Drawn => \A w \in Windows : requested[w] = "hide" => ~ Contains(scene', w)]_renderVars
=============================================================================
