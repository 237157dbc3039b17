----------------------------- MODULE MCWindows -----------------------------
(***************************************************************************)
(* Window managers in one instance for TLC: WmProtocol with two of them,   *)
(* the tiling one and its layout.  They share no state; as in MCParts a    *)
(* behaviour picks one and runs it.                                        *)
(***************************************************************************)
EXTENDS WmProtocol, Tiling, MCBspLayout

CONSTANTS m1, m2  \* two window managers, one after the other or at once

VARIABLE part

SmallOutput == [w |-> 640, h |-> 480]
HalfOutput  == [w |-> 320, h |-> 240]

layoutVars  == <<screen, count>>
windowsVars == <<part, wmVars, tilingVars, layoutVars>>

WindowsInit ==
  /\ part \in {"wm", "tiling", "layout"}
  /\ WmInit /\ TilingInit
  /\ LayoutInit /\ (part # "layout" => screen = CHOOSE o \in Screens : TRUE)

WindowsNext ==
  /\ \/ /\ part = "wm" /\ WmNext
        /\ UNCHANGED <<tilingVars, layoutVars>>
     \/ /\ part = "tiling" /\ TilingNext
        /\ UNCHANGED <<wmVars, layoutVars>>
     \/ /\ part = "layout" /\ Open
        /\ UNCHANGED <<wmVars, tilingVars>>
  /\ UNCHANGED part

WindowsSpec == WindowsInit /\ [][WindowsNext]_windowsVars

\* Window managers bind once each and are alike.
WindowsSymmetry == Permutations({m1, m2})

=============================================================================
