---------------------------- MODULE MCBspLayout ----------------------------
\* The layout over bounded inputs: windows are opened one after the other on
\* an output of each of some sizes, even, odd and down to a quarter of VGA.
EXTENDS BspLayout

CONSTANTS Widths, Heights, MaxWindows

\* Screens with room for the windows: a pixel for each next to its gap.  Every
\* other split is across, so that half of the windows are beside each other.
ASSUME LayoutAssumption ==
  /\ MaxWindows \in Nat
  /\ \A w \in Widths : w \in Nat /\ w >= 5 * MaxWindows + Gap
  /\ \A h \in Heights : h \in Nat /\ h >= 5 * ((MaxWindows + 1) \div 2) + Gap

VARIABLES screen, count

Screens == [w : Widths, h : Heights]

LayoutInit == screen \in Screens /\ count = 0

Open == count < MaxWindows /\ count' = count + 1 /\ UNCHANGED screen

LayoutSpec == LayoutInit /\ [][Open]_<<screen, count>>

\* The layout is a tiling for every number of windows: integer division,
\* uneven halves and the gaps neither lose pixels nor make windows overlap.
\* Every window has its part.
LayoutTiles == LET layout == calculate_layout(screen, count)
               IN Len(layout) = count /\ IsTiling(layout, screen)
=============================================================================
