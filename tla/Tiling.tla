------------------------------- MODULE Tiling -------------------------------
(***************************************************************************)
(* The tiling window manager (wr-wm-tiling/src/main.rs) in charge of a     *)
(* session.  Its events and its requests are two queues of one connection; *)
(* windows open and close meanwhile.  WmProtocol models how the compositor *)
(* keeps its books and what becomes of placements; here is only what the   *)
(* WM is told, what it asks for, and the sizes the windows are given.  The *)
(* focus is left out, so any window may be the one that the user's snap    *)
(* (state.rs, wm/floating.rs) resizes, and the default workspace is too.   *)
(***************************************************************************)
EXTENDS BspLayout, FiniteSets

CONSTANTS
  Tiles,        \* windows by their ids, which grow
  Output,       \* size of the output
  DefaultSize,  \* size the built-in WM gives to a window
  MaxFrames     \* bound: frames rendered with the WM in charge

ASSUME TilingAssumption == Output \in [w : Int, h : Int] /\ DefaultSize \in [w : Int, h : Int]

VARIABLES
  unopened, open,  \* windows to come; windows of the compositor, oldest first
  bound,           \* whether the WM has bound its manager
  events,          \* to the WM
  requests,        \* from the WM
  windows, output, \* the WM's list and its output
  size, position,  \* what each window was last configured with, and asked to be at
  snapped,         \* history: windows that were configured last by a snap
  changed,         \* history: what changed last since the WM bound: "no", "opened", "closed"
  frames

tilingVars ==
  <<unopened, open, bound, events, requests, windows, output, size, snapped, position, changed, frames>>

\* Of the windows of a list those that are kept.
Filtered(list, kept) == FoldLeft(LAMBDA rest, w : IF w \in kept THEN Append(rest, w) ELSE rest, <<>>, list)

Event(kind, w) == [kind |-> kind, w |-> w]
None == 0

(***************************************************************************)
(* The compositor.                                                         *)
(***************************************************************************)
NewToplevel(w) ==
  /\ w \in unopened /\ w = Min(unopened) /\ unopened' = unopened \ {w}
  /\ open' = Append(open, w) /\ size' = [size EXCEPT ![w] = DefaultSize]
  /\ events' = IF bound THEN events \o <<Event("window_new", w), Event("manage_start", None)>> ELSE events
  /\ changed' = IF bound THEN "opened" ELSE "no"
  /\ UNCHANGED <<bound, requests, windows, output, snapped, position, frames>>

\* Closing a window starts no manage phase.
ToplevelDestroyed(w) ==
  /\ Contains(open, w) /\ open' = Filtered(open, Tiles \ {w})
  /\ events' = IF bound THEN Append(events, Event("window_closed", w)) ELSE events
  /\ changed' = IF changed = "no" THEN "no" ELSE "closed"
  /\ UNCHANGED <<unopened, bound, requests, windows, output, size, snapped, position, frames>>

\* What snap_geometry makes of the output: its halves, the far ones with the odd
\* pixel.
SnapSizes ==
  LET half_w == Output.w \div 2
      half_h == Output.h \div 2
  IN [w : {half_w, Output.w - half_w}, h : {Output.h}] \cup [w : {Output.w}, h : {half_h, Output.h - half_h}]

\* Super+Arrow snaps the window that the built-in WM has focused, and configures
\* it, whoever is in charge.  No manage phase follows.
Snap(w) ==
  /\ Contains(open, w)
  /\ \E half \in SnapSizes : size' = [size EXCEPT ![w] = half]
  /\ snapped' = snapped \cup {w}
  /\ UNCHANGED <<unopened, open, bound, events, requests, windows, output, position, changed, frames>>

\* The WM binds: it is told the output and the windows that have acknowledged
\* a size.
BindManager ==
  /\ ~ bound /\ bound' = TRUE
  /\ \E sized \in SUBSET ToSet(open) :
       LET existing == Filtered(open, sized)
       IN events' = <<Event("output_new", None)>> \o [i \in DOMAIN existing |-> Event("window_new", existing[i])]
  /\ UNCHANGED <<unopened, open, requests, windows, output, size, snapped, position, changed, frames>>

StartRenderPhase ==
  /\ bound /\ frames < MaxFrames /\ frames' = frames + 1
  /\ events' = Append(events, Event("render_start", None))
  /\ UNCHANGED <<unopened, open, bound, requests, windows, output, size, snapped, position, changed>>

\* A request for a window that is closed by now is ignored.
DispatchRequest ==
  /\ requests # <<>> /\ requests' = Tail(requests)
  /\ LET r == Head(requests)
         known == Contains(open, r.w)
     IN /\ size' = IF known /\ r.kind = "propose_dimensions"
                   THEN [size EXCEPT ![r.w] = [w |-> r.rect.w, h |-> r.rect.h]] ELSE size
        /\ snapped' = IF known /\ r.kind = "propose_dimensions" THEN snapped \ {r.w} ELSE snapped
        /\ position' = IF known /\ r.kind = "set_position"
                       THEN [position EXCEPT ![r.w] = [x |-> r.rect.x, y |-> r.rect.y]] ELSE position
  /\ UNCHANGED <<unopened, open, bound, events, windows, output, changed, frames>>

(***************************************************************************)
(* The window manager takes its events one by one.                         *)
(***************************************************************************)
Ask(kind) ==
  [i \in DOMAIN windows |-> [kind |-> kind, w |-> windows[i],
                             rect |-> calculate_layout(output, Len(windows))[i]]]

Take(kind) == events # <<>> /\ Head(events).kind = kind /\ events' = Tail(events)

WindowNew ==
  /\ Take("window_new") /\ windows' = Append(windows, Head(events).w)
  /\ UNCHANGED <<unopened, open, bound, requests, output, size, snapped, position, changed, frames>>

\* Mutant: the window stays in the list.
CloseForgotten ==
  /\ Take("window_closed") /\ windows' = windows
  /\ UNCHANGED <<unopened, open, bound, requests, output, size, snapped, position, changed, frames>>

WindowClosed ==
  /\ Take("window_closed") /\ windows' = Filtered(windows, Tiles \ {Head(events).w})
  /\ UNCHANGED <<unopened, open, bound, requests, output, size, snapped, position, changed, frames>>

ManageStart ==
  /\ Take("manage_start") /\ requests' = requests \o Ask("propose_dimensions")
  /\ UNCHANGED <<unopened, open, bound, windows, output, size, snapped, position, changed, frames>>

RenderStart ==
  /\ Take("render_start") /\ requests' = requests \o Ask("set_position")
  /\ UNCHANGED <<unopened, open, bound, windows, output, size, snapped, position, changed, frames>>

OutputNew ==
  /\ Take("output_new") /\ output' = Output
  /\ UNCHANGED <<unopened, open, bound, requests, windows, size, snapped, position, changed, frames>>

-----------------------------------------------------------------------------
TilingInit ==
  /\ unopened = Tiles /\ open = <<>> /\ bound = FALSE
  /\ events = <<>> /\ requests = <<>>
  /\ windows = <<>> /\ output = [w |-> 1280, h |-> 720]
  /\ size = [w \in Tiles |-> DefaultSize] /\ snapped = {} /\ position = [w \in Tiles |-> [x |-> 0, y |-> 0]]
  /\ changed = "no" /\ frames = 0

TilingNext ==
  \/ BindManager \/ StartRenderPhase \/ DispatchRequest
  \/ WindowNew \/ WindowClosed \/ ManageStart \/ RenderStart \/ OutputNew
  \/ \E w \in Tiles : NewToplevel(w) \/ ToplevelDestroyed(w) \/ Snap(w)

TilingSpec == TilingInit /\ [][TilingNext]_tilingVars

-----------------------------------------------------------------------------
Quiet == bound /\ events = <<>> /\ requests = <<>>

\* The sizes of the open windows that the WM knows are those of the layout, but
\* for those the user has snapped since they were last given theirs.
Tiled ==
  LET layout == calculate_layout(Output, Len(windows))
  IN \A i \in DOMAIN windows :
       Contains(open, windows[i]) /\ windows[i] \notin snapped =>
         size[windows[i]] = [w |-> layout[i].w, h |-> layout[i].h]

\* When all is said and done after a window opened, every window the WM knows
\* has its size in the layout of just those windows, however the events and
\* requests of earlier openings and closings were interleaved: a window that
\* was snapped before has its place back, and only a snap that came after the
\* window's new size stands.
OpeningRetiles == (Quiet /\ changed = "opened") => ToSet(windows) \subseteq ToSet(open) /\ Tiled

(***************************************************************************)
(* What the repository says and the code does not do: TLC refutes each of  *)
(* these (README, Deviations).                                             *)
(***************************************************************************)

\* "Compositor sends manage_start when state changes occur (new window, close,
\* ...)": with nothing under way the windows are tiled, also after one closed.
AlwaysRetiled == (Quiet /\ changed # "no") => Tiled
=============================================================================
