----------------------------- MODULE Workspaces -----------------------------
(***************************************************************************)
(* Which windows are visible: WorkspaceState of wm/types.rs and the        *)
(* requests of wayray_wm_workspace_v1 that change it (wm/protocol.rs).     *)
(* A window is in workspace mode, in tag mode or in neither; the state     *)
(* survives the window manager that built it.  A tag bitmask is the set of *)
(* its bits, a workspace name its place in the lexicographic order.        *)
(***************************************************************************)
EXTENDS Integers, FiniteSets

CONSTANTS
  WindowIds,
  Names, NoName,    \* workspace names, in the order of their ranks
  Tags, FirstTag,   \* tag bits; FirstTag is bit 0x1
  NoTag,            \* not a bit
  Outputs, NoOutput,
  DefaultOutput

ASSUME WorkspacesAssumption ==
  /\ Names \subseteq Nat /\ IsFiniteSet(Names) /\ NoName \notin Names
  /\ FirstTag \in Tags /\ NoTag \notin Tags
  /\ DefaultOutput \in Outputs /\ NoOutput \notin Outputs

VARIABLES
  workspaces,         \* those created and not destroyed
  active,             \* active workspace of each output
  activeTags,         \* active bitmask of each output
  window_workspace, window_tags, window_output

wsVars == <<workspaces, active, activeTags, window_workspace, window_tags, window_output>>

\* No bitmask at all, unlike the empty one.
NoTags == {NoTag}

\* An output nothing was ever set for stands for the default one.
output_key(o) == IF active[o] # NoName \/ activeTags[o] # NoTags \/ o = DefaultOutput
                 THEN o ELSE DefaultOutput

active_tags_for(o) == IF activeTags[output_key(o)] = NoTags THEN {FirstTag}
                                                            ELSE activeTags[output_key(o)]

active_workspace_for(o) == active[output_key(o)]

is_visible(w, o) ==
  /\ window_output[w] # NoOutput => output_key(window_output[w]) = output_key(o)
  /\ window_tags[w] # NoTags => window_tags[w] \cap active_tags_for(o) # {}
  /\ (window_tags[w] = NoTags /\ window_workspace[w] # NoName)
       => active_workspace_for(o) = window_workspace[w]

create_workspace(n) ==
  /\ workspaces' = workspaces \cup {n}
  /\ UNCHANGED <<active, activeTags, window_workspace, window_tags, window_output>>

\* The lexicographically first of the workspaces left, if any.
Fallback(left) == IF left = {} THEN NoName ELSE CHOOSE m \in left : \A k \in left : m <= k

\* Mutant: the windows stay assigned to the workspace that is gone.
DestroyKeepsMembers(n) ==
  /\ workspaces' = workspaces \ {n}
  /\ active' = [o \in Outputs |-> IF active[o] = n THEN Fallback(workspaces') ELSE active[o]]
  /\ UNCHANGED <<activeTags, window_workspace, window_tags, window_output>>

destroy_workspace(n) ==
  /\ workspaces' = workspaces \ {n}
  /\ window_workspace' = [w \in WindowIds |-> IF window_workspace[w] = n THEN NoName
                                                                      ELSE window_workspace[w]]
  /\ active' = [o \in Outputs |-> IF active[o] = n THEN Fallback(workspaces') ELSE active[o]]
  /\ UNCHANGED <<activeTags, window_tags, window_output>>

\* Any name is taken, created or not.
set_active_workspace(o, n) ==
  /\ active' = [active EXCEPT ![o] = n]
  /\ UNCHANGED <<workspaces, activeTags, window_workspace, window_tags, window_output>>

set_active_tags(o, t) ==
  /\ activeTags' = [activeTags EXCEPT ![o] = t]
  /\ UNCHANGED <<workspaces, active, window_workspace, window_tags, window_output>>

\* Mutant: the bitmask of a window that joins a workspace is kept.
AssignKeepsTags(w, n) ==
  /\ window_workspace' = [window_workspace EXCEPT ![w] = n]
  /\ UNCHANGED <<workspaces, active, activeTags, window_tags, window_output>>

assign_window(w, n) ==
  /\ window_workspace' = [window_workspace EXCEPT ![w] = n]
  /\ window_tags' = [window_tags EXCEPT ![w] = NoTags]
  /\ UNCHANGED <<workspaces, active, activeTags, window_output>>

set_window_tags(w, t) ==
  /\ window_tags' = [window_tags EXCEPT ![w] = t]
  /\ window_workspace' = [window_workspace EXCEPT ![w] = NoName]
  /\ UNCHANGED <<workspaces, active, activeTags, window_output>>

set_window_output(w, o) ==
  /\ window_output' = [window_output EXCEPT ![w] = o]
  /\ UNCHANGED <<workspaces, active, activeTags, window_workspace, window_tags>>

WsInit ==
  /\ workspaces = {} /\ active = [o \in Outputs |-> NoName]
  /\ activeTags = [o \in Outputs |-> IF o = DefaultOutput THEN {FirstTag} ELSE NoTags]
  /\ window_workspace = [w \in WindowIds |-> NoName]
  /\ window_tags = [w \in WindowIds |-> NoTags]
  /\ window_output = [w \in WindowIds |-> NoOutput]

WsNext ==
  \/ \E n \in Names : create_workspace(n) \/ destroy_workspace(n)
  \/ \E o \in Outputs : \/ \E n \in Names : set_active_workspace(o, n)
                        \/ \E t \in SUBSET Tags : set_active_tags(o, t)
  \/ \E w \in WindowIds : \/ \E n \in Names : assign_window(w, n)
                        \/ \E t \in SUBSET Tags : set_window_tags(w, t)
                        \/ \E o \in Outputs : set_window_output(w, o)

WsSpec == WsInit /\ [][WsNext]_wsVars

-----------------------------------------------------------------------------
\* The two modes of a window exclude each other however the requests of one
\* window manager, or of several in a row, are mixed: a window is never ruled
\* by a bitmask and a workspace at once.
ModesExclusive == \A w \in WindowIds : window_tags[w] = NoTags \/ window_workspace[w] = NoName

\* Destroying a workspace takes no window off the screen, which is the
\* default output: its members become unassigned, and the outputs it was
\* active on fall back to one that shows more, not less.
DestroyHidesNothing ==
  [][\A n \in Names : destroy_workspace(n) =>
       \A w \in WindowIds : is_visible(w, DefaultOutput) => is_visible(w, DefaultOutput)']_wsVars
=============================================================================
