----------------------------- MODULE WindowsProofs -----------------------------
(***************************************************************************)
(* What TLAPS proves of the window managers, for any number of windows     *)
(* and of managers.  Of the compositor's side (WmProtocol): the built-in   *)
(* WM's focus stack holds the registered windows, no window comes back     *)
(* after it was closed, and only objects of the WM in charge are used.  Of *)
(* the tiling WM's arithmetic (BspLayout): the windows tile the screen.    *)
(* Of the tiling WM and the compositor together (Tiling): after a window   *)
(* was opened the windows have the sizes of the layout.                    *)
(***************************************************************************)
EXTENDS WmProtocol, Tiling, MCBspLayout, RenderProofs, FiniteSetTheorems

-----------------------------------------------------------------------------
(***************************************************************************)
(* The focus stack's operations.                                           *)
(***************************************************************************)

\* Vec::retain looks at one window after the other: f[n] is what it has kept
\* after n of them.
Retaining(f, focus, w) ==
  /\ f[0] = <<>>
  /\ \A n \in 1..Len(focus) : f[n] = (IF focus[n] = w THEN f[n - 1] ELSE Append(f[n - 1], focus[n]))
  /\ retain(focus, w) = f[Len(focus)]

LEMMA RetainFold ==
  ASSUME NEW C, NEW w, NEW focus \in Seq(C)
  PROVE  \E f \in [0..Len(focus) -> Seq(C)] : Retaining(f, focus, w)
<1> DEFINE N == Len(focus)
           T == Seq(C)
<1>0. <<>> \in T /\ \A st \in T, c \in C : (IF c = w THEN st ELSE Append(st, c)) \in T OBVIOUS
<1> HIDE DEF T
<1> DEFINE step == [n \in 1..N |-> [st \in T |-> (IF focus[n] = w THEN st ELSE Append(st, focus[n]))]]
           Body(h) == [s \in SUBSET DOMAIN focus |-> IF s = {} THEN <<>>
                        ELSE (IF focus[Max(s)] = w THEN h[s \ {Max(s)}] ELSE Append(h[s \ {Max(s)}], focus[Max(s)]))]
           it == CHOOSE h : h = Body(h)
<1>1. N \in Nat /\ DOMAIN focus = 1..N /\ \A n \in 1..N : focus[n] \in C OBVIOUS
<1>2. step \in [1..N -> [T -> T]] BY <1>0, <1>1
<1> HIDE DEF N
<1>3. PICK g \in [SUBSET (1..N) -> T] : Recursion(g, <<>>, step, 1..N)
  BY <1>0, <1>1, <1>2, FoldExists
<1>4. ASSUME NEW s \in SUBSET (1..N), s # {}
      PROVE  g[s] = (IF focus[Max(s)] = w THEN g[s \ {Max(s)}] ELSE Append(g[s \ {Max(s)}], focus[Max(s)]))
  <2>1. Max(s) \in 1..N BY <1>1, <1>4, MaxOfPositions
  <2>2. g[s \ {Max(s)}] \in T OBVIOUS
  <2>3. g[s] = step[Max(s)][g[s \ {Max(s)}]] BY <1>3, <1>4 DEF Recursion
  <2>4. QED BY <2>1, <2>2, <2>3
<1>5. g = Body(g)
  <2>1. {} \in SUBSET (1..N) OBVIOUS
  <2>2. g[{}] = <<>> BY <1>3, <2>1, Zenon DEF Recursion
  <2>3. QED BY <1>1, <1>4, <2>2
<1>6. it = Body(it) BY <1>5, Zenon
<1>7. retain(focus, w) = it[1..N]
  BY <1>1 DEF retain, FoldLeft, MapThenFoldSet
<1> HIDE DEF it, step
<1>8. it[1..0] = <<>>
  <2>1. 1..0 = {} /\ {} \in SUBSET DOMAIN focus OBVIOUS
  <2>2. QED BY <1>6, <2>1
<1>9. ASSUME NEW n \in 1..N PROVE it[1..n] = (IF focus[n] = w THEN it[1..(n - 1)] ELSE Append(it[1..(n - 1)], focus[n]))
  <2>1. 1..n \in SUBSET DOMAIN focus /\ 1..n # {} /\ Max(1..n) = n /\ (1..n) \ {n} = 1..(n - 1)
    BY <1>1, Positions
  <2>2. QED BY <1>6, <2>1
<1> HIDE DEF Body
<1>10. \A n \in 0..N : it[1..n] \in T
  <2> DEFINE P == { n \in 0..N : it[1..n] \in T }
  <2>1. 0 \in P BY <1>0, <1>1, <1>8
  <2>2. ASSUME NEW n \in 1..N, n - 1 \in P PROVE n \in P
    BY <1>0, <1>1, <1>9, <2>2
  <2> HIDE DEF P
  <2>3. \A n \in 0..N : n \in P BY <1>1, <2>1, <2>2, InductionTo
  <2>4. QED BY <2>3 DEF P
<1> DEFINE f == [n \in 0..N |-> it[1..n]]
<1>11. f \in [0..N -> T] BY <1>10
<1>12. f[0] = <<>> BY <1>1, <1>8
<1>13. \A n \in 1..N : f[n] = (IF focus[n] = w THEN f[n - 1] ELSE Append(f[n - 1], focus[n]))
  <2>1. \A n \in 1..N : n \in 0..N /\ n - 1 \in 0..N BY <1>1
  <2>2. QED BY <1>9, <2>1
<1>14. f[N] = it[1..N] BY <1>1
<1> HIDE DEF f
<1>15. Retaining(f, focus, w) BY <1>7, <1>12, <1>13, <1>14 DEF N, Retaining
<1>16. QED BY <1>11, <1>15 DEF N, T

LEMMA RetainStack ==
  ASSUME NEW S, NEW focus \in Stack(S), NEW w
  PROVE  retain(focus, w) \in Stack(S) /\ ToSet(retain(focus, w)) = ToSet(focus) \ {w}
<1>0. focus \in Seq(S) BY DEF Stack
<1>1. PICK f \in [0..Len(focus) -> Seq(S)] : Retaining(f, focus, w)
  BY <1>0, RetainFold
<1> DEFINE N == Len(focus)
<1>2. /\ f \in [0..N -> Seq(S)] /\ f[0] = <<>>
      /\ \A n \in 1..N : f[n] = (IF focus[n] = w THEN f[n - 1] ELSE Append(f[n - 1], focus[n]))
      /\ retain(focus, w) = f[N]
  BY <1>1 DEF Retaining
<1>3. focus \in Seq(S) /\ IsInjective(focus) /\ DOMAIN focus = 1..N /\ N \in Nat BY DEF Stack
<1> HIDE DEF N
<1> DEFINE Seen(n) == { focus[i] : i \in 1..n }
           P == { n \in 0..N : f[n] \in Stack(S) /\ ToSet(f[n]) = Seen(n) \ {w} }
<1>5. 0 \in P
  <2>1. <<>> \in Stack(S) /\ ToSet(<<>>) = {} BY DEF Stack, IsInjective, ToSet
  <2>2. Seen(0) = {} OBVIOUS
  <2>3. QED BY <1>3, <1>2, <2>1, <2>2
<1>6. ASSUME NEW n \in 1..N, n - 1 \in P PROVE n \in P
  <2>1. n \in 0..N /\ f[n - 1] \in Stack(S) /\ ToSet(f[n - 1]) = Seen(n - 1) \ {w} BY <1>3, <1>6
  <2>2. 1..n = (1..(n - 1)) \cup {n} BY <1>3
  <2>3. Seen(n) = Seen(n - 1) \cup {focus[n]} BY <2>2
  <2>4. CASE focus[n] = w
    <3>1. f[n] = f[n - 1] BY <1>2, <2>4
    <3>2. Seen(n) \ {w} = Seen(n - 1) \ {w} BY <2>3, <2>4
    <3>3. QED BY <2>1, <3>1, <3>2
  <2>5. CASE focus[n] # w
    <3>1. f[n] = Append(f[n - 1], focus[n]) BY <1>2, <2>5
    <3>2. focus[n] \in S BY <1>3
    <3>3. focus[n] \notin Seen(n - 1)
      <4> SUFFICES ASSUME NEW i \in 1..(n - 1), focus[i] = focus[n] PROVE FALSE OBVIOUS
      <4>1. i \in 1..N /\ i # n BY <1>3
      <4>2. QED BY <1>3, <4>1 DEF IsInjective
    <3> HIDE DEF Seen
    <3>4. f[n] \in Stack(S) /\ ToSet(f[n]) = (Seen(n - 1) \ {w}) \cup {focus[n]}
      BY <2>1, <3>1, <3>2, <3>3, AppendStack
    <3>5. QED BY <2>1, <2>3, <2>5, <3>4
  <2>6. QED BY <2>4, <2>5
<1>7. Seen(N) = ToSet(focus) BY <1>3 DEF ToSet
<1> HIDE DEF P, Seen
<1>8. \A n \in 0..N : n \in P BY <1>3, <1>5, <1>6, InductionTo
<1>9. N \in P BY <1>3, <1>8
<1>10. QED BY <1>2, <1>7, <1>9 DEF P

LEMMA RaiseToTopStack ==
  ASSUME NEW S, NEW focus \in Stack(S), NEW w \in S
  PROVE  raise_to_top(focus, w) \in Stack(S) /\ ToSet(raise_to_top(focus, w)) = ToSet(focus) \cup {w}
<1>1. retain(focus, w) \in Stack(S) /\ ToSet(retain(focus, w)) = ToSet(focus) \ {w}
  BY RetainStack
<1>2. QED BY <1>1, AppendStack DEF raise_to_top

\* FloatingWm::focus_next rotates the stack by one.
LEMMA FocusNextStack ==
  ASSUME NEW S, NEW focus \in Stack(S)
  PROVE  focus_next(focus) \in Stack(S) /\ ToSet(focus_next(focus)) = ToSet(focus)
<1> DEFINE N == Len(focus)
<1>1. focus \in Seq(S) /\ IsInjective(focus) /\ DOMAIN focus = 1..N /\ N \in Nat BY DEF Stack
<1>2. CASE N < 2 BY <1>2 DEF focus_next
<1>3. CASE ~ (N < 2)
  <2> DEFINE r == <<Last(focus)>> \o Front(focus)
  <2>1. focus_next(focus) = r BY <1>3 DEF focus_next
  <2>2. Last(focus) = focus[N] /\ focus[N] \in S BY <1>1, <1>3 DEF Last
  <2>3. /\ Front(focus) \in Seq(S) /\ Len(Front(focus)) = N - 1
        /\ \A i \in 1..(N - 1) : Front(focus)[i] = focus[i]
    BY <1>1, <1>3 DEF Front
  <2>4. r \in Seq(S) /\ Len(r) = N /\ DOMAIN r = 1..N
    <3>1. <<Last(focus)>> \in Seq(S) /\ Len(<<Last(focus)>>) = 1 BY <2>2
    <3>2. r \in Seq(S) BY <2>3, <3>1
    <3>3. Len(r) = Len(<<Last(focus)>>) + Len(Front(focus)) BY <2>3, <3>1
    <3> HIDE DEF r
    <3>4. Len(r) = N BY <1>1, <1>3, <2>3, <3>1, <3>3
    <3>5. QED BY <3>2, <3>4
  <2>5. \A i \in 1..N : r[i] = IF i = 1 THEN focus[N] ELSE focus[i - 1]
    BY <1>1, <1>3, <2>2, <2>3
  <2> HIDE DEF r, N
  <2>6. IsInjective(r)
    <3> SUFFICES ASSUME NEW i \in 1..N, NEW j \in 1..N, r[i] = r[j]
                 PROVE  i = j
      BY <2>4 DEF IsInjective
    <3> DEFINE i1 == IF i = 1 THEN N ELSE i - 1
               j1 == IF j = 1 THEN N ELSE j - 1
    <3>1. i1 \in 1..N /\ j1 \in 1..N BY <1>1, <1>3
    <3>2. r[i] = focus[i1] /\ r[j] = focus[j1] BY <2>5
    <3>3. i1 = j1
      <4> HIDE DEF i1, j1
      <4>1. QED BY <1>1, <3>1, <3>2 DEF IsInjective
    <3>4. QED BY <1>1, <3>3
  <2>7. ToSet(r) = ToSet(focus)
    <3>1. \A i \in 1..N : r[i] \in ToSet(focus)
      BY <1>1, <1>3, <2>5 DEF ToSet
    <3>2. ASSUME NEW i \in 1..N PROVE focus[i] \in ToSet(r)
      <4> DEFINE j == IF i = N THEN 1 ELSE i + 1
      <4>1. j \in 1..N /\ r[j] = focus[i] BY <1>1, <1>3, <2>5
      <4>2. QED BY <2>4, <4>1 DEF ToSet
    <3>3. QED BY <1>1, <2>4, <3>1, <3>2 DEF ToSet
  <2>8. QED BY <2>1, <2>4, <2>6, <2>7 DEF Stack
<1>4. QED BY <1>2, <1>3

-----------------------------------------------------------------------------
(***************************************************************************)
(* The inductive invariant.                                                *)
(***************************************************************************)

\* The compositor's book of windows: ids are given out in order, and the two
\* stacks hold windows that are registered.
CompositorInv ==
  /\ window_ids \subseteq Windows /\ next_window_id \in Nat
  /\ \A w \in window_ids : w < next_window_id
  /\ focus_stack \in Stack(Windows) /\ ToSet(focus_stack) = window_ids
  /\ stack \in Stack(Windows) /\ ToSet(stack) \subseteq window_ids

\* The WMs and their objects: objects last no longer than the connection they
\* came by, and the WM in charge has its manager object.
ObjectsInv ==
  /\ wm_client \in Wms \cup {NoWm} /\ unbound \subseteq Wms
  /\ managers \subseteq clients /\ clients \subseteq Wms
  /\ handles \subseteq clients \X Windows
  /\ window_objects \in [Windows -> Wms \cup {NoWm}]
  /\ borders \subseteq Windows
  /\ wm_client # NoWm => wm_client \in managers
  /\ ObjectsOfCurrent

WmInv == CompositorInv /\ ObjectsInv

LEMMA CompositorUnchanged ==
  ASSUME CompositorInv, UNCHANGED <<window_ids, next_window_id, focus_stack, stack>>
  PROVE  CompositorInv'
BY DEF CompositorInv

LEMMA ObjectsUnchanged ==
  ASSUME ObjectsInv, UNCHANGED <<clientVars, borders>>, window_ids \subseteq window_ids'
  PROVE  ObjectsInv'
<1>1. UNCHANGED <<wm_client, unbound, managers, clients, handles, window_objects, borders>>
  BY DEF clientVars
<1>2. QED BY <1>1 DEF ObjectsInv, ObjectsOfCurrent

-----------------------------------------------------------------------------
(***************************************************************************)
(* Applications and the user.                                              *)
(***************************************************************************)
LEMMA NewToplevelStep ==
  ASSUME WmAssumption, WmInv, new_toplevel
  PROVE  WmInv'
<1> DEFINE id == next_window_id
<1>1. /\ id \in Windows /\ window_ids' = window_ids \cup {id} /\ next_window_id' = id + 1
      /\ focus_stack' = Append(focus_stack, id) /\ stack' = map_element(stack, id)
      /\ UNCHANGED <<wm_client, unbound, managers, clients, borders>>
  BY DEF new_toplevel, register_window, on_new_toplevel
<1>2. id \notin window_ids BY DEF WmInv, CompositorInv
<1>3. focus_stack' \in Stack(Windows) /\ ToSet(focus_stack') = window_ids'
  BY <1>1, <1>2, AppendStack DEF WmInv, CompositorInv
<1>4. stack' \in Stack(Windows) /\ ToSet(stack') \subseteq window_ids'
  BY <1>1, SpaceStack DEF WmInv, CompositorInv
<1>5. CompositorInv' BY <1>1, <1>3, <1>4 DEF WmInv, CompositorInv
<1>6. ObjectsInv'
  <2>1. CASE is_wm_connected
    <3>1. /\ handles' = handles \cup {<<wm_client, id>>}
          /\ window_objects' = [window_objects EXCEPT ![id] = wm_client]
          /\ wm_client \in clients
      BY <2>1 DEF new_toplevel, notify_new_window, is_wm_connected, WmInv, ObjectsInv
    <3>2. handles' \subseteq clients \X Windows BY <1>1, <3>1 DEF WmInv, ObjectsInv
    <3>3. ObjectsOfCurrent'
      BY <1>1, <3>1 DEF WmInv, ObjectsInv, ObjectsOfCurrent
    <3>4. QED BY <1>1, <3>1, <3>2, <3>3 DEF WmInv, ObjectsInv
  <2>2. CASE ~ is_wm_connected
    <3>1. UNCHANGED <<handles, window_objects>>
      BY <2>2 DEF new_toplevel, notify_new_window
    <3>2. QED BY <1>1, <3>1, ObjectsUnchanged DEF WmInv, clientVars
  <2>3. QED BY <2>1, <2>2
<1>7. QED BY <1>5, <1>6 DEF WmInv

LEMMA ToplevelDestroyedStep ==
  ASSUME WmInv, NEW w \in Windows, toplevel_destroyed(w)
  PROVE  WmInv'
<1>1. /\ window_ids' = window_ids \ {w} /\ focus_stack' = retain(focus_stack, w)
      /\ stack' = unmap_elem(stack, w)
      /\ UNCHANGED <<next_window_id, wm_client, unbound, managers, clients, handles>>
  BY DEF toplevel_destroyed, on_close_toplevel
<1>2. focus_stack' \in Stack(Windows) /\ ToSet(focus_stack') = window_ids'
  BY <1>1, RetainStack DEF WmInv, CompositorInv
<1>3. stack' \in Stack(Windows) /\ ToSet(stack') \subseteq window_ids'
  BY <1>1, SpaceStack DEF WmInv, CompositorInv
<1>4. CompositorInv' BY <1>1, <1>2, <1>3 DEF WmInv, CompositorInv
<1>5. ObjectsInv'
  <2>1. CASE is_wm_connected
    <3>1. window_objects' = [window_objects EXCEPT ![w] = NoWm] /\ borders' = borders \ {w}
      BY <2>1 DEF toplevel_destroyed, notify_window_closed
    <3>2. QED BY <1>1, <3>1 DEF WmInv, ObjectsInv, ObjectsOfCurrent
  <2>2. CASE ~ is_wm_connected
    <3>1. UNCHANGED <<window_objects, borders>>
      BY <2>2 DEF toplevel_destroyed, notify_window_closed
    <3>2. QED BY <1>1, <2>2, <3>1 DEF WmInv, ObjectsInv, ObjectsOfCurrent, is_wm_connected
  <2>3. QED BY <2>1, <2>2
<1>6. QED BY <1>4, <1>5 DEF WmInv

LEMMA PointerPressStep ==
  ASSUME WmInv, NEW w \in Windows, PointerPress(w)
  PROVE  WmInv'
<1>1. /\ Contains(stack, w) /\ focus_stack' = raise_to_top(focus_stack, w)
      /\ stack' = raise_element(stack, w)
      /\ UNCHANGED <<window_ids, next_window_id, clientVars, borders>>
  BY DEF PointerPress, on_pointer_focus
<1>2. w \in window_ids
  <2>1. stack \in Seq(Windows) /\ ToSet(stack) \subseteq window_ids
    BY DEF WmInv, CompositorInv, Stack
  <2>2. QED BY <1>1, <2>1, ContainsToSet
<1>3. focus_stack' \in Stack(Windows) /\ ToSet(focus_stack') = window_ids
  <2>1. focus_stack \in Stack(Windows) /\ ToSet(focus_stack) = window_ids
    BY DEF WmInv, CompositorInv
  <2>2. ToSet(raise_to_top(focus_stack, w)) = window_ids \cup {w} BY <2>1, RaiseToTopStack
  <2>3. window_ids \cup {w} = window_ids BY <1>2
  <2>4. QED BY <1>1, <2>1, <2>2, <2>3, RaiseToTopStack
<1>4. stack' \in Stack(Windows) /\ ToSet(stack') = ToSet(stack)
  BY <1>1, SpaceStack DEF WmInv, CompositorInv
<1>5. CompositorInv' BY <1>1, <1>2, <1>3, <1>4 DEF WmInv, CompositorInv
<1>6. ObjectsInv' BY <1>1, ObjectsUnchanged DEF WmInv
<1>7. QED BY <1>5, <1>6 DEF WmInv

LEMMA AltTabStep ==
  ASSUME WmInv, AltTab
  PROVE  WmInv'
<1>1. /\ focus_stack # <<>> /\ focus_stack' = focus_next(focus_stack)
      /\ stack' = raise_element(stack, Last(focus_stack'))
      /\ UNCHANGED <<window_ids, next_window_id, clientVars, borders>>
  BY DEF AltTab
<1>2. focus_stack' \in Stack(Windows) /\ ToSet(focus_stack') = window_ids
  BY <1>1, FocusNextStack DEF WmInv, CompositorInv
<1>3. Last(focus_stack') \in window_ids
  <2>1. focus_stack \in Seq(Windows) /\ focus_stack' \in Seq(Windows)
    BY <1>2 DEF WmInv, CompositorInv, Stack
  <2>2. focus_stack[1] \in window_ids BY <1>1, <2>1 DEF WmInv, CompositorInv, ToSet
  <2>3. focus_stack' # <<>> BY <1>2, <2>2 DEF ToSet
  <2>4. Len(focus_stack') \in DOMAIN focus_stack' BY <2>1, <2>3
  <2>5. focus_stack'[Len(focus_stack')] \in ToSet(focus_stack') BY <2>4 DEF ToSet
  <2>6. QED BY <1>2, <2>5 DEF Last
<1>4. Last(focus_stack') \in Windows BY <1>3 DEF WmInv, CompositorInv
<1>5. stack' \in Stack(Windows) /\ ToSet(stack') = ToSet(stack)
  BY <1>1, <1>4, SpaceStack DEF WmInv, CompositorInv
<1>6. CompositorInv' BY <1>1, <1>2, <1>3, <1>5 DEF WmInv, CompositorInv
<1>7. ObjectsInv' BY <1>1, ObjectsUnchanged DEF WmInv
<1>8. QED BY <1>6, <1>7 DEF WmInv

-----------------------------------------------------------------------------
(***************************************************************************)
(* A frame.                                                                *)
(***************************************************************************)

\* Commands that preserve the z-order place windows that are registered, and
\* nothing else.
LEMMA PlacingRegistered ==
  ASSUME NEW C, NEW commands \in Seq(C), NEW shown,
         \A i \in DOMAIN commands : commands[i].z_order = Preserve,
         NEW S, NEW registered \in SUBSET S,
         NEW st \in Stack(S), ToSet(st) \subseteq registered
  PROVE  /\ apply_render_commands(st, commands, registered, shown) \in Stack(S)
         /\ ToSet(apply_render_commands(st, commands, registered, shown)) \subseteq registered
<1> DEFINE T == { s \in Stack(S) : ToSet(s) \subseteq registered }
<1>1. st \in T OBVIOUS
<1>2. ASSUME NEW s \in T, NEW c \in C PROVE Place(s, c, registered, shown) \in T
  <2>1. CASE c.id \notin registered BY <2>1 DEF Place
  <2>2. CASE c.id \in registered
    <3>1. /\ map_element(s, c.id) \in Stack(S) /\ ToSet(map_element(s, c.id)) = ToSet(s) \cup {c.id}
          /\ unmap_elem(s, c.id) \in Stack(S) /\ ToSet(unmap_elem(s, c.id)) = ToSet(s) \ {c.id}
      BY <2>2, SpaceStack
    <3>2. Place(s, c, registered, shown) \in {map_element(s, c.id), unmap_elem(s, c.id)}
      BY <2>2 DEF Place
    <3>3. QED BY <2>2, <3>1, <3>2
  <2>3. QED BY <2>1, <2>2
<1> HIDE DEF T
<1>3. PICK f \in [0..Len(commands) -> T] : Placing(f, st, commands, registered, shown)
  BY <1>1, <1>2, PlaceFold
<1>4. apply_render_commands(st, commands, registered, shown) = f[Len(commands)]
  BY <1>3 DEF apply_render_commands, Placing
<1>5. f[Len(commands)] \in T
  <2>1. Len(commands) \in 0..Len(commands) OBVIOUS
  <2>2. QED BY <2>1
<1>6. QED BY <1>4, <1>5 DEF T

LEMMA RenderFrameStep ==
  ASSUME WmAssumption, WmInv, RenderFrame
  PROVE  WmInv'
<1> DEFINE commands == IF is_wm_connected THEN start_render_phase(pending) ELSE on_render
<1>1. PICK shown \in SUBSET window_ids :
        stack' = apply_render_commands(stack, commands, window_ids, shown)
  BY DEF RenderFrame
<1>2. UNCHANGED <<window_ids, next_window_id, focus_stack, clientVars, borders>>
  BY DEF RenderFrame
<1> DEFINE C == { Fresh(by_age(window_ids)[i]) : i \in 1..Cardinality(window_ids) }
<1>3. commands \in Seq(C) /\ \A i \in DOMAIN commands : commands[i].z_order = Preserve
  <2>1. CASE is_wm_connected BY <2>1 DEF start_render_phase
  <2>2. CASE ~ is_wm_connected
    <3>1. Cardinality(window_ids) \in Nat
      BY FS_Subset, FS_CardinalityType DEF WmInv, CompositorInv, WmAssumption
    <3>2. commands = [i \in 1..Cardinality(window_ids) |-> Fresh(by_age(window_ids)[i])]
      BY <2>2 DEF on_render
    <3> HIDE DEF commands
    <3>3. commands \in Seq(C) BY <3>1, <3>2
    <3>4. ASSUME NEW i \in DOMAIN commands PROVE commands[i].z_order = Preserve
      <4>1. commands[i] = Fresh(by_age(window_ids)[i]) BY <3>2
      <4>2. QED BY <4>1 DEF Fresh
    <3>5. QED BY <3>3, <3>4
  <2>3. QED BY <2>1, <2>2
<1> HIDE DEF commands, C
<1>4. stack' \in Stack(Windows) /\ ToSet(stack') \subseteq window_ids
  BY <1>1, <1>3, PlacingRegistered DEF WmInv, CompositorInv
<1>5. CompositorInv' BY <1>2, <1>4 DEF WmInv, CompositorInv
<1>6. ObjectsInv' BY <1>2, ObjectsUnchanged DEF WmInv
<1>7. QED BY <1>5, <1>6 DEF WmInv

-----------------------------------------------------------------------------
(***************************************************************************)
(* External window managers.                                               *)
(***************************************************************************)

\* A WM that binds gets objects for windows that exist; what the WM before it
\* had, or nobody has since, is not used any more.
LEMMA BindStep ==
  ASSUME WmInv, NEW m \in Wms, bind(m)
  PROVE  WmInv'
<1> DEFINE objects == IF is_wm_connected THEN NoObjects ELSE window_objects
<1>1. /\ unbound' = unbound \ {m} /\ clients' = clients \cup {m} /\ managers' = managers \cup {m}
      /\ wm_client' = m
      /\ handles' = handles \cup ({m} \X existing_windows)
      /\ window_objects' = [w \in Windows |-> IF w \in existing_windows THEN m ELSE objects[w]]
      /\ borders' \subseteq borders
      /\ UNCHANGED <<window_ids, next_window_id, focus_stack, stack>>
  BY DEF bind, send_full_window_list, compositorVars
<1>2. CompositorInv' BY <1>1, CompositorUnchanged DEF WmInv
<1>3. existing_windows \subseteq window_ids /\ existing_windows \subseteq Windows
  BY DEF existing_windows, WmInv, CompositorInv
<1>4. \A w \in Windows : objects[w] = NoWm
  BY DEF NoObjects, is_wm_connected, WmInv, ObjectsInv, ObjectsOfCurrent
<1> HIDE DEF objects
<1>5. handles' \subseteq clients' \X Windows BY <1>1, <1>3 DEF WmInv, ObjectsInv
<1>6. window_objects' \in [Windows -> Wms \cup {NoWm}] BY <1>1, <1>4
<1>7. ObjectsOfCurrent'
  <2>1. ASSUME NEW w \in Windows, window_objects'[w] # NoWm
        PROVE  window_objects'[w] = m /\ <<m, w>> \in handles' /\ w \in window_ids'
    BY <1>1, <1>3, <1>4, <2>1
  <2>2. ASSUME NEW w \in borders' PROVE \E n \in clients' : <<n, w>> \in handles'
    BY <1>1, <2>2 DEF WmInv, ObjectsInv, ObjectsOfCurrent
  <2>3. QED BY <1>1, <2>1, <2>2 DEF ObjectsOfCurrent
<1>8. ObjectsInv' BY <1>1, <1>5, <1>6, <1>7 DEF WmInv, ObjectsInv
<1>9. QED BY <1>2, <1>8 DEF WmInv

\* The destructor of a manager object: whether it goes alone or with all that
\* its client has, no object of that client is used afterwards if that client
\* has none.
LEMMA ManagerGoneKeeps ==
  ASSUME WmInv, NEW m \in Wms, NEW gone \in SUBSET Windows, ManagerGone(m, gone),
         UNCHANGED <<window_ids, next_window_id, focus_stack, stack, unbound>>,
         \/ gone = {} /\ UNCHANGED <<clients, handles>>
         \/ /\ gone = { w \in Windows : <<m, w>> \in handles }
            /\ clients' = clients \ {m} /\ handles' = { h \in handles : h[1] # m }
  PROVE  WmInv'
<1> DEFINE current == m \in managers /\ wm_client = m
<1>1. /\ managers' = managers \ {m}
      /\ wm_client' = IF current THEN NoWm ELSE wm_client
      /\ window_objects' = IF current THEN NoObjects
                           ELSE [w \in Windows |-> IF w \in gone THEN NoWm ELSE window_objects[w]]
      /\ borders' = IF current THEN {} ELSE borders \ gone
  BY DEF ManagerGone
<1>2. CompositorInv' BY CompositorUnchanged DEF WmInv
<1>3. /\ managers' \subseteq clients' /\ clients' \subseteq Wms /\ unbound' \subseteq Wms
      /\ wm_client' \in Wms \cup {NoWm} /\ borders' \subseteq Windows
      /\ wm_client' # NoWm => wm_client' \in managers'
  BY <1>1 DEF WmInv, ObjectsInv
<1>4. handles' \subseteq clients' \X Windows
  <2>1. CASE UNCHANGED <<clients, handles>> BY <2>1 DEF WmInv, ObjectsInv
  <2>2. CASE clients' = clients \ {m} /\ handles' = { h \in handles : h[1] # m }
    BY <2>2 DEF WmInv, ObjectsInv
  <2>3. QED BY <2>1, <2>2
<1>5. window_objects' \in [Windows -> Wms \cup {NoWm}]
  BY <1>1 DEF NoObjects, WmInv, ObjectsInv
<1>6. \A w \in Windows, n \in Wms :
        (<<n, w>> \in handles /\ (n # m \/ w \notin gone)) => <<n, w>> \in handles'
  OBVIOUS
<1>7. ObjectsOfCurrent'
  <2>1. CASE current
    BY <1>1, <2>1 DEF NoObjects, ObjectsOfCurrent
  <2>2. CASE ~ current
    <3>1. wm_client' = wm_client /\ wm_client # NoWm => wm_client \in Wms
      BY <1>1, <2>2 DEF WmInv, ObjectsInv
    <3>2. ASSUME NEW w \in Windows, window_objects'[w] # NoWm
          PROVE  window_objects'[w] = wm_client' /\ <<wm_client', w>> \in handles' /\ w \in window_ids'
      <4>1. w \notin gone /\ window_objects'[w] = window_objects[w] BY <1>1, <2>2, <3>2
      <4>2. window_objects[w] = wm_client /\ <<wm_client, w>> \in handles /\ w \in window_ids
        BY <3>2, <4>1 DEF WmInv, ObjectsInv, ObjectsOfCurrent
      <4>3. wm_client \in Wms BY <4>2 DEF WmInv, ObjectsInv
      <4>4. QED BY <1>1, <1>6, <2>2, <4>1, <4>2, <4>3
    <3>3. ASSUME NEW w \in borders' PROVE \E n \in clients' : <<n, w>> \in handles'
      <4>1. w \in borders /\ w \notin gone /\ w \in Windows
        BY <1>1, <2>2, <3>3 DEF WmInv, ObjectsInv
      <4>2. PICK n \in clients : <<n, w>> \in handles
        BY <4>1 DEF WmInv, ObjectsInv, ObjectsOfCurrent
      <4>3. <<n, w>> \in handles' BY <1>6, <4>1, <4>2 DEF WmInv, ObjectsInv
      <4>4. QED BY <1>4, <4>3
    <3>4. QED BY <3>2, <3>3 DEF ObjectsOfCurrent
  <2>3. QED BY <2>1, <2>2
<1>8. ObjectsInv' BY <1>3, <1>4, <1>5, <1>7 DEF ObjectsInv
<1>9. QED BY <1>2, <1>8 DEF WmInv

LEMMA ManagerDestroyedStep ==
  ASSUME WmInv, NEW m \in Wms, ManagerDestroyed(m)
  PROVE  WmInv'
BY ManagerGoneKeeps DEF ManagerDestroyed, compositorVars

LEMMA DisconnectStep ==
  ASSUME WmInv, NEW m \in Wms, Disconnect(m)
  PROVE  WmInv'
<1>1. { w \in Windows : <<m, w>> \in handles } \in SUBSET Windows OBVIOUS
<1>2. QED BY <1>1, ManagerGoneKeeps DEF Disconnect, compositorVars

LEMMA WindowObjectDestroyedStep ==
  ASSUME WmInv, NEW m \in Wms, NEW w \in Windows, WindowObjectDestroyed(m, w)
  PROVE  WmInv'
<1>1. /\ handles' = handles \ {<<m, w>>}
      /\ window_objects' = [window_objects EXCEPT ![w] = NoWm]
      /\ borders' = borders \ {w}
      /\ UNCHANGED <<window_ids, next_window_id, focus_stack, stack>>
      /\ UNCHANGED <<wm_client, unbound, managers, clients>>
  BY DEF WindowObjectDestroyed, compositorVars
<1>2. CompositorInv' BY <1>1, CompositorUnchanged DEF WmInv
<1>3. ObjectsOfCurrent'
  BY <1>1 DEF WmInv, ObjectsInv, ObjectsOfCurrent
<1>4. ObjectsInv' BY <1>1, <1>3 DEF WmInv, ObjectsInv
<1>5. QED BY <1>2, <1>4 DEF WmInv

LEMMA FocusWindowStep ==
  ASSUME WmInv, NEW m \in Wms, NEW w \in Windows, focus_window(m, w)
  PROVE  WmInv'
<1>1. /\ w \in window_ids /\ stack' = raise_element(stack, w)
      /\ UNCHANGED <<window_ids, next_window_id, focus_stack, clientVars, borders>>
  BY DEF focus_window
<1>2. stack' \in Stack(Windows) /\ ToSet(stack') = ToSet(stack)
  BY <1>1, SpaceStack DEF WmInv, CompositorInv
<1>3. CompositorInv' BY <1>1, <1>2 DEF WmInv, CompositorInv
<1>4. ObjectsInv' BY <1>1, ObjectsUnchanged DEF WmInv
<1>5. QED BY <1>3, <1>4 DEF WmInv

LEMMA SetBordersStep ==
  ASSUME WmInv, NEW m \in Wms, NEW w \in Windows, set_borders(m, w)
  PROVE  WmInv'
<1>1. /\ <<m, w>> \in handles /\ (borders' = borders \cup {w} \/ borders' = borders \ {w})
      /\ UNCHANGED <<window_ids, next_window_id, focus_stack, stack>>
      /\ UNCHANGED <<wm_client, unbound, managers, clients, handles, window_objects>>
  BY DEF set_borders, compositorVars, clientVars
<1>2. CompositorInv' BY <1>1, CompositorUnchanged DEF WmInv
<1>3. m \in clients BY <1>1 DEF WmInv, ObjectsInv
<1>4. ObjectsOfCurrent'
  BY <1>1, <1>3 DEF WmInv, ObjectsInv, ObjectsOfCurrent
<1>5. ObjectsInv' BY <1>1, <1>4 DEF WmInv, ObjectsInv
<1>6. QED BY <1>2, <1>5 DEF WmInv

-----------------------------------------------------------------------------
(***************************************************************************)
(* The theorems.                                                           *)
(***************************************************************************)
LEMMA WmInitially ==
  ASSUME WmInit
  PROVE  WmInv
<1>1. <<>> \in Stack(Windows) /\ ToSet(<<>>) = {} BY DEF Stack, IsInjective, ToSet
<1>2. CompositorInv BY <1>1 DEF WmInit, CompositorInv
<1>3. ObjectsInv BY DEF WmInit, ObjectsInv, ObjectsOfCurrent, NoObjects
<1>4. QED BY <1>2, <1>3 DEF WmInv

LEMMA WmStep ==
  ASSUME WmAssumption, WmInv, [WmNext]_wmVars
  PROVE  WmInv'
<1>1. CASE new_toplevel \/ AltTab \/ RenderFrame
  BY <1>1, NewToplevelStep, AltTabStep, RenderFrameStep
<1>2. ASSUME NEW w \in Windows, AckConfigure(w) \/ toplevel_destroyed(w) \/ PointerPress(w)
      PROVE  WmInv'
  <2>1. CASE AckConfigure(w)
    BY <2>1, CompositorUnchanged, ObjectsUnchanged DEF AckConfigure, WmInv
  <2>2. QED BY <1>2, <2>1, ToplevelDestroyedStep, PointerPressStep
<1>3. ASSUME NEW m \in Wms, bind(m) \/ ManagerDestroyed(m) \/ Disconnect(m) \/ SeatRequest(m)
      PROVE  WmInv'
  <2>1. CASE SeatRequest(m)
    BY <2>1, CompositorUnchanged, ObjectsUnchanged DEF SeatRequest, compositorVars, WmInv
  <2>2. QED BY <1>3, <2>1, BindStep, ManagerDestroyedStep, DisconnectStep
<1>4. ASSUME NEW m \in Wms, NEW w \in Windows,
             WindowObjectDestroyed(m, w) \/ focus_window(m, w) \/ PlacementRequest(m, w) \/ set_borders(m, w)
      PROVE  WmInv'
  <2>1. CASE PlacementRequest(m, w)
    BY <2>1, CompositorUnchanged, ObjectsUnchanged DEF PlacementRequest, compositorVars, WmInv
  <2>2. QED BY <1>4, <2>1, WindowObjectDestroyedStep, FocusWindowStep, SetBordersStep
<1>5. CASE UNCHANGED wmVars
  BY <1>5, CompositorUnchanged, ObjectsUnchanged DEF wmVars, compositorVars, WmInv
<1>6. QED BY <1>1, <1>2, <1>3, <1>4, <1>5 DEF WmNext

\* The inductive invariant holds of every behaviour.
THEOREM WmInvariant == WmSpec => []WmInv
<1>1. WmInit => WmInv BY WmInitially
<1>2. WmInv /\ [WmNext]_wmVars => WmInv' BY WmStep, WmAssumption
<1>3. QED BY <1>1, <1>2, PTL DEF WmSpec

\* floating.rs: raising, cycling and closing windows in any order loses none
\* and doubles none, however many there are.
THEOREM EveryWindowHasItsFocusPlace == WmSpec => []FocusStackExact
<1>1. WmInv => FocusStackExact BY DEF WmInv, CompositorInv, FocusStackExact, Stack
<1>2. QED BY <1>1, WmInvariant, PTL

\* xdg_shell.rs and apply_render_commands: what is on the Space, and what has
\* the focus, is registered.
THEOREM ClosedWindowsStayClosed == WmSpec => []NoGhosts
<1>1. WmInv => NoGhosts BY DEF WmInv, CompositorInv, NoGhosts, Stack
<1>2. QED BY <1>1, WmInvariant, PTL

\* protocol.rs: binding, replacement, destructors and disconnections in any
\* order leave only objects of the WM in charge in use.
THEOREM EventsGoToTheWmInCharge == WmSpec => []ObjectsOfCurrent
<1>1. WmInv => ObjectsOfCurrent BY DEF WmInv, ObjectsInv
<1>2. QED BY <1>1, WmInvariant, PTL

-----------------------------------------------------------------------------
(***************************************************************************)
(* The layout of the tiling WM.  tile[n][r][across] is how a part r is     *)
(* shared by n windows; an induction over n goes by its two halves.        *)
(***************************************************************************)
Shared(tile, n, r, across) ==
  IF n = 1 THEN <<r>>
  ELSE tile[n \div 2][FirstHalf(r, n, across)][~ across]
       \o tile[n - n \div 2][SecondHalf(r, n, across)][~ across]

Sharing(tile, N) ==
  \A n \in 1..N : \A r \in Rects : \A across \in BOOLEAN : tile[n][r][across] = Shared(tile, n, r, across)

\* Half of a number of windows, and the rest of them.
LEMMA HalfOf ==
  ASSUME NEW n \in Nat, n >= 2
  PROVE  /\ n \div 2 \in 1..(n - 1) /\ n - n \div 2 \in 1..(n - 1)
         /\ n \div 2 <= n - n \div 2 /\ n - n \div 2 <= n \div 2 + 1
OBVIOUS

LEMMA LengthTyped ==
  ASSUME NEW length \in Int, NEW n \in Nat \ {0}
  PROVE  FirstLength(length, n) \in Int
<1>1. n \div 2 \in Int OBVIOUS
<1>2. \A a \in Int : a \div n \in Int /\ -a \in Int OBVIOUS
<1>3. \A a \in Int : Quotient(a, n) \in Int BY <1>2 DEF Quotient
<1>4. length * (n \div 2) \in Int BY <1>1
<1>5. Quotient(length * (n \div 2), n) \in Int BY <1>3, <1>4
<1> QED BY <1>5 DEF FirstLength, Gap

LEMMA HalvesTyped ==
  ASSUME NEW r \in Rects, NEW n \in Nat \ {0}, NEW across \in BOOLEAN
  PROVE  FirstHalf(r, n, across) \in Rects /\ SecondHalf(r, n, across) \in Rects
<1>1. r.x \in Int /\ r.y \in Int /\ r.w \in Int /\ r.h \in Int BY DEF Rects
<1>2. FirstLength(r.w, n) \in Int /\ FirstLength(r.h, n) \in Int BY <1>1, LengthTyped
<1>3. QED BY <1>1, <1>2 DEF FirstHalf, SecondHalf, Rects, Rect, Gap

\* The recursion has a solution, and bsp_layout is what it computes.
LEMMA BspShares ==
  ASSUME NEW N \in Nat \ {0}
  PROVE  \E tile : /\ Sharing(tile, N)
                   /\ \A area \in Rects : \A horizontal \in BOOLEAN :
                        bsp_layout(area, N, horizontal) = tile[N][area][horizontal]
<1> DEFINE Body(g, m) == [n \in 1..m |-> [r \in Rects |-> [across \in BOOLEAN |->
                           IF n = 1 THEN <<r>>
                           ELSE g[n \div 2][FirstHalf(r, n, across)][~ across]
                                \o g[n - n \div 2][SecondHalf(r, n, across)][~ across]]]]
           it == CHOOSE g : g = Body(g, N)
           P == { m \in 0..N : \E g : g = Body(g, m) }
<1> HIDE DEF P, it
<1>1. 0 \in P
  <2> DEFINE g == [n \in 1..0 |-> n]
  <2>1. 1..0 = {} /\ 0 \in 0..N OBVIOUS
  <2>2. g = Body(g, 0) BY <2>1
  <2> HIDE DEF g, Body
  <2>3. \E f : f = Body(f, 0) BY <2>2
  <2>4. QED BY <2>1, <2>3, Zenon DEF P
<1>2. ASSUME NEW m \in 1..N, m - 1 \in P PROVE m \in P
  <2> DEFINE Solved(f, k) == f = Body(f, k)
  <2>1. PICK g : Solved(g, m - 1) BY <1>2, Zenon DEF P
  <2> DEFINE h == Body(g, m)
  <2> HIDE DEF h
  <2>2. m \in Nat /\ m \in 0..N BY ONLY N \in Nat \ {0}, m \in 1..N
  <2>3. ASSUME NEW n \in 1..(m - 1) PROVE h[n] = g[n]
    <3>1. n \in 1..m BY ONLY <2>2, n \in 1..(m - 1)
    <3>2. h[n] = Body(g, m)[n] /\ g[n] = Body(g, m - 1)[n] BY <2>1, Zenon DEF h
    <3>3. QED BY <3>1, <3>2
  <2> HIDE DEF Solved
  <2>4. ASSUME NEW n \in 1..m, n # 1
        PROVE  h[n \div 2] = g[n \div 2] /\ h[n - n \div 2] = g[n - n \div 2]
    <3>1. n \in Nat /\ n >= 2 /\ n - 1 <= m - 1 BY ONLY <2>2, <2>4, n \in 1..m
    <3>2. n \div 2 \in 1..(n - 1) /\ n - n \div 2 \in 1..(n - 1) BY <3>1, HalfOf
    <3>3. \A k \in 1..(n - 1) : k \in 1..(m - 1) BY ONLY <2>2, <3>1
    <3>4. QED BY <2>3, <3>2, <3>3, Zenon
  <2>5. Solved(h, m)
    <3>1. \A n \in 1..m : Body(g, m)[n] = Body(h, m)[n] BY <2>4
    <3>2. QED BY <3>1, Zenon DEF h, Solved
  <2>6. \E f : f = Body(f, m) BY <2>5, Zenon DEF Solved
  <2>7. QED BY <2>2, <2>6, Zenon DEF P
<1>3. \E g : g = Body(g, N)
  <2>1. \A m \in 0..N : m \in P BY <1>1, <1>2, InductionTo
  <2>2. N \in P BY <2>1
  <2>3. QED BY <2>2, Zenon DEF P
<1>4. it = Body(it, N) BY <1>3, Zenon DEF it
<1>5. \A area : \A horizontal : bsp_layout(area, N, horizontal) = it[N][area][horizontal]
  BY DEF bsp_layout, it
<1>6. ASSUME NEW n \in 1..N, NEW r \in Rects, NEW across \in BOOLEAN
      PROVE  it[n][r][across] = Shared(it, n, r, across)
  <2>1. it[n] = Body(it, N)[n] BY <1>4, Zenon
  <2> HIDE DEF it
  <2>2. Body(it, N)[n][r][across] = Shared(it, n, r, across) BY Zenon DEF Shared
  <2>3. QED BY <2>1, <2>2, Zenon
<1>7. QED BY <1>5, <1>6 DEF Sharing

\* Areas add up: f[n] is that of the first n rectangles.
Slot(r) == (r.w + Gap) * (r.h + Gap)

Summing(f, rects) ==
  /\ f[0] = 0
  /\ \A n \in 1..Len(rects) : f[n] = f[n - 1] + Slot(rects[n])
  /\ GappedArea(rects) = f[Len(rects)]

LEMMA SlotTyped == ASSUME NEW r \in Rects PROVE Slot(r) \in Int
BY DEF Slot, Rects, Gap

LEMMA SumFold ==
  ASSUME NEW rects \in Seq(Rects)
  PROVE  \E f \in [0..Len(rects) -> Int] : Summing(f, rects)
<1> DEFINE N == Len(rects)
           step == [n \in 1..N |-> [sum \in Int |-> sum + Slot(rects[n])]]
           Body(h) == [s \in SUBSET DOMAIN rects |-> IF s = {} THEN 0
                        ELSE h[s \ {Max(s)}] + Slot(rects[Max(s)])]
           it == CHOOSE h : h = Body(h)
<1>1. N \in Nat /\ DOMAIN rects = 1..N /\ \A n \in 1..N : Slot(rects[n]) \in Int
  BY SlotTyped
<1>2. step \in [1..N -> [Int -> Int]] BY <1>1
<1> HIDE DEF N
<1>3. PICK g \in [SUBSET (1..N) -> Int] : Recursion(g, 0, step, 1..N)
  <2>1. 0 \in Int OBVIOUS
  <2> HIDE DEF step
  <2>2. QED BY <1>1, <1>2, <2>1, FoldExists, Zenon
<1>4. ASSUME NEW s \in SUBSET (1..N), s # {}
      PROVE  g[s] = g[s \ {Max(s)}] + Slot(rects[Max(s)])
  <2>1. Max(s) \in 1..N BY <1>1, <1>4, MaxOfPositions
  <2>2. g[s \ {Max(s)}] \in Int OBVIOUS
  <2>3. g[s] = step[Max(s)][g[s \ {Max(s)}]] BY <1>3, <1>4 DEF Recursion
  <2>4. QED BY <2>1, <2>2, <2>3
<1>5. g = Body(g)
  <2>1. {} \in SUBSET (1..N) OBVIOUS
  <2>2. g[{}] = 0 BY <1>3, <2>1 DEF Recursion
  <2>3. QED BY <1>1, <1>4, <2>2
<1>6. it = Body(it) BY <1>5
<1>7. GappedArea(rects) = it[1..N]
  BY <1>1 DEF GappedArea, FoldLeft, MapThenFoldSet, Slot
<1> HIDE DEF it, step
<1>8. it[1..0] = 0
  <2>1. 1..0 = {} /\ {} \in SUBSET DOMAIN rects OBVIOUS
  <2>2. QED BY <1>6, <2>1
<1>9. ASSUME NEW n \in 1..N PROVE it[1..n] = it[1..(n - 1)] + Slot(rects[n])
  <2>1. 1..n \in SUBSET DOMAIN rects /\ 1..n # {} /\ Max(1..n) = n /\ (1..n) \ {n} = 1..(n - 1)
    BY <1>1, Positions
  <2>2. QED BY <1>6, <2>1
<1> HIDE DEF Body
<1>10. \A n \in 0..N : it[1..n] \in Int
  <2> DEFINE P == { n \in 0..N : it[1..n] \in Int }
  <2>1. 0 \in P BY <1>1, <1>8
  <2>2. ASSUME NEW n \in 1..N, n - 1 \in P PROVE n \in P
    BY <1>1, <1>9, <2>2
  <2> HIDE DEF P
  <2>3. \A n \in 0..N : n \in P BY <1>1, <2>1, <2>2, InductionTo
  <2>4. QED BY <2>3 DEF P
<1> DEFINE f == [n \in 0..N |-> it[1..n]]
<1>11. f \in [0..N -> Int] BY <1>10
<1>12. f[0] = 0 BY <1>1, <1>8
<1>13. \A n \in 1..N : f[n] = f[n - 1] + Slot(rects[n])
  <2>1. \A n \in 1..N : n \in 0..N /\ n - 1 \in 0..N BY <1>1
  <2>2. QED BY <1>9, <2>1
<1>14. f[N] = it[1..N] BY <1>1
<1> HIDE DEF f
<1>15. Summing(f, rects) BY <1>7, <1>12, <1>13, <1>14 DEF N, Summing
<1>16. QED BY <1>11, <1>15 DEF N

LEMMA AreaOfOne == ASSUME NEW r \in Rects PROVE GappedArea(<<r>>) = Slot(r)
<1>1. <<r>> \in Seq(Rects) /\ Len(<<r>>) = 1 /\ <<r>>[1] = r OBVIOUS
<1>2. PICK f \in [0..1 -> Int] : Summing(f, <<r>>) BY <1>1, SumFold
<1>3. f[1] = f[0] + Slot(r) /\ f[0] = 0 BY <1>1, <1>2 DEF Summing
<1>4. Slot(r) \in Int BY SlotTyped
<1>5. QED BY <1>1, <1>2, <1>3, <1>4 DEF Summing

LEMMA AreaOfBoth ==
  ASSUME NEW a \in Seq(Rects), NEW b \in Seq(Rects)
  PROVE  /\ GappedArea(a) \in Int /\ GappedArea(b) \in Int
         /\ GappedArea(a \o b) = GappedArea(a) + GappedArea(b)
<1> DEFINE A == Len(a)
           B == Len(b)
           both == a \o b
<1>1. /\ A \in Nat /\ B \in Nat /\ both \in Seq(Rects) /\ Len(both) = A + B
      /\ \A n \in 1..A : both[n] = a[n] /\ a[n] \in Rects
      /\ \A n \in 1..B : both[A + n] = b[n] /\ b[n] \in Rects
  OBVIOUS
<1>2. PICK fa \in [0..A -> Int] : Summing(fa, a) BY SumFold
<1>3. PICK fb \in [0..B -> Int] : Summing(fb, b) BY SumFold
<1> HIDE DEF A, B, both
<1>4. PICK f \in [0..(A + B) -> Int] : Summing(f, both) BY <1>1, SumFold
<1>5. \A n \in 0..A : f[n] = fa[n]
  <2> DEFINE P == { n \in 0..A : f[n] = fa[n] }
  <2>1. 0 \in P BY <1>1, <1>2, <1>4 DEF Summing
  <2>2. ASSUME NEW n \in 1..A, n - 1 \in P PROVE n \in P
    <3>1. n \in 1..(A + B) /\ n \in 0..A BY <1>1
    <3>2. f[n] = f[n - 1] + Slot(both[n]) BY <1>1, <1>4, <3>1 DEF Summing
    <3>3. fa[n] = fa[n - 1] + Slot(a[n]) BY <1>2 DEF Summing, A
    <3>4. QED BY <1>1, <2>2, <3>1, <3>2, <3>3
  <2> HIDE DEF P
  <2>3. \A n \in 0..A : n \in P BY <1>1, <2>1, <2>2, InductionTo
  <2>4. QED BY <2>3 DEF P
<1>6. \A n \in 0..B : f[A + n] = fa[A] + fb[n]
  <2> DEFINE P == { n \in 0..B : f[A + n] = fa[A] + fb[n] }
  <2>0. fa[A] \in Int /\ A \in 0..A BY <1>1
  <2>1. 0 \in P BY <1>1, <1>3, <1>5, <2>0 DEF Summing
  <2>2. ASSUME NEW n \in 1..B, n - 1 \in P PROVE n \in P
    <3>1. A + n \in 1..(A + B) /\ n \in 0..B /\ A + n - 1 = A + (n - 1) BY <1>1
    <3>2. f[A + n] = f[A + (n - 1)] + Slot(both[A + n]) BY <1>1, <1>4, <3>1 DEF Summing
    <3>3. fb[n] = fb[n - 1] + Slot(b[n]) BY <1>3 DEF Summing, B
    <3>4. Slot(b[n]) \in Int /\ both[A + n] = b[n] BY <1>1, SlotTyped
    <3>5. fb[n - 1] \in Int BY <1>1
    <3>6. QED BY <2>0, <2>2, <3>1, <3>2, <3>3, <3>4, <3>5
  <2> HIDE DEF P
  <2>3. \A n \in 0..B : n \in P BY <1>1, <2>1, <2>2, InductionTo
  <2>4. QED BY <2>3 DEF P
<1>7. f[A + B] = fa[A] + fb[B] BY <1>1, <1>6
<1>8. fa[A] \in Int /\ fb[B] \in Int BY <1>1
<1>9. QED BY <1>1, <1>2, <1>3, <1>4, <1>7, <1>8 DEF Summing, A, B, both

-----------------------------------------------------------------------------
\* How a part is shared: nothing of it is lost, and nothing is outside it.
Within(s, r) == /\ s.x >= r.x /\ s.x + s.w <= r.x + r.w
                /\ s.y >= r.y /\ s.y + s.h <= r.y + r.h

HasSize(r) == r.w > 0 /\ r.h > 0

Sized(rects) == \A i \in DOMAIN rects : HasSize(rects[i])

Covers(rects, r) ==
  /\ \A i \in DOMAIN rects : Within(rects[i], r)
  /\ \A i, j \in DOMAIN rects : i < j => Apart(rects[i], rects[j])
  /\ GappedArea(rects) = Slot(r)

\* Two parts that make up a third one.
Halves(a, b, r) ==
  /\ Within(a, r) /\ Within(b, r)
  /\ a.x + a.w + Gap <= b.x \/ a.y + a.h + Gap <= b.y
  /\ Slot(a) + Slot(b) = Slot(r)

LEMMA HalvesOf ==
  ASSUME NEW r \in Rects, NEW n \in Nat \ {0}, NEW across \in BOOLEAN,
         HasSize(FirstHalf(r, n, across)), HasSize(SecondHalf(r, n, across))
  PROVE  HasSize(r) /\ Halves(FirstHalf(r, n, across), SecondHalf(r, n, across), r)
<1>1. r.x \in Int /\ r.y \in Int /\ r.w \in Int /\ r.h \in Int BY DEF Rects
<1>2. FirstLength(r.w, n) \in Int /\ FirstLength(r.h, n) \in Int BY <1>1, LengthTyped
<1>3. CASE across
  <2>1. PICK w \in Int : w = FirstLength(r.w, n) BY <1>2
  <2>2. /\ FirstHalf(r, n, across) = Rect(r.x, r.y, w, r.h)
        /\ SecondHalf(r, n, across) = Rect(r.x + w + Gap, r.y, r.w - w - Gap, r.h)
    BY <1>3, <2>1 DEF FirstHalf, SecondHalf
  <2>3. w > 0 /\ r.w - w - Gap > 0 /\ r.h > 0 BY <2>2 DEF HasSize, Rect
  <2>4. (w + Gap) * (r.h + Gap) + (r.w - w - Gap + Gap) * (r.h + Gap) = (r.w + Gap) * (r.h + Gap)
    BY <1>1 DEF Gap
  <2>5. QED BY <1>1, <2>2, <2>3, <2>4 DEF HasSize, Halves, Within, Slot, Rect, Gap
<1>4. CASE ~ across
  <2>1. PICK h \in Int : h = FirstLength(r.h, n) BY <1>2
  <2>2. /\ FirstHalf(r, n, across) = Rect(r.x, r.y, r.w, h)
        /\ SecondHalf(r, n, across) = Rect(r.x, r.y + h + Gap, r.w, r.h - h - Gap)
    BY <1>4, <2>1 DEF FirstHalf, SecondHalf
  <2>3. h > 0 /\ r.h - h - Gap > 0 /\ r.w > 0 BY <2>2 DEF HasSize, Rect
  <2>4. (r.w + Gap) * (h + Gap) + (r.w + Gap) * (r.h - h - Gap + Gap) = (r.w + Gap) * (r.h + Gap)
    BY <1>1 DEF Gap
  <2>5. QED BY <1>1, <2>2, <2>3, <2>4 DEF HasSize, Halves, Within, Slot, Rect, Gap
<1>5. QED BY <1>3, <1>4

LEMMA WithinPart ==
  ASSUME NEW s \in Rects, NEW a \in Rects, NEW r \in Rects, Within(s, a), Within(a, r)
  PROVE  Within(s, r)
<1>1. s.x \in Int /\ s.y \in Int /\ s.w \in Int /\ s.h \in Int BY DEF Rects
<1>2. a.x \in Int /\ a.y \in Int /\ a.w \in Int /\ a.h \in Int BY DEF Rects
<1>3. r.x \in Int /\ r.y \in Int /\ r.w \in Int /\ r.h \in Int BY DEF Rects
<1>4. QED BY <1>1, <1>2, <1>3 DEF Within

LEMMA PartsApart ==
  ASSUME NEW s \in Rects, NEW t \in Rects, NEW a \in Rects, NEW b \in Rects, Within(s, a), Within(t, b),
         a.x + a.w + Gap <= b.x \/ a.y + a.h + Gap <= b.y
  PROVE  Apart(s, t)
<1>1. s.x \in Int /\ s.y \in Int /\ s.w \in Int /\ s.h \in Int BY DEF Rects
<1>2. t.x \in Int /\ t.y \in Int /\ t.w \in Int /\ t.h \in Int BY DEF Rects
<1>3. a.x \in Int /\ a.y \in Int /\ a.w \in Int /\ a.h \in Int BY DEF Rects
<1>4. b.x \in Int /\ b.y \in Int /\ b.w \in Int /\ b.h \in Int BY DEF Rects
<1>5. QED BY <1>1, <1>2, <1>3, <1>4 DEF Within, Apart, Gap

LEMMA CoversBoth ==
  ASSUME NEW a \in Rects, NEW b \in Rects, NEW r \in Rects, Halves(a, b, r),
         NEW p \in Seq(Rects), NEW q \in Seq(Rects), Covers(p, a), Covers(q, b)
  PROVE  Covers(p \o q, r)
<1> DEFINE both == p \o q
<1>1. /\ both \in Seq(Rects) /\ Len(p) \in Nat /\ Len(q) \in Nat /\ DOMAIN both = 1..(Len(p) + Len(q))
      /\ \A i \in 1..Len(p) : both[i] = p[i] /\ p[i] \in Rects
      /\ \A i \in 1..Len(q) : both[Len(p) + i] = q[i] /\ q[i] \in Rects
      /\ DOMAIN p = 1..Len(p) /\ DOMAIN q = 1..Len(q)
  OBVIOUS
<1>2. GappedArea(both) = Slot(r) BY AreaOfBoth DEF Covers, Halves
<1> HIDE DEF both
<1>3. \A i \in DOMAIN both : i \in DOMAIN p \/ (i - Len(p) \in DOMAIN q /\ i = Len(p) + (i - Len(p)))
  BY <1>1
<1>a. /\ Within(a, r) /\ Within(b, r)
      /\ a.x + a.w + Gap <= b.x \/ a.y + a.h + Gap <= b.y
  BY DEF Halves
<1>4. ASSUME NEW s \in Rects, Within(s, a) \/ Within(s, b) PROVE Within(s, r)
  BY <1>4, <1>a, WithinPart
<1>5. ASSUME NEW i \in DOMAIN both PROVE Within(both[i], r)
  <2>1. CASE i \in DOMAIN p BY <1>1, <1>4, <2>1 DEF Covers
  <2>2. CASE i - Len(p) \in DOMAIN q /\ i = Len(p) + (i - Len(p))
    BY <1>1, <1>4, <2>2 DEF Covers
  <2>3. QED BY <1>3, <2>1, <2>2
<1>6. ASSUME NEW s \in Rects, NEW t \in Rects, Within(s, a), Within(t, b) PROVE Apart(s, t)
  BY <1>6, <1>a, PartsApart
<1>7. ASSUME NEW i \in DOMAIN both, NEW j \in DOMAIN both, i < j PROVE Apart(both[i], both[j])
  <2>0. i \in Nat /\ j \in Nat BY <1>1
  <2>1. CASE j \in DOMAIN p
    <3>1. i \in DOMAIN p BY <1>1, <1>7, <2>0, <2>1
    <3>2. QED BY <1>1, <1>7, <2>1, <3>1 DEF Covers
  <2>2. CASE i \in DOMAIN p /\ j - Len(p) \in DOMAIN q
    <3>1. both[i] = p[i] /\ both[j] = q[j - Len(p)] BY <1>1, <2>0, <2>2
    <3>2. Within(p[i], a) /\ Within(q[j - Len(p)], b) BY <2>2 DEF Covers
    <3>3. p[i] \in Rects /\ q[j - Len(p)] \in Rects BY <1>1, <2>2
    <3>4. QED BY <1>6, <3>1, <3>2, <3>3
  <2>3. CASE i - Len(p) \in DOMAIN q /\ j - Len(p) \in DOMAIN q
    <3>1. both[i] = q[i - Len(p)] /\ both[j] = q[j - Len(p)] BY <1>1, <2>0, <2>3
    <3>2. i - Len(p) < j - Len(p) BY <1>1, <1>7, <2>0
    <3>3. QED BY <2>3, <3>1, <3>2 DEF Covers
  <2>4. QED BY <1>1, <1>3, <1>7, <2>0, <2>1, <2>2, <2>3
<1>8. QED BY <1>2, <1>5, <1>7 DEF Covers, both

LEMMA CoversOne == ASSUME NEW r \in Rects PROVE Covers(<<r>>, r)
<1>1. DOMAIN <<r>> = {1} /\ <<r>>[1] = r OBVIOUS
<1>2. Within(r, r) BY DEF Within, Rects
<1>3. QED BY <1>1, <1>2, AreaOfOne DEF Covers

\* A part whose windows all have a size is covered by them.
SharedWell(tile, n) ==
  \A r \in Rects : \A across \in BOOLEAN :
    LET rects == tile[n][r][across]
    IN /\ rects \in Seq(Rects) /\ Len(rects) = n
       /\ Sized(rects) => HasSize(r) /\ Covers(rects, r)

LEMMA TilesCover ==
  ASSUME NEW N \in Nat, NEW tile, Sharing(tile, N)
  PROVE  \A n \in 1..N : SharedWell(tile, n)
<1> DEFINE P == { n \in 0..N : \A k \in 1..n : SharedWell(tile, k) }
<1>1. 0 \in P OBVIOUS
<1>2. ASSUME NEW n \in 1..N, n - 1 \in P PROVE n \in P
  <2>1. \A k \in 1..(n - 1) : SharedWell(tile, k) BY <1>2
  <2>2. ASSUME NEW r \in Rects, NEW across \in BOOLEAN, NEW rects, rects = tile[n][r][across]
        PROVE  /\ rects \in Seq(Rects) /\ Len(rects) = n
               /\ Sized(rects) => HasSize(r) /\ Covers(rects, r)
    <3>1. rects = Shared(tile, n, r, across) BY <2>2 DEF Sharing
    <3>2. CASE n = 1
      <4>1. rects = <<r>> BY <3>1, <3>2 DEF Shared
      <4>2. rects \in Seq(Rects) /\ Len(rects) = 1 /\ DOMAIN rects = {1} /\ rects[1] = r BY <4>1
      <4>3. Sized(rects) => HasSize(r) BY <4>2 DEF Sized
      <4>4. QED BY <3>2, <4>1, <4>2, <4>3, CoversOne
    <3>3. CASE n # 1
      <4> DEFINE a == FirstHalf(r, n, across)
                 b == SecondHalf(r, n, across)
                 p == tile[n \div 2][a][~ across]
                 q == tile[n - n \div 2][b][~ across]
      <4>1. n \in Nat \ {0} /\ n >= 2 BY <3>3
      <4>2. n \div 2 \in 1..(n - 1) /\ n - n \div 2 \in 1..(n - 1) BY <4>1, HalfOf
      <4>3. a \in Rects /\ b \in Rects BY <4>1, HalvesTyped
      <4>4. /\ p \in Seq(Rects) /\ Len(p) = n \div 2
            /\ Sized(p) => HasSize(a) /\ Covers(p, a)
        BY <2>1, <4>2, <4>3 DEF SharedWell
      <4>5. /\ q \in Seq(Rects) /\ Len(q) = n - n \div 2
            /\ Sized(q) => HasSize(b) /\ Covers(q, b)
        BY <2>1, <4>2, <4>3 DEF SharedWell
      <4>6. rects = p \o q BY <3>1, <3>3 DEF Shared
      <4>7. HasSize(a) /\ HasSize(b) => HasSize(r) /\ Halves(a, b, r)
        BY <4>1, HalvesOf
      <4> HIDE DEF a, b, p, q
      <4>8. Len(p) \in Nat /\ Len(q) \in Nat /\ Len(p) + Len(q) = n BY <4>1, <4>2, <4>4, <4>5
      <4>9. rects \in Seq(Rects) /\ Len(rects) = n
        <5>1. p \o q \in Seq(Rects) /\ Len(p \o q) = Len(p) + Len(q) BY <4>4, <4>5
        <5>2. QED BY <4>6, <4>8, <5>1
      <4>10. ASSUME Sized(rects) PROVE Sized(p) /\ Sized(q)
        <5>1. /\ \A i \in 1..Len(p) : i \in DOMAIN rects /\ rects[i] = p[i]
              /\ \A i \in 1..Len(q) : Len(p) + i \in DOMAIN rects /\ rects[Len(p) + i] = q[i]
          BY <4>4, <4>5, <4>6
        <5>2. DOMAIN p = 1..Len(p) /\ DOMAIN q = 1..Len(q) BY <4>4, <4>5
        <5>3. QED BY <4>10, <5>1, <5>2 DEF Sized
      <4>11. ASSUME Sized(rects) PROVE HasSize(r) /\ Covers(rects, r)
        <5>1. HasSize(r) /\ Halves(a, b, r) /\ Covers(p, a) /\ Covers(q, b)
          BY <4>4, <4>5, <4>7, <4>10, <4>11
        <5>2. QED BY <4>3, <4>4, <4>5, <4>6, <5>1, CoversBoth
      <4>12. QED BY <4>9, <4>11
    <3>4. QED BY <3>2, <3>3
  <2>3. SharedWell(tile, n) BY <2>2 DEF SharedWell
  <2>4. \A k \in 1..n : k \in 1..(n - 1) \/ k = n OBVIOUS
  <2>5. n \in 0..N OBVIOUS
  <2>6. QED BY <2>1, <2>3, <2>4, <2>5
<1> HIDE DEF P
<1>3. \A n \in 0..N : n \in P BY <1>1, <1>2, InductionTo
<1>4. N \in P BY <1>3
<1>5. QED BY <1>4 DEF P

-----------------------------------------------------------------------------
(***************************************************************************)
(* The room that is enough: for every window that is beside others a pixel *)
(* and a gap.                                                              *)
(***************************************************************************)
LEMMA TimesLess ==
  ASSUME NEW a \in Int, NEW b \in Int, NEW c \in Nat, a <= b
  PROVE  a * c <= b * c
<1>1. PICK d \in Nat : b = a + d
  <2>1. b - a \in Nat /\ b = a + (b - a) OBVIOUS
  <2>2. QED BY <2>1
<1>2. d * c \in Nat OBVIOUS
<1>3. b * c = a * c + d * c BY <1>1
<1>4. QED BY <1>2, <1>3

LEMMA Rounding ==
  ASSUME NEW a \in Int, NEW b \in Nat \ {0}, NEW m \in Int
  PROVE  /\ a \div b \in Int
         /\ m * b <= a => m <= a \div b
         /\ a < m * b => a \div b < m
<1>1. PICK q \in Int : q = a \div b OBVIOUS
<1>2. q * b <= a /\ a < (q + 1) * b BY <1>1
<1>3. ASSUME m * b <= a PROVE m <= q
  <2>1. ~ (q + 1 <= m) BY <1>2, <1>3, TimesLess
  <2>2. QED BY <2>1
<1>4. ASSUME a < m * b PROVE q < m
  <2>1. ~ (m <= q) BY <1>2, <1>4, TimesLess
  <2>2. QED BY <2>1
<1>5. QED BY <1>1, <1>3, <1>4

LEMMA RoomSplits ==
  ASSUME NEW n \in Nat, n >= 2, NEW length \in Int, length + Gap >= 5 * n
  PROVE  /\ FirstLength(length, n) + Gap >= 5 * (n \div 2)
         /\ length - FirstLength(length, n) >= 5 * (n - n \div 2)
<1>1. PICK f \in Nat : f = n \div 2 /\ f >= 1 /\ 2 * f <= n /\ n <= 2 * f + 1 OBVIOUS
<1>2. PICK s \in Nat : s = n - f /\ s >= 1 /\ 4 * s < 3 * n BY <1>1
<1>3. length - (5 * n - 4) \in Nat /\ length \in Nat BY DEF Gap
<1>4. PICK d \in Nat : length = 5 * n - 4 + d BY <1>3
<1>5. PICK q \in Int : q = (length * f) \div n BY <1>1, <1>3
<1>6. FirstLength(length, n) = q - 2
  <2>1. length * f \in Nat BY <1>1, <1>3
  <2>2. QED BY <1>1, <1>5, <2>1 DEF FirstLength, Quotient, Gap
<1>7. length * f \in Int /\ n \in Nat \ {0} BY <1>1, <1>3
<1>8. 5 * f - 2 <= q
  <2>1. (5 * f - 2) * n = 5 * (f * n) - 2 * n BY <1>1
  <2>2. length * f = 5 * (f * n) - 4 * f + d * f BY <1>1, <1>4
  <2>3. d * f \in Nat /\ f * n \in Nat BY <1>1, <1>4
  <2>4. (5 * f - 2) * n <= length * f BY <1>1, <2>1, <2>2, <2>3
  <2>5. 5 * f - 2 \in Int BY <1>1
  <2>6. QED BY <1>5, <1>7, <2>4, <2>5, Rounding
<1>9. q < length + 3 - 5 * s
  <2>1. (length + 3 - 5 * s) * n = length * n + 3 * n - 5 * (s * n) BY <1>2, <1>3
  <2>2. length * n = length * f + length * s BY <1>1, <1>2, <1>3
  <2>3. length * s = 5 * (s * n) - 4 * s + d * s BY <1>2, <1>4
  <2>4. d * s \in Nat /\ s * n \in Nat /\ length * f \in Int BY <1>1, <1>2, <1>3, <1>4
  <2>5. length * f < (length + 3 - 5 * s) * n
    <3>1. (length + 3 - 5 * s) * n = length * f + d * s + 3 * n - 4 * s
      BY <1>2, <2>1, <2>2, <2>3, <2>4
    <3>2. QED BY <1>2, <2>4, <3>1
  <2>6. length + 3 - 5 * s \in Int BY <1>2, <1>3
  <2>7. QED BY <1>5, <1>7, <2>5, <2>6, Rounding
<1>10. FirstLength(length, n) \in Int BY <1>6
<1>11. QED BY <1>1, <1>2, <1>3, <1>6, <1>8, <1>9 DEF Gap

HasRoom(r, n, across) ==
  LET beside == IF across THEN r.w ELSE r.h
      above  == IF across THEN r.h ELSE r.w
  IN beside + Gap >= 5 * n /\ above + Gap >= 5 * ((n + 1) \div 2)

LEMMA HalvesHaveRoom ==
  ASSUME NEW r \in Rects, NEW n \in Nat, n >= 2, NEW across \in BOOLEAN, HasRoom(r, n, across)
  PROVE  /\ HasRoom(FirstHalf(r, n, across), n \div 2, ~ across)
         /\ HasRoom(SecondHalf(r, n, across), n - n \div 2, ~ across)
<1>1. r.x \in Int /\ r.y \in Int /\ r.w \in Int /\ r.h \in Int BY DEF Rects
<1>2. PICK f \in Nat : f = n \div 2 /\ f >= 1 OBVIOUS
<1>3. PICK s \in Nat : s = n - f /\ s >= f /\ s >= 1 BY <1>2
<1>4. (n + 1) \div 2 = s /\ (s + 1) \div 2 <= s /\ (f + 1) \div 2 <= f BY <1>2, <1>3
<1>5. CASE across
  <2>1. r.w + Gap >= 5 * n /\ r.h + Gap >= 5 * s BY <1>4, <1>5 DEF HasRoom
  <2>2. PICK l \in Int : l = FirstLength(r.w, n) BY <1>1, LengthTyped
  <2>3. l + Gap >= 5 * f /\ r.w - l >= 5 * s BY <1>1, <1>2, <1>3, <2>1, <2>2, RoomSplits
  <2>4. HasRoom(Rect(r.x, r.y, l, r.h), f, FALSE)
    BY <1>1, <1>3, <1>4, <2>1, <2>3 DEF HasRoom, Rect, Gap
  <2>5. HasRoom(Rect(r.x + l + Gap, r.y, r.w - l - Gap, r.h), s, FALSE)
    BY <1>1, <1>3, <1>4, <2>1, <2>3 DEF HasRoom, Rect, Gap
  <2>6. QED BY <1>2, <1>3, <1>5, <2>2, <2>4, <2>5 DEF FirstHalf, SecondHalf
<1>6. CASE ~ across
  <2>1. r.h + Gap >= 5 * n /\ r.w + Gap >= 5 * s BY <1>4, <1>6 DEF HasRoom
  <2>2. PICK l \in Int : l = FirstLength(r.h, n) BY <1>1, LengthTyped
  <2>3. l + Gap >= 5 * f /\ r.h - l >= 5 * s BY <1>1, <1>2, <1>3, <2>1, <2>2, RoomSplits
  <2>4. HasRoom(Rect(r.x, r.y, r.w, l), f, TRUE)
    BY <1>1, <1>3, <1>4, <2>1, <2>3 DEF HasRoom, Rect, Gap
  <2>5. HasRoom(Rect(r.x, r.y + l + Gap, r.w, r.h - l - Gap), s, TRUE)
    BY <1>1, <1>3, <1>4, <2>1, <2>3 DEF HasRoom, Rect, Gap
  <2>6. QED BY <1>2, <1>3, <1>6, <2>2, <2>4, <2>5 DEF FirstHalf, SecondHalf
<1>7. QED BY <1>5, <1>6

SharedInRoom(tile, n) ==
  \A r \in Rects : \A across \in BOOLEAN : HasRoom(r, n, across) => Sized(tile[n][r][across])

LEMMA TilesHaveSize ==
  ASSUME NEW N \in Nat, NEW tile, Sharing(tile, N)
  PROVE  \A n \in 1..N : SharedInRoom(tile, n)
<1> DEFINE P == { n \in 0..N : \A k \in 1..n : SharedInRoom(tile, k) }
<1>1. 0 \in P OBVIOUS
<1>2. ASSUME NEW n \in 1..N, n - 1 \in P PROVE n \in P
  <2>1. \A k \in 1..(n - 1) : SharedInRoom(tile, k) BY <1>2
  <2>2. ASSUME NEW r \in Rects, NEW across \in BOOLEAN, HasRoom(r, n, across)
        PROVE  Sized(tile[n][r][across])
    <3> DEFINE rects == tile[n][r][across]
    <3>1. rects = Shared(tile, n, r, across) BY DEF Sharing
    <3>2. CASE n = 1
      <4>1. rects = <<r>> BY <3>1, <3>2 DEF Shared
      <4>2. DOMAIN rects = {1} /\ rects[1] = r BY <4>1
      <4>3. r.w \in Int /\ r.h \in Int BY DEF Rects
      <4>4. (1 + 1) \div 2 = 1 OBVIOUS
      <4>5. HasSize(r) BY <2>2, <3>2, <4>3, <4>4 DEF HasSize, HasRoom, Gap
      <4>6. QED BY <4>2, <4>5 DEF Sized
    <3>3. CASE n # 1
      <4> DEFINE a == FirstHalf(r, n, across)
                 b == SecondHalf(r, n, across)
                 p == tile[n \div 2][a][~ across]
                 q == tile[n - n \div 2][b][~ across]
      <4>1. n \in Nat \ {0} /\ n >= 2 BY <3>3
      <4>2. n \div 2 \in 1..(n - 1) /\ n - n \div 2 \in 1..(n - 1) BY <4>1, HalfOf
      <4>3. a \in Rects /\ b \in Rects BY <4>1, HalvesTyped
      <4>4. HasRoom(a, n \div 2, ~ across) /\ HasRoom(b, n - n \div 2, ~ across)
        BY <2>2, <4>1, HalvesHaveRoom
      <4>5. Sized(p) /\ Sized(q) BY <2>1, <4>2, <4>3, <4>4 DEF SharedInRoom
      <4>6. n \div 2 \in 1..N /\ n - n \div 2 \in 1..N BY <4>2
      <4>7. p \in Seq(Rects) /\ q \in Seq(Rects) BY <4>3, <4>6, TilesCover DEF SharedWell
      <4>8. rects = p \o q BY <3>1, <3>3 DEF Shared
      <4> HIDE DEF a, b, p, q, rects
      <4>9. /\ DOMAIN p = 1..Len(p) /\ DOMAIN q = 1..Len(q) /\ Len(p) \in Nat /\ Len(q) \in Nat
            /\ DOMAIN (p \o q) = 1..(Len(p) + Len(q))
            /\ \A i \in 1..Len(p) : (p \o q)[i] = p[i]
            /\ \A i \in 1..Len(q) : (p \o q)[Len(p) + i] = q[i]
        BY <4>7
      <4>10. \A i \in DOMAIN (p \o q) : i \in DOMAIN p \/ (i - Len(p) \in DOMAIN q /\ i = Len(p) + (i - Len(p)))
        BY <4>9
      <4>11. QED BY <4>5, <4>8, <4>9, <4>10 DEF Sized, rects
    <3>4. QED BY <3>2, <3>3
  <2>3. SharedInRoom(tile, n) BY <2>2 DEF SharedInRoom
  <2>4. \A k \in 1..n : k \in 1..(n - 1) \/ k = n OBVIOUS
  <2>5. n \in 0..N OBVIOUS
  <2>6. QED BY <2>1, <2>3, <2>4, <2>5
<1> HIDE DEF P
<1>3. \A n \in 0..N : n \in P BY <1>1, <1>2, InductionTo
<1>4. N \in P BY <1>3
<1>5. QED BY <1>4 DEF P

-----------------------------------------------------------------------------
(***************************************************************************)
(* The layout of a screen.                                                 *)
(***************************************************************************)
Area(display) == Rect(Gap, Gap, display.w - 2 * Gap, display.h - 2 * Gap)

LEMMA AreaTyped == ASSUME NEW display \in [w : Int, h : Int] PROVE Area(display) \in Rects
BY DEF Area, Rect, Rects, Gap

LEMMA LayoutTyped ==
  ASSUME NEW n \in Nat, NEW display \in [w : Int, h : Int]
  PROVE  calculate_layout(display, n) \in Seq(Rects) /\ Len(calculate_layout(display, n)) = n
<1>1. CASE n = 0
  <2>1. calculate_layout(display, n) = <<>> BY <1>1 DEF calculate_layout
  <2>2. <<>> \in Seq(Rects) /\ Len(<<>>) = 0 OBVIOUS
  <2>3. QED BY <1>1, <2>1, <2>2, Zenon
<1>2. CASE n # 0
  <2>1. n \in Nat \ {0} /\ n \in 1..n BY <1>2
  <2>2. PICK tile : Sharing(tile, n) /\ \A area \in Rects : \A horizontal \in BOOLEAN :
                      bsp_layout(area, n, horizontal) = tile[n][area][horizontal]
    BY <2>1, BspShares
  <2>3. Area(display) \in Rects BY AreaTyped
  <2>4. calculate_layout(display, n) = tile[n][Area(display)][TRUE]
    BY <1>2, <2>2, <2>3 DEF calculate_layout, Area
  <2>5. SharedWell(tile, n) BY <2>1, <2>2, TilesCover
  <2>6. tile[n][Area(display)][TRUE] \in Seq(Rects) /\ Len(tile[n][Area(display)][TRUE]) = n
    BY <2>3, <2>5 DEF SharedWell
  <2>7. QED BY <2>4, <2>6, Zenon
<1>3. QED BY <1>1, <1>2

\* Unless the screen is so small that some window is left without a size, the
\* windows tile it, whatever its size and their number: the divisions, which
\* round, and the odd window of an uneven half lose no pixel, put no window on
\* another and leave none out (bsp_layout).
THEOREM SizedLayoutsTile ==
  ASSUME NEW n \in Nat, NEW display \in [w : Int, h : Int], Sized(calculate_layout(display, n))
  PROVE  Len(calculate_layout(display, n)) = n /\ IsTiling(calculate_layout(display, n), display)
<1>1. CASE n = 0
  <2>1. calculate_layout(display, n) = <<>> BY <1>1 DEF calculate_layout
  <2>2. QED BY <1>1, <2>1 DEF IsTiling
<1>2. CASE n # 0
  <2> DEFINE r == Area(display)
             rects == calculate_layout(display, n)
  <2>1. n \in Nat \ {0} /\ n \in 1..n BY <1>2
  <2>2. PICK tile : Sharing(tile, n) /\ \A area \in Rects : \A horizontal \in BOOLEAN :
                      bsp_layout(area, n, horizontal) = tile[n][area][horizontal]
    BY <2>1, BspShares
  <2>3. r \in Rects BY AreaTyped
  <2>4. rects = tile[n][r][TRUE] BY <1>2, <2>2, <2>3 DEF calculate_layout, Area
  <2>5. SharedWell(tile, n) BY <2>1, <2>2, TilesCover
  <2>6. Len(rects) = n /\ rects \in Seq(Rects) /\ Covers(rects, r)
    BY <2>3, <2>4, <2>5 DEF SharedWell
  <2>7. \A i \in DOMAIN rects : rects[i] \in Rects BY <2>6
  <2> HIDE DEF rects
  <2>8. display.w \in Int /\ display.h \in Int OBVIOUS
  <2>9. ASSUME NEW i \in DOMAIN rects PROVE Inside(rects[i], display)
    <3>1. PICK s \in Rects : s = rects[i] BY <2>7
    <3>2. s.x \in Int /\ s.y \in Int /\ s.w \in Int /\ s.h \in Int BY DEF Rects
    <3>3. Within(s, r) /\ HasSize(s) BY <2>6, <3>1 DEF Covers, Sized, rects
    <3>4. Inside(s, display) BY <2>8, <3>2, <3>3 DEF Within, HasSize, Inside, Area, Rect, Gap
    <3>5. QED BY <3>1, <3>4
  <2>10. Slot(r) = (display.w - Gap) * (display.h - Gap)
    <3>1. display.w - 2 * Gap + Gap = display.w - Gap /\ display.h - 2 * Gap + Gap = display.h - Gap
      BY <2>8 DEF Gap
    <3>2. QED BY <3>1 DEF Slot, Area, Rect
  <2>11. IsTiling(rects, display) BY <2>6, <2>9, <2>10 DEF Covers, IsTiling
  <2>12. QED BY <2>6, <2>11 DEF rects
<1>3. QED BY <1>1, <1>2

\* A screen is large enough with five pixels across for each of the windows
\* and five down for each of half of them: one of a window, four of a gap.
THEOREM RoomyLayoutsHaveSize ==
  ASSUME NEW n \in Nat, NEW display \in [w : Int, h : Int],
         display.w >= 5 * n + Gap, display.h >= 5 * ((n + 1) \div 2) + Gap
  PROVE  Sized(calculate_layout(display, n))
<1>1. CASE n = 0
  <2>1. calculate_layout(display, n) = <<>> BY <1>1 DEF calculate_layout
  <2>2. QED BY <2>1 DEF Sized
<1>2. CASE n # 0
  <2>1. n \in Nat \ {0} /\ n \in 1..n BY <1>2
  <2>2. PICK tile : Sharing(tile, n) /\ \A area \in Rects : \A horizontal \in BOOLEAN :
                      bsp_layout(area, n, horizontal) = tile[n][area][horizontal]
    BY <2>1, BspShares
  <2>3. Area(display) \in Rects BY AreaTyped
  <2>4. calculate_layout(display, n) = tile[n][Area(display)][TRUE]
    BY <1>2, <2>2, <2>3 DEF calculate_layout, Area
  <2>5. SharedInRoom(tile, n) BY <2>1, <2>2, TilesHaveSize
  <2>6. display.w \in Int /\ display.h \in Int /\ (n + 1) \div 2 \in Int OBVIOUS
  <2>7. HasRoom(Area(display), n, TRUE) BY <2>6 DEF HasRoom, Area, Rect, Gap
  <2>8. QED BY <2>3, <2>4, <2>5, <2>7 DEF SharedInRoom
<1>3. QED BY <1>1, <1>2

LayoutTypes == screen \in Screens /\ count \in 0..MaxWindows

\* However many windows are opened on a screen with room for them, they tile
\* it (calculate_layout).
THEOREM WindowsTileTheScreen == LayoutSpec => []LayoutTiles
<1>1. LayoutInit => LayoutTypes BY LayoutAssumption DEF LayoutInit, LayoutTypes
<1>2. LayoutTypes /\ [Open]_<<screen, count>> => LayoutTypes'
  BY LayoutAssumption DEF LayoutTypes, Open, Screens
<1>3. ASSUME LayoutTypes PROVE LayoutTiles
  <2>1. count \in Nat /\ count <= MaxWindows /\ MaxWindows \in Nat BY <1>3, LayoutAssumption DEF LayoutTypes
  <2>2. screen.w \in Widths /\ screen.h \in Heights /\ screen = [w |-> screen.w, h |-> screen.h]
    BY <1>3 DEF LayoutTypes, Screens
  <2>3. /\ screen.w \in Nat /\ screen.w >= 5 * MaxWindows + Gap
        /\ screen.h \in Nat /\ screen.h >= 5 * ((MaxWindows + 1) \div 2) + Gap
    BY <2>2, LayoutAssumption
  <2>4. (count + 1) \div 2 <= (MaxWindows + 1) \div 2 BY <2>1
  <2>5. screen.w >= 5 * count + Gap /\ screen.h >= 5 * ((count + 1) \div 2) + Gap
    BY <2>1, <2>3, <2>4 DEF Gap
  <2>6. screen \in [w : Int, h : Int] BY <2>2, <2>3
  <2>7. QED BY <2>1, <2>5, <2>6, RoomyLayoutsHaveSize, SizedLayoutsTile DEF LayoutTiles
<1>4. QED BY <1>1, <1>2, <1>3, PTL DEF LayoutSpec

-----------------------------------------------------------------------------
(***************************************************************************)
(* The list of windows.                                                    *)
(***************************************************************************)
Filtering(f, list, kept) ==
  /\ f[0] = <<>>
  /\ \A n \in 1..Len(list) : f[n] = (IF list[n] \in kept THEN Append(f[n - 1], list[n]) ELSE f[n - 1])
  /\ Filtered(list, kept) = f[Len(list)]

LEMMA FilteredFold ==
  ASSUME NEW C, NEW kept, NEW list \in Seq(C)
  PROVE  \E f \in [0..Len(list) -> Seq(C)] : Filtering(f, list, kept)
<1> DEFINE N == Len(list)
           T == Seq(C)
<1>0. <<>> \in T /\ \A st \in T, c \in C : (IF c \in kept THEN Append(st, c) ELSE st) \in T OBVIOUS
<1> HIDE DEF T
<1> DEFINE step == [n \in 1..N |-> [st \in T |-> (IF list[n] \in kept THEN Append(st, list[n]) ELSE st)]]
           Body(h) == [s \in SUBSET DOMAIN list |-> IF s = {} THEN <<>>
                        ELSE (IF list[Max(s)] \in kept THEN Append(h[s \ {Max(s)}], list[Max(s)]) ELSE h[s \ {Max(s)}])]
           it == CHOOSE h : h = Body(h)
<1>1. N \in Nat /\ DOMAIN list = 1..N /\ \A n \in 1..N : list[n] \in C OBVIOUS
<1>2. step \in [1..N -> [T -> T]] BY <1>0, <1>1
<1> HIDE DEF N
<1>3. PICK g \in [SUBSET (1..N) -> T] : Recursion(g, <<>>, step, 1..N)
  BY <1>0, <1>1, <1>2, FoldExists
<1>4. ASSUME NEW s \in SUBSET (1..N), s # {}
      PROVE  g[s] = (IF list[Max(s)] \in kept THEN Append(g[s \ {Max(s)}], list[Max(s)]) ELSE g[s \ {Max(s)}])
  <2>1. Max(s) \in 1..N BY <1>1, <1>4, MaxOfPositions
  <2>2. g[s \ {Max(s)}] \in T OBVIOUS
  <2>3. g[s] = step[Max(s)][g[s \ {Max(s)}]] BY <1>3, <1>4 DEF Recursion
  <2>4. QED BY <2>1, <2>2, <2>3
<1>5. g = Body(g)
  <2>1. {} \in SUBSET (1..N) OBVIOUS
  <2>2. g[{}] = <<>> BY <1>3, <2>1, Zenon DEF Recursion
  <2>3. QED BY <1>1, <1>4, <2>2
<1>6. it = Body(it) BY <1>5, Zenon
<1>7. Filtered(list, kept) = it[1..N]
  BY <1>1 DEF Filtered, FoldLeft, MapThenFoldSet
<1> HIDE DEF it, step
<1>8. it[1..0] = <<>>
  <2>1. 1..0 = {} /\ {} \in SUBSET DOMAIN list OBVIOUS
  <2>2. QED BY <1>6, <2>1
<1>9. ASSUME NEW n \in 1..N
      PROVE  it[1..n] = (IF list[n] \in kept THEN Append(it[1..(n - 1)], list[n]) ELSE it[1..(n - 1)])
  <2>1. 1..n \in SUBSET DOMAIN list /\ 1..n # {} /\ Max(1..n) = n /\ (1..n) \ {n} = 1..(n - 1)
    BY <1>1, Positions
  <2>2. QED BY <1>6, <2>1
<1> HIDE DEF Body
<1>10. \A n \in 0..N : it[1..n] \in T
  <2> DEFINE P == { n \in 0..N : it[1..n] \in T }
  <2>1. 0 \in P BY <1>0, <1>1, <1>8
  <2>2. ASSUME NEW n \in 1..N, n - 1 \in P PROVE n \in P
    BY <1>0, <1>1, <1>9, <2>2
  <2> HIDE DEF P
  <2>3. \A n \in 0..N : n \in P BY <1>1, <2>1, <2>2, InductionTo
  <2>4. QED BY <2>3 DEF P
<1> DEFINE f == [n \in 0..N |-> it[1..n]]
<1>11. f \in [0..N -> T] BY <1>10
<1>12. f[0] = <<>> BY <1>1, <1>8
<1>13. \A n \in 1..N : f[n] = (IF list[n] \in kept THEN Append(f[n - 1], list[n]) ELSE f[n - 1])
  <2>1. \A n \in 1..N : n \in 0..N /\ n - 1 \in 0..N BY <1>1
  <2>2. QED BY <1>9, <2>1
<1>14. f[N] = it[1..N] BY <1>1
<1> HIDE DEF f
<1>15. Filtering(f, list, kept) BY <1>7, <1>12, <1>13, <1>14 DEF N, Filtering
<1>16. QED BY <1>11, <1>15 DEF N, T

LEMMA FilteredStack ==
  ASSUME NEW S, NEW list \in Stack(S), NEW kept
  PROVE  Filtered(list, kept) \in Stack(S) /\ ToSet(Filtered(list, kept)) = ToSet(list) \cap kept
<1>0. list \in Seq(S) BY DEF Stack
<1>1. PICK f \in [0..Len(list) -> Seq(S)] : Filtering(f, list, kept)
  BY <1>0, FilteredFold
<1> DEFINE N == Len(list)
<1>2. /\ f \in [0..N -> Seq(S)] /\ f[0] = <<>>
      /\ \A n \in 1..N : f[n] = (IF list[n] \in kept THEN Append(f[n - 1], list[n]) ELSE f[n - 1])
      /\ Filtered(list, kept) = f[N]
  BY <1>1 DEF Filtering
<1>3. list \in Seq(S) /\ IsInjective(list) /\ DOMAIN list = 1..N /\ N \in Nat BY DEF Stack
<1> HIDE DEF N
<1> DEFINE Seen(n) == { list[i] : i \in 1..n }
           P == { n \in 0..N : f[n] \in Stack(S) /\ ToSet(f[n]) = Seen(n) \cap kept }
<1>5. 0 \in P
  <2>1. <<>> \in Stack(S) /\ ToSet(<<>>) = {} BY DEF Stack, IsInjective, ToSet
  <2>2. Seen(0) = {} OBVIOUS
  <2>3. QED BY <1>3, <1>2, <2>1, <2>2
<1>6. ASSUME NEW n \in 1..N, n - 1 \in P PROVE n \in P
  <2>1. n \in 0..N /\ f[n - 1] \in Stack(S) /\ ToSet(f[n - 1]) = Seen(n - 1) \cap kept BY <1>3, <1>6
  <2>2. 1..n = (1..(n - 1)) \cup {n} BY <1>3
  <2>3. Seen(n) = Seen(n - 1) \cup {list[n]} BY <2>2
  <2>4. CASE list[n] \notin kept
    <3>1. f[n] = f[n - 1] BY <1>2, <2>4
    <3>2. Seen(n) \cap kept = Seen(n - 1) \cap kept BY <2>3, <2>4
    <3>3. QED BY <2>1, <3>1, <3>2
  <2>5. CASE list[n] \in kept
    <3>1. f[n] = Append(f[n - 1], list[n]) BY <1>2, <2>5
    <3>2. list[n] \in S BY <1>3
    <3>3. list[n] \notin Seen(n - 1)
      <4> SUFFICES ASSUME NEW i \in 1..(n - 1), list[i] = list[n] PROVE FALSE OBVIOUS
      <4>1. i \in 1..N /\ i # n BY <1>3
      <4>2. QED BY <1>3, <4>1 DEF IsInjective
    <3> HIDE DEF Seen
    <3>4. f[n] \in Stack(S) /\ ToSet(f[n]) = (Seen(n - 1) \cap kept) \cup {list[n]}
      BY <2>1, <3>1, <3>2, <3>3, AppendStack
    <3>5. QED BY <2>1, <2>3, <2>5, <3>4
  <2>6. QED BY <2>4, <2>5
<1>7. Seen(N) = ToSet(list) BY <1>3 DEF ToSet
<1> HIDE DEF P, Seen
<1>8. \A n \in 0..N : n \in P BY <1>3, <1>5, <1>6, InductionTo
<1>9. N \in P BY <1>3, <1>8
<1>10. QED BY <1>2, <1>7, <1>9 DEF P

-----------------------------------------------------------------------------
(***************************************************************************)
(* The tiling WM's invariant.                                              *)
(***************************************************************************)
EventKinds   == {"window_new", "window_closed", "manage_start", "render_start", "output_new"}
EventSet     == [kind : EventKinds, w : Tiles \cup {None}]
RequestSet   == [kind : {"propose_dimensions", "set_position"}, w : Tiles, rect : Rects]

TilingTypes ==
  /\ open \in Stack(Tiles) /\ windows \in Stack(Tiles) /\ bound \in BOOLEAN
  /\ events \in Seq(EventSet) /\ requests \in Seq(RequestSet)
  /\ output \in [w : Int, h : Int] /\ size \in [Tiles -> [w : Int, h : Int]]

\* The WM hears of a window once, after it was opened.
Announced ==
  /\ ToSet(open) \cap unopened = {} /\ ToSet(windows) \cap unopened = {}
  /\ \A i \in 1..Len(events) : events[i].kind = "window_new" =>
       /\ events[i].w \in Tiles \ (unopened \cup ToSet(windows))
       /\ \A j \in 1..Len(events) : events[j].kind = "window_new" /\ events[j].w = events[i].w => j = i

\* Of a window that it hears of it hears again when it is closed.
Closes(j, w) == events[j].kind = "window_closed" /\ events[j].w = w

Closed ==
  /\ \A w \in ToSet(windows) \ ToSet(open) : \E j \in 1..Len(events) : Closes(j, w)
  /\ \A i \in 1..Len(events) : events[i].kind = "window_new" /\ events[i].w \notin ToSet(open) =>
       \E j \in 1..Len(events) : j > i /\ Closes(j, events[i].w)

\* It hears of the output before anything else.
OutputFirst ==
  /\ \A i \in 1..Len(events) : events[i].kind = "output_new" => i = 1
  /\ IF bound THEN output = Output \/ (Len(events) > 0 /\ events[1].kind = "output_new")
              ELSE events = <<>> /\ windows = <<>> /\ requests = <<>> /\ changed = "no"

\* The last proposal under way for a window, or else its size, is what the
\* layout says, unless the user has snapped the window since.
Proposes(r, w) == r.kind = "propose_dimensions" /\ r.w = w

Fits(i) ==
  LET fit == calculate_layout(Output, Len(windows))[i]
  IN \E k \in 0..Len(requests) :
       /\ \A j \in 1..Len(requests) : j > k => ~ Proposes(requests[j], windows[i])
       /\ k = 0 => windows[i] \in snapped \/ size[windows[i]] = [w |-> fit.w, h |-> fit.h]
       /\ k > 0 => Proposes(requests[k], windows[i]) /\ requests[k].rect = fit

\* After a window was opened a manage phase is still to come ...
ManageDue ==
  \E m \in 1..Len(events) :
    events[m].kind = "manage_start" /\ \A j \in 1..Len(events) : j > m => events[j].kind = "render_start"

\* ... or the WM has made its proposals.
Managed ==
  /\ \A j \in 1..Len(events) : events[j].kind = "render_start"
  /\ \A i \in 1..Len(windows) : Fits(i)

RetilePending == changed = "opened" => ManageDue \/ Managed

TilingInv == TilingTypes /\ Announced /\ Closed /\ OutputFirst /\ RetilePending

LEMMA TailFacts ==
  ASSUME NEW S, NEW q \in Seq(S), q # <<>>
  PROVE  /\ Len(q) \in Nat \ {0} /\ Head(q) = q[1] /\ q[1] \in S
         /\ Tail(q) \in Seq(S) /\ Len(Tail(q)) = Len(q) - 1
         /\ \A k \in 1..(Len(q) - 1) : Tail(q)[k] = q[k + 1]
OBVIOUS

LEMMA JoinFacts ==
  ASSUME NEW S, NEW p \in Seq(S), NEW q \in Seq(S)
  PROVE  /\ p \o q \in Seq(S) /\ Len(p \o q) = Len(p) + Len(q) /\ Len(p) \in Nat /\ Len(q) \in Nat
         /\ \A i \in 1..Len(p) : (p \o q)[i] = p[i]
         /\ \A i \in 1..Len(q) : (p \o q)[Len(p) + i] = q[i]
OBVIOUS

\* An event is taken from the head of the queue.
LEMMA TakeFacts ==
  ASSUME TilingInv, NEW kind, Take(kind)
  PROVE  /\ Len(events) \in Nat \ {0} /\ Len(events') = Len(events) - 1 /\ events' \in Seq(EventSet)
         /\ Head(events) = events[1] /\ events[1].kind = kind /\ events[1] \in EventSet
         /\ \A i \in 1..Len(events') : i + 1 \in 1..Len(events) /\ events'[i] = events[i + 1]
         /\ \A i \in 1..Len(events) : i > 1 => i - 1 \in 1..Len(events') /\ events'[i - 1] = events[i]
<1>1. events \in Seq(EventSet) /\ events # <<>> /\ events' = Tail(events) /\ Head(events).kind = kind
  BY DEF TilingInv, TilingTypes, Take
<1>2. /\ Len(events) \in Nat \ {0} /\ Head(events) = events[1] /\ events[1] \in EventSet
      /\ events' \in Seq(EventSet) /\ Len(events') = Len(events) - 1
      /\ \A k \in 1..(Len(events) - 1) : events'[k] = events[k + 1]
  BY <1>1, TailFacts
<1>3. \A i \in 1..Len(events') : i + 1 \in 1..Len(events) /\ events'[i] = events[i + 1] BY <1>2
<1>4. \A i \in 1..Len(events) : i > 1 => i - 1 \in 1..Len(events') /\ events'[i - 1] = events[i] BY <1>2
<1>5. QED BY <1>1, <1>2, <1>3, <1>4

LEMMA TakeKeeps ==
  ASSUME TilingInv, NEW kind, Take(kind)
  PROVE  /\ bound
         /\ \A i \in 1..Len(events') : events'[i].kind # "output_new"
         /\ kind # "output_new" => output = Output
         /\ Managed => kind = "render_start"
         /\ ManageDue /\ kind # "manage_start" => ManageDue'
<1>1. /\ Len(events) \in Nat \ {0} /\ Len(events') = Len(events) - 1
      /\ events[1].kind = kind /\ 1 \in 1..Len(events)
      /\ \A i \in 1..Len(events') : i \in Nat /\ i + 1 \in 1..Len(events) /\ events'[i] = events[i + 1]
      /\ \A i \in 1..Len(events) : i > 1 => i - 1 \in 1..Len(events') /\ events'[i - 1] = events[i]
  BY TakeFacts
<1>2. events # <<>> BY DEF Take
<1>3. bound BY <1>2 DEF TilingInv, OutputFirst
<1>4. ASSUME NEW i \in 1..Len(events') PROVE events'[i].kind # "output_new"
  <2>1. i + 1 \in 1..Len(events) /\ i + 1 # 1 /\ events'[i] = events[i + 1] BY <1>1
  <2>2. QED BY <2>1 DEF TilingInv, OutputFirst
<1>5. kind # "output_new" => output = Output BY <1>1, <1>3 DEF TilingInv, OutputFirst
<1>6. Managed => kind = "render_start" BY <1>1 DEF Managed
<1>7. ASSUME ManageDue, kind # "manage_start" PROVE ManageDue'
  <2>1. PICK m \in 1..Len(events) : events[m].kind = "manage_start"
                                    /\ \A j \in 1..Len(events) : j > m => events[j].kind = "render_start"
    BY <1>7 DEF ManageDue
  <2>2. m > 1 BY <1>1, <1>7, <2>1
  <2>3. m - 1 \in 1..Len(events') /\ events'[m - 1].kind = "manage_start" BY <1>1, <2>1, <2>2
  <2>4. ASSUME NEW j \in 1..Len(events'), j > m - 1 PROVE events'[j].kind = "render_start"
    <3>1. j + 1 \in 1..Len(events) /\ j + 1 > m /\ events'[j] = events[j + 1] BY <1>1, <2>4
    <3>2. QED BY <2>1, <3>1
  <2>5. QED BY <2>3, <2>4 DEF ManageDue
<1>8. QED BY <1>3, <1>4, <1>5, <1>6, <1>7

\* What the rest of the queue says of windows and their ends.
LEMMA TakeWindows ==
  ASSUME TilingInv, NEW kind, Take(kind), UNCHANGED <<unopened, open>>
  PROVE  /\ \A i \in 1..Len(events') : events'[i].kind = "window_new" =>
              /\ events'[i].w \in Tiles \ (unopened \cup ToSet(windows))
              /\ kind = "window_new" => events'[i].w # events[1].w
              /\ \A j \in 1..Len(events') : events'[j].kind = "window_new" /\ events'[j].w = events'[i].w => j = i
         /\ \A i \in 1..Len(events') : events'[i].kind = "window_new" /\ events'[i].w \notin ToSet(open) =>
              \E j \in 1..Len(events') : j > i /\ events'[j].kind = "window_closed" /\ events'[j].w = events'[i].w
         /\ \A w \in ToSet(windows) \ ToSet(open) :
              (kind = "window_closed" => events[1].w # w) => \E j \in 1..Len(events') : events'[j].kind = "window_closed" /\ events'[j].w = w
<1>1. /\ Len(events) \in Nat \ {0} /\ events[1].kind = kind /\ 1 \in 1..Len(events)
      /\ \A i \in 1..Len(events') : i \in Nat /\ i + 1 \in 1..Len(events) /\ events'[i] = events[i + 1]
      /\ \A i \in 1..Len(events) : i \in Nat /\ (i > 1 => i - 1 \in 1..Len(events') /\ events'[i - 1] = events[i])
  BY TakeFacts
<1>2. ASSUME NEW i \in 1..Len(events'), events'[i].kind = "window_new"
      PROVE  /\ events'[i].w \in Tiles \ (unopened \cup ToSet(windows))
             /\ kind = "window_new" => events'[i].w # events[1].w
             /\ \A j \in 1..Len(events') : events'[j].kind = "window_new" /\ events'[j].w = events'[i].w => j = i
  <2>1. i + 1 \in 1..Len(events) /\ i + 1 # 1 /\ events[i + 1] = events'[i] BY <1>1
  <2>2. /\ events[i + 1].w \in Tiles \ (unopened \cup ToSet(windows))
        /\ \A j \in 1..Len(events) : events[j].kind = "window_new" /\ events[j].w = events[i + 1].w => j = i + 1
    BY <1>2, <2>1 DEF TilingInv, Announced
  <2>3. kind = "window_new" => events'[i].w # events[1].w BY <1>1, <2>1, <2>2
  <2>4. ASSUME NEW j \in 1..Len(events'), events'[j].kind = "window_new", events'[j].w = events'[i].w PROVE j = i
    <3>1. j + 1 \in 1..Len(events) /\ events[j + 1] = events'[j] BY <1>1
    <3>2. j + 1 = i + 1 BY <2>1, <2>2, <2>4, <3>1
    <3>3. QED BY <3>2
  <2>5. QED BY <2>1, <2>2, <2>3, <2>4
<1>3. ASSUME NEW i \in 1..Len(events'), events'[i].kind = "window_new", events'[i].w \notin ToSet(open)
      PROVE  \E j \in 1..Len(events') : j > i /\ events'[j].kind = "window_closed" /\ events'[j].w = events'[i].w
  <2>1. i + 1 \in 1..Len(events) /\ events[i + 1] = events'[i] BY <1>1
  <2>2. PICK j \in 1..Len(events) : j > i + 1 /\ Closes(j, events[i + 1].w) BY <1>3, <2>1 DEF TilingInv, Closed
  <2>3. j > 1 /\ j - 1 > i BY <1>1, <2>2
  <2>4. QED BY <1>1, <2>1, <2>2, <2>3 DEF Closes
<1>4. ASSUME NEW w \in ToSet(windows) \ ToSet(open), kind = "window_closed" => events[1].w # w
      PROVE  \E j \in 1..Len(events') : events'[j].kind = "window_closed" /\ events'[j].w = w
  <2>1. PICK j \in 1..Len(events) : Closes(j, w) BY DEF TilingInv, Closed
  <2>2. j # 1 BY <1>1, <1>4, <2>1 DEF Closes
  <2>3. j - 1 \in 1..Len(events') /\ events'[j - 1] = events[j] BY <1>1, <2>2
  <2>4. QED BY <2>1, <2>3 DEF Closes
<1>5. QED BY <1>2, <1>3, <1>4

-----------------------------------------------------------------------------
(***************************************************************************)
(* The WM takes an event.                                                  *)
(***************************************************************************)

\* An event that is about the list of windows or the output.
LEMMA TakeOther ==
  ASSUME TilingInv, NEW kind, Take(kind), kind \notin {"manage_start", "render_start"}, changed' = changed
  PROVE  RetilePending'
<1>1. ASSUME changed = "opened" PROVE ManageDue'
  <2>1. ManageDue \/ Managed BY <1>1 DEF TilingInv, RetilePending
  <2>2. QED BY <2>1, TakeKeeps
<1>2. QED BY <1>1 DEF RetilePending

LEMMA WindowNewInv == ASSUME TilingInv, WindowNew PROVE TilingInv'
<1> DEFINE w == events[1].w
<1>1. /\ Take("window_new") /\ windows' = Append(windows, Head(events).w)
      /\ UNCHANGED <<unopened, open, bound, requests, output, size, snapped, position, changed, frames>>
  BY DEF WindowNew
<1>2. /\ Len(events) \in Nat \ {0} /\ events' \in Seq(EventSet) /\ Head(events) = events[1]
      /\ events[1].kind = "window_new" /\ 1 \in 1..Len(events)
      /\ \A i \in 1..Len(events) : i > 1 => i - 1 \in 1..Len(events') /\ events'[i - 1] = events[i]
  BY <1>1, TakeFacts
<1>3. w \in Tiles \ (unopened \cup ToSet(windows)) BY <1>2 DEF TilingInv, Announced
<1>4. windows \in Stack(Tiles) BY DEF TilingInv, TilingTypes
<1>5. windows' \in Stack(Tiles) /\ ToSet(windows)' = ToSet(windows) \cup {w}
  <2>1. windows' = Append(windows, w) BY <1>1, <1>2
  <2> HIDE DEF w
  <2>2. QED BY <1>3, <1>4, <2>1, AppendStack
<1>6. TilingTypes' BY <1>1, <1>2, <1>5 DEF TilingInv, TilingTypes
<1>7. \A i \in 1..Len(events') : events'[i].kind = "window_new" =>
              /\ events'[i].w \in Tiles \ (unopened \cup ToSet(windows))
              /\ events'[i].w # w
              /\ \A j \in 1..Len(events') : events'[j].kind = "window_new" /\ events'[j].w = events'[i].w => j = i
  BY <1>1, TakeWindows
<1>8. Announced'
  <2>1. ToSet(open)' \cap unopened' = {} /\ ToSet(windows)' \cap unopened' = {}
    BY <1>1, <1>3, <1>5 DEF TilingInv, Announced
  <2>2. QED BY <1>1, <1>5, <1>7, <2>1 DEF Announced
<1>9. ASSUME NEW v \in ToSet(windows)' \ ToSet(open)'
      PROVE  \E j \in 1..Len(events') : events'[j].kind = "window_closed" /\ events'[j].w = v
  <2>1. CASE v = w
    <3>1. w \notin ToSet(open) BY <1>1, <1>9, <2>1
    <3>2. PICK j \in 1..Len(events) : j > 1 /\ Closes(j, w) BY <1>2, <3>1 DEF TilingInv, Closed
    <3>3. QED BY <1>2, <2>1, <3>2 DEF Closes
  <2>2. CASE v # w
    <3>1. v \in ToSet(windows) \ ToSet(open) BY <1>1, <1>5, <1>9, <2>2
    <3>2. QED BY <1>1, <3>1, TakeWindows
  <2>3. QED BY <2>1, <2>2
<1>10. \A i \in 1..Len(events') : events'[i].kind = "window_new" /\ events'[i].w \notin ToSet(open) =>
         \E j \in 1..Len(events') : j > i /\ events'[j].kind = "window_closed" /\ events'[j].w = events'[i].w
  BY <1>1, TakeWindows
<1>11. Closed' BY <1>1, <1>9, <1>10 DEF Closed, Closes
<1>12. OutputFirst' BY <1>1, TakeKeeps DEF OutputFirst
<1>13. RetilePending' BY <1>1, TakeOther
<1>14. QED BY <1>6, <1>8, <1>11, <1>12, <1>13 DEF TilingInv

LEMMA WindowClosedInv == ASSUME TilingInv, WindowClosed PROVE TilingInv'
<1> DEFINE w == events[1].w
<1>1. /\ Take("window_closed") /\ windows' = Filtered(windows, Tiles \ {Head(events).w})
      /\ UNCHANGED <<unopened, open, bound, requests, output, size, snapped, position, changed, frames>>
  BY DEF WindowClosed
<1>2. events' \in Seq(EventSet) /\ Head(events) = events[1] BY <1>1, TakeFacts
<1>3. windows \in Stack(Tiles) BY DEF TilingInv, TilingTypes
<1>4. windows' \in Stack(Tiles) /\ ToSet(windows)' = ToSet(windows) \ {w}
  <2>1. windows' = Filtered(windows, Tiles \ {w}) BY <1>1, <1>2
  <2>2. ToSet(windows) \subseteq Tiles BY <1>3 DEF Stack, ToSet
  <2> HIDE DEF w
  <2>3. windows' \in Stack(Tiles) /\ ToSet(windows)' = ToSet(windows) \cap (Tiles \ {w})
    BY <1>3, <2>1, FilteredStack
  <2>4. QED BY <2>2, <2>3
<1>5. TilingTypes' BY <1>1, <1>2, <1>4 DEF TilingInv, TilingTypes
<1>6. \A i \in 1..Len(events') : events'[i].kind = "window_new" =>
              /\ events'[i].w \in Tiles \ (unopened \cup ToSet(windows))
              /\ \A j \in 1..Len(events') : events'[j].kind = "window_new" /\ events'[j].w = events'[i].w => j = i
  BY <1>1, TakeWindows
<1>7. Announced'
  <2>1. ToSet(open)' \cap unopened' = {} /\ ToSet(windows)' \cap unopened' = {}
    BY <1>1, <1>4 DEF TilingInv, Announced
  <2>2. QED BY <1>1, <1>4, <1>6, <2>1 DEF Announced
<1>8. ASSUME NEW v \in ToSet(windows)' \ ToSet(open)'
      PROVE  \E j \in 1..Len(events') : events'[j].kind = "window_closed" /\ events'[j].w = v
  <2>1. v \in ToSet(windows) \ ToSet(open) /\ v # events[1].w BY <1>1, <1>4, <1>8
  <2>2. QED BY <1>1, <2>1, TakeWindows
<1>9. \A i \in 1..Len(events') : events'[i].kind = "window_new" /\ events'[i].w \notin ToSet(open) =>
         \E j \in 1..Len(events') : j > i /\ events'[j].kind = "window_closed" /\ events'[j].w = events'[i].w
  BY <1>1, TakeWindows
<1>10. Closed' BY <1>1, <1>8, <1>9 DEF Closed, Closes
<1>11. OutputFirst' BY <1>1, TakeKeeps DEF OutputFirst
<1>12. RetilePending' BY <1>1, TakeOther
<1>13. QED BY <1>5, <1>7, <1>10, <1>11, <1>12 DEF TilingInv

\* Of the others the books of windows are not touched.
LEMMA TakeBooks ==
  ASSUME TilingInv, NEW kind, Take(kind), kind # "window_closed", UNCHANGED <<unopened, open, windows>>
  PROVE  Announced' /\ Closed'
<1>1. \A i \in 1..Len(events') : events'[i].kind = "window_new" =>
              /\ events'[i].w \in Tiles \ (unopened \cup ToSet(windows))
              /\ \A j \in 1..Len(events') : events'[j].kind = "window_new" /\ events'[j].w = events'[i].w => j = i
  BY TakeWindows
<1>2. Announced'
  <2>1. ToSet(open)' \cap unopened' = {} /\ ToSet(windows)' \cap unopened' = {}
    BY DEF TilingInv, Announced
  <2>2. QED BY <1>1, <2>1 DEF Announced
<1>3. \A v \in ToSet(windows) \ ToSet(open) :
        \E j \in 1..Len(events') : events'[j].kind = "window_closed" /\ events'[j].w = v
  BY TakeWindows
<1>4. \A i \in 1..Len(events') : events'[i].kind = "window_new" /\ events'[i].w \notin ToSet(open) =>
         \E j \in 1..Len(events') : j > i /\ events'[j].kind = "window_closed" /\ events'[j].w = events'[i].w
  BY TakeWindows
<1>5. Closed' BY <1>3, <1>4 DEF Closed, Closes
<1>6. QED BY <1>2, <1>5

LEMMA OutputNewInv == ASSUME TilingInv, OutputNew PROVE TilingInv'
<1>1. /\ Take("output_new") /\ output' = Output
      /\ UNCHANGED <<unopened, open, bound, requests, windows, size, snapped, position, changed, frames>>
  BY DEF OutputNew
<1>2. events' \in Seq(EventSet) BY <1>1, TakeFacts
<1>3. TilingTypes' BY <1>1, <1>2, TilingAssumption DEF TilingInv, TilingTypes
<1>4. Announced' /\ Closed' BY <1>1, TakeBooks
<1>5. OutputFirst' BY <1>1, TakeKeeps DEF OutputFirst
<1>6. RetilePending' BY <1>1, TakeOther
<1>7. QED BY <1>3, <1>4, <1>5, <1>6 DEF TilingInv

\* What the WM asks for: something of each window.
LEMMA AskFacts ==
  ASSUME TilingTypes, NEW kind \in {"propose_dimensions", "set_position"}
  PROVE  /\ Ask(kind) \in Seq(RequestSet) /\ Len(Ask(kind)) = Len(windows) /\ Len(windows) \in Nat
         /\ \A i \in 1..Len(windows) :
              /\ Ask(kind)[i].kind = kind /\ Ask(kind)[i].w = windows[i]
              /\ Ask(kind)[i].rect = calculate_layout(output, Len(windows))[i]
<1> DEFINE n == Len(windows)
           layout == calculate_layout(output, n)
<1>1. windows \in Seq(Tiles) BY DEF TilingTypes, Stack
<1>2. n \in Nat /\ DOMAIN windows = 1..n /\ \A i \in 1..n : windows[i] \in Tiles BY <1>1
<1>3. layout \in Seq(Rects) /\ Len(layout) = n BY <1>2, LayoutTyped DEF TilingTypes
<1>4. \A i \in 1..n : layout[i] \in Rects BY <1>3
<1> HIDE DEF layout, n
<1>5. Ask(kind) = [i \in 1..n |-> [kind |-> kind, w |-> windows[i], rect |-> layout[i]]]
  BY <1>2 DEF Ask, layout, n
<1>6. \A i \in 1..n : [kind |-> kind, w |-> windows[i], rect |-> layout[i]] \in RequestSet
  BY <1>2, <1>4 DEF RequestSet
<1>7. Ask(kind) \in Seq(RequestSet) /\ Len(Ask(kind)) = n BY <1>2, <1>5, <1>6
<1>8. QED BY <1>2, <1>5, <1>7 DEF layout, n

LEMMA ManageStartInv == ASSUME TilingInv, ManageStart PROVE TilingInv'
<1> DEFINE ask == Ask("propose_dimensions")
           R == Len(requests)
<1>1. /\ Take("manage_start") /\ requests' = requests \o ask
      /\ UNCHANGED <<unopened, open, bound, windows, output, size, snapped, position, changed, frames>>
  BY DEF ManageStart
<1>2. /\ events' \in Seq(EventSet) /\ events[1].kind = "manage_start"
      /\ Len(events) \in Nat \ {0}
      /\ \A i \in 1..Len(events') : i \in Nat /\ i + 1 \in 1..Len(events) /\ events'[i] = events[i + 1]
  BY <1>1, TakeFacts
<1>3. /\ ask \in Seq(RequestSet) /\ Len(ask) = Len(windows) /\ Len(windows) \in Nat
      /\ \A i \in 1..Len(windows) :
           /\ ask[i].kind = "propose_dimensions" /\ ask[i].w = windows[i]
           /\ ask[i].rect = calculate_layout(output, Len(windows))[i]
  BY AskFacts DEF TilingInv
<1>4. requests \in Seq(RequestSet) BY DEF TilingInv, TilingTypes
<1> HIDE DEF ask
<1>5. /\ requests' \in Seq(RequestSet) /\ Len(requests') = R + Len(windows) /\ R \in Nat
      /\ \A i \in 1..Len(windows) : requests'[R + i] = ask[i]
  <2> DEFINE both == requests \o ask
  <2>1. /\ both \in Seq(RequestSet) /\ Len(both) = Len(requests) + Len(ask) /\ Len(requests) \in Nat
        /\ \A i \in 1..Len(ask) : both[Len(requests) + i] = ask[i]
    <3>1. ask \in Seq(RequestSet) BY <1>3
    <3>2. QED BY ONLY <3>1, <1>4, JoinFacts
  <2> HIDE DEF both
  <2>2. requests' = both BY <1>1 DEF both
  <2>3. QED BY <1>3, <2>1, <2>2
<1> HIDE DEF R
<1>6. TilingTypes' BY <1>1, <1>2, <1>5 DEF TilingInv, TilingTypes
<1>7. Announced' /\ Closed' BY <1>1, TakeBooks
<1>8. OutputFirst' BY <1>1, TakeKeeps DEF OutputFirst
<1>9. output = Output BY <1>1, TakeKeeps
<1>10. ASSUME NEW i \in 1..Len(windows) PROVE Fits(i)'
  <2> DEFINE fit == calculate_layout(Output, Len(windows))[i]
             k == R + i
  <2>1. k \in 0..Len(requests') /\ k > 0 BY <1>3, <1>5
  <2>2. requests'[k].kind = "propose_dimensions" /\ requests'[k].w = windows[i] /\ requests'[k].rect = fit
    BY <1>3, <1>5, <1>9
  <2>3. ASSUME NEW j \in 1..Len(requests'), j > k PROVE requests'[j].w # windows[i]
    <3>1. j - R \in 1..Len(windows) /\ j = R + (j - R) /\ j - R # i BY <1>3, <1>5, <2>3
    <3>2. requests'[j].w = windows[j - R] BY <1>3, <1>5, <3>1
    <3>3. IsInjective(windows) /\ DOMAIN windows = 1..Len(windows) BY DEF TilingInv, TilingTypes, Stack
    <3>4. QED BY <3>1, <3>2, <3>3 DEF IsInjective
  <2> HIDE DEF k, fit
  <2>4. QED BY <1>1, <2>1, <2>2, <2>3 DEF Fits, Proposes, fit
<1>11. ASSUME changed = "opened" PROVE ManageDue' \/ Managed'
  <2>1. PICK m \in 1..Len(events) : events[m].kind = "manage_start"
                                    /\ \A j \in 1..Len(events) : j > m => events[j].kind = "render_start"
    <3>1. ManageDue BY <1>1, <1>11, TakeKeeps DEF TilingInv, RetilePending
    <3>2. QED BY <3>1 DEF ManageDue
  <2>2. CASE m = 1
    <3>1. ASSUME NEW j \in 1..Len(events') PROVE events'[j].kind = "render_start"
      <4>1. j + 1 \in 1..Len(events) /\ j + 1 > 1 /\ events'[j] = events[j + 1] BY <1>2
      <4>2. QED BY <2>1, <2>2, <4>1
    <3>2. QED BY <1>1, <1>10, <3>1 DEF Managed
  <2>3. CASE m # 1
    <3>1. m - 1 \in 1..Len(events') /\ events'[m - 1] = events[m] BY <1>1, <2>3, TakeFacts
    <3>2. ASSUME NEW j \in 1..Len(events'), j > m - 1 PROVE events'[j].kind = "render_start"
      <4>1. j + 1 \in 1..Len(events) /\ j + 1 > m /\ events'[j] = events[j + 1] BY <1>2, <3>2
      <4>2. QED BY <2>1, <4>1
    <3>3. QED BY <2>1, <3>1, <3>2 DEF ManageDue
  <2>4. QED BY <2>2, <2>3
<1>12. RetilePending' BY <1>1, <1>11 DEF RetilePending
<1>13. QED BY <1>6, <1>7, <1>8, <1>12 DEF TilingInv

\* A window keeps what it is to be when nothing is proposed for it.
LEMMA FitsKept ==
  ASSUME TilingTypes, NEW more \in Seq(RequestSet), requests' = requests \o more,
         \A i \in 1..Len(more) : more[i].kind # "propose_dimensions",
         UNCHANGED <<windows, size, snapped>>, NEW i \in 1..Len(windows), Fits(i)
  PROVE  Fits(i)'
<1> DEFINE fit == calculate_layout(Output, Len(windows))[i]
           R == Len(requests)
<1>1. PICK k \in 0..R :
        /\ \A j \in 1..R : j > k => ~ Proposes(requests[j], windows[i])
        /\ k = 0 => windows[i] \in snapped \/ size[windows[i]] = [w |-> fit.w, h |-> fit.h]
        /\ k > 0 => Proposes(requests[k], windows[i]) /\ requests[k].rect = fit
  BY DEF Fits
<1>2. requests \in Seq(RequestSet) BY DEF TilingTypes
<1>3. /\ Len(requests') = R + Len(more) /\ R \in Nat /\ Len(more) \in Nat
      /\ \A j \in 1..R : requests'[j] = requests[j]
      /\ \A j \in 1..Len(more) : requests'[R + j] = more[j]
  BY <1>2, JoinFacts
<1> HIDE DEF R
<1>4. k \in 0..Len(requests') BY <1>3
<1>5. ASSUME NEW j \in 1..Len(requests'), j > k PROVE ~ Proposes(requests'[j], windows[i])
  <2>1. CASE j <= R BY <1>1, <1>3, <1>5, <2>1
  <2>2. CASE j > R
    <3>1. j - R \in 1..Len(more) /\ j = R + (j - R) BY <1>3, <2>2
    <3>2. requests'[j].kind # "propose_dimensions" BY <1>3, <3>1
    <3>3. QED BY <3>2 DEF Proposes
  <2>3. QED BY <1>3, <2>1, <2>2
<1>6. k > 0 => requests'[k] = requests[k] BY <1>3
<1> HIDE DEF fit
<1>7. QED BY <1>1, <1>4, <1>5, <1>6 DEF Fits, fit

LEMMA RenderStartInv == ASSUME TilingInv, RenderStart PROVE TilingInv'
<1> DEFINE ask == Ask("set_position")
<1>1. /\ Take("render_start") /\ requests' = requests \o ask
      /\ UNCHANGED <<unopened, open, bound, windows, output, size, snapped, position, changed, frames>>
  BY DEF RenderStart
<1>2. /\ events' \in Seq(EventSet)
      /\ \A i \in 1..Len(events') : i + 1 \in 1..Len(events) /\ events'[i] = events[i + 1]
  BY <1>1, TakeFacts
<1>3. /\ ask \in Seq(RequestSet)
      /\ \A i \in 1..Len(ask) : ask[i].kind # "propose_dimensions"
  BY AskFacts DEF TilingInv
<1>4. requests \in Seq(RequestSet) /\ TilingTypes BY DEF TilingInv, TilingTypes
<1> HIDE DEF ask
<1>5. requests' \in Seq(RequestSet) BY <1>1, <1>3, <1>4, JoinFacts
<1>6. TilingTypes' BY <1>1, <1>2, <1>5 DEF TilingInv, TilingTypes
<1>7. Announced' /\ Closed' BY <1>1, TakeBooks
<1>8. OutputFirst' BY <1>1, TakeKeeps DEF OutputFirst
<1>9. ASSUME Managed PROVE Managed'
  <2>1. \A i \in 1..Len(windows) : Fits(i)' BY <1>1, <1>3, <1>4, <1>9, FitsKept DEF Managed
  <2>2. \A j \in 1..Len(events') : events'[j].kind = "render_start" BY <1>2, <1>9 DEF Managed
  <2>3. QED BY <1>1, <2>1, <2>2 DEF Managed
<1>10. RetilePending' BY <1>1, <1>9, TakeKeeps DEF TilingInv, RetilePending
<1>11. QED BY <1>6, <1>7, <1>8, <1>10 DEF TilingInv

-----------------------------------------------------------------------------
(***************************************************************************)
(* The compositor.                                                         *)
(***************************************************************************)
LEMMA DispatchFits ==
  ASSUME TilingInv, DispatchRequest, Managed, NEW i \in 1..Len(windows)
  PROVE  Fits(i)'
<1> DEFINE fit == calculate_layout(Output, Len(windows))[i]
           R == Len(requests)
           r == Head(requests)
           w == windows[i]
<1>1. requests # <<>> /\ requests' = Tail(requests) /\ UNCHANGED <<open, events, windows>>
  BY DEF DispatchRequest
<1>2. requests \in Seq(RequestSet) /\ size \in [Tiles -> [w : Int, h : Int]] /\ windows \in Seq(Tiles) /\ open \in Seq(Tiles)
  BY DEF TilingInv, TilingTypes, Stack
<1>3. /\ R \in Nat \ {0} /\ r = requests[1] /\ r \in RequestSet /\ Len(requests') = R - 1
      /\ \A k \in 1..(R - 1) : requests'[k] = requests[k + 1]
  BY <1>1, <1>2, TailFacts
<1>4. w \in ToSet(open)
  <2>1. w \in ToSet(windows) BY <1>2 DEF ToSet
  <2>2. \A j \in 1..Len(events) : ~ Closes(j, w) BY DEF Managed, Closes
  <2>3. QED BY <2>1, <2>2 DEF TilingInv, Closed
<1>5. w \in Tiles BY <1>2
<1>6. Proposes(r, w) => size'[w] = [w |-> r.rect.w, h |-> r.rect.h]
  <2>1. ASSUME Proposes(r, w) PROVE size' = [size EXCEPT ![w] = [w |-> r.rect.w, h |-> r.rect.h]]
    <3>1. r.kind = "propose_dimensions" /\ r.w = w BY <2>1 DEF Proposes
    <3>2. Contains(open, r.w) BY <1>2, <1>4, <3>1, ContainsToSet
    <3>3. QED BY <3>1, <3>2 DEF DispatchRequest
  <2> HIDE DEF r, w
  <2>2. QED BY <1>2, <1>5, <2>1
<1>7. ~ Proposes(r, w) => size'[w] = size[w] /\ (w \in snapped => w \in snapped')
  <2>1. ASSUME ~ Proposes(r, w)
        PROVE  /\ size' = size \/ (r.w # w /\ size' = [size EXCEPT ![r.w] = [w |-> r.rect.w, h |-> r.rect.h]])
               /\ snapped' = snapped \/ (r.w # w /\ snapped' = snapped \ {r.w})
    BY <2>1 DEF DispatchRequest, Proposes
  <2>2. r.w \in Tiles BY <1>3 DEF RequestSet
  <2> HIDE DEF r, w
  <2>3. QED BY <1>2, <1>5, <2>1, <2>2
<1>8. PICK k \in 0..R :
        /\ \A j \in 1..R : j > k => ~ Proposes(requests[j], w)
        /\ k = 0 => w \in snapped \/ size[w] = [w |-> fit.w, h |-> fit.h]
        /\ k > 0 => Proposes(requests[k], w) /\ requests[k].rect = fit
  BY DEF Managed, Fits
<1> DEFINE l == IF k = 0 THEN 0 ELSE k - 1
<1> HIDE DEF R, r, w, fit
<1>9. l \in 0..Len(requests') BY <1>3
<1>10. ASSUME NEW j \in 1..Len(requests'), j > l PROVE ~ Proposes(requests'[j], w)
  <2>1. j + 1 \in 1..R /\ j + 1 > k /\ requests'[j] = requests[j + 1] BY <1>3, <1>10
  <2>2. QED BY <1>8, <2>1
<1>11. l = 0 => w \in snapped' \/ size'[w] = [w |-> fit.w, h |-> fit.h]
  <2>1. CASE k = 0
    <3>1. ~ Proposes(r, w) BY <1>3, <1>8, <2>1
    <3>2. QED BY <1>7, <1>8, <2>1, <3>1
  <2>2. CASE k = 1
    <3>1. Proposes(r, w) /\ r.rect = fit BY <1>3, <1>8, <2>2
    <3>2. QED BY <1>6, <3>1
  <2>3. k # 0 /\ k # 1 => l # 0 BY <1>3
  <2>4. QED BY <2>1, <2>2, <2>3
<1>12. l > 0 => Proposes(requests'[l], w) /\ requests'[l].rect = fit
  <2>1. ASSUME l > 0 PROVE requests'[l] = requests[k] /\ k > 0
    <3>1. l \in 1..(R - 1) /\ l + 1 = k BY <1>3, <2>1
    <3>2. QED BY <1>3, <3>1
  <2>2. QED BY <1>8, <2>1
<1> HIDE DEF l
<1>13. windows' = windows BY <1>1
<1>14. QED BY <1>9, <1>10, <1>11, <1>12, <1>13 DEF Fits, w, fit

LEMMA DispatchRequestInv == ASSUME TilingInv, DispatchRequest PROVE TilingInv'
<1> DEFINE r == Head(requests)
<1>1. requests # <<>> /\ requests' = Tail(requests)
      /\ UNCHANGED <<unopened, open, bound, events, windows, output, changed, frames>>
  BY DEF DispatchRequest
<1>2. requests \in Seq(RequestSet) /\ size \in [Tiles -> [w : Int, h : Int]] BY DEF TilingInv, TilingTypes
<1>3. requests' \in Seq(RequestSet) /\ r \in RequestSet BY <1>1, <1>2, TailFacts
<1>4. size' \in [Tiles -> [w : Int, h : Int]]
  <2>1. [w |-> r.rect.w, h |-> r.rect.h] \in [w : Int, h : Int] /\ r.w \in Tiles BY <1>3 DEF RequestSet, Rects
  <2>2. size' = size \/ size' = [size EXCEPT ![r.w] = [w |-> r.rect.w, h |-> r.rect.h]] BY DEF DispatchRequest
  <2> HIDE DEF r
  <2>3. QED BY <1>2, <2>1, <2>2
<1>5. TilingTypes' BY <1>1, <1>3, <1>4 DEF TilingInv, TilingTypes
<1>6. Announced' BY <1>1 DEF TilingInv, Announced
<1>7. Closed' BY <1>1 DEF TilingInv, Closed, Closes
<1>8. bound BY <1>1 DEF TilingInv, OutputFirst
<1>9. OutputFirst' BY <1>1, <1>8 DEF TilingInv, OutputFirst
<1>10. Managed => Managed'
  <2>1. Managed => \A i \in 1..Len(windows) : Fits(i)' BY DispatchFits
  <2>2. QED BY <1>1, <2>1 DEF Managed
<1>11. ManageDue => ManageDue' BY <1>1 DEF ManageDue
<1>12. RetilePending' BY <1>1, <1>10, <1>11 DEF TilingInv, RetilePending
<1>13. QED BY <1>5, <1>6, <1>7, <1>9, <1>12 DEF TilingInv

LEMMA StartRenderPhaseInv == ASSUME TilingInv, StartRenderPhase PROVE TilingInv'
<1> DEFINE n == Len(events)
           e == Event("render_start", None)
<1>1. /\ bound /\ events' = Append(events, e)
      /\ UNCHANGED <<unopened, open, bound, requests, windows, output, size, snapped, position, changed>>
  BY DEF StartRenderPhase
<1>2. events \in Seq(EventSet) BY DEF TilingInv, TilingTypes
<1>3. e \in EventSet /\ e.kind = "render_start" BY DEF EventSet, EventKinds, Event
<1> HIDE DEF e
<1>4. /\ events' \in Seq(EventSet) /\ Len(events') = n + 1 /\ n \in Nat /\ events'[n + 1] = e
      /\ \A i \in 1..n : events'[i] = events[i]
  BY <1>1, <1>2, <1>3
<1> HIDE DEF n
<1>5. \A i \in 1..Len(events') : (i \in 1..n /\ events'[i] = events[i]) \/ (i = n + 1 /\ events'[i].kind = "render_start")
  BY <1>3, <1>4
<1>6. \A i \in 1..n : i \in 1..Len(events') BY <1>4
<1>7. TilingTypes' BY <1>1, <1>4 DEF TilingInv, TilingTypes
<1>8. Announced' BY <1>1, <1>5 DEF TilingInv, Announced, n
<1>9. Closed' BY <1>1, <1>4, <1>5, <1>6 DEF TilingInv, Closed, Closes, n
<1>10. OutputFirst' BY <1>1, <1>4, <1>5, <1>6 DEF TilingInv, OutputFirst, n
<1>11. ManageDue => ManageDue' BY <1>4, <1>5, <1>6 DEF ManageDue, n
<1>12. ASSUME Managed PROVE Managed'
  <2>1. \A i \in 1..Len(windows) : Fits(i)' BY <1>1, <1>12 DEF Managed, Fits, Proposes
  <2>2. QED BY <1>1, <1>5, <1>12, <2>1 DEF Managed, n
<1>13. RetilePending' BY <1>1, <1>11, <1>12 DEF TilingInv, RetilePending
<1>14. QED BY <1>7, <1>8, <1>9, <1>10, <1>13 DEF TilingInv

LEMMA ToplevelDestroyedInv == ASSUME TilingInv, NEW w \in Tiles, ToplevelDestroyed(w) PROVE TilingInv'
<1> DEFINE n == Len(events)
           e == Event("window_closed", w)
<1>1. /\ open' = Filtered(open, Tiles \ {w})
      /\ events' = IF bound THEN Append(events, e) ELSE events
      /\ changed' = IF changed = "no" THEN "no" ELSE "closed"
      /\ UNCHANGED <<unopened, bound, requests, windows, output, size, snapped, position, frames>>
  BY DEF ToplevelDestroyed
<1>2. events \in Seq(EventSet) /\ open \in Stack(Tiles) BY DEF TilingInv, TilingTypes
<1>3. e \in EventSet /\ e.kind = "window_closed" /\ e.w = w BY DEF EventSet, EventKinds, Event
<1>4. open' \in Stack(Tiles) /\ ToSet(open)' = ToSet(open) \ {w}
  <2>1. ToSet(open) \subseteq Tiles BY <1>2 DEF Stack, ToSet
  <2>2. QED BY <1>1, <1>2, <2>1, FilteredStack
<1>a. ToSet(windows)' = ToSet(windows) /\ unopened' = unopened BY <1>1
<1> HIDE DEF e
<1>5. RetilePending' BY <1>1 DEF RetilePending
<1>6. CASE bound
  <2>1. /\ events' \in Seq(EventSet) /\ Len(events') = n + 1 /\ n \in Nat /\ events'[n + 1] = e
        /\ \A i \in 1..n : events'[i] = events[i]
    BY <1>1, <1>2, <1>3, <1>6
  <2> HIDE DEF n
  <2>2. \A i \in 1..Len(events') : (i \in 1..n /\ events'[i] = events[i]) \/ (i = n + 1 /\ events'[i] = e)
    BY <2>1
  <2>3. n + 1 \in 1..Len(events') /\ \A i \in 1..n : i \in 1..Len(events') /\ n + 1 > i BY <2>1
  <2>4. TilingTypes' BY <1>1, <1>4, <2>1 DEF TilingInv, TilingTypes
  <2>5. Announced'
    <3>1. ToSet(open)' \cap unopened = {} /\ ToSet(windows) \cap unopened = {}
      BY <1>4 DEF TilingInv, Announced
    <3>2. ASSUME NEW i \in 1..Len(events'), events'[i].kind = "window_new"
          PROVE  /\ events'[i].w \in Tiles \ (unopened \cup ToSet(windows))
                 /\ \A j \in 1..Len(events') : events'[j].kind = "window_new" /\ events'[j].w = events'[i].w => j = i
      <4>1. i \in 1..n /\ events'[i] = events[i] BY <1>3, <2>2, <3>2
      <4>2. QED BY <1>3, <2>2, <3>2, <4>1 DEF TilingInv, Announced, n
    <3>3. QED BY <1>a, <3>1, <3>2 DEF Announced
  <2>6. ASSUME NEW v \in ToSet(windows) \ ToSet(open)'
        PROVE  \E j \in 1..Len(events') : events'[j].kind = "window_closed" /\ events'[j].w = v
    <3>1. CASE v = w BY <1>3, <2>1, <2>3, <3>1
    <3>2. CASE v # w
      <4>1. PICK j \in 1..n : Closes(j, v) BY <1>4, <2>6, <3>2 DEF TilingInv, Closed, n
      <4>2. QED BY <2>1, <2>3, <4>1 DEF Closes
    <3>3. QED BY <3>1, <3>2
  <2>7. ASSUME NEW i \in 1..Len(events'), events'[i].kind = "window_new", events'[i].w \notin ToSet(open)'
        PROVE  \E j \in 1..Len(events') : j > i /\ events'[j].kind = "window_closed" /\ events'[j].w = events'[i].w
    <3>1. i \in 1..n /\ events'[i] = events[i] BY <1>3, <2>2, <2>7
    <3>2. CASE events[i].w = w BY <1>3, <2>1, <2>3, <3>1, <3>2
    <3>3. CASE events[i].w # w
      <4>1. PICK j \in 1..n : j > i /\ Closes(j, events[i].w)
        BY <1>4, <2>7, <3>1, <3>3 DEF TilingInv, Closed, n
      <4>2. QED BY <2>1, <2>3, <3>1, <4>1 DEF Closes
    <3>4. QED BY <3>2, <3>3
  <2>8. Closed' BY <1>a, <2>6, <2>7 DEF Closed, Closes
  <2>9. OutputFirst' BY <1>1, <1>3, <1>6, <2>1, <2>2, <2>3 DEF TilingInv, OutputFirst, n
  <2>10. QED BY <1>5, <2>4, <2>5, <2>8, <2>9 DEF TilingInv
<1>7. CASE ~ bound
  <2>1. events = <<>> /\ windows = <<>> /\ requests = <<>> /\ changed = "no" BY <1>7 DEF TilingInv, OutputFirst
  <2>2. events' = <<>> /\ windows' = <<>> /\ requests' = <<>> /\ changed' = "no" BY <1>1, <1>7, <2>1
  <2>3. TilingTypes' BY <1>1, <1>4, <1>7 DEF TilingInv, TilingTypes
  <2>4. ToSet(windows)' = {} /\ 1..Len(events') = {} BY <2>2 DEF ToSet
  <2>5. Announced' BY <1>1, <1>4, <2>4 DEF TilingInv, Announced
  <2>6. Closed' BY <2>4 DEF Closed
  <2>7. OutputFirst' BY <1>1, <1>7, <2>2, <2>4 DEF OutputFirst
  <2>8. QED BY <1>5, <2>3, <2>5, <2>6, <2>7 DEF TilingInv
<1>8. QED BY <1>6, <1>7

LEMMA NewToplevelInv == ASSUME TilingInv, NEW w \in Tiles, NewToplevel(w) PROVE TilingInv'
<1> DEFINE n == Len(events)
           new == Event("window_new", w)
           start == Event("manage_start", None)
<1>1. /\ w \in unopened /\ unopened' = unopened \ {w} /\ open' = Append(open, w)
      /\ size' = [size EXCEPT ![w] = DefaultSize]
      /\ events' = IF bound THEN events \o <<new, start>> ELSE events
      /\ changed' = IF bound THEN "opened" ELSE "no"
      /\ UNCHANGED <<bound, requests, windows, output, snapped, position, frames>>
  BY DEF NewToplevel
<1>2. events \in Seq(EventSet) /\ open \in Stack(Tiles) /\ size \in [Tiles -> [w : Int, h : Int]]
  BY DEF TilingInv, TilingTypes
<1>3. /\ new \in EventSet /\ new.kind = "window_new" /\ new.w = w
      /\ start \in EventSet /\ start.kind = "manage_start"
  BY DEF EventSet, EventKinds, Event
<1>4. w \notin ToSet(open) /\ w \notin ToSet(windows) BY <1>1 DEF TilingInv, Announced
<1>5. open' \in Stack(Tiles) /\ ToSet(open)' = ToSet(open) \cup {w} BY <1>1, <1>2, <1>4, AppendStack
<1>6. size' \in [Tiles -> [w : Int, h : Int]] BY <1>1, <1>2, TilingAssumption
<1>7. ToSet(windows)' = ToSet(windows) BY <1>1
<1>8. ToSet(open)' \cap unopened' = {} /\ ToSet(windows) \cap unopened' = {}
  BY <1>1, <1>4, <1>5 DEF TilingInv, Announced
<1> HIDE DEF new, start
<1>9. CASE bound
  <2>1. /\ events' \in Seq(EventSet) /\ Len(events') = n + 2 /\ n \in Nat
        /\ events'[n + 1] = new /\ events'[n + 2] = start
        /\ \A i \in 1..n : events'[i] = events[i]
    <3>1. <<new, start>> \in Seq(EventSet) /\ Len(<<new, start>>) = 2
          /\ <<new, start>>[1] = new /\ <<new, start>>[2] = start
      BY <1>3
    <3> DEFINE more == <<new, start>>
    <3> HIDE DEF more
    <3>2. more \in Seq(EventSet) /\ Len(more) = 2 /\ more[1] = new /\ more[2] = start BY <3>1 DEF more
    <3>3. events' = events \o more BY <1>1, <1>9 DEF more
    <3>4. events \in Seq(EventSet) /\ more \in Seq(EventSet) BY <1>2, <3>2
    <3>5. events' \in Seq(EventSet) /\ Len(events') = Len(events) + Len(more) /\ Len(events) \in Nat
      BY ONLY <3>3, <3>4, JoinFacts
    <3>6. \A i \in 1..Len(events) : events'[i] = events[i] BY ONLY <3>3, <3>4, JoinFacts
    <3>7. \A i \in 1..Len(more) : events'[Len(events) + i] = more[i] BY ONLY <3>3, <3>4, JoinFacts
    <3>8. 1 \in 1..Len(more) /\ 2 \in 1..Len(more) BY <3>2
    <3>9. QED BY <3>2, <3>5, <3>6, <3>7, <3>8
  <2> HIDE DEF n
  <2>2. \A i \in 1..Len(events') : \/ i \in 1..n /\ events'[i] = events[i]
                                   \/ i = n + 1 /\ events'[i] = new
                                   \/ i = n + 2 /\ events'[i] = start
    BY <2>1
  <2>3. n + 2 \in 1..Len(events') /\ n + 1 \in 1..Len(events') /\ \A i \in 1..n : i \in 1..Len(events') BY <2>1
  <2>4. TilingTypes' BY <1>1, <1>5, <1>6, <2>1 DEF TilingInv, TilingTypes
  <2>5. \A i \in 1..n : events[i].kind = "window_new" => events[i].w # w
    BY <1>1 DEF TilingInv, Announced, n
  <2>6. ASSUME NEW i \in 1..Len(events'), events'[i].kind = "window_new"
        PROVE  /\ events'[i].w \in Tiles \ (unopened' \cup ToSet(windows))
               /\ \A j \in 1..Len(events') : events'[j].kind = "window_new" /\ events'[j].w = events'[i].w => j = i
    <3>1. CASE i \in 1..n /\ events'[i] = events[i]
      <4>1. events[i].w \in Tiles \ (unopened \cup ToSet(windows))
            /\ \A j \in 1..n : events[j].kind = "window_new" /\ events[j].w = events[i].w => j = i
        BY <2>6, <3>1 DEF TilingInv, Announced, n
      <4>2. events[i].w # w BY <2>5, <2>6, <3>1
      <4>3. QED BY <1>1, <1>3, <2>2, <3>1, <4>1, <4>2
    <3>2. CASE i = n + 1 /\ events'[i] = new
      <4>1. events'[i].w \in Tiles \ (unopened' \cup ToSet(windows)) BY <1>1, <1>3, <1>4, <3>2
      <4>2. ASSUME NEW j \in 1..Len(events'), events'[j].kind = "window_new", events'[j].w = w PROVE j = n + 1
        BY <1>3, <2>2, <2>5, <4>2
      <4>3. QED BY <1>3, <3>2, <4>1, <4>2
    <3>3. QED BY <1>3, <2>2, <2>6, <3>1, <3>2
  <2>7. Announced' BY <1>7, <1>8, <2>6 DEF Announced
  <2>8. ASSUME NEW v \in ToSet(windows) \ ToSet(open)'
        PROVE  \E j \in 1..Len(events') : events'[j].kind = "window_closed" /\ events'[j].w = v
    <3>1. PICK j \in 1..n : Closes(j, v) BY <1>5, <2>8 DEF TilingInv, Closed, n
    <3>2. QED BY <2>1, <2>3, <3>1 DEF Closes
  <2>9. ASSUME NEW i \in 1..Len(events'), events'[i].kind = "window_new", events'[i].w \notin ToSet(open)'
        PROVE  \E j \in 1..Len(events') : j > i /\ events'[j].kind = "window_closed" /\ events'[j].w = events'[i].w
    <3>1. i \in 1..n /\ events'[i] = events[i] BY <1>3, <1>5, <2>2, <2>9
    <3>2. PICK j \in 1..n : j > i /\ Closes(j, events[i].w) BY <1>5, <2>9, <3>1 DEF TilingInv, Closed, n
    <3>3. QED BY <2>1, <2>3, <3>1, <3>2 DEF Closes
  <2>10. Closed' BY <1>7, <2>8, <2>9 DEF Closed, Closes
  <2>11. OutputFirst' BY <1>1, <1>3, <1>9, <2>1, <2>2, <2>3 DEF TilingInv, OutputFirst, n
  <2>12. ManageDue'
    <3>1. \A j \in 1..Len(events') : ~ (j > n + 2) BY <2>1
    <3>2. QED BY <1>3, <2>1, <2>3, <3>1 DEF ManageDue
  <2>13. RetilePending' BY <2>12 DEF RetilePending
  <2>14. QED BY <2>4, <2>7, <2>10, <2>11, <2>13 DEF TilingInv
<1>10. CASE ~ bound
  <2>1. events = <<>> /\ windows = <<>> /\ requests = <<>> BY <1>10 DEF TilingInv, OutputFirst
  <2>2. events' = <<>> /\ windows' = <<>> /\ requests' = <<>> /\ changed' = "no" BY <1>1, <1>10, <2>1
  <2>3. TilingTypes' BY <1>1, <1>5, <1>6, <1>10 DEF TilingInv, TilingTypes
  <2>4. ToSet(windows)' = {} /\ 1..Len(events') = {} BY <2>2 DEF ToSet
  <2>5. Announced' BY <1>8, <2>4 DEF Announced
  <2>6. Closed' BY <2>4 DEF Closed
  <2>7. OutputFirst' BY <1>1, <1>10, <2>2, <2>4 DEF OutputFirst
  <2>8. RetilePending' BY <2>2 DEF RetilePending
  <2>9. QED BY <2>3, <2>5, <2>6, <2>7, <2>8 DEF TilingInv
<1>11. QED BY <1>9, <1>10

\* The user's snap asks the WM for nothing.
LEMMA SnapInv == ASSUME TilingInv, NEW w \in Tiles, Snap(w) PROVE TilingInv'
<1>1. PICK half \in SnapSizes : size' = [size EXCEPT ![w] = half]
  BY DEF Snap
<1>2. snapped' = snapped \cup {w}
      /\ UNCHANGED <<unopened, open, bound, events, requests, windows, output, changed>>
  BY DEF Snap
<1>3. half \in [w : Int, h : Int] BY TilingAssumption DEF SnapSizes
<1>4. size' \in [Tiles -> [w : Int, h : Int]] BY <1>1, <1>3 DEF TilingInv, TilingTypes
<1>5. TilingTypes' BY <1>2, <1>4 DEF TilingInv, TilingTypes
<1>6. Announced' BY <1>2 DEF TilingInv, Announced
<1>7. Closed' BY <1>2 DEF TilingInv, Closed, Closes
<1>8. OutputFirst' BY <1>2 DEF TilingInv, OutputFirst
<1>9. ASSUME NEW i \in 1..Len(windows), Fits(i) PROVE Fits(i)'
  <2> DEFINE fit == calculate_layout(Output, Len(windows))[i]
  <2>1. PICK k \in 0..Len(requests) :
          /\ \A j \in 1..Len(requests) : j > k => ~ Proposes(requests[j], windows[i])
          /\ k = 0 => windows[i] \in snapped \/ size[windows[i]] = [w |-> fit.w, h |-> fit.h]
          /\ k > 0 => Proposes(requests[k], windows[i]) /\ requests[k].rect = fit
    BY <1>9 DEF Fits
  <2>2. windows[i] \notin snapped' => size'[windows[i]] = size[windows[i]]
    BY <1>1, <1>2 DEF TilingInv, TilingTypes, Stack
  <2> HIDE DEF fit
  <2>3. QED BY <1>2, <2>1, <2>2 DEF Fits, Proposes, fit
<1>10. RetilePending' BY <1>2, <1>9 DEF TilingInv, RetilePending, ManageDue, Managed
<1>11. QED BY <1>5, <1>6, <1>7, <1>8, <1>10 DEF TilingInv

LEMMA BindManagerInv == ASSUME TilingInv, BindManager PROVE TilingInv'
<1>1. /\ ~ bound /\ bound' = TRUE
      /\ UNCHANGED <<unopened, open, requests, windows, output, size, snapped, position, changed, frames>>
  BY DEF BindManager
<1>2. events = <<>> /\ windows = <<>> /\ requests = <<>> /\ changed = "no" BY <1>1 DEF TilingInv, OutputFirst
<1>3. open \in Stack(Tiles) BY DEF TilingInv, TilingTypes
<1>4. PICK existing : /\ existing \in Stack(Tiles) /\ ToSet(existing) \subseteq ToSet(open)
                      /\ events' = <<Event("output_new", None)>> \o [i \in DOMAIN existing |-> Event("window_new", existing[i])]
  <2>1. PICK chosen \in SUBSET ToSet(open) :
          events' = <<Event("output_new", None)>>
                    \o [i \in DOMAIN Filtered(open, chosen) |-> Event("window_new", Filtered(open, chosen)[i])]
    BY DEF BindManager
  <2>2. Filtered(open, chosen) \in Stack(Tiles) /\ ToSet(Filtered(open, chosen)) = ToSet(open) \cap chosen
    BY <1>3, FilteredStack
  <2>3. QED BY <2>1, <2>2
<1> DEFINE told == <<Event("output_new", None)>>
           news == [i \in DOMAIN existing |-> Event("window_new", existing[i])]
           n == Len(existing)
<1>5. existing \in Seq(Tiles) /\ IsInjective(existing) /\ DOMAIN existing = 1..n /\ n \in Nat
      /\ \A i \in 1..n : existing[i] \in Tiles /\ existing[i] \in ToSet(open)
  <2>1. existing \in Seq(Tiles) /\ IsInjective(existing) BY <1>4 DEF Stack
  <2>2. DOMAIN existing = 1..n /\ n \in Nat /\ \A i \in 1..n : existing[i] \in Tiles BY <2>1
  <2>3. \A i \in 1..n : existing[i] \in ToSet(existing) BY <2>2 DEF ToSet
  <2>4. QED BY <1>4, <2>1, <2>2, <2>3
<1>6. told \in Seq(EventSet) /\ Len(told) = 1 /\ told[1].kind = "output_new" BY DEF EventSet, EventKinds, Event
<1>7. /\ news \in Seq(EventSet) /\ Len(news) = n
      /\ \A i \in 1..n : news[i].kind = "window_new" /\ news[i].w = existing[i]
  <2>1. \A i \in 1..n : Event("window_new", existing[i]) \in EventSet BY <1>5 DEF EventSet, EventKinds, Event
  <2>2. news \in Seq(EventSet) /\ Len(news) = n BY <1>5, <2>1
  <2>3. \A i \in 1..n : news[i].kind = "window_new" /\ news[i].w = existing[i] BY <1>5 DEF Event
  <2>4. QED BY <2>2, <2>3
<1>8. events' = told \o news BY <1>4
<1> HIDE DEF told, news, n
<1>9. /\ events' \in Seq(EventSet) /\ Len(events') = n + 1 /\ events'[1].kind = "output_new"
      /\ \A i \in 1..n : events'[1 + i] = news[i]
  <2>1. told \in Seq(EventSet) /\ news \in Seq(EventSet) BY <1>6, <1>7
  <2>2. events' \in Seq(EventSet) /\ Len(events') = Len(told) + Len(news) BY ONLY <1>8, <2>1, JoinFacts
  <2>3. \A i \in 1..Len(told) : events'[i] = told[i] BY ONLY <1>8, <2>1, JoinFacts
  <2>4. \A i \in 1..Len(news) : events'[Len(told) + i] = news[i] BY ONLY <1>8, <2>1, JoinFacts
  <2>5. QED BY <1>5, <1>6, <1>7, <2>2, <2>3, <2>4
<1>10. ASSUME NEW i \in 1..Len(events')
       PROVE  \/ i = 1 /\ events'[i].kind = "output_new"
              \/ i - 1 \in 1..n /\ events'[i].kind = "window_new" /\ events'[i].w = existing[i - 1]
  <2>1. CASE i = 1 BY <1>9, <2>1
  <2>2. CASE i # 1
    <3>1. i - 1 \in 1..n /\ i = 1 + (i - 1) BY <1>5, <1>9, <2>2
    <3>2. events'[i] = news[i - 1] BY <1>9, <3>1
    <3>3. QED BY <1>7, <3>1, <3>2
  <2>3. QED BY <2>1, <2>2
<1>11. TilingTypes' BY <1>1, <1>9 DEF TilingInv, TilingTypes
<1>12. ToSet(windows)' = {} BY <1>1, <1>2 DEF ToSet
<1>13. ToSet(open)' = ToSet(open) /\ unopened' = unopened /\ ToSet(open) \cap unopened = {}
  BY <1>1 DEF TilingInv, Announced
<1>14. ASSUME NEW i \in 1..Len(events'), events'[i].kind = "window_new"
       PROVE  /\ events'[i].w \in Tiles \ unopened /\ events'[i].w \in ToSet(open)
              /\ \A j \in 1..Len(events') : events'[j].kind = "window_new" /\ events'[j].w = events'[i].w => j = i
  <2>1. i - 1 \in 1..n /\ events'[i].w = existing[i - 1] BY <1>10, <1>14
  <2>2. ASSUME NEW j \in 1..Len(events'), events'[j].kind = "window_new", events'[j].w = events'[i].w PROVE j = i
    <3>1. j - 1 \in 1..n /\ events'[j].w = existing[j - 1] BY <1>10, <2>2
    <3>2. i - 1 = j - 1 BY <1>5, <2>1, <2>2, <3>1 DEF IsInjective
    <3>3. QED BY <3>2
  <2>3. QED BY <1>5, <1>13, <2>1, <2>2
<1>15. Announced' BY <1>12, <1>13, <1>14 DEF Announced
<1>16. Closed' BY <1>12, <1>13, <1>14 DEF Closed
<1>17. OutputFirst'
  <2>1. Len(events') > 0 BY <1>5, <1>9
  <2>2. \A i \in 1..Len(events') : events'[i].kind = "output_new" => i = 1 BY <1>10
  <2>3. QED BY <1>1, <1>9, <2>1, <2>2 DEF OutputFirst
<1>18. RetilePending' BY <1>1, <1>2 DEF RetilePending
<1>19. QED BY <1>11, <1>15, <1>16, <1>17, <1>18 DEF TilingInv

LEMMA TilingStart == ASSUME TilingInit PROVE TilingInv
<1>1. <<>> \in Stack(Tiles) /\ ToSet(<<>>) = {} BY DEF Stack, IsInjective, ToSet
<1>2. 1..Len(<<>>) = {} OBVIOUS
<1>3. TilingTypes
  <2>1. events \in Seq(EventSet) /\ requests \in Seq(RequestSet) BY DEF TilingInit
  <2>2. output \in [w : Int, h : Int] BY DEF TilingInit
  <2>3. size \in [Tiles -> [w : Int, h : Int]]
    <3>1. size = [w \in Tiles |-> DefaultSize] BY DEF TilingInit
    <3>2. QED BY ONLY <3>1, TilingAssumption
  <2>4. open \in Stack(Tiles) /\ windows \in Stack(Tiles) /\ bound \in BOOLEAN
    BY <1>1, Zenon DEF TilingInit
  <2>5. QED BY <2>1, <2>2, <2>3, <2>4 DEF TilingTypes
<1>4. Announced /\ Closed BY <1>1, <1>2 DEF TilingInit, Announced, Closed
<1>5. OutputFirst BY <1>2 DEF TilingInit, OutputFirst
<1>6. RetilePending BY DEF TilingInit, RetilePending
<1>7. QED BY <1>3, <1>4, <1>5, <1>6 DEF TilingInv

LEMMA TilingStep == ASSUME TilingInv, [TilingNext]_tilingVars PROVE TilingInv'
<1>1. CASE UNCHANGED tilingVars
  <2>1. UNCHANGED <<unopened, open, bound, events, requests, windows, output, size, snapped, changed>>
    BY <1>1 DEF tilingVars
  <2>2. ToSet(open)' = ToSet(open) /\ ToSet(windows)' = ToSet(windows) BY <2>1
  <2>3. TilingTypes' BY <2>1 DEF TilingInv, TilingTypes
  <2>4. Announced' BY <2>1, <2>2 DEF TilingInv, Announced
  <2>5. Closed' BY <2>1, <2>2 DEF TilingInv, Closed, Closes
  <2>6. OutputFirst' BY <2>1 DEF TilingInv, OutputFirst
  <2>7. RetilePending' BY <2>1 DEF TilingInv, RetilePending, ManageDue, Managed, Fits, Proposes
  <2>8. QED BY <2>3, <2>4, <2>5, <2>6, <2>7 DEF TilingInv
<1>2. ASSUME NEW w \in Tiles, NewToplevel(w) \/ ToplevelDestroyed(w) \/ Snap(w) PROVE TilingInv'
  BY <1>2, NewToplevelInv, ToplevelDestroyedInv, SnapInv
<1>3. QED BY <1>1, <1>2, BindManagerInv, StartRenderPhaseInv, DispatchRequestInv, WindowNewInv, WindowClosedInv,
             ManageStartInv, RenderStartInv, OutputNewInv DEF TilingNext

\* When nothing is under way after a window was opened, the WM's proposals
\* have become sizes: the known windows are open and have their places of the
\* layout (manager events ManageStart and WindowClosed, configure_window).
THEOREM OpenedWindowsAreTiled == TilingSpec => []OpeningRetiles
<1>1. TilingInit => TilingInv BY TilingStart
<1>2. TilingInv /\ [TilingNext]_tilingVars => TilingInv' BY TilingStep
<1>3. ASSUME TilingInv PROVE OpeningRetiles
  <2> SUFFICES ASSUME Quiet, changed = "opened" PROVE ToSet(windows) \subseteq ToSet(open) /\ Tiled
    BY DEF OpeningRetiles
  <2>1. 1..Len(events) = {} /\ 0..Len(requests) = {0} BY DEF Quiet
  <2>2. Managed BY <1>3, <2>1 DEF TilingInv, RetilePending, ManageDue
  <2>3. ToSet(windows) \subseteq ToSet(open) BY <1>3, <2>1 DEF TilingInv, Closed
  <2>4. DOMAIN windows = 1..Len(windows) BY <1>3 DEF TilingInv, TilingTypes, Stack
  <2>5. ASSUME NEW i \in 1..Len(windows)
        PROVE  \/ windows[i] \in snapped
               \/ size[windows[i]] = [w |-> calculate_layout(Output, Len(windows))[i].w,
                                      h |-> calculate_layout(Output, Len(windows))[i].h]
    BY <2>1, <2>2 DEF Managed, Fits
  <2>6. Tiled BY <2>4, <2>5 DEF Tiled
  <2>7. QED BY <2>3, <2>6
<1>4. QED BY <1>1, <1>2, <1>3, PTL DEF TilingSpec
=============================================================================
