----------------------------- MODULE BspLayout -----------------------------
(***************************************************************************)
(* The layout of the tiling window manager (wr-wm-tiling/src/main.rs): the *)
(* output is halved, alternately across and down, until every window has a *)
(* part.                                                                   *)
(***************************************************************************)
EXTENDS Integers, Sequences, SequencesExt

Gap == 4

\* Division of i32 values: it rounds towards zero.
Quotient(a, b) == IF a >= 0 THEN a \div b ELSE -((-a) \div b)

Rect(x, y, w, h) == [x |-> x, y |-> y, w |-> w, h |-> h]

Rects == [x : Int, y : Int, w : Int, h : Int]

\* The first of the two parts of a length takes the share of half of the
\* windows, less its half of the gap.
FirstLength(length, count) == Quotient(length * (count \div 2), count) - Gap \div 2

FirstHalf(r, count, horizontal) ==
  IF horizontal THEN Rect(r.x, r.y, FirstLength(r.w, count), r.h)
                ELSE Rect(r.x, r.y, r.w, FirstLength(r.h, count))

\* Mutant: the second half starts where the first one ends.
SecondUngapped(r, count, horizontal) ==
  LET first_w == FirstLength(r.w, count)
      first_h == FirstLength(r.h, count)
  IN IF horizontal THEN Rect(r.x + first_w, r.y, r.w - first_w - Gap, r.h)
                   ELSE Rect(r.x, r.y + first_h, r.w, r.h - first_h - Gap)

SecondHalf(r, count, horizontal) ==
  LET first_w == FirstLength(r.w, count)
      first_h == FirstLength(r.h, count)
  IN IF horizontal THEN Rect(r.x + first_w + Gap, r.y, r.w - first_w - Gap, r.h)
                   ELSE Rect(r.x, r.y + first_h + Gap, r.w, r.h - first_h - Gap)

\* A part r is given to n windows: to one of them all of it, to more of them
\* its two halves, which are split the other way.
bsp_layout(area, count, horizontal) ==
  LET tile[n \in 1..count] ==
        [r \in Rects |-> [across \in BOOLEAN |->
          IF n = 1 THEN <<r>>
          ELSE tile[n \div 2][FirstHalf(r, n, across)][~ across]
               \o tile[n - n \div 2][SecondHalf(r, n, across)][~ across]]]
  IN tile[count][area][horizontal]

calculate_layout(output, n) ==
  IF n = 0 THEN <<>>
  ELSE bsp_layout(Rect(Gap, Gap, output.w - 2 * Gap, output.h - 2 * Gap), n, TRUE)

(***************************************************************************)
(* What a tiling is: windows of a size, inside the output and apart from   *)
(* each other, that together leave nothing but the gaps.                   *)
(***************************************************************************)
Apart(a, b) == \/ a.x + a.w + Gap <= b.x \/ b.x + b.w + Gap <= a.x
               \/ a.y + a.h + Gap <= b.y \/ b.y + b.h + Gap <= a.y

Inside(r, output) == /\ r.w > 0 /\ r.h > 0 /\ r.x >= Gap /\ r.y >= Gap
                     /\ r.x + r.w + Gap <= output.w /\ r.y + r.h + Gap <= output.h

GappedArea(rects) == FoldLeft(LAMBDA sum, r : sum + (r.w + Gap) * (r.h + Gap), 0, rects)

IsTiling(rects, output) ==
  /\ \A i \in DOMAIN rects : Inside(rects[i], output)
  /\ \A i, j \in DOMAIN rects : i < j => Apart(rects[i], rects[j])
  /\ rects # <<>> => GappedArea(rects) = (output.w - Gap) * (output.h - Gap)
=============================================================================
