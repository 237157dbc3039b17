-------------------------- MODULE RenderBatchProofs --------------------------
(***************************************************************************)
(* What TLAPS proves of batches of render commands, for any finite set of  *)
(* windows and batches of any length: what a frame does to the order of    *)
(* the stack (RenderBatch, LastDirectiveWins and OthersKeepOrder).         *)
(*                                                                         *)
(* Taking a window out of a stack is putting it in the other way round, so *)
(* that one relation, Inserted, describes every step of a frame.           *)
(***************************************************************************)
EXTENDS RenderBatch, RenderProofs, FiniteSetTheorems, SequenceTheorems

-----------------------------------------------------------------------------
(***************************************************************************)
(* Insertion.                                                              *)
(***************************************************************************)

\* r is rest with e at position k.
Inserted(r, rest, k, e) ==
  /\ k \in 1..(Len(rest) + 1)
  /\ Len(r) = Len(rest) + 1
  /\ \A i \in 1..(Len(rest) + 1) :
       r[i] = IF i < k THEN rest[i] ELSE IF i = k THEN e ELSE rest[i - 1]

\* restack removes a window and inserts it where the directive says.
LEMMA InsertAtInserts ==
  ASSUME NEW S, NEW rest \in Seq(S), NEW k \in 1..(Len(rest) + 1), NEW e \in S
  PROVE  InsertAt(rest, k, e) \in Seq(S) /\ Inserted(InsertAt(rest, k, e), rest, k, e)
<1> DEFINE N == Len(rest)
<1>1. PICK a, b, c : a = SubSeq(rest, 1, k - 1) /\ b = <<e>> /\ c = SubSeq(rest, k, N) OBVIOUS
<1>2. N \in Nat /\ k \in Nat /\ 1 <= k /\ k <= N + 1 OBVIOUS
<1>3. a \in Seq(S) /\ Len(a) = k - 1 /\ \A i \in 1..(k - 1) : a[i] = rest[i] BY <1>1, <1>2
<1>4. b \in Seq(S) /\ Len(b) = 1 /\ b[1] = e BY <1>1
<1>5. c \in Seq(S) /\ Len(c) = N - k + 1 /\ \A i \in 1..(N - k + 1) : c[i] = rest[k + i - 1] BY <1>1, <1>2
<1>6. PICK r : r = (a \o b) \o c OBVIOUS
<1>7. InsertAt(rest, k, e) = r BY <1>1, <1>6 DEF InsertAt
<1> HIDE DEF N
<1>8. /\ a \o b \in Seq(S) /\ Len(a \o b) = k
      /\ \A i \in 1..k : (a \o b)[i] = IF i < k THEN a[i] ELSE e
  <2>1. /\ a \o b \in Seq(S) /\ Len(a \o b) = Len(a) + Len(b)
        /\ \A i \in 1..(Len(a) + Len(b)) : (a \o b)[i] = IF i <= Len(a) THEN a[i] ELSE b[i - Len(a)]
    BY <1>3, <1>4, ConcatProperties
  <2>2. Len(a \o b) = k BY <1>2, <1>3, <1>4, <2>1
  <2>3. ASSUME NEW i \in 1..k PROVE (a \o b)[i] = IF i < k THEN a[i] ELSE e
    <3>1. i \in 1..(Len(a) + Len(b)) /\ (i <= Len(a) <=> i < k) /\ (~ (i < k) => i - Len(a) = 1)
      BY <1>2, <1>3, <1>4
    <3>2. QED BY <1>4, <2>1, <3>1
  <2>4. QED BY <2>1, <2>2, <2>3
<1>9. PICK ab : ab = a \o b OBVIOUS
<1>9b. /\ r \in Seq(S) /\ Len(r) = Len(ab) + Len(c)
       /\ \A j \in 1..Len(ab) : r[j] = ab[j]
       /\ \A j \in 1..Len(c) : r[Len(ab) + j] = c[j]
  <2>1. ab \in Seq(S) /\ c \in Seq(S) /\ r = ab \o c BY <1>5, <1>6, <1>8, <1>9
  <2>2. QED BY ONLY <2>1, ConcatProperties
<1>10. r \in Seq(S) /\ Len(r) = N + 1
  BY <1>2, <1>5, <1>8, <1>9, <1>9b
<1>11. ASSUME NEW i \in 1..(N + 1)
       PROVE  r[i] = IF i < k THEN rest[i] ELSE IF i = k THEN e ELSE rest[i - 1]
  <2>1. CASE i <= k
    <3>1. i \in 1..k /\ i \in 1..Len(ab) BY <1>2, <1>8, <1>9, <2>1
    <3>2. r[i] = ab[i] BY <1>9b, <3>1
    <3>3. i < k => i \in 1..(k - 1) BY <1>2, <3>1
    <3>4. QED BY <1>2, <1>3, <1>8, <1>9, <2>1, <3>1, <3>2, <3>3
  <2>2. CASE ~ (i <= k)
    <3>0. k \in Int /\ i \in Int /\ N \in Int /\ Len(ab) = k BY <1>2, <1>8, <1>9
    <3>1. i - k \in 1..(N - k + 1) /\ i = Len(ab) + (i - k) /\ k + (i - k) - 1 = i - 1
      BY ONLY <2>2, <3>0, i \in 1..(N + 1)
    <3>2. r[Len(ab) + (i - k)] = c[i - k] BY <1>5, <1>9b, <3>1
    <3>3. c[i - k] = rest[k + (i - k) - 1] BY <1>5, <3>1
    <3>4. ~ (i < k) /\ i # k BY ONLY <2>2, <3>0
    <3>5. QED BY <3>1, <3>2, <3>3, <3>4
  <2>3. QED BY <2>1, <2>2
<1>12. QED BY <1>2, <1>7, <1>10, <1>11 DEF Inserted, N

LEMMA AppendInserts ==
  ASSUME NEW S, NEW rest \in Seq(S), NEW e \in S
  PROVE  Append(rest, e) \in Seq(S) /\ Inserted(Append(rest, e), rest, Len(rest) + 1, e)
<1>1. Append(rest, e) \in Seq(S) /\ Len(Append(rest, e)) = Len(rest) + 1 /\ Len(rest) \in Nat OBVIOUS
<1>2. Append(rest, e)[Len(rest) + 1] = e OBVIOUS
<1>3. \A i \in 1..Len(rest) : Append(rest, e)[i] = rest[i] OBVIOUS
<1>4. PICK r : r = Append(rest, e) OBVIOUS
<1>5. ASSUME NEW i \in 1..(Len(rest) + 1)
      PROVE  r[i] = IF i < Len(rest) + 1 THEN rest[i] ELSE IF i = Len(rest) + 1 THEN e ELSE rest[i - 1]
  <2>1. i = Len(rest) + 1 \/ (i \in 1..Len(rest) /\ i < Len(rest) + 1) BY <1>1
  <2>2. QED BY <1>1, <1>2, <1>3, <1>4, <2>1
<1>6. Len(rest) + 1 \in 1..(Len(rest) + 1) BY <1>1
<1>7. Inserted(r, rest, Len(rest) + 1, e) BY <1>1, <1>4, <1>5, <1>6 DEF Inserted
<1>8. QED BY <1>1, <1>4, <1>7

LEMMA PrependInserts ==
  ASSUME NEW S, NEW rest \in Seq(S), NEW e \in S
  PROVE  <<e>> \o rest \in Seq(S) /\ Inserted(<<e>> \o rest, rest, 1, e)
<1>1. PICK r, b : r = b \o rest /\ b = <<e>> OBVIOUS
<1>2. b \in Seq(S) /\ Len(b) = 1 /\ b[1] = e /\ Len(rest) \in Nat BY <1>1
<1>3. r \in Seq(S) /\ Len(r) = Len(b) + Len(rest) BY <1>1, <1>2
<1>4. r[1] = b[1] BY <1>1, <1>2
<1>5. ASSUME NEW i \in 1..(Len(rest) + 1), i # 1 PROVE r[i] = rest[i - 1]
  <2>1. i - 1 \in 1..Len(rest) /\ i = Len(b) + (i - 1) BY <1>2, <1>5
  <2>2. r[Len(b) + (i - 1)] = rest[i - 1] BY <1>1, <1>2, <2>1
  <2>3. QED BY <2>1, <2>2
<1>6. ASSUME NEW i \in 1..(Len(rest) + 1) PROVE ~ (i < 1) OBVIOUS
<1>7. Len(r) = Len(rest) + 1 BY <1>2, <1>3
<1>8. Inserted(r, rest, 1, e) BY <1>2, <1>4, <1>5, <1>6, <1>7 DEF Inserted
<1>9. QED BY <1>1, <1>3, <1>8

\* What was removed was inserted.
LEMMA WithoutInserts ==
  ASSUME NEW S, NEW st \in Seq(S), NEW w, Contains(st, w)
  PROVE  Inserted(st, Without(st, w), index_of(st, w), w)
<1>1. PICK r, p : r = Without(st, w) /\ p = index_of(st, w) OBVIOUS
<1>2. p \in 1..Len(st) /\ st[p] = w /\ Len(st) \in Nat BY <1>1, IndexOf
<1>3. Len(r) = Len(st) - 1 /\ \A i \in 1..(Len(st) - 1) : r[i] = IF i < p THEN st[i] ELSE st[i + 1]
  BY <1>1, WithoutPositions
<1>4. ASSUME NEW i \in 1..(Len(r) + 1)
      PROVE  st[i] = IF i < p THEN r[i] ELSE IF i = p THEN w ELSE r[i - 1]
  <2>1. CASE i < p
    <3>1. i \in 1..(Len(st) - 1) BY <1>2, <1>3, <2>1
    <3>2. QED BY <1>3, <2>1, <3>1
  <2>2. CASE i = p BY <1>2, <2>2
  <2>3. CASE p < i
    <3>1. i - 1 \in 1..(Len(st) - 1) /\ ~ (i - 1 < p) /\ (i - 1) + 1 = i BY <1>2, <1>3, <2>3
    <3>2. QED BY <1>2, <1>3, <2>3, <3>1
  <2>4. QED BY <1>2, <1>3, <2>1, <2>2, <2>3
<1>5. p \in 1..(Len(r) + 1) /\ Len(st) = Len(r) + 1 BY <1>2, <1>3
<1>6. QED BY <1>1, <1>4, <1>5 DEF Inserted

\* Insertion makes a stack of a stack,
LEMMA InsertedStack ==
  ASSUME NEW S, NEW rest \in Stack(S), NEW e \in S, e \notin ToSet(rest),
         NEW k, NEW r \in Seq(S), Inserted(r, rest, k, e)
  PROVE  r \in Stack(S) /\ ToSet(r) = ToSet(rest) \cup {e}
<1> DEFINE N == Len(rest)
<1>1. /\ rest \in Seq(S) /\ IsInjective(rest) /\ DOMAIN rest = 1..N /\ N \in Nat
      /\ DOMAIN r = 1..(N + 1) /\ k \in 1..(N + 1)
  BY DEF Stack, Inserted
<1>2. \A i \in 1..N : rest[i] # e BY <1>1 DEF ToSet
<1>3. \A i \in 1..(N + 1) : r[i] = IF i < k THEN rest[i] ELSE IF i = k THEN e ELSE rest[i - 1]
  BY DEF Inserted
<1> HIDE DEF N
<1>4. ASSUME NEW i \in 1..(N + 1)
      PROVE  /\ i < k => i \in 1..N /\ r[i] = rest[i]
             /\ k < i => i - 1 \in 1..N /\ r[i] = rest[i - 1]
             /\ i = k => r[i] = e
  BY <1>1, <1>3
<1>5. ASSUME NEW i \in 1..(N + 1), NEW j \in 1..(N + 1), r[i] = r[j] PROVE i = j
  <2> DEFINE i1 == IF i < k THEN i ELSE i - 1
             j1 == IF j < k THEN j ELSE j - 1
  <2>1. i # k => i1 \in 1..N /\ r[i] = rest[i1] BY <1>1, <1>4
  <2>2. j # k => j1 \in 1..N /\ r[j] = rest[j1] BY <1>1, <1>4
  <2>3. i = k <=> j = k
    <3> HIDE DEF i1, j1
    <3>1. QED BY <1>2, <1>4, <1>5, <2>1, <2>2
  <2>4. i # k /\ j # k => i1 = j1
    <3> HIDE DEF i1, j1
    <3>1. QED BY <1>1, <1>5, <2>1, <2>2 DEF IsInjective
  <2>5. QED BY <1>1, <2>3, <2>4
<1>6. IsInjective(r) BY <1>1, <1>5 DEF IsInjective
<1>7. ASSUME NEW i \in 1..(N + 1) PROVE r[i] \in ToSet(rest) \cup {e}
  BY <1>1, <1>4 DEF ToSet
<1>8. e \in ToSet(r) BY <1>1, <1>4 DEF ToSet
<1>9. ASSUME NEW i \in 1..N PROVE rest[i] \in ToSet(r)
  <2> DEFINE i1 == IF i < k THEN i ELSE i + 1
  <2>1. i1 \in 1..(N + 1) /\ r[i1] = rest[i] BY <1>1, <1>4
  <2>2. QED BY <1>1, <2>1 DEF ToSet
<1>10. ToSet(r) = ToSet(rest) \cup {e} BY <1>1, <1>7, <1>8, <1>9 DEF ToSet
<1>11. QED BY <1>6, <1>10 DEF Stack

\* and keeps the order of the others.
LEMMA InsertedUnder ==
  ASSUME NEW S, NEW rest \in Seq(S), NEW e, NEW k, NEW r \in Seq(S), Inserted(r, rest, k, e),
         NEW v, NEW w, v # e, w # e
  PROVE  Under(r, v, w) <=> Under(rest, v, w)
<1> DEFINE N == Len(rest)
<1>1. /\ DOMAIN rest = 1..N /\ N \in Nat /\ DOMAIN r = 1..(N + 1) /\ k \in 1..(N + 1)
  BY DEF Inserted
<1>2. \A i \in 1..(N + 1) : r[i] = IF i < k THEN rest[i] ELSE IF i = k THEN e ELSE rest[i - 1]
  BY DEF Inserted
<1> HIDE DEF N
<1>3. ASSUME Under(r, v, w) PROVE Under(rest, v, w)
  <2>1. PICK i \in 1..(N + 1), j \in 1..(N + 1) : i < j /\ r[i] = v /\ r[j] = w
    BY <1>1, <1>3 DEF Under
  <2>2. i # k /\ j # k BY <1>1, <1>2, <2>1
  <2> DEFINE i1 == IF i < k THEN i ELSE i - 1
             j1 == IF j < k THEN j ELSE j - 1
  <2>3. i1 \in 1..N /\ j1 \in 1..N /\ i1 < j1 BY <1>1, <2>1, <2>2
  <2>4. rest[i1] = v /\ rest[j1] = w BY <1>1, <1>2, <2>1, <2>2
  <2>5. QED BY <1>1, <2>3, <2>4 DEF Under
<1>4. ASSUME Under(rest, v, w) PROVE Under(r, v, w)
  <2>1. PICK i \in 1..N, j \in 1..N : i < j /\ rest[i] = v /\ rest[j] = w
    BY <1>1, <1>4 DEF Under
  <2> DEFINE i1 == IF i < k THEN i ELSE i + 1
             j1 == IF j < k THEN j ELSE j + 1
  <2>2. i1 \in 1..(N + 1) /\ j1 \in 1..(N + 1) /\ i1 < j1 BY <1>1, <2>1
  <2>3. r[i1] = v /\ r[j1] = w
    <3>1. ASSUME NEW n \in 1..N PROVE r[IF n < k THEN n ELSE n + 1] = rest[n]
      <4>1. CASE n < k
        <5>1. n \in 1..(N + 1) BY <1>1
        <5>2. QED BY <1>2, <4>1, <5>1
      <4>2. CASE ~ (n < k)
        <5>1. n + 1 \in 1..(N + 1) /\ ~ (n + 1 < k) /\ n + 1 # k /\ (n + 1) - 1 = n BY <1>1, <4>2
        <5>2. QED BY <1>2, <4>2, <5>1
      <4>3. QED BY <4>1, <4>2
    <3>2. QED BY <2>1, <3>1
  <2>4. QED BY <1>1, <2>2, <2>3 DEF Under
<1>5. QED BY <1>3, <1>4

LEMMA WithoutUnder ==
  ASSUME NEW S, NEW st \in Seq(S), NEW u, NEW v, NEW w, v # u, w # u
  PROVE  Under(Without(st, u), v, w) <=> Under(st, v, w)
<1>1. CASE ~ Contains(st, u) BY <1>1 DEF Without
<1>2. CASE Contains(st, u)
  <2>1. Without(st, u) \in Seq(S) BY <1>2, WithoutPositions
  <2>2. QED BY <1>2, <2>1, WithoutInserts, InsertedUnder
<1>3. QED BY <1>1, <1>2

-----------------------------------------------------------------------------
(***************************************************************************)
(* One command: where restack puts its window, and that neither it nor     *)
(* Place change the order of the others.                                   *)
(***************************************************************************)

\* The place a directive asks for in rest, the stack without its window.
Asked(rest, z, k) ==
  /\ z = Top => k = Len(rest) + 1
  /\ z = Bottom => k = 1
  /\ z.kind = "above" => k > 1 /\ rest[k - 1] = z.sibling
  /\ z.kind = "below" => k <= Len(rest) /\ rest[k] = z.sibling

\* A directive that there is no place for: the window is not in the stack or
\* its sibling is not among the others.
Idle(order, cmd) ==
  \/ ~ Contains(order, cmd.id)
  \/ cmd.z_order = Preserve
  \/ /\ cmd.z_order.kind \in {"above", "below"}
     /\ ~ Contains(Without(order, cmd.id), cmd.z_order.sibling)

LEMMA RestackedInserts ==
  ASSUME NEW order \in Stack(Windows), NEW cmd \in RenderCommand
  PROVE  \/ Idle(order, cmd) /\ Restacked(order, cmd) = order
         \/ /\ cmd.z_order # Preserve /\ Contains(order, cmd.id)
            /\ Restacked(order, cmd) \in Seq(Windows)
            /\ \E k : /\ Inserted(Restacked(order, cmd), Without(order, cmd.id), k, cmd.id)
                      /\ Asked(Without(order, cmd.id), cmd.z_order, k)
<1>1. PICK rest, z, id : rest = Without(order, cmd.id) /\ z = cmd.z_order /\ id = cmd.id OBVIOUS
<1>2. /\ z \in ZOrder /\ id \in Windows /\ rest \in Seq(Windows) /\ Len(rest) \in Nat
  <2>1. rest \in Stack(Windows) BY <1>1, WithoutStack
  <2>2. QED BY <1>1, <2>1 DEF RenderCommand, Stack
<1>3. CASE ~ Contains(order, id) \/ z = Preserve
  <2>1. Restacked(order, cmd) = order BY <1>1, <1>3 DEF Restacked
  <2>2. QED BY <1>1, <1>3, <2>1 DEF Idle
<1>4. CASE Contains(order, id) /\ z = Top
  <2>1. z # Preserve /\ z.kind = "top" /\ z # Bottom BY <1>4 DEF Top, Preserve, Bottom
  <2>2. Restacked(order, cmd) = Append(rest, id) BY <1>1, <1>4, <2>1 DEF Restacked
  <2>3. Asked(rest, z, Len(rest) + 1) BY <1>4, <2>1 DEF Asked
  <2>4. QED BY <1>1, <1>2, <1>4, <2>1, <2>2, <2>3, AppendInserts
<1>5. CASE Contains(order, id) /\ z = Bottom
  <2>1. z # Preserve /\ z.kind = "bottom" /\ z # Top BY <1>5 DEF Top, Preserve, Bottom
  <2>2. Restacked(order, cmd) = <<id>> \o rest BY <1>1, <1>5, <2>1 DEF Restacked
  <2>3. Asked(rest, z, 1) BY <1>5, <2>1 DEF Asked
  <2>4. QED BY <1>1, <1>2, <1>5, <2>1, <2>2, <2>3, PrependInserts
<1>6. CASE Contains(order, id) /\ z \notin {Preserve, Top, Bottom}
  <2>1. /\ z \in [kind : {"above", "below"}, sibling : Windows]
        /\ z.kind \in {"above", "below"} /\ z # Preserve /\ z # Top /\ z # Bottom
    BY <1>2, <1>6 DEF ZOrder
  <2>2. CASE ~ Contains(rest, z.sibling)
    <3>1. /\ Contains(order, cmd.id) /\ cmd.z_order # Preserve /\ cmd.z_order # Top /\ cmd.z_order # Bottom
          /\ ~ Contains(Without(order, cmd.id), cmd.z_order.sibling)
      BY <1>1, <1>6, <2>1, <2>2
    <3>2. Restacked(order, cmd) =
            IF ~ Contains(Without(order, cmd.id), cmd.z_order.sibling) THEN order
            ELSE InsertAt(Without(order, cmd.id),
                          IF cmd.z_order.kind = "above" THEN index_of(Without(order, cmd.id), cmd.z_order.sibling) + 1
                                                        ELSE index_of(Without(order, cmd.id), cmd.z_order.sibling), cmd.id)
      BY <3>1, Zenon DEF Restacked
    <3>3. QED BY <1>1, <2>1, <2>2, <3>1, <3>2 DEF Idle
  <2>3. CASE Contains(rest, z.sibling)
    <3>1. PICK p : p = index_of(rest, z.sibling) OBVIOUS
    <3>2. p \in 1..Len(rest) /\ rest[p] = z.sibling BY <1>2, <2>3, <3>1, IndexOf
    <3>3. PICK k : k = IF z.kind = "above" THEN p + 1 ELSE p OBVIOUS
    <3>4. Restacked(order, cmd) = InsertAt(rest, k, id) BY <1>1, <1>6, <2>1, <2>3, <3>1, <3>3 DEF Restacked
    <3>5. k \in 1..(Len(rest) + 1) BY <1>2, <3>2, <3>3
    <3>6. Asked(rest, z, k) BY <1>2, <2>1, <3>2, <3>3 DEF Asked
    <3>7. InsertAt(rest, k, id) \in Seq(Windows) /\ Inserted(InsertAt(rest, k, id), rest, k, id)
      BY <1>2, <3>5, InsertAtInserts
    <3>8. z # Preserve /\ Contains(order, id) BY <1>6, <2>1
    <3>9. QED BY ONLY <1>1, <3>4, <3>6, <3>7, <3>8
  <2>4. QED BY <2>2, <2>3
<1>7. QED BY <1>3, <1>4, <1>5, <1>6

LEMMA RestackedStack ==
  ASSUME NEW order \in Stack(Windows), NEW cmd \in RenderCommand
  PROVE  /\ Restacked(order, cmd) \in Stack(Windows)
         /\ ToSet(Restacked(order, cmd)) = ToSet(order) /\ Len(Restacked(order, cmd)) = Len(order)
<1>1. CASE Restacked(order, cmd) = order BY <1>1
<1>2. CASE Restacked(order, cmd) # order
  <2>1. PICK r, rest : r = Restacked(order, cmd) /\ rest = Without(order, cmd.id) OBVIOUS
  <2>2. PICK k : r \in Seq(Windows) /\ Contains(order, cmd.id) /\ Inserted(r, rest, k, cmd.id)
    BY <1>2, <2>1, RestackedInserts
  <2>3. rest \in Stack(Windows) /\ ToSet(rest) = ToSet(order) \ {cmd.id} /\ cmd.id \in Windows
    BY <2>1, WithoutStack DEF RenderCommand
  <2>4. r \in Stack(Windows) /\ ToSet(r) = ToSet(rest) \cup {cmd.id} BY <2>2, <2>3, InsertedStack
  <2>5. cmd.id \in ToSet(order) BY <2>2, ContainsToSet DEF Stack
  <2>6. Len(r) = Len(order)
    <3>1. order \in Seq(Windows) BY DEF Stack
    <3>2. Len(rest) = Len(order) - 1 /\ Len(order) \in Nat BY <2>1, <2>2, <3>1, WithoutPositions
    <3>3. Len(r) = Len(rest) + 1 BY <2>2 DEF Inserted
    <3>4. QED BY <3>2, <3>3
  <2>7. QED BY <2>1, <2>3, <2>4, <2>5, <2>6
<1>3. QED BY <1>1, <1>2

LEMMA RestackedUnder ==
  ASSUME NEW order \in Stack(Windows), NEW cmd \in RenderCommand, NEW v, NEW w, v # cmd.id, w # cmd.id
  PROVE  Under(Restacked(order, cmd), v, w) <=> Under(order, v, w)
<1>1. CASE Restacked(order, cmd) = order BY <1>1
<1>2. CASE Restacked(order, cmd) # order
  <2>1. PICK r, rest : r = Restacked(order, cmd) /\ rest = Without(order, cmd.id) OBVIOUS
  <2>2. PICK k : r \in Seq(Windows) /\ Inserted(r, rest, k, cmd.id)
    BY <1>2, <2>1, RestackedInserts
  <2>3. order \in Seq(Windows) /\ rest \in Seq(Windows) BY <2>1, WithoutStack DEF Stack
  <2>4. Under(r, v, w) <=> Under(rest, v, w) BY <2>2, <2>3, InsertedUnder
  <2>5. Under(rest, v, w) <=> Under(order, v, w) BY <2>1, <2>3, WithoutUnder
  <2>6. QED BY <2>1, <2>4, <2>5
<1>3. QED BY <1>1, <1>2

\* A directive that restack has just obeyed holds.
LEMMA RestackedHolds ==
  ASSUME NEW order \in Stack(Windows), NEW cmd \in RenderCommand, cmd.z_order # Preserve,
         Contains(Restacked(order, cmd), cmd.id)
  PROVE  Holds(Restacked(order, cmd), cmd.id, cmd.z_order)
<1>1. PICK r, rest, z, id : /\ r = Restacked(order, cmd) /\ rest = Without(order, cmd.id)
                            /\ z = cmd.z_order /\ id = cmd.id
  OBVIOUS
<1>2. /\ z \in ZOrder /\ z # Preserve /\ id \in Windows
      /\ order \in Seq(Windows) /\ rest \in Seq(Windows) /\ Len(rest) \in Nat
      /\ ToSet(rest) = ToSet(order) \ {id} /\ ToSet(r) = ToSet(order)
      /\ r \in Seq(Windows) /\ IsInjective(r) /\ DOMAIN r = 1..Len(r) /\ id \in ToSet(order)
  <2>1. order \in Seq(Windows) BY DEF Stack
  <2>2. rest \in Stack(Windows) /\ ToSet(rest) = ToSet(order) \ {id} BY <1>1, WithoutStack
  <2>3. r \in Stack(Windows) /\ ToSet(r) = ToSet(order) BY <1>1, RestackedStack
  <2>4. r \in Seq(Windows) BY <2>3 DEF Stack
  <2>5. id \in ToSet(r) BY <1>1, <2>4, ContainsToSet
  <2>6. QED BY <1>1, <2>1, <2>2, <2>3, <2>4, <2>5 DEF RenderCommand, Stack
<1>3. ASSUME NEW s PROVE Contains(r, s) /\ s # id <=> Contains(rest, s)
  <2>1. Contains(r, s) <=> s \in ToSet(r) BY <1>2, ContainsToSet
  <2>2. Contains(rest, s) <=> s \in ToSet(rest) BY <1>2, ContainsToSet
  <2>3. QED BY <1>2, <2>1, <2>2
<1>4. Contains(order, id) BY <1>2, ContainsToSet
<1>5. CASE Idle(order, cmd)
  <2>1. z.kind \in {"above", "below"} /\ ~ Contains(rest, z.sibling) BY <1>1, <1>2, <1>4, <1>5 DEF Idle
  <2>2. ~ (Contains(r, z.sibling) /\ z.sibling # id) BY <1>3, <2>1
  <2>3. z # Top /\ z # Bottom BY <2>1 DEF Top, Bottom
  <2>4. QED BY <1>1, <2>1, <2>2, <2>3 DEF Holds
<1>6. CASE ~ Idle(order, cmd)
  <2>1. PICK k : Inserted(r, rest, k, id) /\ Asked(rest, z, k)
    BY <1>1, <1>6, RestackedInserts
  <2>2. k \in 1..Len(r) /\ Len(r) = Len(rest) + 1 /\ r[k] = id
    BY <1>2, <2>1 DEF Inserted
  <2>3. PICK i : i = CHOOSE n \in DOMAIN r : r[n] = id OBVIOUS
  <2>4. i = k
    <3>1. \A n \in DOMAIN r : r[n] = id => n = k BY <1>2, <2>2 DEF IsInjective
    <3>2. QED BY <1>2, <2>2, <2>3, <3>1
  <2>5. CASE z = Top
    <3>1. i = Len(r) /\ z.kind = "top" /\ z # Bottom BY <2>1, <2>2, <2>4, <2>5 DEF Asked, Top, Bottom
    <3>2. QED BY <1>1, <2>3, <2>5, <3>1 DEF Holds
  <2>6. CASE z = Bottom
    <3>1. i = 1 /\ z.kind = "bottom" /\ z # Top BY <2>1, <2>4, <2>6 DEF Asked, Top, Bottom
    <3>2. QED BY <1>1, <2>3, <2>6, <3>1 DEF Holds
  <2>7. CASE z \notin {Top, Bottom}
    <3>1. z \in [kind : {"above", "below"}, sibling : Windows] BY <1>2, <2>7 DEF ZOrder
    <3>2. CASE z.kind = "above"
      <4>1. i > 1 /\ r[i - 1] = z.sibling
        <5>1. k > 1 /\ rest[k - 1] = z.sibling BY <2>1, <3>2 DEF Asked
        <5>2. k - 1 \in 1..(Len(rest) + 1) /\ k - 1 < k BY <1>2, <2>2, <5>1
        <5>3. r[k - 1] = rest[k - 1] BY <2>1, <5>2 DEF Inserted
        <5>4. QED BY <2>4, <5>1, <5>3
      <4>2. QED BY <1>1, <2>3, <2>7, <3>2, <4>1 DEF Holds
    <3>3. CASE z.kind = "below"
      <4>1. i < Len(r) /\ r[i + 1] = z.sibling
        <5>1. k <= Len(rest) /\ rest[k] = z.sibling BY <2>1, <3>3 DEF Asked
        <5>2. k + 1 \in 1..(Len(rest) + 1) /\ ~ (k + 1 < k) /\ k + 1 # k /\ (k + 1) - 1 = k
          BY <1>2, <2>2, <5>1
        <5>3. r[k + 1] = rest[k] BY <2>1, <5>2 DEF Inserted
        <5>4. QED BY <1>2, <2>2, <2>4, <5>1, <5>3
      <4>2. z.kind # "above" BY <3>3
      <4>3. QED BY <1>1, <2>3, <2>7, <3>3, <4>1, <4>2 DEF Holds
    <3>4. QED BY <3>1, <3>2, <3>3
  <2>8. QED BY <2>5, <2>6, <2>7
<1>7. QED BY <1>5, <1>6

-----------------------------------------------------------------------------
(***************************************************************************)
(* The passes of apply_render_commands.                                    *)
(***************************************************************************)

\* A window that no command names.
Unnamed(commands, w) == CommandsOf(commands, w) = {}

\* What holds of a stack after n commands of a pass that began with another:
\* it is a stack, and the windows no command names are in their order.
Ordered(from, commands, st) ==
  /\ st \in Stack(Windows)
  /\ \A v, w : Unnamed(commands, v) /\ Unnamed(commands, w) => (Under(st, v, w) <=> Under(from, v, w))

\* Placing one window.
LEMMA PlaceStack ==
  ASSUME NEW st \in Stack(Windows), NEW cmd \in RenderCommand, NEW registered, NEW shown
  PROVE  Place(st, cmd, registered, shown) \in Stack(Windows)
<1>1. cmd.id \in Windows BY DEF RenderCommand
<1>2. map_element(st, cmd.id) \in Stack(Windows) /\ unmap_elem(st, cmd.id) \in Stack(Windows)
  BY <1>1, SpaceStack
<1>3. cmd.visible \in BOOLEAN BY DEF RenderCommand
<1>4. QED BY <1>2, <1>3 DEF Place

LEMMA PlaceUnder ==
  ASSUME NEW st \in Stack(Windows), NEW cmd \in RenderCommand, NEW registered, NEW shown,
         NEW v, NEW w, v # cmd.id, w # cmd.id
  PROVE  Under(Place(st, cmd, registered, shown), v, w) <=> Under(st, v, w)
<1>1. cmd.id \in Windows /\ cmd.visible \in BOOLEAN BY DEF RenderCommand
<1>2. PICK rest : rest = Without(st, cmd.id) OBVIOUS
<1>3. st \in Seq(Windows) /\ rest \in Seq(Windows) BY <1>2, WithoutStack DEF Stack
<1>4. Under(rest, v, w) <=> Under(st, v, w) BY <1>2, <1>3, WithoutUnder
<1>5. Under(Append(rest, cmd.id), v, w) <=> Under(rest, v, w)
  <2>1. PICK r, k : r = Append(rest, cmd.id) /\ k = Len(rest) + 1 OBVIOUS
  <2>2. r \in Seq(Windows) /\ Inserted(r, rest, k, cmd.id) BY <1>1, <1>3, <2>1, AppendInserts
  <2>3. Under(r, v, w) <=> Under(rest, v, w) BY <1>3, <2>2, InsertedUnder
  <2>4. QED BY <2>1, <2>3
<1>6. CASE cmd.id \notin registered BY <1>6 DEF Place
<1>7. CASE cmd.id \in registered /\ cmd.visible /\ cmd.id \in shown
  <2>1. Place(st, cmd, registered, shown) = Append(rest, cmd.id) BY <1>2, <1>7 DEF Place, map_element
  <2>2. QED BY <1>4, <1>5, <2>1
<1>8. CASE cmd.id \in registered /\ (~ cmd.visible \/ cmd.id \notin shown)
  <2>1. Place(st, cmd, registered, shown) = rest BY <1>2, <1>8 DEF Place, unmap_elem
  <2>2. QED BY <1>4, <2>1
<1>9. QED BY <1>1, <1>6, <1>7, <1>8

\* An unnamed window is not the window of any command.
LEMMA UnnamedIsOther ==
  ASSUME NEW commands \in Seq(RenderCommand), NEW n \in 1..Len(commands), NEW w, Unnamed(commands, w)
  PROVE  w # commands[n].id
BY DEF Unnamed, CommandsOf

\* The first pass.
Placed(stack, commands, registered, shown) ==
  FoldLeft(LAMBDA st, cmd : Place(st, cmd, registered, shown), stack, commands)

LEMMA PlacedOrdered ==
  ASSUME NEW stack \in Stack(Windows), NEW commands \in Seq(RenderCommand), NEW registered, NEW shown
  PROVE  Ordered(stack, commands, Placed(stack, commands, registered, shown))
<1>1. \A st \in Stack(Windows), c \in RenderCommand : Place(st, c, registered, shown) \in Stack(Windows)
  BY PlaceStack
<1>2. PICK f \in [0..Len(commands) -> Stack(Windows)] : Placing(f, stack, commands, registered, shown)
  BY <1>1, PlaceFold
<1> DEFINE N == Len(commands)
           P == { n \in 0..N : Ordered(stack, commands, f[n]) }
<1>3. N \in Nat /\ \A n \in 1..N : n \in 0..N /\ n - 1 \in 0..N OBVIOUS
<1>4. 0 \in P
  <2>1. f[0] = stack BY <1>2, Zenon DEF Placing
  <2>2. Ordered(stack, commands, stack) BY DEF Ordered
  <2>3. QED BY <1>3, <2>1, <2>2
<1>5. ASSUME NEW n \in 1..N, n - 1 \in P PROVE n \in P
  <2>1. PICK st, cmd : st = f[n - 1] /\ cmd = commands[n] OBVIOUS
  <2>2. st \in Stack(Windows) /\ cmd \in RenderCommand /\ f[n] \in Stack(Windows) /\ n \in 0..N
    BY <1>3, <2>1
  <2>3. f[n] = Place(st, cmd, registered, shown) BY <1>2, <2>1 DEF Placing
  <2>4. Ordered(stack, commands, st) BY <1>5, <2>1
  <2>5. ASSUME NEW v, NEW w, Unnamed(commands, v), Unnamed(commands, w)
        PROVE  Under(f[n], v, w) <=> Under(stack, v, w)
    <3>1. v # cmd.id /\ w # cmd.id BY <2>1, <2>5, UnnamedIsOther
    <3>2. Under(f[n], v, w) <=> Under(st, v, w) BY <2>2, <2>3, <3>1, PlaceUnder
    <3>3. QED BY <2>4, <2>5, <3>2 DEF Ordered
  <2>6. QED BY <2>2, <2>5 DEF Ordered
<1>6. f[N] = Placed(stack, commands, registered, shown) BY <1>2, Zenon DEF Placing, Placed
<1> HIDE DEF P
<1>7. N \in P
  <2>1. \A n \in 0..N : n \in P BY <1>3, <1>4, <1>5, InductionTo
  <2>2. QED BY <1>3, <2>1
<1>8. QED BY <1>6, <1>7 DEF P

\* The reordering: and it has the windows of the stack it began with, and the
\* last directive, which no later command undoes, holds.
LEMMA RestackOrdered ==
  ASSUME NEW stack \in Stack(Windows), NEW commands \in Seq(RenderCommand)
  PROVE  /\ Ordered(stack, commands, restack(stack, commands))
         /\ ToSet(restack(stack, commands)) = ToSet(stack) /\ Len(restack(stack, commands)) = Len(stack)
         /\ \A d \in 1..Len(commands) :
              /\ commands[d].z_order # Preserve
              /\ \A n \in 1..Len(commands) : n > d => commands[n].z_order = Preserve
              /\ Contains(restack(stack, commands), commands[d].id)
              => Holds(restack(stack, commands), commands[d].id, commands[d].z_order)
<1>1. \A st \in Stack(Windows), c \in RenderCommand : Restacked(st, c) \in Stack(Windows)
  BY RestackedStack
<1>2. PICK f \in [0..Len(commands) -> Stack(Windows)] : Restacking(f, stack, commands)
  BY <1>1, RestackFold
<1> DEFINE N == Len(commands)
           P == { n \in 0..N : /\ Ordered(stack, commands, f[n])
                               /\ ToSet(f[n]) = ToSet(stack) /\ Len(f[n]) = Len(stack) }
<1>3. N \in Nat /\ \A n \in 1..N : n \in 0..N /\ n - 1 \in 0..N OBVIOUS
<1>4. 0 \in P
  <2>1. f[0] = stack BY <1>2 DEF Restacking
  <2>2. Ordered(stack, commands, stack) BY DEF Ordered
  <2>3. QED BY <1>3, <2>1, <2>2
<1>5. ASSUME NEW n \in 1..N, n - 1 \in P PROVE n \in P
  <2>1. PICK st, cmd : st = f[n - 1] /\ cmd = commands[n] OBVIOUS
  <2>2. st \in Stack(Windows) /\ cmd \in RenderCommand /\ f[n] \in Stack(Windows) /\ n \in 0..N
    BY <1>3, <2>1
  <2>3. f[n] = Restacked(st, cmd) BY <1>2, <2>1 DEF Restacking
  <2>4. Ordered(stack, commands, st) /\ ToSet(st) = ToSet(stack) /\ Len(st) = Len(stack) BY <1>5, <2>1
  <2>5. ASSUME NEW v, NEW w, Unnamed(commands, v), Unnamed(commands, w)
        PROVE  Under(f[n], v, w) <=> Under(stack, v, w)
    <3>1. v # cmd.id /\ w # cmd.id BY <2>1, <2>5, UnnamedIsOther
    <3>2. Under(f[n], v, w) <=> Under(st, v, w) BY <2>2, <2>3, <3>1, RestackedUnder
    <3>3. QED BY <2>4, <2>5, <3>2 DEF Ordered
  <2>6. ToSet(f[n]) = ToSet(stack) /\ Len(f[n]) = Len(stack) BY <2>2, <2>3, <2>4, RestackedStack
  <2>7. QED BY <2>2, <2>5, <2>6 DEF Ordered
<1>6. f[N] = restack(stack, commands) BY <1>2 DEF Restacking, restack
<1> HIDE DEF P
<1>7. N \in P
  <2>1. \A n \in 0..N : n \in P BY <1>3, <1>4, <1>5, InductionTo
  <2>2. QED BY <1>3, <2>1
<1>8. ASSUME NEW d \in 1..N, commands[d].z_order # Preserve,
             \A n \in 1..N : n > d => commands[n].z_order = Preserve,
             Contains(f[N], commands[d].id)
      PROVE  Holds(f[N], commands[d].id, commands[d].z_order)
  <2> DEFINE Q == { n \in 0..N : n >= d => f[n] = f[d] }
  <2>1. 0 \in Q BY <1>3
  <2>2. ASSUME NEW n \in 1..N, n - 1 \in Q PROVE n \in Q
    <3>1. CASE n < d BY <1>3, <3>1
    <3>2. CASE n = d BY <1>3, <3>2
    <3>3. CASE n > d
      <4>1. f[n - 1] = f[d] BY <1>3, <2>2, <3>3
      <4>2. commands[n].z_order = Preserve BY <1>8, <3>3
      <4>3. f[n] = Restacked(f[n - 1], commands[n]) BY <1>2 DEF Restacking
      <4>4. f[n] = f[n - 1] BY <4>2, <4>3 DEF Restacked
      <4>5. QED BY <1>3, <4>1, <4>4
    <3>4. QED BY <1>3, <3>1, <3>2, <3>3
  <2> HIDE DEF Q
  <2>3. N \in Q
    <3>1. \A n \in 0..N : n \in Q BY <1>3, <2>1, <2>2, InductionTo
    <3>2. QED BY <1>3, <3>1
  <2>4. f[N] = f[d] BY <1>3, <2>3 DEF Q
  <2>5. PICK st, cmd : st = f[d - 1] /\ cmd = commands[d] OBVIOUS
  <2>6. st \in Stack(Windows) /\ cmd \in RenderCommand BY <1>3, <2>5
  <2>7. f[d] = Restacked(st, cmd) BY <1>2, <2>5 DEF Restacking
  <2>8. QED BY <1>8, <2>4, <2>5, <2>6, <2>7, RestackedHolds
<1>9. QED BY <1>6, <1>7, <1>8 DEF P

\* Raising every window of a stack in a wanted order, lowest first, leaves the
\* stack in that order: after n of them they are the n highest.
LEMMA RaisingReaches ==
  ASSUME NEW stack \in Stack(Windows), NEW order \in Stack(Windows), ToSet(order) = ToSet(stack),
         Len(order) = Len(stack)
  PROVE  FoldLeft(raise_element, stack, order) = order
<1>1. order \in Seq(Windows) /\ stack \in Seq(Windows) /\ IsInjective(order) /\ DOMAIN order = 1..Len(order)
  BY DEF Stack
<1>2. \A st \in Stack(Windows), w \in Windows : raise_element(st, w) \in Stack(Windows)
  BY SpaceStack
<1>3. PICK f \in [0..Len(order) -> Stack(Windows)] : Raising(f, stack, order)
  BY <1>1, <1>2, RaiseFold
<1> DEFINE N == Len(order)
           Highest(st, n) == \A i \in 1..n : st[N - n + i] = order[i]
           P == { n \in 0..N : Len(f[n]) = N /\ ToSet(f[n]) = ToSet(order) /\ Highest(f[n], n) }
<1>4. N \in Nat /\ \A n \in 1..N : n \in 0..N /\ n - 1 \in 0..N BY <1>1
<1>5. 0 \in P BY <1>3, <1>4 DEF Raising
<1>6. ASSUME NEW n \in 1..N, n - 1 \in P PROVE n \in P
  <2>1. PICK st, w, r : st = f[n - 1] /\ w = order[n] /\ r = f[n] OBVIOUS
  <2>2. /\ st \in Stack(Windows) /\ r \in Stack(Windows) /\ w \in Windows
        /\ st \in Seq(Windows) /\ IsInjective(st) /\ n \in Nat /\ 1 <= n /\ n <= N
    <3>1. st \in Stack(Windows) /\ r \in Stack(Windows) BY <1>4, <2>1
    <3>2. w \in Windows BY <1>1, <2>1
    <3>3. QED BY <1>4, <3>1, <3>2 DEF Stack
  <2>3. Len(st) = N /\ ToSet(st) = ToSet(order)
        /\ \A i \in 1..(n - 1) : st[N - (n - 1) + i] = order[i]
    BY <1>6, <2>1
  <2>4. r = raise_element(st, w) BY <1>3, <2>1 DEF Raising
  <2>5. w \in ToSet(order) BY <1>1, <2>1 DEF ToSet
  <2>6. Contains(st, w) BY <2>2, <2>3, <2>5, ContainsToSet
  <2>7. PICK p, rest : p = index_of(st, w) /\ rest = Without(st, w) OBVIOUS
  <2>8. /\ p \in 1..N /\ st[p] = w /\ rest \in Seq(Windows) /\ Len(rest) = N - 1
        /\ \A i \in 1..(N - 1) : rest[i] = IF i < p THEN st[i] ELSE st[i + 1]
    BY <2>2, <2>3, <2>6, <2>7, IndexOf, WithoutPositions
  <2>9. r = Append(rest, w) BY <2>4, <2>6, <2>7 DEF raise_element, map_element
  <2>10. p <= N - (n - 1)
    <3> SUFFICES ASSUME p > N - (n - 1) PROVE FALSE
      BY <1>4, <2>2, <2>8
    <3>1. PICK i : i = p - (N - (n - 1)) OBVIOUS
    <3>2. i \in 1..(n - 1) /\ N - (n - 1) + i = p /\ i \in 1..N /\ i # n BY <1>4, <2>2, <2>8, <3>1
    <3>3. order[i] = order[n] BY <2>1, <2>3, <2>8, <3>2
    <3>4. QED BY <1>1, <3>2, <3>3 DEF IsInjective
  <2>11. Len(r) = N BY <1>4, <2>2, <2>8, <2>9
  <2>12. ToSet(r) = ToSet(order) BY <2>2, <2>3, <2>4, SpaceStack
  <2>13. ASSUME NEW i \in 1..n PROVE r[N - n + i] = order[i]
    <3>1. CASE i = n
      <4>1. N - n + i = Len(rest) + 1 BY <1>4, <2>2, <2>8, <3>1
      <4>2. r[Len(rest) + 1] = w BY <2>2, <2>8, <2>9
      <4>3. QED BY <2>1, <3>1, <4>1, <4>2
    <3>2. CASE i # n
      <4>1. PICK j : j = N - n + i OBVIOUS
      <4>2. j \in 1..(N - 1) /\ ~ (j < p) /\ j + 1 = N - (n - 1) + i /\ i \in 1..(n - 1)
        BY <1>4, <2>2, <2>8, <2>10, <3>2, <4>1
      <4>3. r[j] = rest[j] BY <2>2, <2>8, <2>9, <4>2
      <4>4. rest[j] = st[j + 1] BY <2>8, <4>2
      <4>5. QED BY <2>3, <4>1, <4>2, <4>3, <4>4
    <3>3. QED BY <3>1, <3>2
  <2>14. QED BY <1>4, <2>1, <2>11, <2>12, <2>13
<1> HIDE DEF P
<1>7. N \in P
  <2>1. \A n \in 0..N : n \in P BY <1>4, <1>5, <1>6, InductionTo
  <2>2. QED BY <1>4, <2>1
<1>8. f[N] \in Seq(Windows) /\ Len(f[N]) = N /\ \A i \in 1..N : f[N][i] = order[i]
  <2>1. Len(f[N]) = N /\ \A i \in 1..N : f[N][N - N + i] = order[i] BY <1>7 DEF P
  <2>2. \A i \in 1..N : N - N + i = i BY <1>4
  <2>3. f[N] \in Stack(Windows) BY <1>4
  <2>4. QED BY <2>1, <2>2, <2>3 DEF Stack
<1>9. f[N] = order BY <1>1, <1>8, SeqEqual
<1>10. QED BY <1>3, <1>9 DEF Raising

-----------------------------------------------------------------------------
(***************************************************************************)
(* Frames.  The invariant is the type of the stack and of the batch.       *)
(***************************************************************************)
BatchInv == scene \in Stack(Windows) /\ pending \in Seq(RenderCommand)

\* What a frame makes of the stack: the placed stack in the order that
\* restack wants of it.
LEMMA Applied ==
  ASSUME NEW stack \in Stack(Windows), NEW commands \in Seq(RenderCommand), NEW registered, NEW shown
  PROVE  LET out == apply_render_commands(stack, commands, registered, shown)
         IN /\ Ordered(stack, commands, out)
            /\ \A d \in 1..Len(commands) :
                 /\ commands[d].z_order # Preserve
                 /\ \A n \in 1..Len(commands) : n > d => commands[n].z_order = Preserve
                 /\ Contains(out, commands[d].id)
                 => Holds(out, commands[d].id, commands[d].z_order)
<1> DEFINE out == apply_render_commands(stack, commands, registered, shown)
<1>1. PICK placed : placed = Placed(stack, commands, registered, shown) OBVIOUS
<1>2. Ordered(stack, commands, placed) BY <1>1, PlacedOrdered
<1>3. out = IF \A i \in DOMAIN commands : commands[i].z_order = Preserve
            THEN placed ELSE FoldLeft(raise_element, placed, restack(placed, commands))
  BY <1>1, Zenon DEF apply_render_commands, Placed
<1> HIDE DEF out
<1>4. DOMAIN commands = 1..Len(commands) OBVIOUS
<1>5. CASE \A i \in DOMAIN commands : commands[i].z_order = Preserve
  <2>1. out = placed BY <1>3, <1>5
  <2>2. QED BY <1>2, <1>4, <1>5, <2>1 DEF out
<1>6. CASE ~ \A i \in DOMAIN commands : commands[i].z_order = Preserve
  <2>1. PICK order : order = restack(placed, commands) OBVIOUS
  <2>2. placed \in Stack(Windows) BY <1>2 DEF Ordered
  <2>3. /\ Ordered(placed, commands, order) /\ ToSet(order) = ToSet(placed) /\ Len(order) = Len(placed)
        /\ \A d \in 1..Len(commands) :
             /\ commands[d].z_order # Preserve
             /\ \A n \in 1..Len(commands) : n > d => commands[n].z_order = Preserve
             /\ Contains(order, commands[d].id)
             => Holds(order, commands[d].id, commands[d].z_order)
    BY <2>1, <2>2, RestackOrdered
  <2>4. order \in Stack(Windows) BY <2>3 DEF Ordered
  <2>5. out = order BY <1>3, <1>6, <2>1, <2>2, <2>3, <2>4, RaisingReaches
  <2>6. Ordered(stack, commands, order) BY <1>2, <2>3 DEF Ordered
  <2>7. QED BY <2>3, <2>5, <2>6 DEF out
<1>7. QED BY <1>5, <1>6

\* The first of a window's commands is one of the batch.
LEMMA FirstCommand ==
  ASSUME NEW commands \in Seq(RenderCommand), NEW w, CommandsOf(commands, w) # {}
  PROVE  FirstOf(CommandsOf(commands, w)) \in 1..Len(commands)
<1>1. PICK I : I = CommandsOf(commands, w) OBVIOUS
<1>2. I \subseteq 1..Len(commands) BY <1>1 DEF CommandsOf
<1>3. I \subseteq Nat BY <1>2
<1>4. \E i \in I : \A j \in I : i <= j BY <1>1, <1>3, LeastElement
<1>5. FirstOf(I) \in I BY <1>4 DEF FirstOf
<1>6. QED BY <1>1, <1>2, <1>5

\* A request leaves something to apply.
LEMMA RequestStep == ASSUME BatchInv, Request PROVE BatchInv' /\ pending' # <<>>
<1>1. pending \in Seq(RenderCommand) /\ scene' = scene BY DEF BatchInv, Request
<1>2. PICK w \in Windows :
        \/ pending' = SetPosition(pending, w)
        \/ \E z \in ZOrder \ {Preserve} : pending' = SetZ(pending, w, z)
        \/ \E v \in BOOLEAN : pending' = SetVisible(pending, w, v)
  BY DEF Request
<1>3. Preserve \in ZOrder BY DEF ZOrder
<1>4. Fresh(w) \in RenderCommand BY <1>3 DEF Fresh, RenderCommand
<1>5. CASE pending' = SetPosition(pending, w)
  <2>1. pending' \in Seq(RenderCommand) /\ pending' # <<>> BY <1>1, <1>4, <1>5, AppendProperties DEF SetPosition
  <2>2. QED BY <1>1, <2>1 DEF BatchInv
<1>6. ASSUME NEW z \in ZOrder, pending' = SetZ(pending, w, z) PROVE BatchInv' /\ pending' # <<>>
  <2>1. CASE CommandsOf(pending, w) # {}
    <3>1. PICK i : i = FirstOf(CommandsOf(pending, w)) OBVIOUS
    <3>2. i \in 1..Len(pending) BY <1>1, <2>1, <3>1, FirstCommand
    <3>3. pending' = [pending EXCEPT ![i].z_order = z] BY <1>6, <2>1, <3>1 DEF SetZ
    <3>4. [pending[i] EXCEPT !.z_order = z] \in RenderCommand
      <4>1. pending[i] \in RenderCommand BY <1>1, <3>2
      <4>2. QED BY <4>1 DEF RenderCommand
    <3>5. pending' = [pending EXCEPT ![i] = [pending[i] EXCEPT !.z_order = z]] BY <3>3
    <3>6. pending' \in Seq(RenderCommand) /\ Len(pending') = Len(pending)
      BY <1>1, <3>2, <3>4, <3>5, ExceptSeq
    <3>7. pending' # <<>> BY <1>1, <3>2, <3>6
    <3>8. QED BY <1>1, <3>6, <3>7 DEF BatchInv
  <2>2. CASE ~ (CommandsOf(pending, w) # {})
    <3>1. [Fresh(w) EXCEPT !.z_order = z] \in RenderCommand BY <1>4 DEF RenderCommand
    <3>2. pending' \in Seq(RenderCommand) /\ pending' # <<>> BY <1>1, <1>6, <2>2, <3>1, AppendProperties DEF SetZ
    <3>3. QED BY <1>1, <3>2 DEF BatchInv
  <2>3. QED BY <2>1, <2>2
<1>7. ASSUME NEW v \in BOOLEAN, pending' = SetVisible(pending, w, v) PROVE BatchInv' /\ pending' # <<>>
  <2>1. CASE CommandsOf(pending, w) # {}
    <3>1. PICK i : i = FirstOf(CommandsOf(pending, w)) OBVIOUS
    <3>2. i \in 1..Len(pending) BY <1>1, <2>1, <3>1, FirstCommand
    <3>3. pending' = [pending EXCEPT ![i].visible = v] BY <1>7, <2>1, <3>1 DEF SetVisible
    <3>4. [pending[i] EXCEPT !.visible = v] \in RenderCommand
      <4>1. pending[i] \in RenderCommand BY <1>1, <3>2
      <4>2. QED BY <4>1 DEF RenderCommand
    <3>5. pending' = [pending EXCEPT ![i] = [pending[i] EXCEPT !.visible = v]] BY <3>3
    <3>6. pending' \in Seq(RenderCommand) /\ Len(pending') = Len(pending)
      BY <1>1, <3>2, <3>4, <3>5, ExceptSeq
    <3>7. pending' # <<>> BY <1>1, <3>2, <3>6
    <3>8. QED BY <1>1, <3>6, <3>7 DEF BatchInv
  <2>2. CASE ~ (CommandsOf(pending, w) # {})
    <3>1. [Fresh(w) EXCEPT !.visible = v] \in RenderCommand BY <1>4 DEF RenderCommand
    <3>2. pending' \in Seq(RenderCommand) /\ pending' # <<>> BY <1>1, <1>7, <2>2, <3>1, AppendProperties DEF SetVisible
    <3>3. QED BY <1>1, <3>2 DEF BatchInv
  <2>3. QED BY <2>1, <2>2
<1>8. QED BY <1>2, <1>5, <1>6, <1>7

LEMMA FrameStep == ASSUME BatchInv, Frame PROVE BatchInv'
<1>1. PICK shown : scene' = apply_render_commands(scene, pending, Windows, shown) BY DEF Frame
<1>2. Ordered(scene, pending, apply_render_commands(scene, pending, Windows, shown))
  BY Applied DEF BatchInv
<1>3. scene' \in Stack(Windows) BY <1>1, <1>2 DEF Ordered
<1>4. pending' \in Seq(RenderCommand)
  <2>1. pending' = <<>> BY DEF Frame
  <2>2. QED BY <2>1, EmptySeq
<1>5. QED BY <1>3, <1>4 DEF BatchInv

LEMMA BatchInitially == ASSUME IsFiniteSet(Windows), RenderInit PROVE BatchInv
<1>1. \E f \in [1..Cardinality(Windows) -> Windows] : IsInjective(f)
  <2>1. PICK f : f \in Bijection(1..Cardinality(Windows), Windows)
    BY FS_CardinalityType DEF ExistsBijection
  <2>2. QED BY <2>1 DEF Bijection, Injection
<1>2. SetToSeq(Windows) \in [1..Cardinality(Windows) -> Windows] /\ IsInjective(SetToSeq(Windows))
  BY <1>1 DEF SetToSeq
<1>3. Cardinality(Windows) \in Nat BY FS_CardinalityType
<1>4. SetToSeq(Windows) \in Stack(Windows) BY <1>2, <1>3 DEF Stack
<1>5. <<>> \in Seq(RenderCommand) BY EmptySeq
<1>6. QED BY <1>4, <1>5 DEF RenderInit, BatchInv

LEMMA BatchStep == ASSUME BatchInv, [RenderNext]_renderVars PROVE BatchInv'
<1>1. CASE Request BY <1>1, RequestStep
<1>2. CASE Frame BY <1>2, FrameStep
<1>3. CASE UNCHANGED renderVars BY <1>3 DEF renderVars, BatchInv
<1>4. QED BY <1>1, <1>2, <1>3 DEF RenderNext

\* Only a frame uses up what was requested.
LEMMA DrawnByFrame == ASSUME BatchInv, [RenderNext]_renderVars, Drawn PROVE Frame
<1>1. ~ Request BY RequestStep DEF Drawn
<1>2. ~ UNCHANGED renderVars BY DEF Drawn, renderVars
<1>3. QED BY <1>1, <1>2 DEF RenderNext

LEMMA LastOfPositions ==
  ASSUME NEW N \in Nat, NEW I \in SUBSET (1..N), I # {}
  PROVE  LastOf(I) \in I /\ \A j \in I : j <= LastOf(I)
<1>1. \E i \in I : \A j \in I : j <= i BY MaxOfPositions
<1>2. QED BY <1>1 DEF LastOf

\* LastDirectiveWins: of the directives of a batch the last holds of the stack
\* that the frame leaves, for apply_render_commands raises the windows into
\* just the order that restack worked out, and restack's later commands do
\* not undo it.
THEOREM LastDirectiveIsObeyed == ASSUME IsFiniteSet(Windows) PROVE RenderSpec => LastDirectiveWins
<1> DEFINE directed == { i \in DOMAIN pending : pending[i].z_order # Preserve }
           last == pending[LastOf(directed)]
<1>1. RenderInit => BatchInv BY BatchInitially
<1>2. BatchInv /\ [RenderNext]_renderVars => BatchInv' BY BatchStep
<1>3. ASSUME BatchInv, [RenderNext]_renderVars, Drawn, directed # {}, Contains(scene', last.id)
      PROVE  Holds(scene', last.id, last.z_order)
  <2>1. PICK shown : scene' = apply_render_commands(scene, pending, Windows, shown)
    BY <1>3, DrawnByFrame DEF Frame
  <2>2. scene \in Stack(Windows) /\ pending \in Seq(RenderCommand) BY <1>3 DEF BatchInv
  <2>3. PICK I, d : I = directed /\ d = LastOf(directed) OBVIOUS
  <2>4. /\ I \in SUBSET (1..Len(pending)) /\ Len(pending) \in Nat /\ I # {}
        /\ \A i \in 1..Len(pending) : i \notin I => pending[i].z_order = Preserve
        /\ \A i \in I : pending[i].z_order # Preserve
    BY <1>3, <2>2, <2>3
  <2>5. d \in I /\ \A j \in I : j <= d BY <2>3, <2>4, LastOfPositions
  <2>6. d \in 1..Len(pending) BY <2>4, <2>5
  <2>7. \A n \in 1..Len(pending) : n > d => pending[n].z_order = Preserve
    <3>1. ASSUME NEW n \in 1..Len(pending), n > d PROVE n \notin I BY <2>5, <2>6, <3>1
    <3>2. QED BY <2>4, <3>1
  <2>8. pending[d].z_order # Preserve BY <2>4, <2>5
  <2>9. last = pending[d] BY <2>3
  <2> HIDE DEF directed, last
  <2>10. Contains(scene', pending[d].id) BY <1>3, <2>9
  <2>11. Holds(scene', pending[d].id, pending[d].z_order)
    BY <2>1, <2>2, <2>6, <2>7, <2>8, <2>10, Applied
  <2>12. QED BY <2>9, <2>11
<1>4. BatchInv /\ [RenderNext]_renderVars =>
        [LET d == { i \in DOMAIN pending : pending[i].z_order # Preserve }
         IN (Drawn /\ d # {}) =>
              LET l == pending[LastOf(d)]
              IN Contains(scene', l.id) => Holds(scene', l.id, l.z_order)]_renderVars
  BY <1>3
<1>5. QED BY <1>1, <1>2, <1>4, PTL DEF RenderSpec, LastDirectiveWins

\* OthersKeepOrder: a frame leaves the windows that no command names in the
\* order they had among themselves, although it takes them out and maps them
\* again to reach the order of the others.
THEOREM UnnamedWindowsKeepOrder == ASSUME IsFiniteSet(Windows) PROVE RenderSpec => OthersKeepOrder
<1>1. RenderInit => BatchInv BY BatchInitially
<1>2. BatchInv /\ [RenderNext]_renderVars => BatchInv' BY BatchStep
<1>3. ASSUME BatchInv, [RenderNext]_renderVars, Drawn, NEW v \in Windows, NEW w \in Windows,
             CommandsOf(pending, v) = {}, CommandsOf(pending, w) = {}
      PROVE  Under(scene', v, w) <=> Under(scene, v, w)
  <2>1. PICK shown : scene' = apply_render_commands(scene, pending, Windows, shown)
    BY <1>3, DrawnByFrame DEF Frame
  <2>2. Ordered(scene, pending, apply_render_commands(scene, pending, Windows, shown))
    BY <1>3, Applied DEF BatchInv
  <2>3. QED BY <1>3, <2>1, <2>2 DEF Ordered, Unnamed
<1>4. BatchInv /\ [RenderNext]_renderVars =>
        [Drawn => \A v, w \in Windows :
           (CommandsOf(pending, v) = {} /\ CommandsOf(pending, w) = {})
             => (Under(scene', v, w) <=> Under(scene, v, w))]_renderVars
  BY <1>3
<1>5. QED BY <1>1, <1>2, <1>4, PTL DEF RenderSpec, OthersKeepOrder
=============================================================================
