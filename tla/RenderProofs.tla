----------------------------- MODULE RenderProofs -----------------------------
(***************************************************************************)
(* Lemmas about the operators of RenderCommands: what a fold over a batch  *)
(* of commands computes, what removing and mapping a window does to a      *)
(* stack, and what restacking and raising make of it.                      *)
(*                                                                         *)
(* A fold is a recursion over the positions of a sequence.  Induction over *)
(* them is done with sets: a set of positions that has 0, and with every   *)
(* position the next, has them all.                                        *)
(***************************************************************************)
EXTENDS RenderCommands, WellFoundedInduction, TLAPS

-----------------------------------------------------------------------------
(***************************************************************************)
(* Induction.                                                              *)
(***************************************************************************)
LEMMA LeastElement ==
  ASSUME NEW S, S \subseteq Nat, S # {}
  PROVE  \E n \in S : \A m \in S : n <= m
<1> DEFINE R == OpToRel(<, Nat)
<1>1. \A m, n \in Nat : m < n => <<m, n>> \in R BY DEF OpToRel
<1>2. IsWellFoundedOn(R, Nat) BY NatLessThanWellFounded
<1> HIDE DEF R
<1>3. PICK n \in S : \A m \in S : ~ (<<m, n>> \in R) BY <1>2, WFMin
<1>4. ASSUME NEW m \in S PROVE n <= m
  <2>1. m \in Nat /\ n \in Nat OBVIOUS
  <2>2. ~ (m < n) BY <1>1, <1>3, <2>1
  <2>3. QED BY <2>1, <2>2
<1>5. QED BY <1>4

LEMMA InductionTo ==
  ASSUME NEW N \in Nat, NEW P, 0 \in P,
         \A n \in 1..N : n - 1 \in P => n \in P
  PROVE  \A n \in 0..N : n \in P
<1> SUFFICES ASSUME { n \in 0..N : n \notin P } # {} PROVE FALSE
  OBVIOUS
<1> DEFINE Q == { n \in 0..N : n \notin P }
<1>1. PICK n \in Q : \A m \in Q : n <= m
  <2>1. Q \subseteq Nat /\ Q # {} OBVIOUS
  <2> HIDE DEF Q
  <2>2. QED BY <2>1, LeastElement
<1>2. n # 0 /\ n \in 1..N BY <1>1
<1>3. n - 1 \in 0..N /\ ~ (n <= n - 1) BY <1>2
<1>4. n - 1 \in P BY <1>1, <1>3
<1>5. QED BY <1>1, <1>2, <1>4

LEMMA MaxOfPositions ==
  ASSUME NEW N \in Nat, NEW S \in SUBSET (1..N), S # {}
  PROVE  Max(S) \in S /\ \A i \in S : i <= Max(S)
<1>0. S \subseteq 1..N OBVIOUS
<1>1. PICK d \in { N - i : i \in S } : \A e \in { N - i : i \in S } : d <= e
  <2> DEFINE D == { N - i : i \in S }
  <2>1. \A i \in S : N - i \in Nat BY <1>0
  <2>2. D \subseteq Nat BY <2>1
  <2>3. D # {}
    <3>1. PICK i : i \in S OBVIOUS
    <3>2. N - i \in D BY <3>1
    <3>3. QED BY <3>2
  <2> HIDE DEF D
  <2>4. \E d \in D : \A e \in D : d <= e BY <2>2, <2>3, LeastElement
  <2>5. QED BY <2>4 DEF D
<1>2. \E m \in S : \A i \in S : m >= i
  <2>1. PICK m \in S : d = N - m BY <1>1
  <2>2. \A i \in S : N - m <= N - i BY <1>1, <2>1
  <2>3. QED BY <1>0, <2>2
<1>3. Max(S) \in S /\ \A i \in S : Max(S) >= i BY <1>2 DEF Max
<1>4. QED BY <1>3

LEMMA MaxOfInterval ==
  ASSUME NEW n \in Nat \ {0}
  PROVE  Max(1..n) = n
<1>1. 1..n \in SUBSET (1..n) /\ 1..n # {} OBVIOUS
<1>2. Max(1..n) \in 1..n /\ \A i \in 1..n : i <= Max(1..n) BY <1>1, MaxOfPositions
<1>3. QED BY <1>2

-----------------------------------------------------------------------------
(***************************************************************************)
(* Folds.  FoldLeft(op, base, seq) is a recursion over the sets of         *)
(* positions of seq, from the greatest position down; step is op, a        *)
(* function for every position.                                            *)
(***************************************************************************)
Recursion(g, base, step, S) ==
  \A s \in SUBSET S : g[s] = IF s = {} THEN base ELSE step[Max(s)][g[s \ {Max(s)}]]

\* The recursion has a solution.
LEMMA FoldExists ==
  ASSUME NEW T, NEW N \in Nat, NEW base \in T, NEW step \in [1..N -> [T -> T]]
  PROVE  \E g \in [SUBSET (1..N) -> T] : Recursion(g, base, step, 1..N)
<1> DEFINE P == { n \in 0..N : \E g \in [SUBSET (1..n) -> T] : Recursion(g, base, step, 1..n) }
<1>1. 0 \in P
  <2>1. 1..0 = {} /\ SUBSET (1..0) = {{}} OBVIOUS
  <2>2. [s \in SUBSET (1..0) |-> base] \in [SUBSET (1..0) -> T] OBVIOUS
  <2>3. Recursion([s \in SUBSET (1..0) |-> base], base, step, 1..0) BY <2>1 DEF Recursion
  <2>4. QED BY <2>2, <2>3
<1>2. ASSUME NEW n \in 1..N, n - 1 \in P PROVE n \in P
  <2>1. PICK g \in [SUBSET (1..(n - 1)) -> T] : Recursion(g, base, step, 1..(n - 1))
    BY <1>2
  <2> DEFINE h == [s \in SUBSET (1..n) |-> IF n \in s THEN step[n][g[s \ {n}]] ELSE g[s]]
  <2>2. ASSUME NEW s \in SUBSET (1..n)
        PROVE  s \ {n} \in SUBSET (1..(n - 1)) /\ (n \notin s => s \in SUBSET (1..(n - 1)))
    BY DEF P
  <2>3. h \in [SUBSET (1..n) -> T]
    <3>1. ASSUME NEW s \in SUBSET (1..n)
          PROVE  (IF n \in s THEN step[n][g[s \ {n}]] ELSE g[s]) \in T
      BY <2>2
    <3>2. QED BY <3>1
  <2>4. ASSUME NEW s \in SUBSET (1..n)
        PROVE  h[s] = IF s = {} THEN base ELSE step[Max(s)][h[s \ {Max(s)}]]
    <3>1. CASE n \in s
      <4>1. Max(s) = n
        <5>1. n \in Nat /\ s # {} BY <3>1
        <5>2. Max(s) \in s /\ \A i \in s : i <= Max(s) BY <5>1, MaxOfPositions
        <5>3. n <= Max(s) /\ Max(s) \in 1..n BY <3>1, <5>2
        <5>4. QED BY <5>1, <5>3
      <4>2. s \ {n} \in SUBSET (1..n) /\ n \notin s \ {n} BY <2>2
      <4>3. h[s \ {n}] = g[s \ {n}] BY <4>2
      <4>4. QED BY <3>1, <4>1, <4>3
    <3>2. CASE n \notin s
      <4>1. s \in SUBSET (1..(n - 1)) BY <2>2, <3>2
      <4>2. h[s] = IF s = {} THEN base ELSE step[Max(s)][g[s \ {Max(s)}]]
        BY <2>1, <3>2, <4>1 DEF Recursion
      <4>3. h[s \ {Max(s)}] = g[s \ {Max(s)}]
        <5>1. s \ {Max(s)} \in SUBSET (1..n) /\ n \notin s \ {Max(s)} BY <3>2
        <5>2. QED BY <5>1
      <4>4. QED BY <4>2, <4>3
    <3>3. QED BY <3>1, <3>2
  <2> HIDE DEF h
  <2>5. Recursion(h, base, step, 1..n) BY <2>4 DEF Recursion
  <2>6. QED BY <2>3, <2>5
<1> HIDE DEF P
<1>3. \A n \in 0..N : n \in P BY <1>1, <1>2, InductionTo
<1>4. N \in P BY <1>3
<1>5. QED BY <1>4 DEF P

LEMMA Positions ==
  ASSUME NEW N \in Nat, NEW n \in 1..N
  PROVE  1..n \in SUBSET (1..N) /\ 1..n # {} /\ Max(1..n) = n /\ (1..n) \ {n} = 1..(n - 1)
<1>1. n \in Nat \ {0} /\ n \in 1..n OBVIOUS
<1>2. 1..n \subseteq 1..N OBVIOUS
<1>3. Max(1..n) = n BY <1>1, MaxOfInterval
<1>4. (1..n) \ {n} = 1..(n - 1) OBVIOUS
<1>5. QED BY <1>1, <1>2, <1>3, <1>4

\* The first pass of apply_render_commands, command by command.
Placing(f, stack, commands, registered, shown) ==
  /\ f[0] = stack
  /\ \A n \in 1..Len(commands) : f[n] = Place(f[n - 1], commands[n], registered, shown)
  /\ FoldLeft(LAMBDA st, cmd : Place(st, cmd, registered, shown), stack, commands) = f[Len(commands)]

LEMMA PlaceFold ==
  ASSUME NEW T, NEW C, NEW registered, NEW shown, NEW stack \in T, NEW commands \in Seq(C),
         \A st \in T, c \in C : Place(st, c, registered, shown) \in T
  PROVE  \E f \in [0..Len(commands) -> T] : Placing(f, stack, commands, registered, shown)
<1> DEFINE N == Len(commands)
           step == [n \in 1..N |-> [st \in T |-> Place(st, commands[n], registered, shown)]]
           Body(h) == [s \in SUBSET DOMAIN commands |-> IF s = {} THEN stack
                        ELSE Place(h[s \ {Max(s)}], commands[Max(s)], registered, shown)]
           it == CHOOSE h : h = Body(h)
<1>1. N \in Nat /\ DOMAIN commands = 1..N /\ \A n \in 1..N : commands[n] \in C OBVIOUS
<1>2. step \in [1..N -> [T -> T]] BY <1>1
<1> HIDE DEF N
<1>3. PICK g \in [SUBSET (1..N) -> T] : Recursion(g, stack, step, 1..N)
  BY <1>1, <1>2, FoldExists
<1>4. ASSUME NEW s \in SUBSET (1..N), s # {}
      PROVE  g[s] = Place(g[s \ {Max(s)}], commands[Max(s)], registered, shown)
  <2>1. Max(s) \in 1..N BY <1>1, <1>4, MaxOfPositions
  <2>2. g[s \ {Max(s)}] \in T OBVIOUS
  <2>3. g[s] = step[Max(s)][g[s \ {Max(s)}]] BY <1>3, <1>4 DEF Recursion
  <2>4. QED BY <2>1, <2>2, <2>3
<1>5. g = Body(g)
  <2>1. {} \in SUBSET (1..N) OBVIOUS
  <2>2. g[{}] = stack BY <1>3, <2>1 DEF Recursion
  <2>3. QED BY <1>1, <1>4, <2>2
<1>6. it = Body(it) BY <1>5
<1>7. FoldLeft(LAMBDA st, cmd : Place(st, cmd, registered, shown), stack, commands) = it[1..N]
  BY <1>1 DEF FoldLeft, MapThenFoldSet
<1> HIDE DEF it, step
<1>8. it[1..0] = stack
  <2>1. 1..0 = {} /\ {} \in SUBSET DOMAIN commands OBVIOUS
  <2>2. QED BY <1>6, <2>1
<1>9. ASSUME NEW n \in 1..N PROVE it[1..n] = Place(it[1..(n - 1)], commands[n], registered, shown)
  <2>1. 1..n \in SUBSET DOMAIN commands /\ 1..n # {} /\ Max(1..n) = n /\ (1..n) \ {n} = 1..(n - 1)
    BY <1>1, Positions
  <2>2. QED BY <1>6, <2>1
<1> HIDE DEF Body
<1>10. \A n \in 0..N : it[1..n] \in T
  <2> DEFINE P == { n \in 0..N : it[1..n] \in T }
  <2>1. 0 \in P BY <1>1, <1>8
  <2>2. ASSUME NEW n \in 1..N, n - 1 \in P PROVE n \in P
    BY <1>1, <1>9, <2>2
  <2> HIDE DEF P
  <2>3. \A n \in 0..N : n \in P BY <1>1, <2>1, <2>2, InductionTo
  <2>4. QED BY <2>3 DEF P
<1> DEFINE f == [n \in 0..N |-> it[1..n]]
<1>11. f \in [0..N -> T] BY <1>10
<1>12. f[0] = stack BY <1>1, <1>8
<1>13. \A n \in 1..N : f[n] = Place(f[n - 1], commands[n], registered, shown)
  <2>1. \A n \in 1..N : n \in 0..N /\ n - 1 \in 0..N BY <1>1
  <2>2. QED BY <1>9, <2>1
<1>14. f[N] = it[1..N] BY <1>1
<1> HIDE DEF f
<1>15. Placing(f, stack, commands, registered, shown) BY <1>7, <1>12, <1>13, <1>14 DEF N, Placing
<1>16. QED BY <1>11, <1>15 DEF N

\* restack, directive by directive.
Restacking(f, stack, commands) ==
  /\ f[0] = stack
  /\ \A n \in 1..Len(commands) : f[n] = Restacked(f[n - 1], commands[n])
  /\ FoldLeft(Restacked, stack, commands) = f[Len(commands)]

LEMMA RestackFold ==
  ASSUME NEW T, NEW C, NEW stack \in T, NEW commands \in Seq(C),
         \A st \in T, c \in C : Restacked(st, c) \in T
  PROVE  \E f \in [0..Len(commands) -> T] : Restacking(f, stack, commands)
<1> DEFINE N == Len(commands)
           step == [n \in 1..N |-> [st \in T |-> Restacked(st, commands[n])]]
           Body(h) == [s \in SUBSET DOMAIN commands |-> IF s = {} THEN stack
                        ELSE Restacked(h[s \ {Max(s)}], commands[Max(s)])]
           it == CHOOSE h : h = Body(h)
<1>1. N \in Nat /\ DOMAIN commands = 1..N /\ \A n \in 1..N : commands[n] \in C OBVIOUS
<1>2. step \in [1..N -> [T -> T]] BY <1>1
<1> HIDE DEF N
<1>3. PICK g \in [SUBSET (1..N) -> T] : Recursion(g, stack, step, 1..N)
  BY <1>1, <1>2, FoldExists
<1>4. ASSUME NEW s \in SUBSET (1..N), s # {}
      PROVE  g[s] = Restacked(g[s \ {Max(s)}], commands[Max(s)])
  <2>1. Max(s) \in 1..N BY <1>1, <1>4, MaxOfPositions
  <2>2. g[s \ {Max(s)}] \in T OBVIOUS
  <2>3. g[s] = step[Max(s)][g[s \ {Max(s)}]] BY <1>3, <1>4 DEF Recursion
  <2>4. QED BY <2>1, <2>2, <2>3
<1>5. g = Body(g)
  <2>1. {} \in SUBSET (1..N) OBVIOUS
  <2>2. g[{}] = stack BY <1>3, <2>1 DEF Recursion
  <2>3. QED BY <1>1, <1>4, <2>2
<1>6. it = Body(it) BY <1>5
<1>7. FoldLeft(Restacked, stack, commands) = it[1..N]
  BY <1>1 DEF FoldLeft, MapThenFoldSet
<1> HIDE DEF it, step
<1>8. it[1..0] = stack
  <2>1. 1..0 = {} /\ {} \in SUBSET DOMAIN commands OBVIOUS
  <2>2. QED BY <1>6, <2>1
<1>9. ASSUME NEW n \in 1..N PROVE it[1..n] = Restacked(it[1..(n - 1)], commands[n])
  <2>1. 1..n \in SUBSET DOMAIN commands /\ 1..n # {} /\ Max(1..n) = n /\ (1..n) \ {n} = 1..(n - 1)
    BY <1>1, Positions
  <2>2. QED BY <1>6, <2>1
<1> HIDE DEF Body
<1>10. \A n \in 0..N : it[1..n] \in T
  <2> DEFINE P == { n \in 0..N : it[1..n] \in T }
  <2>1. 0 \in P BY <1>1, <1>8
  <2>2. ASSUME NEW n \in 1..N, n - 1 \in P PROVE n \in P
    BY <1>1, <1>9, <2>2
  <2> HIDE DEF P
  <2>3. \A n \in 0..N : n \in P BY <1>1, <2>1, <2>2, InductionTo
  <2>4. QED BY <2>3 DEF P
<1> DEFINE f == [n \in 0..N |-> it[1..n]]
<1>11. f \in [0..N -> T] BY <1>10
<1>12. f[0] = stack BY <1>1, <1>8
<1>13. \A n \in 1..N : f[n] = Restacked(f[n - 1], commands[n])
  <2>1. \A n \in 1..N : n \in 0..N /\ n - 1 \in 0..N BY <1>1
  <2>2. QED BY <1>9, <2>1
<1>14. f[N] = it[1..N] BY <1>1
<1> HIDE DEF f
<1>15. Restacking(f, stack, commands) BY <1>7, <1>12, <1>13, <1>14 DEF N, Restacking
<1>16. QED BY <1>11, <1>15 DEF N

\* The second pass: the windows of an order are raised in turn.
Raising(f, stack, order) ==
  /\ f[0] = stack
  /\ \A n \in 1..Len(order) : f[n] = raise_element(f[n - 1], order[n])
  /\ FoldLeft(raise_element, stack, order) = f[Len(order)]

LEMMA RaiseFold ==
  ASSUME NEW T, NEW C, NEW stack \in T, NEW order \in Seq(C),
         \A st \in T, c \in C : raise_element(st, c) \in T
  PROVE  \E f \in [0..Len(order) -> T] : Raising(f, stack, order)
<1> DEFINE N == Len(order)
           step == [n \in 1..N |-> [st \in T |-> raise_element(st, order[n])]]
           Body(h) == [s \in SUBSET DOMAIN order |-> IF s = {} THEN stack
                        ELSE raise_element(h[s \ {Max(s)}], order[Max(s)])]
           it == CHOOSE h : h = Body(h)
<1>1. N \in Nat /\ DOMAIN order = 1..N /\ \A n \in 1..N : order[n] \in C OBVIOUS
<1>2. step \in [1..N -> [T -> T]] BY <1>1
<1> HIDE DEF N
<1>3. PICK g \in [SUBSET (1..N) -> T] : Recursion(g, stack, step, 1..N)
  BY <1>1, <1>2, FoldExists
<1>4. ASSUME NEW s \in SUBSET (1..N), s # {}
      PROVE  g[s] = raise_element(g[s \ {Max(s)}], order[Max(s)])
  <2>1. Max(s) \in 1..N BY <1>1, <1>4, MaxOfPositions
  <2>2. g[s \ {Max(s)}] \in T OBVIOUS
  <2>3. g[s] = step[Max(s)][g[s \ {Max(s)}]] BY <1>3, <1>4 DEF Recursion
  <2>4. QED BY <2>1, <2>2, <2>3
<1>5. g = Body(g)
  <2>1. {} \in SUBSET (1..N) OBVIOUS
  <2>2. g[{}] = stack BY <1>3, <2>1 DEF Recursion
  <2>3. QED BY <1>1, <1>4, <2>2
<1>6. it = Body(it) BY <1>5
<1>7. FoldLeft(raise_element, stack, order) = it[1..N]
  BY <1>1 DEF FoldLeft, MapThenFoldSet
<1> HIDE DEF it, step
<1>8. it[1..0] = stack
  <2>1. 1..0 = {} /\ {} \in SUBSET DOMAIN order OBVIOUS
  <2>2. QED BY <1>6, <2>1
<1>9. ASSUME NEW n \in 1..N PROVE it[1..n] = raise_element(it[1..(n - 1)], order[n])
  <2>1. 1..n \in SUBSET DOMAIN order /\ 1..n # {} /\ Max(1..n) = n /\ (1..n) \ {n} = 1..(n - 1)
    BY <1>1, Positions
  <2>2. QED BY <1>6, <2>1
<1> HIDE DEF Body
<1>10. \A n \in 0..N : it[1..n] \in T
  <2> DEFINE P == { n \in 0..N : it[1..n] \in T }
  <2>1. 0 \in P BY <1>1, <1>8
  <2>2. ASSUME NEW n \in 1..N, n - 1 \in P PROVE n \in P
    BY <1>1, <1>9, <2>2
  <2> HIDE DEF P
  <2>3. \A n \in 0..N : n \in P BY <1>1, <2>1, <2>2, InductionTo
  <2>4. QED BY <2>3 DEF P
<1> DEFINE f == [n \in 0..N |-> it[1..n]]
<1>11. f \in [0..N -> T] BY <1>10
<1>12. f[0] = stack BY <1>1, <1>8
<1>13. \A n \in 1..N : f[n] = raise_element(f[n - 1], order[n])
  <2>1. \A n \in 1..N : n \in 0..N /\ n - 1 \in 0..N BY <1>1
  <2>2. QED BY <1>9, <2>1
<1>14. f[N] = it[1..N] BY <1>1
<1> HIDE DEF f
<1>15. Raising(f, stack, order) BY <1>7, <1>12, <1>13, <1>14 DEF N, Raising
<1>16. QED BY <1>11, <1>15 DEF N

-----------------------------------------------------------------------------
(***************************************************************************)
(* Stacks: every window at most once.                                      *)
(***************************************************************************)
Stack(S) == { st \in Seq(S) : IsInjective(st) }

LEMMA IndexOf ==
  ASSUME NEW S, NEW st \in Seq(S), NEW w, Contains(st, w)
  PROVE  /\ index_of(st, w) \in 1..Len(st) /\ st[index_of(st, w)] = w
         /\ w \in S
<1> DEFINE I == { i \in DOMAIN st : st[i] = w }
<1>1. I \subseteq Nat /\ I # {} /\ DOMAIN st = 1..Len(st) BY DEF Contains
<1>2. I \subseteq 1..Len(st) /\ \A i \in I : st[i] = w BY <1>1
<1>3. index_of(st, w) = FirstOf(I) BY DEF index_of
<1> HIDE DEF I
<1>4. \E i \in I : \A j \in I : i <= j BY <1>1, LeastElement
<1>5. FirstOf(I) \in I BY <1>4 DEF FirstOf
<1>6. index_of(st, w) \in 1..Len(st) /\ st[index_of(st, w)] = w BY <1>2, <1>3, <1>5
<1>7. \A i \in 1..Len(st) : st[i] \in S OBVIOUS
<1>8. QED BY <1>6, <1>7

\* What is left when a window is removed, position by position.
LEMMA WithoutPositions ==
  ASSUME NEW S, NEW st \in Seq(S), NEW w, Contains(st, w)
  PROVE  /\ Without(st, w) \in Seq(S)
         /\ Len(Without(st, w)) = Len(st) - 1
         /\ \A i \in 1..(Len(st) - 1) :
              Without(st, w)[i] = IF i < index_of(st, w) THEN st[i] ELSE st[i + 1]
<1> DEFINE p == index_of(st, w)
<1>1. p \in 1..Len(st) BY IndexOf
<1>2. Without(st, w) = SubSeq(st, 1, p - 1) \o SubSeq(st, p + 1, Len(st))
  BY DEF Without, RemoveAt
<1> HIDE DEF p
<1> DEFINE a == SubSeq(st, 1, p - 1)
           b == SubSeq(st, p + 1, Len(st))
<1>3. a \in Seq(S) /\ Len(a) = p - 1 /\ \A i \in 1..(p - 1) : a[i] = st[i] BY <1>1
<1>4. b \in Seq(S) /\ Len(b) = Len(st) - p /\ \A i \in 1..(Len(st) - p) : b[i] = st[p + i] BY <1>1
<1> HIDE DEF a, b
<1>5. a \o b \in Seq(S) /\ Len(a \o b) = Len(st) - 1
  <2>1. a \o b \in Seq(S) BY <1>3, <1>4
  <2>2. Len(a \o b) = Len(a) + Len(b) BY <1>3, <1>4
  <2>3. QED BY <1>1, <1>3, <1>4, <2>1, <2>2
<1>6. ASSUME NEW i \in 1..(Len(st) - 1)
      PROVE  (a \o b)[i] = IF i < p THEN st[i] ELSE st[i + 1]
  <2>1. CASE i < p BY <1>1, <1>3, <1>4, <2>1
  <2>2. CASE ~ (i < p)
    <3>1. i - (p - 1) \in 1..(Len(st) - p) BY <1>1, <2>2
    <3>2. (a \o b)[i] = b[i - (p - 1)] BY <1>1, <1>3, <1>4, <2>2, <3>1
    <3>3. b[i - (p - 1)] = st[p + (i - (p - 1))] BY <1>4, <3>1
    <3>4. p + (i - (p - 1)) = i + 1 BY <1>1
    <3>5. QED BY <2>2, <3>2, <3>3, <3>4
  <2>3. QED BY <2>1, <2>2
<1>7. Without(st, w) = a \o b BY <1>2 DEF a, b
<1>8. QED BY <1>5, <1>6, <1>7 DEF p

LEMMA WithoutStack ==
  ASSUME NEW S, NEW st \in Stack(S), NEW w
  PROVE  Without(st, w) \in Stack(S) /\ ToSet(Without(st, w)) = ToSet(st) \ {w}
<1>0. st \in Seq(S) /\ IsInjective(st) /\ DOMAIN st = 1..Len(st) BY DEF Stack
<1>1. CASE ~ Contains(st, w)
  <2>1. Without(st, w) = st BY <1>1 DEF Without
  <2>2. w \notin ToSet(st) BY <1>0, <1>1 DEF Contains, ToSet
  <2>3. QED BY <2>1, <2>2
<1>2. CASE Contains(st, w)
  <2> DEFINE p == index_of(st, w)
             r == Without(st, w)
  <2>1. p \in 1..Len(st) /\ st[p] = w
    <3>1. st \in Seq(S) BY <1>0
    <3>2. QED BY ONLY <1>2, <3>1, IndexOf
  <2>2. /\ r \in Seq(S) /\ Len(r) = Len(st) - 1
        /\ \A i \in 1..(Len(st) - 1) : r[i] = IF i < p THEN st[i] ELSE st[i + 1]
    BY <1>0, <1>2, WithoutPositions
  <2> HIDE DEF p, r
  <2>3. DOMAIN r = 1..(Len(st) - 1) BY <2>2
  <2>4. IsInjective(r)
    <3> SUFFICES ASSUME NEW i \in DOMAIN r, NEW j \in DOMAIN r, r[i] = r[j]
                 PROVE  i = j
      BY DEF IsInjective
    <3> DEFINE i1 == IF i < p THEN i ELSE i + 1
               j1 == IF j < p THEN j ELSE j + 1
    <3>1. i1 \in 1..Len(st) /\ j1 \in 1..Len(st) BY <2>1, <2>3
    <3>2. r[i] = st[i1] /\ r[j] = st[j1] BY <2>2, <2>3
    <3>3. i1 = j1
      <4> HIDE DEF i1, j1
      <4>1. QED BY <1>0, <3>1, <3>2 DEF IsInjective
    <3>4. QED BY <2>1, <2>3, <3>3
  <2>5. ASSUME NEW i \in DOMAIN r PROVE r[i] \in ToSet(st) \ {w}
    <3> DEFINE i1 == IF i < p THEN i ELSE i + 1
    <3>1. i1 \in 1..Len(st) /\ i1 # p BY <2>1, <2>3
    <3>2. r[i] = st[i1] BY <2>2, <2>3
    <3> HIDE DEF i1
    <3>3. st[i1] # w BY <1>0, <2>1, <3>1 DEF IsInjective
    <3>4. QED BY <1>0, <3>1, <3>2, <3>3 DEF ToSet
  <2>6. ASSUME NEW i \in DOMAIN st, st[i] # w PROVE \E j \in DOMAIN r : r[j] = st[i]
    <3> DEFINE j == IF i < p THEN i ELSE i - 1
    <3>1. i # p BY <2>1, <2>6
    <3>2. j \in 1..(Len(st) - 1) /\ (IF j < p THEN j ELSE j + 1) = i BY <1>0, <2>1, <3>1
    <3>3. r[j] = IF j < p THEN st[j] ELSE st[j + 1] BY <2>2, <3>2
    <3>4. r[j] = st[i] BY <3>2, <3>3
    <3>5. QED BY <2>3, <3>2, <3>4
  <2>7. ToSet(r) = ToSet(st) \ {w} BY <2>5, <2>6 DEF ToSet
  <2>8. QED BY <2>2, <2>4, <2>7 DEF r, Stack
<1>3. QED BY <1>1, <1>2

LEMMA AppendStack ==
  ASSUME NEW S, NEW st \in Stack(S), NEW w \in S, w \notin ToSet(st)
  PROVE  Append(st, w) \in Stack(S) /\ ToSet(Append(st, w)) = ToSet(st) \cup {w}
<1>1. st \in Seq(S) /\ IsInjective(st) /\ DOMAIN st = 1..Len(st) BY DEF Stack
<1>2. /\ Append(st, w) \in Seq(S) /\ DOMAIN Append(st, w) = 1..(Len(st) + 1)
      /\ Append(st, w)[Len(st) + 1] = w
      /\ \A i \in 1..Len(st) : Append(st, w)[i] = st[i]
  BY <1>1
<1>3. \A i \in 1..Len(st) : st[i] # w BY <1>1 DEF ToSet
<1>4. IsInjective(Append(st, w))
  <2> SUFFICES ASSUME NEW i \in 1..(Len(st) + 1), NEW j \in 1..(Len(st) + 1),
                      Append(st, w)[i] = Append(st, w)[j]
               PROVE  i = j
    BY <1>2 DEF IsInjective
  <2>1. CASE i \in 1..Len(st) /\ j \in 1..Len(st) BY <1>1, <1>2, <2>1 DEF IsInjective
  <2>2. CASE i = Len(st) + 1 \/ j = Len(st) + 1 BY <1>1, <1>2, <1>3, <2>2
  <2>3. QED BY <1>1, <2>1, <2>2
<1>5. ToSet(Append(st, w)) = ToSet(st) \cup {w}
  <2>1. \A i \in 1..(Len(st) + 1) : Append(st, w)[i] \in ToSet(st) \cup {w}
    BY <1>1, <1>2 DEF ToSet
  <2>2. \A i \in 1..Len(st) : st[i] \in ToSet(Append(st, w)) BY <1>1, <1>2 DEF ToSet
  <2>3. w \in ToSet(Append(st, w)) BY <1>1, <1>2 DEF ToSet
  <2>4. QED BY <1>1, <1>2, <2>1, <2>2, <2>3 DEF ToSet
<1>6. QED BY <1>2, <1>4, <1>5 DEF Stack

LEMMA ContainsToSet ==
  ASSUME NEW S, NEW st \in Seq(S), NEW w
  PROVE  Contains(st, w) <=> w \in ToSet(st)
BY DEF Contains, ToSet

\* Space::map_element, raise_element and unmap_elem.
LEMMA SpaceStack ==
  ASSUME NEW S, NEW st \in Stack(S), NEW w \in S
  PROVE  /\ map_element(st, w) \in Stack(S) /\ ToSet(map_element(st, w)) = ToSet(st) \cup {w}
         /\ raise_element(st, w) \in Stack(S) /\ ToSet(raise_element(st, w)) = ToSet(st)
         /\ unmap_elem(st, w) \in Stack(S) /\ ToSet(unmap_elem(st, w)) = ToSet(st) \ {w}
<1>1. Without(st, w) \in Stack(S) /\ ToSet(Without(st, w)) = ToSet(st) \ {w} BY WithoutStack
<1>2. map_element(st, w) \in Stack(S) /\ ToSet(map_element(st, w)) = ToSet(st) \cup {w}
  BY <1>1, AppendStack DEF map_element
<1>3. st \in Seq(S) BY DEF Stack
<1>4. raise_element(st, w) \in Stack(S) /\ ToSet(raise_element(st, w)) = ToSet(st)
  BY <1>2, <1>3, ContainsToSet DEF raise_element
<1>5. QED BY <1>1, <1>2, <1>4 DEF unmap_elem
=============================================================================
