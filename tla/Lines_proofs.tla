---------------------------- MODULE Lines_proofs ----------------------------
(***************************************************************************)
(* Proofs about Lines and LinesRun, for a board of any size: the parts of   *)
(* the engine that decide who wins agree on every position.                 *)
(***************************************************************************)
EXTENDS LinesRun, FiniteSetTheorems, WellFoundedInduction, TLAPS

Position == [Point -> {"Empty", "Black", "White"}]
Plane    == Int \X Int
Unit     == {d \in {-1, 0, 1} \X {-1, 0, 1} : d # <<0, 0>>}
Back(d)  == <<-d[1], -d[2]>>

-----------------------------------------------------------------------------
(* Steps over the board.                                                   *)
LEMMA Products ==
  ASSUME NEW k \in Int, NEW e \in {-1, 0, 1}
  PROVE  k * e = IF e = 1 THEN k ELSE IF e = 0 THEN 0 ELSE -k
  OBVIOUS

LEMMA UnitIs ==
  ASSUME NEW d \in Unit
  PROVE  /\ d = <<d[1], d[2]>> /\ d[1] \in {-1, 0, 1} /\ d[2] \in {-1, 0, 1}
         /\ d[1] # 0 \/ d[2] # 0
         /\ Back(d) \in Unit /\ Back(Back(d)) = d
  <1>1. PICK a \in {-1, 0, 1}, b \in {-1, 0, 1} : d = <<a, b>> /\ d # <<0, 0>> BY DEF Unit
  <1>2. -a \in {-1, 0, 1} /\ -b \in {-1, 0, 1} /\ -(-a) = a /\ -(-b) = b BY <1>1
  <1>3. Back(d) = <<-a, -b>> /\ (-a # 0 \/ -b # 0) BY <1>1 DEF Back
  <1> QED BY <1>1, <1>2, <1>3 DEF Unit, Back

LEMMA DirectionsAreUnits == \A d \in Directions : d \in Unit /\ Back(d) \in Unit
  <1>1. Directions \subseteq Unit BY DEF Directions, Unit
  <1> QED BY <1>1, UnitIs

LEMMA PointIsPlane ==
  /\ Point \subseteq Plane /\ Size \in Nat \ {0}
  /\ \A p \in Plane : p \in Point <=> p[1] \in 0..Size - 1 /\ p[2] \in 0..Size - 1
  BY SizeAssumption DEF Point, Plane, Coordinate

LEMMA ShiftIs ==
  ASSUME NEW p \in Plane, NEW d \in Unit, NEW i \in Int, NEW j \in Int
  PROVE  /\ Shift(p, d, i) \in Plane
         /\ Shift(Shift(p, d, i), d, j) = Shift(p, d, i + j)
         /\ Shift(p, Back(d), i) = Shift(p, d, -i)
         /\ Shift(p, d, 0) = p
         /\ Shift(p, d, i) = Shift(p, d, j) => i = j
  <1>1. d[1] \in {-1, 0, 1} /\ d[2] \in {-1, 0, 1} /\ (d[1] # 0 \/ d[2] # 0) BY UnitIs
  <1>2. p = <<p[1], p[2]>> /\ p[1] \in Int /\ p[2] \in Int BY DEF Plane
  <1>3. \A k \in Int, e \in {-1, 0, 1} : k * e = IF e = 1 THEN k ELSE IF e = 0 THEN 0 ELSE -k
    BY Products
  <1>4. \A k \in Int : Shift(p, d, k) \in Plane BY <1>1, <1>2, <1>3 DEF Shift, Plane
  <1>5. \A k, l \in Int, e \in {-1, 0, 1} : k * e + l * e = (k + l) * e /\ k * (-e) = (-k) * e
    BY <1>3
  <1>6. Shift(Shift(p, d, i), d, j) = Shift(p, d, i + j)
    <2>1. Shift(Shift(p, d, i), d, j) = <<(p[1] + i * d[1]) + j * d[1], (p[2] + i * d[2]) + j * d[2]>>
      BY DEF Shift
    <2>2. Shift(p, d, i + j) = <<p[1] + (i + j) * d[1], p[2] + (i + j) * d[2]>> BY DEF Shift
    <2>3. \A x \in Int, e \in {-1, 0, 1} : (x + i * e) + j * e = x + (i + j) * e BY <1>3
    <2> QED BY <1>1, <1>2, <2>1, <2>2, <2>3
  <1>7. Shift(p, Back(d), i) = Shift(p, d, -i) BY <1>1, <1>2, <1>5 DEF Shift, Back
  <1>8. Shift(p, d, 0) = p BY <1>1, <1>2, <1>3 DEF Shift
  <1>9. ASSUME Shift(p, d, i) = Shift(p, d, j) PROVE i = j
    <2>1. p[1] + i * d[1] = p[1] + j * d[1] /\ p[2] + i * d[2] = p[2] + j * d[2] BY <1>9 DEF Shift
    <2>2. ASSUME NEW x \in Int, NEW e \in {-1, 1}, x + i * e = x + j * e PROVE i = j BY <2>2, <1>3
    <2> QED BY <1>1, <1>2, <2>1, <2>2
  <1> QED BY <1>4, <1>6, <1>7, <1>8, <1>9

LEMMA LeavesBoard ==
  ASSUME NEW p \in Point, NEW d \in Unit
  PROVE  Shift(p, d, Size) \notin Point
  <1>1. d[1] \in {-1, 0, 1} /\ d[2] \in {-1, 0, 1} /\ (d[1] # 0 \/ d[2] # 0) BY UnitIs
  <1>2. p[1] \in 0..Size - 1 /\ p[2] \in 0..Size - 1 /\ p \in Plane /\ Size \in Nat \ {0}
    BY PointIsPlane
  <1>3. Shift(p, d, Size) \in Plane BY <1>2, ShiftIs
  <1>4. \A x \in 0..Size - 1, e \in {-1, 1} : x + Size * e \notin 0..Size - 1
    BY <1>2, Products
  <1>5. Shift(p, d, Size) = <<p[1] + Size * d[1], p[2] + Size * d[2]>> BY DEF Shift
  <1> QED BY <1>1, <1>2, <1>3, <1>4, <1>5, PointIsPlane

-----------------------------------------------------------------------------
(* A run ends at the first point that is not of its colour.                 *)
LEMMA RunIs ==
  ASSUME NEW c, NEW p \in Point, NEW s, NEW d \in Unit
  PROVE  /\ Run(c, p, s, d) \in Nat
         /\ \A k \in 1..Run(c, p, s, d) : Is(c, Shift(p, d, k), s)
         /\ ~Is(c, Shift(p, d, Run(c, p, s, d) + 1), s)
  <1> DEFINE In(k) == Is(c, Shift(p, d, k), s)
             Ends  == {n \in Nat : n # 0 /\ ~In(n)}
             R     == {ss \in Nat \X Nat : ss[1] < ss[2]}
  <1>1. Size \in Ends BY LeavesBoard, PointIsPlane DEF Is
  <1>2. IsWellFoundedOn(R, Nat) BY NatLessThanWellFounded DEF OpToRel
  <1> HIDE DEF R
  <1>3. PICK m \in Ends : \A n \in Ends : ~ (<<n, m>> \in R)
    <2>1. Ends \subseteq Nat /\ Ends # {} BY <1>1
    <2> HIDE DEF Ends
    <2> QED BY <1>2, <2>1, WFMin
  <1>4. \A n \in Ends : m <= n
    <2> TAKE n \in Ends
    <2>1. m \in Nat /\ n \in Nat BY <1>3
    <2>2. n < m => <<n, m>> \in R BY <2>1 DEF R
    <2> QED BY <1>3, <2>1, <2>2
  <1>5. m \in Nat \ {0} /\ ~In(m) /\ m <= Size /\ \A k \in 1..m - 1 : In(k)
    <2>1. m \in Nat \ {0} /\ ~In(m) /\ m <= Size BY <1>1, <1>3, <1>4
    <2>2. ASSUME NEW k \in 1..m - 1 PROVE In(k)
      <3>1. k \in Nat /\ k # 0 /\ ~(m <= k) BY <2>1
      <3> QED BY <1>4, <3>1
    <2> QED BY <2>1, <2>2
  <1> HIDE DEF In
  <1>6. {n \in 1..Size : \A k \in 1..n : In(k)} = 1..m - 1
    <2>1. ASSUME NEW n \in 1..Size, \A k \in 1..n : In(k) PROVE n \in 1..m - 1
      <3>1. ~(m \in 1..n) BY <1>5, <2>1
      <3> QED BY <1>5, <3>1, PointIsPlane
    <2>2. ASSUME NEW n \in 1..m - 1 PROVE n \in 1..Size /\ \A k \in 1..n : In(k)
      <3>1. n \in 1..Size BY <1>5, PointIsPlane
      <3>2. \A k \in 1..n : k \in 1..m - 1 BY <1>5
      <3> QED BY <1>5, <3>1, <3>2
    <2> QED BY <2>1, <2>2
  <1>7. Run(c, p, s, d) = Cardinality(1..m - 1) BY <1>6 DEF Run, In
  <1>8. Run(c, p, s, d) = m - 1 BY <1>5, <1>7, FS_Interval
  <1> QED BY <1>5, <1>8 DEF In

LEMMA RunUnique ==
  ASSUME NEW c, NEW p \in Point, NEW s, NEW d \in Unit, NEW r \in Nat,
         \A k \in 1..r : Is(c, Shift(p, d, k), s), ~Is(c, Shift(p, d, r + 1), s)
  PROVE  Run(c, p, s, d) = r
  <1> DEFINE q == Run(c, p, s, d)
  <1>1. /\ q \in Nat /\ \A k \in 1..q : Is(c, Shift(p, d, k), s)
        /\ ~Is(c, Shift(p, d, q + 1), s)
    BY RunIs
  <1> HIDE DEF q
  <1>2. ~(q < r)
    <2>1. q < r => q + 1 \in 1..r BY <1>1
    <2> QED BY <1>1, <2>1
  <1>3. ~(r < q)
    <2>1. r < q => r + 1 \in 1..q BY <1>1
    <2> QED BY <1>1, <2>1
  <1> QED BY <1>1, <1>2, <1>3 DEF q

-----------------------------------------------------------------------------
(* A stone of colour s is put on the empty point m.                         *)
LEMMA IsAfter ==
  ASSUME NEW c \in Position, NEW m \in Point, c[m] = "Empty", NEW s \in Playable
  PROVE  LET a == [c EXCEPT ![m] = s] IN
         /\ \A q : Is(a, q, s) <=> q = m \/ Is(c, q, s)
         /\ ~Is(c, m, s)
  BY DEF Is, Position, Playable

LEMMA SameRun ==
  ASSUME NEW c \in Position, NEW m \in Point, c[m] = "Empty", NEW s \in Playable, NEW d \in Unit
  PROVE  Run([c EXCEPT ![m] = s], m, s, d) = Run(c, m, s, d)
  <1> DEFINE a == [c EXCEPT ![m] = s]
             r == Run(c, m, s, d)
  <1>1. /\ r \in Nat /\ \A k \in 1..r : Is(c, Shift(m, d, k), s)
        /\ ~Is(c, Shift(m, d, r + 1), s)
    BY RunIs
  <1>2. \A q : Is(a, q, s) <=> q = m \/ Is(c, q, s) BY IsAfter
  <1>3. Shift(m, d, r + 1) # m
    <2>1. m \in Plane /\ r + 1 \in Int /\ 0 \in Int /\ r + 1 # 0 BY <1>1, PointIsPlane
    <2> QED BY <2>1, ShiftIs
  <1> HIDE DEF a, r
  <1>4. Run(a, m, s, d) = r BY <1>1, <1>2, <1>3, RunUnique
  <1> QED BY <1>4 DEF a, r

LEMMA LengthIs ==
  ASSUME NEW c, NEW p \in Point, NEW s, NEW d \in Directions
  PROVE  /\ LineLength(c, p, s, d) = 1 + Run(c, p, s, d) + Run(c, p, s, Back(d))
         /\ Run(c, p, s, d) \in Nat /\ Run(c, p, s, Back(d)) \in Nat
  BY DirectionsAreUnits, RunIs DEF LineLength, Back

LEMMA SameLength ==
  ASSUME NEW c \in Position, NEW m \in Point, c[m] = "Empty", NEW s \in Playable,
         NEW d \in Directions
  PROVE  LineLength([c EXCEPT ![m] = s], m, s, d) = LineLength(c, m, s, d)
  BY DirectionsAreUnits, SameRun, LengthIs

(* Rules and evaluator ask for the same lines through the point.            *)
LEMMA WinIs ==
  ASSUME NEW c \in Position, NEW m \in Point, c[m] = "Empty", NEW s \in Playable,
         NEW rules \in RuleSet
  PROVE  IsWinningPlacement(c, m, s, rules) <=> EvaluatorWins(c, m, s, rules)
  <1> DEFINE a == [c EXCEPT ![m] = s]
  <1>1. Is(c, m, "Empty") /\ Is(a, m, s) BY DEF Is, Position, Playable
  <1>2. \A d \in Directions : LineLength(a, m, s, d) = LineLength(c, m, s, d) BY SameLength
  <1> HIDE DEF a
  <1>3. HasWinningLineAt(a, m, s, rules) <=> EvaluatorWins(c, m, s, rules)
    BY <1>1, <1>2 DEF HasWinningLineAt, HasExactFiveAt, EvaluatorWins, RunWins
  <1> QED BY <1>1, <1>3 DEF IsWinningPlacement, a

(* What the evaluator skips could not have won: a line that wins has four   *)
(* stones of the colour, one of them beside the point.                      *)
LEMMA PointIsFinite == IsFiniteSet(Point)
  <1>1. IsFiniteSet(Coordinate)
    <2>1. 0 \in Int /\ Size - 1 \in Int BY SizeAssumption
    <2> QED BY <2>1, FS_Interval DEF Coordinate
  <1> QED BY <1>1, FS_Product DEF Point

LEMMA FourStones ==
  ASSUME NEW c \in Position, NEW m \in Point, c[m] = "Empty", NEW s \in Playable,
         NEW d \in Directions, LineLength(c, m, s, d) >= 5
  PROVE  ~(Cardinality(Of(c, Point, s)) < 4)
  <1> DEFINE r == Run(c, m, s, d)
             l == Run(c, m, s, Back(d))
             K == (-l..r) \ {0}
             f == [k \in K |-> Shift(m, d, k)]
  <1>1. /\ r \in Nat /\ \A k \in 1..r : Is(c, Shift(m, d, k), s)
        /\ l \in Nat /\ \A k \in 1..l : Is(c, Shift(m, Back(d), k), s)
        /\ r + l >= 4
    <2>1. r \in Nat /\ l \in Nat /\ LineLength(c, m, s, d) = 1 + r + l BY LengthIs
    <2>2. r + l >= 4 BY <2>1
    <2> QED BY <2>1, <2>2, RunIs, DirectionsAreUnits
  <1> HIDE DEF r, l
  <1>2. m \in Plane /\ d \in Unit BY PointIsPlane, DirectionsAreUnits
  <1>3. ASSUME NEW k \in K PROVE Shift(m, d, k) \in Of(c, Point, s)
    <2>1. Is(c, Shift(m, d, k), s)
      <3>1. CASE k > 0
        <4>1. k \in 1..r BY <1>1, <3>1
        <4> QED BY <1>1, <4>1
      <3>2. CASE ~(k > 0)
        <4>1. -k \in 1..l /\ -(-k) = k /\ -k \in Int BY <1>1, <3>2
        <4>2. Shift(m, Back(d), -k) = Shift(m, d, k) BY <1>2, <4>1, ShiftIs
        <4> QED BY <1>1, <4>1, <4>2
      <3> QED BY <3>1, <3>2
    <2> QED BY <2>1 DEF Is, Of
  <1>4. f \in Injection(K, Of(c, Point, s))
    <2>1. \A j, k \in K : f[j] = f[k] => j = k BY <1>2, ShiftIs
    <2>2. f \in [K -> Of(c, Point, s)] BY <1>3
    <2> HIDE DEF f, K
    <2> QED BY <2>1, <2>2, Zenon DEF Injection, IsInjective
  <1>5. IsFiniteSet(Of(c, Point, s)) /\ Cardinality(Of(c, Point, s)) \in Nat
    <2>1. Of(c, Point, s) \subseteq Point BY DEF Of
    <2> QED BY <2>1, PointIsFinite, FS_Subset, FS_CardinalityType
  <1>6. Cardinality(K) = r + l
    <2>1. -l \in Int /\ r \in Int /\ ~(-l > r) /\ 0 \in -l..r BY <1>1
    <2>2. IsFiniteSet(-l..r) /\ Cardinality(-l..r) = r - (-l) + 1 BY <2>1, FS_Interval
    <2>3. Cardinality(K) = Cardinality(-l..r) - 1 BY <2>1, <2>2, FS_RemoveElement
    <2> QED BY <1>1, <2>2, <2>3
  <1> HIDE DEF f, K
  <1>7. Cardinality(K) <= Cardinality(Of(c, Point, s)) BY <1>4, <1>5, FS_Injection
  <1> QED BY <1>1, <1>5, <1>6, <1>7

LEMMA OneBeside ==
  ASSUME NEW c \in Position, NEW m \in Point, c[m] = "Empty", NEW s \in Playable,
         NEW d \in Directions, LineLength(c, m, s, d) >= 5
  PROVE  m \in BesideMask(c, s)
  <1>1. m \in Plane /\ d \in Unit /\ Back(d) \in Unit BY PointIsPlane, DirectionsAreUnits
  <1>2. ASSUME NEW q \in Point, c[q] = s, NEW e \in {-1, 1}, m = Shift(q, d, e)
        PROVE  m \in BesideMask(c, s)
    <2>1. q \in Of(c, Point, s) BY <1>2 DEF Of
    <2>2. m \in Steps(q, d, {-1, 1}) BY <1>2 DEF Steps
    <2>3. Steps(q, d, {-1, 1}) \in {Steps(x, y, {-1, 1}) : x \in Of(c, Point, s), y \in Directions}
      BY <2>1
    <2> QED BY <2>2, <2>3 DEF BesideMask
  <1>3. Run(c, m, s, d) > 0 \/ Run(c, m, s, Back(d)) > 0 BY LengthIs
  <1>4. CASE Run(c, m, s, d) > 0
    <2>1. 1 \in 1..Run(c, m, s, d) BY <1>4, LengthIs
    <2>2. Is(c, Shift(m, d, 1), s) BY <1>1, <2>1, RunIs
    <2>3. Shift(Shift(m, d, 1), d, -1) = Shift(m, d, 1 + -1) BY <1>1, ShiftIs
    <2>4. Shift(m, d, 1 + -1) = m BY <1>1, ShiftIs
    <2> QED BY <1>2, <2>2, <2>3, <2>4 DEF Is
  <1>5. CASE Run(c, m, s, Back(d)) > 0
    <2>1. 1 \in 1..Run(c, m, s, Back(d)) BY <1>5, LengthIs
    <2>2. Is(c, Shift(m, Back(d), 1), s) BY <1>1, <2>1, RunIs
    <2>3. Shift(m, Back(d), 1) = Shift(m, d, -1) BY <1>1, ShiftIs
    <2>4. Shift(Shift(m, d, -1), d, 1) = Shift(m, d, -1 + 1) BY <1>1, ShiftIs
    <2>5. Shift(m, d, -1 + 1) = m BY <1>1, ShiftIs
    <2> QED BY <1>2, <2>2, <2>3, <2>4, <2>5 DEF Is
  <1> QED BY <1>3, <1>4, <1>5

LEMMA EvaluatorAgrees ==
  ASSUME NEW c \in Position, NEW m \in Point, c[m] = "Empty", NEW s \in Playable,
         NEW rules \in RuleSet
  PROVE  IsWinningPlacement(c, m, s, rules) <=> m \in WinningMoves(c, s, rules)
  <1>1. ASSUME EvaluatorWins(c, m, s, rules)
        PROVE  ~(Cardinality(Of(c, Point, s)) < 4) /\ m \in BesideMask(c, s)
    <2>1. PICK d \in Directions : RunWins(s, LineLength(c, m, s, d), rules)
      BY <1>1 DEF EvaluatorWins
    <2>2. LineLength(c, m, s, d) >= 5 BY <2>1, LengthIs DEF RunWins
    <2> QED BY <2>2, FourStones, OneBeside
  <1> QED BY <1>1, WinIs DEF WinningMoves

-----------------------------------------------------------------------------
(* The line through the placed stone is one that Rules finds from its first *)
(* stone.                                                                  *)
LEMMA PlacementIsFound ==
  ASSUME NEW c \in Position, NEW m \in Point, c[m] = "Empty", NEW s \in Playable,
         NEW rules \in RuleSet, EvaluatorWins(c, m, s, rules)
  PROVE  s \in Winners([c EXCEPT ![m] = s], rules)
  <1> DEFINE a == [c EXCEPT ![m] = s]
  <1>1. PICK d \in Directions : RunWins(s, LineLength(c, m, s, d), rules) BY DEF EvaluatorWins
  <1> DEFINE r == Run(a, m, s, d)
             l == Run(a, m, s, Back(d))
             p == Shift(m, d, -l)
  <1>2. LineLength(c, m, s, d) = 1 + r + l /\ r \in Nat /\ l \in Nat BY SameLength, LengthIs
  <1>3. m \in Plane /\ d \in Unit /\ Back(d) \in Unit BY PointIsPlane, DirectionsAreUnits
  <1>4. /\ \A k \in 1..r : Is(a, Shift(m, d, k), s)
        /\ ~Is(a, Shift(m, d, r + 1), s)
        /\ \A k \in 1..l : Is(a, Shift(m, Back(d), k), s)
        /\ ~Is(a, Shift(m, Back(d), l + 1), s)
    BY <1>3, RunIs
  <1>5. Is(a, m, s) BY IsAfter
  <1> HIDE DEF a, r, l, p
  <1>6. \A k \in Int : /\ Shift(m, Back(d), k) = Shift(m, d, -k)
                       /\ Shift(p, d, k) = Shift(m, d, k - l)
    <2> TAKE k \in Int
    <2>1. Shift(m, Back(d), k) = Shift(m, d, -k) BY <1>3, ShiftIs
    <2>2. -l \in Int /\ -l + k = k - l BY <1>2
    <2>3. Shift(Shift(m, d, -l), d, k) = Shift(m, d, -l + k) BY <1>3, <2>2, ShiftIs
    <2> QED BY <2>1, <2>2, <2>3 DEF p
  <1>7. \A j \in -l..r : Is(a, Shift(m, d, j), s)
    <2> TAKE j \in -l..r
    <2>1. CASE j > 0
      <3>1. j \in 1..r BY <1>2, <2>1
      <3> QED BY <1>4, <3>1
    <2>2. CASE j = 0
      <3>1. Shift(m, d, 0) = m BY <1>3, ShiftIs
      <3> QED BY <1>5, <2>2, <3>1
    <2>3. CASE j < 0
      <3>1. -j \in 1..l /\ -j \in Int /\ -(-j) = j BY <1>2, <2>3
      <3> QED BY <1>4, <1>6, <3>1
    <2> QED BY <1>2, <2>1, <2>2, <2>3
  <1>8. Is(a, p, s) /\ p \in Point
    <2>1. -l \in -l..r BY <1>2
    <2> QED BY <1>7, <2>1 DEF p, Is
  <1>9. Run(a, p, s, d) = r + l
    <2>1. ASSUME NEW k \in 1..r + l PROVE Is(a, Shift(p, d, k), s)
      <3>1. k \in Int /\ k - l \in -l..r BY <1>2
      <3> QED BY <1>6, <1>7, <3>1
    <2>2. ~Is(a, Shift(p, d, r + l + 1), s)
      <3>1. r + l + 1 \in Int /\ (r + l + 1) - l = r + 1 BY <1>2
      <3> QED BY <1>4, <1>6, <3>1
    <2>3. r + l \in Nat BY <1>2
    <2> QED BY <1>3, <1>8, <2>1, <2>2, <2>3, RunUnique
  <1>10. ~Is(a, Shift(p, d, -1), s)
    <2>1. -1 \in Int /\ -1 - l = -(l + 1) /\ l + 1 \in Int BY <1>2
    <2> QED BY <1>4, <1>6, <2>1
  <1>11. p \in Of(a, Point, s) BY <1>8 DEF Is, Of
  <1>12. 1 + (r + l) = 1 + r + l BY <1>2
  <1>13. RunWins(s, 1 + Run(a, p, s, d), rules) BY <1>1, <1>2, <1>9, <1>12
  <1> QED BY <1>10, <1>11, <1>13 DEF Winners, a

(* A line that Rules finds after the placement and not before goes through  *)
(* the placed stone.                                                       *)
LEMMA FoundIsPlacement ==
  ASSUME NEW c \in Position, NEW m \in Point, c[m] = "Empty", NEW s \in Playable,
         NEW rules \in RuleSet, s \notin Winners(c, rules),
         s \in Winners([c EXCEPT ![m] = s], rules)
  PROVE  EvaluatorWins(c, m, s, rules)
  <1> DEFINE a == [c EXCEPT ![m] = s]
  <1>1. PICK p \in Point, d \in Directions :
          /\ a[p] = s /\ ~Is(a, Shift(p, d, -1), s)
          /\ RunWins(s, 1 + Run(a, p, s, d), rules)
    BY DEF Winners, Of
  <1> DEFINE q == Run(a, p, s, d)
  <1>2. p \in Plane /\ m \in Plane /\ d \in Unit /\ Back(d) \in Unit
    BY PointIsPlane, DirectionsAreUnits
  <1>3. /\ q \in Nat /\ \A k \in 1..q : Is(a, Shift(p, d, k), s)
        /\ ~Is(a, Shift(p, d, q + 1), s)
    BY <1>2, RunIs
  <1>4. \A x : Is(a, x, s) <=> x = m \/ Is(c, x, s) BY IsAfter
  <1>5. Is(a, p, s) BY <1>1 DEF Is
  <1>6. RunWins(s, 1 + q, rules) /\ ~Is(a, Shift(p, d, -1), s) BY <1>1
  <1> HIDE DEF a, q
  <1>7. PICK j \in 0..q : m = Shift(p, d, j)
    <2> SUFFICES ASSUME \A j \in 0..q : m # Shift(p, d, j) PROVE FALSE OBVIOUS
    <2>1. Is(c, p, s)
      <3>1. 0 \in 0..q /\ Shift(p, d, 0) = p BY <1>2, <1>3, ShiftIs
      <3> QED BY <1>4, <1>5, <3>1
    <2>2. \A k \in 1..q : Is(c, Shift(p, d, k), s)
      <3>1. \A k \in 1..q : k \in 0..q BY <1>3
      <3> QED BY <1>3, <1>4, <3>1
    <2>3. Run(c, p, s, d) = q BY <1>2, <1>3, <1>4, <2>2, RunUnique
    <2>4. ~Is(c, Shift(p, d, -1), s) BY <1>4, <1>6
    <2>5. p \in Of(c, Point, s) BY <2>1 DEF Is, Of
    <2> QED BY <1>6, <2>3, <2>4, <2>5 DEF Winners
  <1>8. \A k \in Int : /\ Shift(m, d, k) = Shift(p, d, j + k)
                       /\ Shift(m, Back(d), k) = Shift(p, d, j - k)
    <2> TAKE k \in Int
    <2>1. Shift(Shift(p, d, j), d, k) = Shift(p, d, j + k) BY <1>2, ShiftIs
    <2>2. -k \in Int /\ j + -k = j - k /\ j \in Int BY <1>7
    <2>3. Shift(Shift(p, d, j), d, -k) = Shift(p, d, j + -k) BY <1>2, <2>2, ShiftIs
    <2>4. Shift(m, Back(d), k) = Shift(m, d, -k) BY <1>2, ShiftIs
    <2> QED BY <1>7, <2>1, <2>2, <2>3, <2>4
  <1>9. \A i \in 0..q : Is(a, Shift(p, d, i), s)
    <2> TAKE i \in 0..q
    <2>1. i = 0 \/ i \in 1..q BY <1>3
    <2>2. Shift(p, d, 0) = p BY <1>2, ShiftIs
    <2> QED BY <1>3, <1>5, <2>1, <2>2
  <1>10. Run(a, m, s, d) = q - j
    <2>1. q - j \in Nat BY <1>3, <1>7
    <2>2. ASSUME NEW k \in 1..q - j PROVE Is(a, Shift(m, d, k), s)
      <3>1. k \in Int /\ j + k \in 0..q BY <1>3, <1>7
      <3> QED BY <1>8, <1>9, <3>1
    <2>3. ~Is(a, Shift(m, d, q - j + 1), s)
      <3>1. q - j + 1 \in Int /\ j + (q - j + 1) = q + 1 BY <1>3, <1>7
      <3> QED BY <1>3, <1>8, <3>1
    <2> QED BY <1>2, <2>1, <2>2, <2>3, RunUnique
  <1>11. Run(a, m, s, Back(d)) = j
    <2>1. j \in Nat BY <1>3, <1>7
    <2>2. ASSUME NEW k \in 1..j PROVE Is(a, Shift(m, Back(d), k), s)
      <3>1. k \in Int /\ j - k \in 0..q BY <1>3, <1>7
      <3> QED BY <1>8, <1>9, <3>1
    <2>3. ~Is(a, Shift(m, Back(d), j + 1), s)
      <3>1. j + 1 \in Int /\ j - (j + 1) = -1 BY <2>1
      <3> QED BY <1>6, <1>8, <3>1
    <2> QED BY <1>2, <2>1, <2>2, <2>3, RunUnique
  <1>12. LineLength(c, m, s, d) = 1 + q
    <2>1. LineLength(a, m, s, d) = 1 + (q - j) + j BY <1>10, <1>11, LengthIs
    <2>2. LineLength(c, m, s, d) = LineLength(a, m, s, d) BY SameLength DEF a
    <2> QED BY <1>3, <1>7, <2>1, <2>2
  <1> QED BY <1>6, <1>12 DEF EvaluatorWins

-----------------------------------------------------------------------------
(* On every position, for every empty point, both colours and both rules.   *)
THEOREM WinsAgreeEverywhere ==
  ASSUME NEW c \in Position, NEW m \in Point, c[m] = "Empty", NEW s \in Playable,
         NEW rules \in RuleSet
  PROVE  /\ IsWinningPlacement(c, m, s, rules) <=> m \in WinningMoves(c, s, rules)
         /\ s \notin Winners(c, rules) =>
              (IsWinningPlacement(c, m, s, rules) <=> s \in Winners([c EXCEPT ![m] = s], rules))
  BY WinIs, EvaluatorAgrees, PlacementIsFound, FoundIsPlacement

(* The positions of LinesRun are positions, and the move asked for is free.  *)
LInv ==
  /\ setting \in Settings
  /\ cells \in Position
  /\ cells[setting.asked] = "Empty"

LEMMA LInvHolds == Spec => []LInv
  <1>1. Init => LInv BY SettingsAssumption DEF Init, LInv, Position
  <1>2. LInv /\ [Next]_vars => LInv'
    <2> SUFFICES ASSUME LInv, [Next]_vars PROVE LInv' OBVIOUS
    <2>1. ASSUME NEW p \in setting.free \union setting.blocks, NEW s \in Playable, SetStone(p, s)
          PROVE  LInv'
      <3>1. /\ cells' = [cells EXCEPT ![p] = s] /\ setting' = setting /\ setting \in Settings
            /\ s \in {"Empty", "Black", "White"}
        BY <2>1 DEF SetStone, LInv, Playable
      <3>2. p # setting.asked /\ setting.asked \in Point BY <3>1, SettingsAssumption
      <3> QED BY <3>1, <3>2 DEF LInv, Position
    <2>2. CASE UNCHANGED vars BY <2>2 DEF vars, LInv
    <2> QED BY <2>1, <2>2 DEF Next
  <1> QED BY <1>1, <1>2, PTL DEF Spec

(* The parts of the engine that decide who wins do so alike, on a board of   *)
(* any size (rules.cpp:325-383, evaluator.cpp:170-234, 377-394).             *)
THEOREM WinsAlike == Spec => []WinsAgree
  <1>1. LInv => WinsAgree
    <2> SUFFICES ASSUME LInv, NEW rules \in RuleSet, NEW s \in Playable
                 PROVE  LET m     == setting.asked
                            wins  == IsWinningPlacement(cells, m, s, rules)
                            after == [cells EXCEPT ![m] = s]
                        IN /\ wins <=> m \in WinningMoves(cells, s, rules)
                           /\ s \notin Winners(cells, rules) =>
                                (wins <=> s \in Winners(after, rules))
      BY DEF WinsAgree
    <2>1. setting.asked \in Point /\ cells \in Position /\ cells[setting.asked] = "Empty"
      BY SettingsAssumption DEF LInv
    <2> QED BY <2>1, WinsAgreeEverywhere
  <1> QED BY <1>1, LInvHolds, PTL
=============================================================================
