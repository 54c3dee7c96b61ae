------------------------------ MODULE ReplayProof ------------------------------
(***************************************************************************)
(* The rules of the game, for every SIZE: the types, the agreement of the  *)
(* server's board with the client's tiles, the test for game over, and the *)
(* score.                                                                  *)
(*                                                                         *)
(* A merge of a line is described by the choice of the places it keeps:    *)
(* an increasing map from the merged line to the values it came from.  The *)
(* same choice describes what the client does to the tiles of the line, so *)
(* the two implementations need not be run side by side.  Powers of two    *)
(* stay below 2^(SIZE*SIZE+1) because at most SIZE*SIZE + 2 - k cells hold *)
(* 2^k or more (Tower): a merge needs two, and leaves one above.           *)
(***************************************************************************)
EXTENDS Replay, FiniteSetTheorems, SequenceTheorems, FoldLemmas

Board == [Cells -> Nat]

-----------------------------------------------------------------------------
(***************************************************************************)
(* The cells of the board, line by line.                                   *)
(***************************************************************************)
LEMMA Sides ==
  /\ SIZE \in Nat /\ SIZE >= 2
  /\ IsFiniteSet(Side) /\ Cardinality(Side) = SIZE
  /\ IsFiniteSet(Cells) /\ Cardinality(Cells) = SIZE * SIZE
<1>1. SIZE \in Nat /\ SIZE >= 2
  BY ReplayAssumption
<1>2. IsFiniteSet(Side) /\ Cardinality(Side) = SIZE
  BY <1>1, FS_Interval DEF Side
<1>3. IsFiniteSet(Cells) /\ Cardinality(Cells) = Cardinality(Side) * Cardinality(Side)
  BY <1>2, FS_Product DEF Cells
<1> QED BY <1>1, <1>2, <1>3

(* Whatever the direction, each cell is one place of one line.             *)
LEMMA LineCells ==
  ASSUME NEW dir
  PROVE  /\ \A l, i \in Side : LineCell(dir, l, i) \in Cells
         /\ \A l, i, m, j \in Side :
              LineCell(dir, l, i) = LineCell(dir, m, j) => l = m /\ i = j
         /\ \A c \in Cells : \E l, i \in Side : c = LineCell(dir, l, i)
<1>1. SIZE \in Nat
  BY Sides
<1>2. ASSUME NEW l \in Side, NEW i \in Side PROVE LineCell(dir, l, i) \in Cells
  BY <1>1 DEF LineCell, Side, Cells
<1>3. ASSUME NEW l \in Side, NEW i \in Side, NEW m \in Side, NEW j \in Side,
             LineCell(dir, l, i) = LineCell(dir, m, j)
      PROVE  l = m /\ i = j
  BY <1>1, <1>3 DEF LineCell, Side
<1>4. ASSUME NEW c \in Cells PROVE \E l, i \in Side : c = LineCell(dir, l, i)
<2> DEFINE l == IF IsHorizontal(dir) THEN c[1] ELSE c[2]
           x == IF IsHorizontal(dir) THEN c[2] ELSE c[1]
           i == IF Reverses(dir) THEN SIZE + 1 - x ELSE x
<2>1. c[1] \in Side /\ c[2] \in Side /\ c = <<c[1], c[2]>>
  BY DEF Cells
<2>2. l \in Side /\ x \in Side /\ i \in Side
  BY <1>1, <2>1 DEF Side
<2>3. (IF Reverses(dir) THEN SIZE + 1 - i ELSE i) = x
  BY <1>1, <2>2 DEF Side
<2>4. c = LineCell(dir, l, i)
<3> DEFINE idx == IF Reverses(dir) THEN SIZE + 1 - i ELSE i
<3>1. LineCell(dir, l, i) = IF IsHorizontal(dir) THEN <<l, idx>> ELSE <<idx, l>>
  BY DEF LineCell
<3>2. idx = x
  BY <2>3
<3> HIDE DEF idx
<3> QED BY <2>1, <3>1, <3>2
<2> QED BY <2>2, <2>4
<1> QED BY <1>2, <1>3, <1>4

-----------------------------------------------------------------------------
(***************************************************************************)
(* The values of a line: its cells that are not 0, in order.               *)
(***************************************************************************)
PushStep(line) == [x \in Seq(Nat) \X (1 .. Len(line)) |-> PushValue(x[1], line[x[2]])]

PushedBy(line, it) ==
  it = [s \in SUBSET DOMAIN line |->
          IF s = {} THEN <<>> ELSE PushValue(it[s \ {Max(s)}], line[Max(s)])]

(* The cells of a line, as a sequence.                                     *)
LEMMA LineType ==
  ASSUME NEW b \in Board, NEW dir, NEW l \in Side
  PROVE  /\ Line(b, dir, l) \in Seq(Nat)
         /\ Len(Line(b, dir, l)) = SIZE
         /\ \A i \in Side : Line(b, dir, l)[i] = b[LineCell(dir, l, i)]
<1>1. \A i \in Side : b[LineCell(dir, l, i)] \in Nat
  BY LineCells DEF Board
<1>2. Line(b, dir, l) \in [1 .. SIZE -> Nat]
  BY <1>1 DEF Line, Side
<1> QED BY <1>2, Sides DEF Line, Side

(* The fold of a line, step by step.                                       *)
LEMMA PushTrace ==
  ASSUME NEW line \in Seq(Nat), NEW n \in Nat, n = Len(line)
  PROVE  \E h \in [0 .. n -> Seq(Nat)] :
           /\ h[0] = <<>> /\ h[n] = FoldLeft(PushValue, <<>>, line)
           /\ \A k \in 1 .. n : h[k] = PushValue(h[k - 1], line[k])
<1> DEFINE F == PushStep(line)
           T == Seq(Nat)
           b == <<>>
<1>1. DOMAIN line = 1 .. n /\ b \in T
  OBVIOUS
<1>2. F \in [T \X (1 .. n) -> T]
  BY DEF PushStep, PushValue
<1>3. PICK jt : FoldsBy(T, F, b, n, jt)
  BY <1>1, <1>2, FoldExists
<1>4. PushedBy(line, jt)
<2>1. ASSUME NEW s \in SUBSET (1 .. n)
      PROVE  jt[s] = IF s = {} THEN b ELSE PushValue(jt[s \ {Max(s)}], line[Max(s)])
<3>1. CASE s = {}
  BY <3>1, <1>3 DEF FoldStep, FoldsBy
<3>2. CASE s # {}
<4>1. Max(s) \in 1 .. n
  BY <3>2, MaxIn
<4>2. jt[s \ {Max(s)}] \in T
  BY <1>3 DEF FoldsBy
<4>3. jt[s] = F[<<jt[s \ {Max(s)}], Max(s)>>]
  BY <1>3, <3>2 DEF FoldStep, FoldsBy
<4> QED BY <3>2, <4>1, <4>2, <4>3 DEF PushStep
<3> QED BY <3>1, <3>2
<2>2. jt = [s \in SUBSET (1 .. n) |-> jt[s]]
  BY <1>3 DEF FoldsBy
<2> QED BY <1>1, <2>1, <2>2 DEF PushedBy
<1> DEFINE it == CHOOSE i : PushedBy(line, i)
<1>5. FoldLeft(PushValue, <<>>, line) = it[1 .. n]
  BY <1>1 DEF FoldLeft, MapThenFoldSet, PushedBy
<1>6. PushedBy(line, it)
  BY <1>4
<1> HIDE DEF it
<1>7. Folding(T, F, b, it, n)
<2>1. it[{}] = b
  BY <1>6 DEF PushedBy
<2>2. ASSUME NEW k \in 1 .. n, it[1 .. k - 1] \in T
      PROVE  it[1 .. k] = F[<<it[1 .. k - 1], k>>]
<3>1. k \in Nat /\ k # 0 /\ 1 .. k \in SUBSET DOMAIN line
  BY <1>1
<3>2. (1 .. k) \ {Max(1 .. k)} = 1 .. k - 1 /\ Max(1 .. k) = k /\ 1 .. k # {}
  BY <3>1, SegmentStep
<3>3. it[1 .. k] = PushValue(it[1 .. k - 1], line[k])
  BY <3>1, <3>2, <1>6 DEF PushedBy
<3> QED BY <2>2, <3>3 DEF PushStep
<2> QED BY <2>1, <2>2 DEF Folding
<1>8. Stepping(T, F, n)
  BY <1>2 DEF Stepping
<1>9. PICK h \in [0 .. n -> T] :
        /\ h[0] = b /\ h[n] = it[1 .. n]
        /\ \A k \in 1 .. n : h[k] = F[<<h[k - 1], k>>]
<2> HIDE DEF b, F, T
<2> QED BY <1>1, <1>7, <1>8, FoldingTrace
<1>10. ASSUME NEW k \in 1 .. n PROVE h[k] = PushValue(h[k - 1], line[k])
<2>1. k - 1 \in 0 .. n
  OBVIOUS
<2> QED BY <1>9, <2>1 DEF PushStep
<1> QED BY <1>5, <1>9, <1>10

(* e lists the numbers in S from the smallest to the largest.              *)
Increases(e, m) == \A i, j \in 1 .. m : i < j => e[i] < e[j]

Lists(e, m, S) ==
  /\ m \in Nat /\ S \subseteq Nat
  /\ e \in [1 .. m -> S]
  /\ Increases(e, m)
  /\ \A x \in S : \E i \in 1 .. m : e[i] = x

(* There is only one such list.                                            *)
LEMMA ListsAgree ==
  ASSUME NEW S, NEW e, NEW m, NEW f, NEW n, Lists(e, m, S), Lists(f, n, S)
  PROVE  m = n /\ \A i \in 1 .. m : e[i] = f[i]
<1> DEFINE U == {k \in Nat : \A i \in 1 .. k : (i <= m => i <= n /\ e[i] = f[i])
                                              /\ (i <= n => i <= m /\ e[i] = f[i])}
<1>0. m \in Nat /\ n \in Nat
  BY DEF Lists
<1>1. 0 \in U
  OBVIOUS
<1>2. ASSUME NEW k \in Nat, k \in U PROVE k + 1 \in U
<2> DEFINE i == k + 1
<2>1. ASSUME NEW g, NEW p, NEW h, NEW q, Lists(g, p, S), Lists(h, q, S),
             \A j \in 1 .. k : j <= p => j <= q /\ g[j] = h[j], 
             \A j \in 1 .. k : j <= q => j <= p /\ g[j] = h[j], i <= p
      PROVE  i <= q /\ h[i] <= g[i]
<3>0. i \in 1 .. p /\ p \in Nat /\ q \in Nat /\ S \subseteq Nat
  BY <2>1 DEF Lists
<3>1. g[i] \in S
  BY <3>0, <2>1 DEF Lists
<3>2. PICK j \in 1 .. q : h[j] = g[i]
  BY <3>1, <2>1 DEF Lists
<3>3. j >= i
<4> SUFFICES ASSUME j < i PROVE FALSE
  BY <3>0
<4>1. j \in 1 .. k /\ j \in 1 .. p
  BY <3>0, <2>1
<4>2. g[j] = h[j]
  BY <4>1, <2>1
<4>3. g[j] < g[i]
  BY <4>1, <3>0, <2>1 DEF Lists, Increases
<4>4. g[i] \in Nat
  BY <3>0, <3>1
<4> QED BY <3>2, <4>2, <4>3, <4>4
<3>4. i \in 1 .. q
  BY <3>3, <3>0
<3>5. h[i] \in Nat /\ h[j] \in Nat /\ (i < j => h[i] < h[j])
  BY <3>0, <3>4, <2>1 DEF Lists, Increases
<3>6. i < j \/ i = j
  BY <3>3, <3>0
<3> QED BY <3>2, <3>4, <3>5, <3>6
<2>2. /\ \A j \in 1 .. k : j <= m => j <= n /\ e[j] = f[j]
      /\ \A j \in 1 .. k : j <= n => j <= m /\ e[j] = f[j]
      /\ \A j \in 1 .. k : j <= n => j <= m /\ f[j] = e[j]
      /\ \A j \in 1 .. k : j <= m => j <= n /\ f[j] = e[j]
  BY <1>2
<2>3. i <= m => i <= n /\ f[i] <= e[i]
  BY <2>1, <2>2
<2>4. i <= n => i <= m /\ e[i] <= f[i]
  BY <2>1, <2>2
<2>5. i <= m /\ i <= n => e[i] \in Nat /\ f[i] \in Nat
<3>1. i <= m /\ i <= n => i \in 1 .. m /\ i \in 1 .. n
  BY <1>0
<3> QED BY <3>1 DEF Lists
<2>6. (i <= m => i <= n /\ e[i] = f[i]) /\ (i <= n => i <= m /\ e[i] = f[i])
  BY <2>3, <2>4, <2>5
<2>7. \A j \in 1 .. i : j \in 1 .. k \/ j = i
  OBVIOUS
<2> QED BY <2>2, <2>6, <2>7
<1>3. Nat \subseteq U
<2> HIDE DEF U
<2> QED BY <1>1, <1>2, SetInduction
<1>4. m \in U /\ n \in U
  BY <1>0, <1>3
<1>5. m <= n /\ n <= m
<2>1. m = 0 \/ m \in 1 .. m
  BY <1>0
<2>2. n = 0 \/ n \in 1 .. n
  BY <1>0
<2> QED BY <1>0, <1>4, <2>1, <2>2
<1> QED BY <1>0, <1>4, <1>5

(* vs are the values of the first n places of a line, found at places e.   *)
Filled(line, n) == {i \in 1 .. n : line[i] # 0}

Picks(line, n, vs, e) ==
  /\ vs \in Seq(Nat)
  /\ Lists(e, Len(vs), Filled(line, n))
  /\ \A j \in 1 .. Len(vs) : vs[j] = line[e[j]] /\ vs[j] > 0

(* One more cell: its place is kept unless it is empty.                    *)
LEMMA PushPicks ==
  ASSUME NEW line \in Seq(Nat), NEW n \in Nat, n + 1 <= Len(line), NEW vs, NEW e,
         Picks(line, n, vs, e)
  PROVE  \E f : Picks(line, n + 1, PushValue(vs, line[n + 1]), f)
<1> DEFINE v == line[n + 1]
           k == Len(vs)
<1>1. v \in Nat /\ vs \in Seq(Nat) /\ k \in Nat
  BY DEF Picks
<1>2. Filled(line, n + 1) = Filled(line, n) \cup (IF v = 0 THEN {} ELSE {n + 1})
  BY DEF Filled
<1>3. CASE v = 0
<2>1. Filled(line, n + 1) = Filled(line, n) /\ PushValue(vs, v) = vs
  BY <1>2, <1>3 DEF PushValue
<2> QED BY <2>1 DEF Picks
<1>4. CASE v # 0
<2> DEFINE ws == Append(vs, v)
           f == [j \in 1 .. k + 1 |-> IF j = k + 1 THEN n + 1 ELSE e[j]]
           S == Filled(line, n)
           U == Filled(line, n + 1)
<2>1. PushValue(vs, v) = ws
  BY <1>4 DEF PushValue
<2>2. ws \in Seq(Nat) /\ Len(ws) = k + 1 /\ ws[k + 1] = v /\ \A j \in 1 .. k : ws[j] = vs[j]
  BY <1>1
<2>3. e \in [1 .. k -> S] /\ Increases(e, k) /\ (\A x \in S : \E i \in 1 .. k : e[i] = x)
      /\ \A j \in 1 .. k : vs[j] = line[e[j]] /\ vs[j] > 0
  BY DEF Picks, Lists
<2>4. U = S \cup {n + 1} /\ \A x \in S : x \in 1 .. n
  BY <1>2, <1>4 DEF Filled
<2>5. \A j \in 1 .. k + 1 : j \in 1 .. k \/ j = k + 1
  BY <1>1
<2>6. f \in [1 .. k + 1 -> U]
  BY <2>3, <2>4, <2>5, <1>1
<2>7. Increases(f, k + 1)
<3> SUFFICES ASSUME NEW i \in 1 .. k + 1, NEW j \in 1 .. k + 1, i < j
             PROVE  f[i] < f[j]
  BY DEF Increases
<3>1. i \in 1 .. k /\ f[i] = e[i] /\ e[i] \in 1 .. n
<4>1. i \in 1 .. k
  BY <1>1
<4>2. f[i] = e[i]
  BY <4>1, <1>1
<4>3. e[i] \in S
  BY <4>1, <2>3
<4> QED BY <4>1, <4>2, <4>3, <2>4
<3>2. CASE j = k + 1
  BY <3>1, <3>2
<3>3. CASE j \in 1 .. k
<4>1. f[j] = e[j]
  BY <3>3, <1>1
<4> QED BY <3>1, <3>3, <4>1, <2>3 DEF Increases
<3> QED BY <3>2, <3>3, <2>5
<2>8. \A x \in U : \E i \in 1 .. k + 1 : f[i] = x
<3> SUFFICES ASSUME NEW x \in U PROVE \E i \in 1 .. k + 1 : f[i] = x
  OBVIOUS
<3>1. CASE x = n + 1
<4>1. k + 1 \in 1 .. k + 1 /\ f[k + 1] = n + 1
  BY <1>1
<4> QED BY <3>1, <4>1
<3>2. CASE x \in S
<4>1. PICK i \in 1 .. k : e[i] = x
  BY <3>2, <2>3
<4>2. i \in 1 .. k + 1 /\ f[i] = e[i]
  BY <1>1
<4> QED BY <4>1, <4>2
<3> QED BY <2>4, <3>1, <3>2
<2>9. Lists(f, k + 1, U)
<3>1. U \subseteq Nat /\ k + 1 \in Nat
  BY <1>1 DEF Filled
<3> HIDE DEF f, U
<3> QED BY <2>6, <2>7, <2>8, <3>1 DEF Lists
<2>10. ASSUME NEW j \in 1 .. k + 1 PROVE ws[j] = line[f[j]] /\ ws[j] > 0
<3>1. CASE j = k + 1
<4>1. f[j] = n + 1 /\ ws[j] = v
  BY <3>1, <2>2, <1>1
<4> QED BY <4>1, <1>1, <1>4
<3>2. CASE j \in 1 .. k
<4>1. f[j] = e[j] /\ ws[j] = vs[j]
  BY <3>2, <2>2, <1>1
<4> QED BY <3>2, <4>1, <2>3
<3> QED BY <3>1, <3>2, <2>5
<2>11. Picks(line, n + 1, ws, f)
<3> HIDE DEF ws, f, U
<3> QED BY <2>2, <2>9, <2>10 DEF Picks, U
<2> QED BY <2>1, <2>11
<1> QED BY <1>3, <1>4

(* Values keeps the places of a line that are not 0, in order.             *)
LEMMA FoldPicks ==
  ASSUME NEW line \in Seq(Nat), NEW n \in Nat, n = Len(line)
  PROVE  \E e : Picks(line, n, FoldLeft(PushValue, <<>>, line), e)
<1>1. PICK h \in [0 .. n -> Seq(Nat)] :
        /\ h[0] = <<>> /\ h[n] = FoldLeft(PushValue, <<>>, line)
        /\ \A k \in 1 .. n : h[k] = PushValue(h[k - 1], line[k])
  BY PushTrace
<1> DEFINE S == {k \in 0 .. n : \E e : Picks(line, k, h[k], e)}
<1>2. 0 \in S
<2> DEFINE e == [j \in 1 .. 0 |-> 0]
           vs == h[0]
<2>1. vs \in Seq(Nat) /\ Len(vs) = 0 /\ Filled(line, 0) = {} /\ 1 .. 0 = {}
  BY <1>1 DEF Filled
<2>2. e \in [1 .. 0 -> {}] /\ Increases(e, 0)
  BY <2>1 DEF Increases
<2>3. Picks(line, 0, vs, e)
<3> HIDE DEF vs, e
<3> QED BY <2>1, <2>2 DEF Picks, Lists
<2> QED BY <2>3
<1>3. ASSUME NEW k \in 1 .. n, k - 1 \in S PROVE k \in S
<2>1. PICK e : Picks(line, k - 1, h[k - 1], e)
  BY <1>3
<2>2. k - 1 \in Nat /\ (k - 1) + 1 = k /\ k <= n
  OBVIOUS
<2>3. \E f : Picks(line, k, PushValue(h[k - 1], line[k]), f)
<3> DEFINE p == k - 1
<3>1. p \in Nat /\ p + 1 = k
  BY <2>2
<3> HIDE DEF p
<3>2. \E f : Picks(line, p + 1, PushValue(h[k - 1], line[p + 1]), f)
  BY <2>1, <2>2, <3>1, PushPicks DEF p
<3> QED BY <3>1, <3>2
<2>4. k \in 0 .. n /\ h[k] = PushValue(h[k - 1], line[k])
  BY <1>1
<2>5. \E f : Picks(line, k, h[k], f)
  BY <2>3, <2>4
<2> QED BY <2>4, <2>5
<1>4. n \in S
<2> HIDE DEF S
<2> QED BY <1>2, <1>3, UpTo
<1> QED BY <1>1, <1>4

(* The values of a line.                                                   *)
LEMMA ValuesPick ==
  ASSUME NEW b \in Board, NEW dir, NEW l \in Side
  PROVE  \E e : Picks(Line(b, dir, l), SIZE, Values(b, dir, l), e)
  BY LineType, Sides, FoldPicks DEF Values

(***************************************************************************)
(* The merging of the values of a line.                                    *)
(***************************************************************************)
Merging == [merged : Seq(Nat), gained : Nat, canMerge : BOOLEAN]

(* The last value of a sequence replaced.                                  *)
LEMMA JoinedOne ==
  ASSUME NEW S, NEW t \in Seq(S), NEW w \in Seq(S), Len(w) = 1
  PROVE  /\ t \o w \in Seq(S) /\ Len(t \o w) = Len(t) + 1
         /\ (t \o w)[Len(t) + 1] = w[1]
         /\ \A j \in 1 .. Len(t) : (t \o w)[j] = t[j]
<1> DEFINE x == t \o w
           n == Len(t)
<1>1. n \in Nat
  OBVIOUS
<1>2. /\ x \in Seq(S) /\ Len(x) = n + 1
      /\ \A i \in 1 .. n + 1 : x[i] = IF i <= n THEN t[i] ELSE w[i - n]
<2>1. /\ x \in Seq(S) /\ Len(x) = n + Len(w)
      /\ \A i \in 1 .. n + Len(w) : x[i] = IF i <= n THEN t[i] ELSE w[i - n]
  BY ConcatProperties, Zenon
<2>2. n + Len(w) = n + 1
  OBVIOUS
<2> HIDE DEF x, n
<2> QED BY <2>1, <2>2
<1> HIDE DEF x, n
<1>3. n + 1 \in 1 .. n + 1 /\ ~(n + 1 <= n) /\ (n + 1) - n = 1
  BY <1>1
<1>4. \A j \in 1 .. n : j \in 1 .. n + 1 /\ j <= n
  BY <1>1
<1>5. x[n + 1] = w[1]
  BY <1>2, <1>3
<1>6. \A j \in 1 .. n : x[j] = t[j]
  BY <1>2, <1>4
<1> QED BY <1>2, <1>5, <1>6 DEF x, n

(* The last value of a sequence replaced.                                  *)
LEMMA Replaced ==
  ASSUME NEW S, NEW s \in Seq(S), NEW v \in S
  PROVE  /\ Front(s) \o <<v>> \in Seq(S)
         /\ Len(s) > 0 => /\ Len(Front(s) \o <<v>>) = Len(s)
                        /\ (Front(s) \o <<v>>)[Len(s)] = v
                        /\ \A j \in 1 .. Len(s) - 1 : (Front(s) \o <<v>>)[j] = s[j]
<1> DEFINE t == SubSeq(s, 1, Len(s) - 1)
           w == <<v>>
<1>1. /\ t \in Seq(S)
      /\ Len(s) > 0 => Len(t) = Len(s) - 1 /\ \A j \in 1 .. Len(s) - 1 : t[j] = s[j]
<2> DEFINE n == Len(s) - 1
<2>1. n \in Int /\ (Len(s) > 0 => n >= 0) /\ \A i \in 1 .. n : s[i] \in S
  OBVIOUS
<2>2. /\ SubSeq(s, 1, n) \in Seq(S)
      /\ Len(SubSeq(s, 1, n)) = IF 1 <= n THEN n - 1 + 1 ELSE 0
      /\ \A i \in 1 .. n - 1 + 1 : SubSeq(s, 1, n)[i] = s[1 + i - 1]
<3> HIDE DEF n
<3> QED BY <2>1, SubSeqProperties
<2>3. n - 1 + 1 = n /\ \A i \in 1 .. n : 1 + i - 1 = i
  BY <2>1
<2>4. t = SubSeq(s, 1, n)
  OBVIOUS
<2> HIDE DEF t, n
<2>5. Len(s) > 0 => Len(t) = n
  BY <2>1, <2>2, <2>3, <2>4
<2>6. \A i \in 1 .. n : t[i] = s[i]
  BY <2>2, <2>3, <2>4
<2> QED BY <2>2, <2>4, <2>5, <2>6 DEF n
<1>2. w \in Seq(S) /\ Len(w) = 1 /\ w[1] = v
  OBVIOUS
<1>3. Len(s) > 0 => Len(t) = Len(s) - 1 /\ \A j \in 1 .. Len(s) - 1 : t[j] = s[j]
  BY <1>1
<1> HIDE DEF t, w
<1>4. /\ t \o w \in Seq(S) /\ Len(t \o w) = Len(t) + 1
      /\ (t \o w)[Len(t) + 1] = w[1]
      /\ \A j \in 1 .. Len(t) : (t \o w)[j] = t[j]
  BY <1>1, <1>2, JoinedOne
<1>5. Len(s) > 0 => Len(t) + 1 = Len(s)
<2>1. Len(s) \in Nat
  OBVIOUS
<2> QED BY <1>1, <1>3, <2>1
<1>6. Len(s) > 0 => /\ Len(t \o w) = Len(s) /\ (t \o w)[Len(s)] = v
                  /\ \A j \in 1 .. Len(s) - 1 : (t \o w)[j] = s[j]
<2> DEFINE x == t \o w
<2> HIDE DEF x
<2>1. Len(s) > 0 => Len(x) = Len(s) /\ x[Len(s)] = v
  BY <1>2, <1>4, <1>5 DEF x
<2>2. Len(s) > 0 => \A j \in 1 .. Len(s) - 1 : x[j] = s[j]
  BY <1>3, <1>4 DEF x
<2> QED BY <2>1, <2>2 DEF x
<1> QED BY <1>4, <1>6 DEF Front, t, w

(* A merge step keeps its types.                                           *)
LEMMA MergeStepType ==
  ASSUME NEW acc \in Merging, NEW v \in Nat
  PROVE  MergeStep(acc, v) \in Merging
<1>1. acc.merged \in Seq(Nat) /\ acc.gained \in Nat /\ acc.canMerge \in BOOLEAN
  BY DEF Merging
<1> DEFINE w == Front(acc.merged) \o <<2 * v>>
           x == Append(acc.merged, v)
           new == [acc EXCEPT !.merged = x, !.canMerge = TRUE]
<1>2. w \in Seq(Nat) /\ x \in Seq(Nat) /\ acc.gained + 2 * v \in Nat
<2>1. 2 * v \in Nat
  OBVIOUS
<2>2. w \in Seq(Nat)
  BY <1>1, <2>1, Replaced
<2> HIDE DEF w
<2> QED BY <1>1, <2>1, <2>2
<1>3. new \in Merging
<2> HIDE DEF x
<2> QED BY <1>2 DEF Merging
<1>4. [merged |-> w, gained |-> acc.gained + 2 * v, canMerge |-> FALSE] \in Merging
<2> HIDE DEF w
<2> QED BY <1>2 DEF Merging
<1> HIDE DEF Merging
<1> QED BY <1>3, <1>4 DEF MergeStep

MergesStep(vs) == [x \in Merging \X (1 .. Len(vs)) |-> MergeStep(x[1], vs[x[2]])]

MergedBy(vs, it) ==
  it = [s \in SUBSET DOMAIN vs |->
          IF s = {} THEN MergeNothing ELSE MergeStep(it[s \ {Max(s)}], vs[Max(s)])]

(* Merge, step by step.                                                    *)
LEMMA MergeTrace ==
  ASSUME NEW vs \in Seq(Nat), NEW n \in Nat, n = Len(vs)
  PROVE  \E h \in [0 .. n -> Merging] :
           /\ h[0] = MergeNothing /\ h[n] = Merge(vs)
           /\ \A k \in 1 .. n : h[k] = MergeStep(h[k - 1], vs[k])
<1> DEFINE F == MergesStep(vs)
           T == Merging
           b == MergeNothing
<1>1. DOMAIN vs = 1 .. n /\ b \in T
<2>1. <<>> \in Seq(Nat)
  OBVIOUS
<2> QED BY <2>1 DEF Merging, MergeNothing
<1>2. F \in [T \X (1 .. n) -> T]
<2>1. \A x \in T \X (1 .. n) : x[1] \in Merging /\ vs[x[2]] \in Nat
  OBVIOUS
<2>2. \A x \in T \X (1 .. n) : MergeStep(x[1], vs[x[2]]) \in Merging
  BY <2>1, MergeStepType
<2> QED BY <2>2 DEF MergesStep
<1>3. PICK jt : FoldsBy(T, F, b, n, jt)
<2> HIDE DEF b, F, T
<2> QED BY <1>1, <1>2, FoldExists
<1>4. MergedBy(vs, jt)
<2>1. ASSUME NEW s \in SUBSET (1 .. n)
      PROVE  jt[s] = IF s = {} THEN b ELSE MergeStep(jt[s \ {Max(s)}], vs[Max(s)])
<3>1. CASE s = {}
  BY <3>1, <1>3 DEF FoldStep, FoldsBy
<3>2. CASE s # {}
<4>1. Max(s) \in 1 .. n
  BY <3>2, MaxIn
<4>2. jt[s \ {Max(s)}] \in T
  BY <1>3 DEF FoldsBy
<4>3. jt[s] = F[<<jt[s \ {Max(s)}], Max(s)>>]
  BY <1>3, <3>2 DEF FoldStep, FoldsBy
<4> QED BY <3>2, <4>1, <4>2, <4>3 DEF MergesStep
<3> QED BY <3>1, <3>2
<2>2. jt = [s \in SUBSET (1 .. n) |-> jt[s]]
  BY <1>3 DEF FoldsBy
<2> QED BY <1>1, <2>1, <2>2 DEF MergedBy
<1> DEFINE it == CHOOSE i : MergedBy(vs, i)
<1>5. Merge(vs) = it[1 .. n]
  BY <1>1 DEF Merge, FoldLeft, MapThenFoldSet, MergedBy
<1>6. MergedBy(vs, it)
  BY <1>4
<1> HIDE DEF it
<1>7. Folding(T, F, b, it, n)
<2>1. it[{}] = b
  BY <1>6 DEF MergedBy
<2>2. ASSUME NEW k \in 1 .. n, it[1 .. k - 1] \in T
      PROVE  it[1 .. k] = F[<<it[1 .. k - 1], k>>]
<3>1. k \in Nat /\ k # 0 /\ 1 .. k \in SUBSET DOMAIN vs
  BY <1>1
<3>2. (1 .. k) \ {Max(1 .. k)} = 1 .. k - 1 /\ Max(1 .. k) = k /\ 1 .. k # {}
  BY <3>1, SegmentStep
<3>3. it[1 .. k] = MergeStep(it[1 .. k - 1], vs[k])
  BY <3>1, <3>2, <1>6 DEF MergedBy
<3> QED BY <2>2, <3>3 DEF MergesStep
<2> QED BY <2>1, <2>2 DEF Folding
<1>8. Stepping(T, F, n)
  BY <1>2 DEF Stepping
<1>9. PICK h \in [0 .. n -> T] :
        /\ h[0] = b /\ h[n] = it[1 .. n]
        /\ \A k \in 1 .. n : h[k] = F[<<h[k - 1], k>>]
<2> HIDE DEF b, F, T
<2> QED BY <1>1, <1>7, <1>8, FoldingTrace
<1>10. ASSUME NEW k \in 1 .. n PROVE h[k] = MergeStep(h[k - 1], vs[k])
<2>1. k - 1 \in 0 .. n
  OBVIOUS
<2> QED BY <1>9, <2>1 DEF MergesStep
<1> QED BY <1>5, <1>9, <1>10

-----------------------------------------------------------------------------
(* Where a merged value comes from: a value of the line, or two neighbours *)
(* that are equal and come back in nothing else.                           *)
Origin(vs, n, merged, f, j) ==
  \/ merged[j] = vs[f[j]]
  \/ /\ merged[j] = 2 * vs[f[j]]
     /\ f[j] + 1 <= n /\ vs[f[j] + 1] = vs[f[j]]
     /\ \A i \in 1 .. Len(merged) : f[i] # f[j] + 1

NoPair(vs, n) == \A i \in 1 .. n : i + 1 <= n => vs[i] # vs[i + 1]

(* acc is what the first n values of vs make, found at places f.           *)
Merges(vs, n, acc, f) ==
  LET m == Len(acc.merged)
  IN  /\ f \in [1 .. m -> 1 .. n] /\ Increases(f, m)
      /\ m <= n /\ (n > 0 => m > 0)
      /\ \A j \in 1 .. m : Origin(vs, n, acc.merged, f, j)
      /\ acc.canMerge => m > 0 /\ f[m] = n /\ acc.merged[m] = vs[n]
      /\ m = n => /\ n > 0 => acc.canMerge
                  /\ NoPair(vs, n)
                  /\ \A j \in 1 .. m : acc.merged[j] = vs[j]
      /\ NoPair(vs, n) => m = n

(* A value that joins the last one: the same places are kept.              *)
LEMMA JoinMerges ==
  ASSUME NEW vs \in Seq(Nat), NEW n \in Nat, n + 1 <= Len(vs), NEW acc \in Merging, NEW f,
         Merges(vs, n, acc, f), acc.canMerge, Last(acc.merged) = vs[n + 1]
  PROVE  Merges(vs, n + 1, MergeStep(acc, vs[n + 1]), f)
<1> DEFINE v == vs[n + 1]
           old == acc.merged
           m == Len(old)
           w == Front(old) \o <<2 * v>>
           new == [merged |-> w, gained |-> acc.gained + 2 * v, canMerge |-> FALSE]
<1>1. v \in Nat /\ old \in Seq(Nat) /\ m \in Nat /\ 2 * v \in Nat
  BY DEF Merging
<1>2. MergeStep(acc, v) = new
  BY DEF MergeStep
<1>3. /\ f \in [1 .. m -> 1 .. n] /\ Increases(f, m)
      /\ m > 0 /\ m <= n /\ f[m] = n /\ old[m] = vs[n] /\ old # <<>>
      /\ \A j \in 1 .. m : Origin(vs, n, old, f, j)
<2>1. /\ f \in [1 .. m -> 1 .. n] /\ Increases(f, m)
      /\ m > 0 /\ m <= n /\ f[m] = n /\ old[m] = vs[n]
      /\ \A j \in 1 .. m : Origin(vs, n, old, f, j)
  BY DEF Merges
<2> QED BY <2>1, <1>1
<1>4. /\ Len(w) = m /\ w[m] = 2 * v
      /\ \A j \in 1 .. m - 1 : w[j] = old[j]
<2> DEFINE y == 2 * v
<2>1. y \in Nat
  BY <1>1
<2> HIDE DEF y, old
<2>2. Len(old) > 0 => /\ Len(Front(old) \o <<y>>) = Len(old)
                      /\ (Front(old) \o <<y>>)[Len(old)] = y
                      /\ \A j \in 1 .. Len(old) - 1 : (Front(old) \o <<y>>)[j] = old[j]
<3>1. old \in Seq(Nat)
  BY <1>1
<3> QED BY <2>1, <3>1, Replaced, Zenon
<2>3. Len(old) > 0
  BY <1>3 DEF m
<2> QED BY <2>2, <2>3 DEF y, m
<1>5. vs[n] = v
  BY <1>3 DEF Last
<1> HIDE DEF w, m, old
<1>6. ASSUME NEW j \in 1 .. m PROVE Origin(vs, n + 1, w, f, j)
<2>1. \A i \in 1 .. m : f[i] \in 1 .. n
  BY <1>3
<2>2. CASE j = m
<3>1. \A i \in 1 .. m : f[i] # n + 1
  BY <2>1
<3> QED BY <2>2, <3>1, <1>3, <1>4, <1>5 DEF Origin
<2>3. CASE j # m
<3>1. w[j] = old[j] /\ f[j] \in Nat
<4>1. j \in 1 .. m - 1
  BY <2>3, <1>1
<4> QED BY <4>1, <1>4, <2>1
<3>2. Origin(vs, n, old, f, j)
  BY <1>3
<3>3. Len(w) = Len(old)
  BY <1>4 DEF m
<3> QED BY <3>1, <3>2, <3>3 DEF Origin
<2> QED BY <2>2, <2>3
<1>7. ~NoPair(vs, n + 1)
<2>1. n \in 1 .. n + 1 /\ n + 1 <= n + 1
  BY <1>1, <1>3
<2> QED BY <2>1, <1>5 DEF NoPair
<1>8. f \in [1 .. m -> 1 .. n + 1]
  BY <1>3
<1>9. new.merged = w /\ new.canMerge = FALSE
  OBVIOUS
<1>10. Merges(vs, n + 1, new, f)
<2>1. m <= n + 1 /\ m # n + 1
  BY <1>1, <1>3
<2> HIDE DEF new
<2> QED BY <2>1, <1>1, <1>3, <1>4, <1>6, <1>7, <1>8, <1>9 DEF Merges
<1> QED BY <1>2, <1>10

(* A value that is put behind: its place is kept too.                      *)
LEMMA PutMerges ==
  ASSUME NEW vs \in Seq(Nat), NEW n \in Nat, n + 1 <= Len(vs), NEW acc \in Merging, NEW f,
         Merges(vs, n, acc, f), ~(acc.canMerge /\ Last(acc.merged) = vs[n + 1])
  PROVE  \E g : Merges(vs, n + 1, MergeStep(acc, vs[n + 1]), g)
<1> DEFINE v == vs[n + 1]
           old == acc.merged
           m == Len(old)
           w == Append(old, v)
           new == [acc EXCEPT !.merged = w, !.canMerge = TRUE]
           g == [j \in 1 .. m + 1 |-> IF j = m + 1 THEN n + 1 ELSE f[j]]
<1>1. v \in Nat /\ old \in Seq(Nat) /\ m \in Nat
  BY DEF Merging
<1>2. MergeStep(acc, v) = new
  BY DEF MergeStep
<1>3. /\ f \in [1 .. m -> 1 .. n] /\ Increases(f, m)
      /\ m <= n
      /\ \A j \in 1 .. m : Origin(vs, n, old, f, j)
      /\ m = n => /\ n > 0 => acc.canMerge
                  /\ NoPair(vs, n)
                  /\ \A j \in 1 .. m : old[j] = vs[j]
      /\ NoPair(vs, n) => m = n
      /\ acc.canMerge => old[m] = vs[n]
  BY DEF Merges
<1>4. Len(w) = m + 1 /\ w[m + 1] = v /\ \A j \in 1 .. m : w[j] = old[j]
  BY <1>1
<1> HIDE DEF w, m, old
<1>5. \A j \in 1 .. m + 1 : j \in 1 .. m \/ j = m + 1
  BY <1>1
<1>6. g[m + 1] = n + 1 /\ \A j \in 1 .. m : g[j] = f[j] /\ f[j] \in 1 .. n
<2>1. m + 1 \in 1 .. m + 1 /\ \A j \in 1 .. m : j \in 1 .. m + 1 /\ j # m + 1
  BY <1>1
<2> QED BY <2>1, <1>3
<1>7. g \in [1 .. m + 1 -> 1 .. n + 1]
<2>1. DOMAIN g = 1 .. m + 1 /\ g = [j \in 1 .. m + 1 |-> g[j]]
  OBVIOUS
<2> HIDE DEF g
<2>2. \A j \in 1 .. m : f[j] \in 1 .. n + 1
<3>1. \A j \in 1 .. m : f[j] \in 1 .. n
  BY <1>6
<3> QED BY <3>1
<2>3. n + 1 \in 1 .. n + 1
  OBVIOUS
<2>4. \A j \in 1 .. m + 1 : g[j] \in 1 .. n + 1
  BY <1>5, <1>6, <2>2, <2>3
<2> QED BY <2>1, <2>4
<1> HIDE DEF g
<1>8. Increases(g, m + 1)
<2> SUFFICES ASSUME NEW i \in 1 .. m + 1, NEW j \in 1 .. m + 1, i < j
             PROVE  g[i] < g[j]
  BY DEF Increases
<2>1. i \in 1 .. m
  BY <1>1
<2> QED BY <2>1, <1>3, <1>5, <1>6 DEF Increases
<1>9. ASSUME NEW j \in 1 .. m + 1 PROVE Origin(vs, n + 1, w, g, j)
<2>1. CASE j = m + 1
  BY <2>1, <1>4, <1>6 DEF Origin
<2>2. CASE j \in 1 .. m
<3>1. Origin(vs, n, old, f, j) /\ w[j] = old[j] /\ g[j] = f[j] /\ f[j] \in Nat
<4>1. f[j] \in 1 .. n
  BY <2>2, <1>6
<4> QED BY <4>1, <2>2, <1>3, <1>4, <1>6
<3>2. CASE old[j] = vs[f[j]]
  BY <3>1, <3>2 DEF Origin
<3>3. CASE /\ old[j] = 2 * vs[f[j]]
           /\ f[j] + 1 <= n /\ vs[f[j] + 1] = vs[f[j]]
           /\ \A i \in 1 .. Len(old) : f[i] # f[j] + 1
<4>0. \A i \in 1 .. m : f[i] # f[j] + 1
  BY <3>3 DEF m
<4>1. ASSUME NEW i \in 1 .. m + 1 PROVE g[i] # g[j] + 1
<5>1. CASE i = m + 1
  BY <3>1, <3>3, <5>1, <1>6
<5>2. CASE i \in 1 .. m
  BY <3>1, <4>0, <5>2, <1>6
<5> QED BY <5>1, <5>2, <1>5
<4>2. f[j] + 1 <= n + 1
  BY <3>1, <3>3
<4>3. vs[g[j] + 1] = vs[g[j]] /\ w[j] = 2 * vs[g[j]] /\ g[j] + 1 <= n + 1
  BY <3>1, <3>3, <4>2
<4> QED BY <4>1, <4>3, <1>4 DEF Origin
<3> QED BY <3>1, <3>2, <3>3 DEF Origin
<2> QED BY <2>1, <2>2, <1>5
<1>10. ASSUME m = n
       PROVE  NoPair(vs, n + 1) /\ \A j \in 1 .. m + 1 : w[j] = vs[j]
<2>1. ASSUME NEW j \in 1 .. m + 1 PROVE w[j] = vs[j]
<3>1. CASE j = m + 1
  BY <3>1, <1>4, <1>10 DEF v
<3>2. CASE j \in 1 .. m
  BY <3>2, <1>3, <1>4, <1>10
<3> QED BY <3>1, <3>2, <1>5
<2>2. n > 0 => vs[n] # v
<3>1. n > 0 => acc.canMerge /\ old[m] = vs[n]
  BY <1>3, <1>10
<3> QED BY <3>1 DEF Last, old, m
<2>3. ASSUME NEW i \in 1 .. n + 1, i + 1 <= n + 1 PROVE vs[i] # vs[i + 1]
<3>1. CASE i = n
  BY <3>1, <2>2, <2>3
<3>2. CASE i # n
<4>1. i \in 1 .. n /\ i + 1 <= n
  BY <2>3, <3>2
<4> QED BY <4>1, <1>3, <1>10 DEF NoPair
<3> QED BY <3>1, <3>2
<2> QED BY <2>1, <2>3 DEF NoPair
<1>11. NoPair(vs, n + 1) => m = n
<2>1. NoPair(vs, n + 1) => NoPair(vs, n)
<3> SUFFICES ASSUME NoPair(vs, n + 1), NEW i \in 1 .. n, i + 1 <= n PROVE vs[i] # vs[i + 1]
  BY DEF NoPair
<3>1. i \in 1 .. n + 1 /\ i + 1 <= n + 1
  OBVIOUS
<3> QED BY <3>1 DEF NoPair
<2> QED BY <2>1, <1>3
<1>12. new.merged = w /\ new.canMerge = TRUE
  BY DEF Merging
<1>13. Merges(vs, n + 1, new, g)
<2>1. m + 1 <= n + 1 /\ m + 1 > 0 /\ (m + 1 = n + 1 => m = n)
  BY <1>1, <1>3
<2> HIDE DEF new
<2> QED BY <2>1, <1>4, <1>6, <1>7, <1>8, <1>9, <1>10, <1>11, <1>12 DEF Merges
<1> QED BY <1>2, <1>13

(* What Merge makes of a line's values.                                    *)
LEMMA MergeMerges ==
  ASSUME NEW vs \in Seq(Nat)
  PROVE  /\ Merge(vs) \in Merging
         /\ \E f : Merges(vs, Len(vs), Merge(vs), f)
<1> DEFINE n == Len(vs)
<1>0. n \in Nat
  OBVIOUS
<1>1. PICK h \in [0 .. n -> Merging] :
        /\ h[0] = MergeNothing /\ h[n] = Merge(vs)
        /\ \A k \in 1 .. n : h[k] = MergeStep(h[k - 1], vs[k])
  BY <1>0, MergeTrace
<1> DEFINE S == {k \in 0 .. n : \E f : Merges(vs, k, h[k], f)}
<1>2. 0 \in S
<2> DEFINE f == [j \in 1 .. 0 |-> 0]
<2>1. Len(MergeNothing.merged) = 0 /\ MergeNothing.canMerge = FALSE /\ 1 .. 0 = {}
  BY DEF MergeNothing
<2>2. f \in [1 .. 0 -> {}] /\ Increases(f, 0) /\ NoPair(vs, 0)
  BY <2>1 DEF Increases, NoPair
<2>3. Merges(vs, 0, MergeNothing, f)
<3> HIDE DEF f
<3> QED BY <2>1, <2>2 DEF Merges
<2> QED BY <1>0, <1>1, <2>3
<1>3. ASSUME NEW k \in 1 .. n, k - 1 \in S PROVE k \in S
<2>1. PICK f : Merges(vs, k - 1, h[k - 1], f)
  BY <1>3
<2> DEFINE p == k - 1
           acc == h[p]
<2>2. p \in Nat /\ p + 1 = k /\ p + 1 <= n /\ acc \in Merging /\ Merges(vs, p, acc, f)
  BY <1>0, <2>1
<2>3. k \in 0 .. n /\ h[k] = MergeStep(acc, vs[k])
  BY <1>1
<2> HIDE DEF p, acc
<2>4. \E g : Merges(vs, p + 1, MergeStep(acc, vs[p + 1]), g)
  BY <2>2, JoinMerges, PutMerges
<2> QED BY <2>2, <2>3, <2>4
<1>4. n \in S
<2> HIDE DEF S
<2> QED BY <1>0, <1>2, <1>3, UpTo
<1>5. h[n] \in Merging
  BY <1>0
<1> QED BY <1>1, <1>4, <1>5

(***************************************************************************)
(* A move, cell by cell.                                                   *)
(***************************************************************************)
Merged(b, dir, l) == Merge(Values(b, dir, l)).merged
Gained(b, dir, l) == Merge(Values(b, dir, l)).gained
Moved(b, dir) == ApplyMove(b, dir).board

(* The values of a line, and what a merge makes of them.                   *)
LEMMA ValuesType ==
  ASSUME NEW b \in Board, NEW dir, NEW l \in Side
  PROVE  /\ Values(b, dir, l) \in Seq(Nat)
         /\ Merged(b, dir, l) \in Seq(Nat) /\ Gained(b, dir, l) \in Nat
<1>1. Values(b, dir, l) \in Seq(Nat)
  BY ValuesPick DEF Picks
<1>2. Merge(Values(b, dir, l)) \in Merging
  BY <1>1, MergeMerges
<1> QED BY <1>1, <1>2 DEF Merged, Gained, Merging

(* A move, cell by cell: each line holds its merged values, then zeroes.   *)
LEMMA MoveCells ==
  ASSUME NEW b \in Board, NEW dir
  PROVE  /\ Moved(b, dir) \in Board
         /\ \A l, i \in Side :
              Moved(b, dir)[LineCell(dir, l, i)]
                = IF i <= Len(Merged(b, dir, l)) THEN Merged(b, dir, l)[i] ELSE 0
         /\ ApplyMove(b, dir).moved = (Moved(b, dir) # b)
         /\ ApplyMove(b, dir).gained = SumFunction([l \in Side |-> Gained(b, dir, l)])
<1> DEFINE line(c) == IF IsHorizontal(dir) THEN c[1] ELSE c[2]
           place(c) == CHOOSE i \in Side : LineCell(dir, line(c), i) = c
           after == [l \in Side |-> Merge(Values(b, dir, l))]
           at(c) == IF place(c) <= Len(after[line(c)].merged)
                    THEN after[line(c)].merged[place(c)] ELSE 0
           next == [c \in Cells |-> at(c)]
<1>1. /\ Moved(b, dir) = next
      /\ ApplyMove(b, dir).moved = (next # b)
      /\ ApplyMove(b, dir).gained = SumFunction([l \in Side |-> after[l].gained])
  BY DEF ApplyMove, Moved
<1>2. ASSUME NEW l \in Side, NEW i \in Side
      PROVE  line(LineCell(dir, l, i)) = l /\ place(LineCell(dir, l, i)) = i
<2>1. line(LineCell(dir, l, i)) = l
  BY DEF LineCell
<2>2. \A j \in Side : LineCell(dir, l, j) = LineCell(dir, l, i) => j = i
  BY LineCells
<2> QED BY <2>1, <2>2
<1>3. ASSUME NEW l \in Side, NEW i \in Side
      PROVE  /\ LineCell(dir, l, i) \in Cells
             /\ at(LineCell(dir, l, i))
                  = IF i <= Len(Merged(b, dir, l)) THEN Merged(b, dir, l)[i] ELSE 0
<2>1. LineCell(dir, l, i) \in Cells
  BY LineCells
<2>2. after[l].merged = Merged(b, dir, l)
  BY DEF Merged
<2> HIDE DEF line, place, after
<2> QED BY <2>1, <2>2, <1>2
<1>4. ASSUME NEW l \in Side, NEW i \in Side
      PROVE  next[LineCell(dir, l, i)]
               = IF i <= Len(Merged(b, dir, l)) THEN Merged(b, dir, l)[i] ELSE 0
<2> HIDE DEF at
<2> QED BY <1>3
<1>5. ASSUME NEW c \in Cells PROVE at(c) \in Nat
<2>1. PICK l \in Side, i \in Side : c = LineCell(dir, l, i)
  BY LineCells
<2>2. Merged(b, dir, l) \in Seq(Nat)
  BY ValuesType
<2>3. i \in Nat /\ i >= 1
  BY Sides DEF Side
<2>4. (IF i <= Len(Merged(b, dir, l)) THEN Merged(b, dir, l)[i] ELSE 0) \in Nat
  BY <2>2, <2>3
<2> HIDE DEF at
<2> QED BY <2>1, <2>4, <1>3
<1>6. next \in Board
<2> HIDE DEF at
<2> QED BY <1>5 DEF Board
<1>7. [l \in Side |-> after[l].gained] = [l \in Side |-> Gained(b, dir, l)]
  BY DEF Gained
<1> HIDE DEF next, after
<1> QED BY <1>1, <1>4, <1>6, <1>7

-----------------------------------------------------------------------------
(* Where a tile of a line comes from: place g[j], and when it was merged   *)
(* from another place too, from which nothing else comes.                  *)
FromOne(line, merged, g, j) == merged[j] = line[g[j]]

FromTwo(line, merged, g, j) ==
  /\ merged[j] = 2 * line[g[j]]
  /\ \E p \in Side : /\ p # g[j] /\ line[p] = line[g[j]]
                     /\ \A i \in 1 .. Len(merged) : g[i] # p

Comes(line, merged, g) ==
  /\ g \in [1 .. Len(merged) -> Side] /\ Increases(g, Len(merged))
  /\ \A j \in 1 .. Len(merged) :
       /\ line[g[j]] > 0
       /\ FromOne(line, merged, g, j) \/ FromTwo(line, merged, g, j)

(* A merged line comes from the cells of the line.                         *)
LEMMA LineComes ==
  ASSUME NEW b \in Board, NEW dir, NEW l \in Side
  PROVE  \E g : Comes(Line(b, dir, l), Merged(b, dir, l), g)
<1> DEFINE line == Line(b, dir, l)
           vs == Values(b, dir, l)
           n == Len(vs)
           merged == Merged(b, dir, l)
           m == Len(merged)
<1>1. PICK e : Picks(line, SIZE, vs, e)
  BY ValuesPick
<1>2. vs \in Seq(Nat) /\ merged \in Seq(Nat)
  BY ValuesType
<1>3. PICK f : Merges(vs, n, Merge(vs), f)
  BY <1>2, MergeMerges
<1>4. n \in Nat /\ m \in Nat
  BY <1>2
<1>5. /\ e \in [1 .. n -> Side] /\ Increases(e, n)
      /\ \A j \in 1 .. n : vs[j] = line[e[j]] /\ vs[j] > 0
<2>1. Filled(line, SIZE) \subseteq Side
  BY DEF Filled, Side
<2> QED BY <2>1, <1>1 DEF Picks, Lists
<1>6. /\ f \in [1 .. m -> 1 .. n] /\ Increases(f, m)
      /\ \A j \in 1 .. m : Origin(vs, n, merged, f, j)
  BY <1>3 DEF Merges, Merged
<1> DEFINE g == [j \in 1 .. m |-> e[f[j]]]
<1> HIDE DEF line, vs, n, m, merged
<1>7. ASSUME NEW j \in 1 .. m PROVE f[j] \in 1 .. n /\ g[j] = e[f[j]] /\ g[j] \in Side
  BY <1>5, <1>6
<1>8. g \in [1 .. m -> Side]
  BY <1>7
<1> HIDE DEF g
<1>9. Increases(g, m)
<2> SUFFICES ASSUME NEW i \in 1 .. m, NEW j \in 1 .. m, i < j PROVE g[i] < g[j]
  BY DEF Increases
<2>1. f[i] < f[j]
  BY <1>6 DEF Increases
<2> QED BY <2>1, <1>5, <1>7 DEF Increases
<1>10. ASSUME NEW j \in 1 .. m
       PROVE  /\ line[g[j]] > 0
              /\ FromOne(line, merged, g, j) \/ FromTwo(line, merged, g, j)
<2>1. line[g[j]] = vs[f[j]] /\ vs[f[j]] > 0
  BY <1>5, <1>7
<2>2. CASE merged[j] = vs[f[j]]
  BY <2>1, <2>2 DEF FromOne
<2>3. CASE /\ merged[j] = 2 * vs[f[j]]
           /\ f[j] + 1 <= n /\ vs[f[j] + 1] = vs[f[j]]
           /\ \A i \in 1 .. m : f[i] # f[j] + 1
<3> DEFINE q == f[j] + 1
           p == e[q]
<3>1. q \in 1 .. n /\ f[j] < q
  BY <1>4, <1>7, <2>3
<3>2. p \in Side /\ line[p] = line[g[j]] /\ g[j] < p
  BY <3>1, <1>5, <1>7, <2>1, <2>3 DEF Increases
<3>3. ASSUME NEW i \in 1 .. m PROVE g[i] # p
<4>1. f[i] \in 1 .. n /\ f[i] # q
  BY <1>7, <2>3
<4>2. f[i] < q \/ q < f[i]
  BY <3>1, <4>1
<4>3. e[f[i]] < p \/ p < e[f[i]]
  BY <3>1, <4>1, <4>2, <1>5 DEF Increases
<4> QED BY <4>3, <1>7, <3>2, Sides DEF Side
<3>4. p # g[j]
  BY <3>3
<3> HIDE DEF p, q
<3> QED BY <2>1, <2>3, <3>2, <3>3, <3>4 DEF FromTwo, m
<2>4. \/ merged[j] = vs[f[j]]
      \/ /\ merged[j] = 2 * vs[f[j]]
         /\ f[j] + 1 <= n /\ vs[f[j] + 1] = vs[f[j]]
         /\ \A i \in 1 .. m : f[i] # f[j] + 1
  BY <1>6 DEF Origin, m
<2> QED BY <2>1, <2>2, <2>3, <2>4
<1>11. Comes(line, merged, g)
  BY <1>8, <1>9, <1>10 DEF Comes, m
<1> QED BY <1>11 DEF line, merged

(* An increasing list of places is not longer than the line.               *)
LEMMA ListFits ==
  ASSUME NEW m \in Nat, NEW g \in [1 .. m -> Side], Increases(g, m)
  PROVE  m <= SIZE /\ \A i, j \in 1 .. m : g[i] = g[j] => i = j
<1>1. SIZE \in Nat
  BY Sides
<1>2. \A i, j \in 1 .. m : g[i] = g[j] => i = j
<2> SUFFICES ASSUME NEW i \in 1 .. m, NEW j \in 1 .. m, i # j PROVE g[i] # g[j]
  OBVIOUS
<2>1. i < j \/ j < i
  OBVIOUS
<2>2. g[i] \in Nat /\ g[j] \in Nat
  BY <1>1 DEF Side
<2> QED BY <2>1, <2>2 DEF Increases
<1>3. g \in Injection(1 .. m, Side)
  BY <1>2 DEF Injection, IsInjective
<1>4. Cardinality(1 .. m) <= Cardinality(Side)
  BY <1>3, Sides, FS_Injection
<1>5. Cardinality(1 .. m) = m
  BY FS_Interval
<1> QED BY <1>2, <1>4, <1>5, Sides

(***************************************************************************)
(* When a direction moves nothing.                                         *)
(***************************************************************************)
Stays(b, dir, l) ==
  \A i \in Side : Moved(b, dir)[LineCell(dir, l, i)] = b[LineCell(dir, l, i)]

(* A board has moved when one of its lines has.                            *)
LEMMA MovedWhenNotStays ==
  ASSUME NEW b \in Board, NEW dir
  PROVE  ApplyMove(b, dir).moved <=> \E l \in Side : ~Stays(b, dir, l)
<1>1. ApplyMove(b, dir).moved <=> Moved(b, dir) # b
  BY MoveCells
<1>2. Moved(b, dir) \in [Cells -> Nat] /\ b \in [Cells -> Nat]
  BY MoveCells DEF Board
<1>3. ASSUME \A l \in Side : Stays(b, dir, l), NEW c \in Cells
      PROVE  Moved(b, dir)[c] = b[c]
<2>1. PICK l \in Side, i \in Side : c = LineCell(dir, l, i)
  BY LineCells
<2> QED BY <1>3, <2>1 DEF Stays
<1>4. (\A l \in Side : Stays(b, dir, l)) => Moved(b, dir) = b
  BY <1>2, <1>3
<1>5. Moved(b, dir) = b => \A l \in Side : Stays(b, dir, l)
  BY DEF Stays
<1> QED BY <1>1, <1>4, <1>5

(* A full line stays exactly when no neighbours are equal.                 *)
LEMMA FullLine ==
  ASSUME NEW b \in Board, NEW dir, NEW l \in Side,
         \A i \in Side : b[LineCell(dir, l, i)] # 0
  PROVE  /\ Stays(b, dir, l) <=> NoPair(Line(b, dir, l), SIZE)
         /\ Stays(b, dir, l) <=> Len(Merged(b, dir, l)) = SIZE
<1> DEFINE line == Line(b, dir, l)
           vs == Values(b, dir, l)
           merged == Merged(b, dir, l)
           id == [i \in Side |-> i]
<1>1. /\ line \in Seq(Nat) /\ Len(line) = SIZE
      /\ \A i \in Side : line[i] = b[LineCell(dir, l, i)]
  BY LineType
<1>2. PICK e : Picks(line, SIZE, vs, e)
  BY ValuesPick
<1>3. PICK f : Merges(vs, Len(vs), Merge(vs), f)
  BY ValuesType, MergeMerges
<1>4. SIZE \in Nat /\ SIZE >= 2 /\ Side = 1 .. SIZE
  BY Sides DEF Side
<1>5. vs \in Seq(Nat) /\ merged \in Seq(Nat)
  BY ValuesType
<1>6. \A i \in Side :
        Moved(b, dir)[LineCell(dir, l, i)] = IF i <= Len(merged) THEN merged[i] ELSE 0
  BY MoveCells
<1>7. Merge(vs).merged = merged
  BY DEF Merged
<1> HIDE DEF line, vs, merged
<1>8. Filled(line, SIZE) = Side
  BY <1>1, <1>4 DEF Filled
<1>9. Lists(id, SIZE, Side)
<2>1. Increases(id, SIZE)
  BY <1>4 DEF Increases
<2>2. id \in [1 .. SIZE -> Side] /\ Side \subseteq Nat
  BY <1>4
<2>3. \A x \in Side : \E i \in 1 .. SIZE : id[i] = x
  BY <1>4
<2> HIDE DEF id
<2> QED BY <1>4, <2>1, <2>2, <2>3 DEF Lists
<1>10. Len(vs) = SIZE /\ \A i \in Side : e[i] = i
<2>1. Lists(e, Len(vs), Side)
  BY <1>2, <1>8 DEF Picks
<2>2. Len(vs) = SIZE /\ \A i \in 1 .. Len(vs) : e[i] = id[i]
  BY <2>1, <1>9, ListsAgree
<2> QED BY <2>2, <1>4
<1>11. \A i \in Side : vs[i] = line[i]
  BY <1>2, <1>4, <1>10 DEF Picks
<1>12. NoPair(vs, SIZE) <=> NoPair(line, SIZE)
<2>1. \A i \in 1 .. SIZE : i + 1 <= SIZE => i + 1 \in Side /\ i \in Side
  BY <1>4
<2> QED BY <2>1, <1>11 DEF NoPair
<1>13. /\ Len(merged) <= SIZE
       /\ Len(merged) = SIZE <=> NoPair(vs, SIZE)
       /\ Len(merged) = SIZE => \A j \in Side : merged[j] = vs[j]
  BY <1>3, <1>4, <1>5, <1>7, <1>10 DEF Merges
<1>14. ASSUME NoPair(line, SIZE) PROVE Stays(b, dir, l)
<2>1. \A i \in Side : i <= Len(merged) /\ merged[i] = b[LineCell(dir, l, i)]
  BY <1>1, <1>4, <1>11, <1>12, <1>13, <1>14
<2> QED BY <2>1, <1>6 DEF Stays
<1>15. ASSUME Stays(b, dir, l) PROVE NoPair(line, SIZE)
<2>1. SIZE \in Side
  BY <1>4
<2>2. SIZE <= Len(merged)
  BY <1>6, <1>15, <2>1 DEF Stays
<2>3. Len(merged) = SIZE
  BY <2>2, <1>4, <1>5, <1>13
<2> QED BY <2>3, <1>12, <1>13
<1> QED BY <1>12, <1>13, <1>14, <1>15 DEF line, merged

(* A line with a tile and a hole that stays has the hole at its end.       *)
LEMMA HoledLine ==
  ASSUME NEW b \in Board, NEW dir, NEW l \in Side,
         NEW x \in Side, b[LineCell(dir, l, x)] # 0,
         NEW y \in Side, b[LineCell(dir, l, y)] = 0,
         Stays(b, dir, l)
  PROVE  b[LineCell(dir, l, 1)] # 0 /\ b[LineCell(dir, l, SIZE)] = 0
<1> DEFINE line == Line(b, dir, l)
           vs == Values(b, dir, l)
           merged == Merged(b, dir, l)
           n == Len(vs)
           m == Len(merged)
<1>1. \A i \in Side : line[i] = b[LineCell(dir, l, i)]
  BY LineType
<1>2. PICK e : Picks(line, SIZE, vs, e)
  BY ValuesPick
<1>3. PICK g : Comes(line, merged, g)
  BY LineComes
<1>4. SIZE \in Nat /\ SIZE >= 2 /\ Side = 1 .. SIZE
  BY Sides DEF Side
<1>5. n \in Nat /\ m \in Nat /\ merged \in Seq(Nat)
  BY ValuesType
<1>6. \A i \in Side : b[LineCell(dir, l, i)] = IF i <= m THEN merged[i] ELSE 0
  BY MoveCells DEF Stays
<1> HIDE DEF line, vs, merged, n, m
<1>7. m > 0
<2> SUFFICES ASSUME ~(x <= m) PROVE FALSE
  BY <1>4, <1>5
<2> QED BY <1>6
<1>8. m < SIZE
<2> SUFFICES ASSUME SIZE <= m PROVE FALSE
  BY <1>4, <1>5
<2>1. y \in 1 .. m /\ merged[y] = 0
  BY <1>4, <1>5, <1>6
<2>2. g[y] \in Side /\ line[g[y]] > 0 /\ (FromOne(line, merged, g, y) \/ FromTwo(line, merged, g, y))
  BY <1>3, <2>1 DEF Comes, m
<2>3. line[g[y]] \in Nat
  BY <1>1, <2>2, LineCells DEF Board
<2> QED BY <2>1, <2>2, <2>3 DEF FromOne, FromTwo
<1>9. 1 \in Side /\ 1 \in 1 .. m /\ SIZE \in Side
  BY <1>4, <1>5, <1>7
<1>10. merged[1] # 0
<2>2. g[1] \in Side /\ line[g[1]] > 0 /\ (FromOne(line, merged, g, 1) \/ FromTwo(line, merged, g, 1))
  BY <1>3, <1>9 DEF Comes, m
<2>3. line[g[1]] \in Nat
  BY <1>1, <2>2, LineCells DEF Board
<2> QED BY <2>2, <2>3 DEF FromOne, FromTwo
<1>11. 1 <= m /\ ~(SIZE <= m)
  BY <1>4, <1>5, <1>7, <1>8
<1> QED BY <1>6, <1>9, <1>10, <1>11

-----------------------------------------------------------------------------
(* The two ends of a line change places when the direction is turned.      *)
Opposite(dir) ==
  CASE dir = "left" -> "right" [] dir = "right" -> "left"
    [] dir = "up" -> "down" [] dir = "down" -> "up"

(* The opposite direction reads the same lines backwards.                  *)
LEMMA OppositeCells ==
  ASSUME NEW dir \in Direction
  PROVE  /\ Opposite(dir) \in Direction
         /\ \A l, i \in Side :
              /\ SIZE + 1 - i \in Side
              /\ LineCell(Opposite(dir), l, i) = LineCell(dir, l, SIZE + 1 - i)
<1>1. SIZE \in Nat
  BY Sides
<1>2. Opposite(dir) \in Direction
  BY DEF Opposite, Direction
<1>3. /\ IsHorizontal(Opposite(dir)) = IsHorizontal(dir)
      /\ Reverses(Opposite(dir)) = ~Reverses(dir)
  BY DEF Opposite, Direction, IsHorizontal, Reverses
<1>4. ASSUME NEW l \in Side, NEW i \in Side
      PROVE  /\ SIZE + 1 - i \in Side
             /\ LineCell(Opposite(dir), l, i) = LineCell(dir, l, SIZE + 1 - i)
<2>1. SIZE + 1 - i \in Side /\ SIZE + 1 - (SIZE + 1 - i) = i
  BY <1>1 DEF Side
<2>2. CASE Reverses(dir)
  BY <2>1, <2>2, <1>3 DEF LineCell
<2>3. CASE ~Reverses(dir)
  BY <2>1, <2>3, <1>3 DEF LineCell
<2> QED BY <2>1, <2>2, <2>3
<1> QED BY <1>2, <1>4

(* A board with a tile and a hole can move.                                *)
LEMMA HoleMoves ==
  ASSUME NEW b \in Board, NEW t \in Cells, b[t] # 0, NEW o \in Cells, b[o] = 0
  PROVE  \E dir \in Direction : ApplyMove(b, dir).moved
<1>1. ASSUME NEW dir \in Direction, NEW l \in Side,
             NEW x \in Side, b[LineCell(dir, l, x)] # 0,
             NEW y \in Side, b[LineCell(dir, l, y)] = 0
      PROVE  \E d \in Direction : ApplyMove(b, d).moved
<2> DEFINE d == Opposite(dir)
<2>1. d \in Direction /\ SIZE \in Nat /\ SIZE >= 2 /\ 1 \in Side /\ SIZE \in Side
  BY OppositeCells, Sides DEF Side
<2> SUFFICES ASSUME ~ApplyMove(b, dir).moved, ~ApplyMove(b, d).moved PROVE FALSE
  BY <2>1
<2>2. Stays(b, dir, l) /\ Stays(b, d, l)
  BY MovedWhenNotStays
<2>3. b[LineCell(dir, l, 1)] # 0
  BY <1>1, <2>2, HoledLine
<2>4. /\ SIZE + 1 - x \in Side /\ LineCell(d, l, SIZE + 1 - x) = LineCell(dir, l, x)
      /\ SIZE + 1 - y \in Side /\ LineCell(d, l, SIZE + 1 - y) = LineCell(dir, l, y)
<3>1. ASSUME NEW z \in Side
      PROVE  SIZE + 1 - z \in Side /\ LineCell(d, l, SIZE + 1 - z) = LineCell(dir, l, z)
<4>1. SIZE + 1 - z \in Side /\ SIZE + 1 - (SIZE + 1 - z) = z
  BY <2>1 DEF Side
<4> QED BY <4>1, OppositeCells
<3> QED BY <3>1
<2>5. b[LineCell(d, l, SIZE)] = 0
<3> HIDE DEF d
<3> QED BY <1>1, <2>2, <2>4, HoledLine
<2>6. LineCell(d, l, SIZE) = LineCell(dir, l, 1)
<3>1. SIZE + 1 - SIZE = 1
  BY <2>1
<3> QED BY <2>1, <3>1, OppositeCells
<2> QED BY <2>3, <2>5, <2>6
<1> DEFINE c == <<t[1], o[2]>>
<1>2. /\ t[1] \in Side /\ t[2] \in Side /\ o[1] \in Side /\ o[2] \in Side
      /\ t = <<t[1], t[2]>> /\ o = <<o[1], o[2]>>
  BY DEF Cells
<1>3. /\ \A l, i \in Side : LineCell("left", l, i) = <<l, i>> /\ LineCell("up", l, i) = <<i, l>>
      /\ "left" \in Direction /\ "up" \in Direction
  BY DEF LineCell, IsHorizontal, Reverses, Direction
<1>4. CASE b[c] = 0
<2>1. /\ LineCell("left", t[1], t[2]) = t /\ LineCell("left", t[1], o[2]) = c
  BY <1>2, <1>3
<2> QED BY <1>1, <1>2, <1>3, <1>4, <2>1
<1>5. CASE b[c] # 0
<2>1. /\ LineCell("up", o[2], t[1]) = c /\ LineCell("up", o[2], o[1]) = o
  BY <1>2, <1>3
<2> QED BY <1>1, <1>2, <1>3, <1>5, <2>1
<1> QED BY <1>4, <1>5

(* On a full board, the test for equal neighbours tries all directions.    *)
LEMMA FullMoves ==
  ASSUME NEW b \in Board, \A c \in Cells : b[c] # 0
  PROVE  CanMoveAny(b) <=> \E dir \in Direction : ApplyMove(b, dir).moved
<1>1. SIZE \in Nat /\ SIZE >= 2 /\ Side = 1 .. SIZE
  BY Sides DEF Side
<1>2. ASSUME NEW dir, NEW l \in Side
      PROVE  Stays(b, dir, l) <=> NoPair(Line(b, dir, l), SIZE)
  BY FullLine, LineCells
<1>3. ASSUME NEW dir, NEW l \in Side
      PROVE  NoPair(Line(b, dir, l), SIZE)
               <=> \A i \in 1 .. SIZE - 1 : b[LineCell(dir, l, i)] # b[LineCell(dir, l, i + 1)]
<2>1. \A i \in 1 .. SIZE - 1 : i \in 1 .. SIZE /\ i + 1 \in Side /\ i + 1 <= SIZE /\ i \in Side
  BY <1>1
<2>2. \A i \in 1 .. SIZE : i + 1 <= SIZE => i \in 1 .. SIZE - 1
  BY <1>1
<2>3. \A i \in Side : Line(b, dir, l)[i] = b[LineCell(dir, l, i)]
  BY LineType
<2> QED BY <2>1, <2>2, <2>3 DEF NoPair
<1> DEFINE Twin(c) == \/ c[2] < SIZE /\ b[c] = b[<<c[1], c[2] + 1>>]
                      \/ c[1] < SIZE /\ b[c] = b[<<c[1] + 1, c[2]>>]
<1>4. CanMoveAny(b) <=> \E c \in Cells : Twin(c)
  BY DEF CanMoveAny
<1>5. /\ \A l, i \in Side : LineCell("left", l, i) = <<l, i>> /\ LineCell("up", l, i) = <<i, l>>
      /\ \A l, i \in Side : LineCell("right", l, i) = <<l, SIZE + 1 - i>>
                            /\ LineCell("down", l, i) = <<SIZE + 1 - i, l>>
      /\ Direction = {"left", "up", "right", "down"}
  BY DEF LineCell, IsHorizontal, Reverses, Direction
<1>6. ASSUME NEW c \in Cells, Twin(c) PROVE \E dir \in Direction : ApplyMove(b, dir).moved
<2>1. c = <<c[1], c[2]>> /\ c[1] \in Side /\ c[2] \in Side
  BY DEF Cells
<2>2. CASE c[2] < SIZE /\ b[c] = b[<<c[1], c[2] + 1>>]
<3>1. c[2] \in 1 .. SIZE - 1 /\ c[2] + 1 \in Side
  BY <1>1, <2>1, <2>2
<3>2. LineCell("left", c[1], c[2]) = c /\ LineCell("left", c[1], c[2] + 1) = <<c[1], c[2] + 1>>
  BY <1>5, <2>1, <3>1
<3>3. ~NoPair(Line(b, "left", c[1]), SIZE)
  BY <1>3, <2>1, <2>2, <3>1, <3>2
<3>4. ApplyMove(b, "left").moved
  BY <1>2, <2>1, <3>3, MovedWhenNotStays
<3> QED BY <3>4, <1>5
<2>3. CASE c[1] < SIZE /\ b[c] = b[<<c[1] + 1, c[2]>>]
<3>1. c[1] \in 1 .. SIZE - 1 /\ c[1] + 1 \in Side
  BY <1>1, <2>1, <2>3
<3>2. LineCell("up", c[2], c[1]) = c /\ LineCell("up", c[2], c[1] + 1) = <<c[1] + 1, c[2]>>
  BY <1>5, <2>1, <3>1
<3>3. ~NoPair(Line(b, "up", c[2]), SIZE)
  BY <1>3, <2>1, <2>3, <3>1, <3>2
<3>4. ApplyMove(b, "up").moved
  BY <1>2, <2>1, <3>3, MovedWhenNotStays
<3> QED BY <3>4, <1>5
<2> QED BY <1>6, <2>2, <2>3
<1>7. ASSUME NEW dir \in Direction, ApplyMove(b, dir).moved PROVE \E c \in Cells : Twin(c)
<2>1. PICK l \in Side : ~NoPair(Line(b, dir, l), SIZE)
  BY <1>2, <1>7, MovedWhenNotStays
<2>2. PICK i \in 1 .. SIZE - 1 : b[LineCell(dir, l, i)] = b[LineCell(dir, l, i + 1)]
  BY <1>3, <2>1
<2>3. i \in Side /\ i + 1 \in Side /\ i < SIZE
  BY <1>1
<2> DEFINE k == SIZE - i
<2>4. k \in Side /\ k < SIZE /\ k + 1 \in Side /\ SIZE + 1 - i = k + 1 /\ SIZE + 1 - (i + 1) = k
  BY <1>1, <2>3
<2> HIDE DEF k
<2>5. CASE dir = "left"
<3> DEFINE c == <<l, i>>
<3>1. c \in Cells /\ c[1] = l /\ c[2] = i /\ b[c] = b[<<l, i + 1>>]
  BY <1>5, <2>2, <2>3, <2>5 DEF Cells
<3>2. Twin(c)
  BY <2>3, <3>1
<3> QED BY <3>1, <3>2
<2>6. CASE dir = "up"
<3> DEFINE c == <<i, l>>
<3>1. c \in Cells /\ c[1] = i /\ c[2] = l /\ b[c] = b[<<i + 1, l>>]
  BY <1>5, <2>2, <2>3, <2>6 DEF Cells
<3>2. Twin(c)
  BY <2>3, <3>1
<3> QED BY <3>1, <3>2
<2>7. CASE dir = "right"
<3> DEFINE c == <<l, k>>
<3>1. c \in Cells /\ c[1] = l /\ c[2] = k /\ b[c] = b[<<l, k + 1>>]
<4>1. LineCell(dir, l, i) = <<l, k + 1>> /\ LineCell(dir, l, i + 1) = <<l, k>>
  BY <1>5, <2>3, <2>4, <2>7
<4>2. b[c] = b[<<l, k + 1>>]
  BY <2>2, <4>1
<4> QED BY <2>4, <4>2 DEF Cells
<3>2. Twin(c)
  BY <2>4, <3>1
<3> QED BY <3>1, <3>2
<2>8. CASE dir = "down"
<3> DEFINE c == <<k, l>>
<3>1. c \in Cells /\ c[1] = k /\ c[2] = l /\ b[c] = b[<<k + 1, l>>]
<4>1. LineCell(dir, l, i) = <<k + 1, l>> /\ LineCell(dir, l, i + 1) = <<k, l>>
  BY <1>5, <2>3, <2>4, <2>8
<4>2. b[c] = b[<<k + 1, l>>]
  BY <2>2, <4>1
<4> QED BY <2>4, <4>2 DEF Cells
<3>2. Twin(c)
  BY <2>4, <3>1
<3> QED BY <3>1, <3>2
<2> QED BY <1>5, <2>5, <2>6, <2>7, <2>8
<1> QED BY <1>4, <1>6, <1>7

(* The server's test for game over tries the moves, on every board with a  *)
(* tile.                                                                   *)
LEMMA TriesMoves ==
  ASSUME NEW b \in Board, \E c \in Cells : b[c] # 0
  PROVE  CanMoveAny(b) <=> \E dir \in Direction : ApplyMove(b, dir).moved
<1>1. CASE \A c \in Cells : b[c] # 0
  BY <1>1, FullMoves
<1>2. CASE \E c \in Cells : b[c] = 0
<2>1. CanMoveAny(b)
  BY <1>2 DEF CanMoveAny
<2> QED BY <1>2, <2>1, HoleMoves
<1> QED BY <1>1, <1>2

-----------------------------------------------------------------------------
(***************************************************************************)
(* A draw places a tile on a free cell.                                    *)
(***************************************************************************)
LEMMA RowMajorOrder ==
  ASSUME NEW c \in Cells, NEW d \in Cells
  PROVE  /\ RowMajor(c) \in Nat
         /\ RowMajor(c) = RowMajor(d) => c = d
<1>1. /\ c = <<c[1], c[2]>> /\ c[1] \in 1 .. SIZE /\ c[2] \in 1 .. SIZE
      /\ d = <<d[1], d[2]>> /\ d[1] \in 1 .. SIZE /\ d[2] \in 1 .. SIZE
      /\ SIZE \in Nat
  BY Sides DEF Cells, Side
<1>2. ASSUME NEW N \in Nat, NEW p \in 1 .. N, NEW q \in 1 .. N, NEW r \in 1 .. N, NEW s \in 1 .. N,
             p * N + q = r * N + s
      PROVE  p = r /\ q = s
  BY <1>2
<1>3. RowMajor(c) = RowMajor(d) => c[1] = d[1] /\ c[2] = d[2]
  BY <1>1, <1>2 DEF RowMajor
<1> QED BY <1>1, <1>3 DEF RowMajor

(* How many free cells a cell comes after.                                 *)
Rank(free, c) == Cardinality({d \in free : RowMajor(d) < RowMajor(c)})

(* Every rank below their number is that of a free cell.                   *)
LEMMA RankTaken ==
  ASSUME NEW free \in SUBSET Cells, NEW k \in 0 .. Cardinality(free) - 1
  PROVE  \E c \in free : Rank(free, c) = k
<1> DEFINE n == Cardinality(free)
           Under(c) == {d \in free : RowMajor(d) < RowMajor(c)}
           f == [c \in free |-> Rank(free, c)]
<1>1. IsFiniteSet(free) /\ n \in Nat
  BY Sides, FS_Subset, FS_CardinalityType
<1>2. ASSUME NEW c \in free PROVE IsFiniteSet(Under(c)) /\ Rank(free, c) \in 0 .. n - 1
<2>1. Under(c) \subseteq free /\ c \in free /\ c \notin Under(c)
  BY RowMajorOrder
<2>2. /\ IsFiniteSet(Under(c)) /\ Cardinality(Under(c)) <= n
      /\ n = Cardinality(Under(c)) => free = Under(c)
  BY <1>1, <2>1, FS_Subset
<2>3. Cardinality(Under(c)) \in Nat /\ Cardinality(Under(c)) # n
  BY <2>1, <2>2, FS_CardinalityType
<2> QED BY <1>1, <2>2, <2>3 DEF Rank
<1>3. ASSUME NEW c \in free, NEW d \in free, RowMajor(c) < RowMajor(d)
      PROVE  Rank(free, c) # Rank(free, d)
<2>1. Under(c) \subseteq Under(d) /\ c \in Under(d) /\ c \notin Under(c)
  BY <1>3, RowMajorOrder
<2>2. IsFiniteSet(Under(d)) /\ (Cardinality(Under(d)) = Cardinality(Under(c)) => Under(d) = Under(c))
  BY <1>2, <2>1, FS_Subset
<2> QED BY <2>1, <2>2 DEF Rank
<1>4. f \in Injection(free, 0 .. n - 1)
<2>1. \A c, d \in free : Rank(free, c) = Rank(free, d) => c = d
<3> SUFFICES ASSUME NEW c \in free, NEW d \in free, c # d PROVE Rank(free, c) # Rank(free, d)
  OBVIOUS
<3>1. RowMajor(c) < RowMajor(d) \/ RowMajor(d) < RowMajor(c)
  BY RowMajorOrder
<3> QED BY <3>1, <1>3
<2>2. f \in [free -> 0 .. n - 1]
  BY <1>2
<2> QED BY <2>1, <2>2 DEF Injection, IsInjective
<1>5. IsFiniteSet(0 .. n - 1) /\ Cardinality(0 .. n - 1) = n
  BY <1>1, FS_Interval
<1>6. f \in Surjection(free, 0 .. n - 1)
  BY <1>4, <1>5, FS_Injection
<1> QED BY <1>6 DEF Surjection

(* A draw names a free cell.                                               *)
LEMMA DrawnIsFree ==
  ASSUME NEW free \in SUBSET Cells, free # {}, NEW u \in Draw
  PROVE  DrawnCell(free, u) \in free
<1> DEFINE n == Cardinality(free)
           k == (u * n) \div Grain
<1>1. n \in Nat /\ n > 0
  BY Sides, FS_Subset, FS_CardinalityType, FS_EmptySet
<1>2. Grain \in Nat /\ u \in 0 .. Grain - 1
  BY ReplayAssumption
<1>3. ASSUME NEW g \in Nat, NEW v \in 0 .. g - 1, NEW p \in Nat, p > 0
      PROVE  (v * p) \div g \in 0 .. p - 1
<2>1. g > 0 /\ v * p \in Nat
  BY <1>3
<2>2. (v * p) \div g \in Nat
  BY <2>1
<2>3. (v * p) \div g < p
  BY <1>3
<2> QED BY <1>3, <2>2, <2>3
<1>4. k \in 0 .. n - 1
  BY <1>1, <1>2, <1>3
<1>5. \E c \in free : Rank(free, c) = k
  BY <1>4, RankTaken
<1> QED BY <1>5 DEF DrawnCell, Rank

(* A spawn fills one empty cell and leaves the others.                     *)
LEMMA SpawnCells ==
  ASSUME NEW b \in Board, NEW u \in Draw, NEW w \in Draw
  PROVE  /\ Spawn(b, u, w) \in Board
         /\ \A c \in Cells : \/ Spawn(b, u, w)[c] = b[c]
                             \/ b[c] = 0 /\ Spawn(b, u, w)[c] = DrawnValue(w)
         /\ \E c \in Cells : Spawn(b, u, w)[c] # 0
<1> DEFINE free == {c \in Cells : b[c] = 0}
           x == DrawnCell(free, u)
           v == DrawnValue(w)
           new == [b EXCEPT ![x] = v]
<1>1. v \in Nat /\ v # 0
  BY DEF DrawnValue
<1>2. CASE free = {}
<2>1. Spawn(b, u, w) = b
  BY <1>2 DEF Spawn
<2>2. <<1, 1>> \in Cells
  BY Sides DEF Cells, Side
<2> QED BY <1>2, <2>1, <2>2
<1>3. CASE free # {}
<2>1. x \in free
<3> HIDE DEF free
<3>1. free \in SUBSET Cells
  BY DEF free
<3> QED BY <1>3, <3>1, DrawnIsFree
<2>2. Spawn(b, u, w) = new
  BY <1>3 DEF Spawn
<2> HIDE DEF x, v
<2>3. x \in Cells /\ b[x] = 0
  BY <2>1
<2>4. new \in Board /\ new[x] = v /\ \A c \in Cells \ {x} : new[c] = b[c]
  BY <1>1, <2>3 DEF Board
<2> HIDE DEF new
<2>5. \A c \in Cells : new[c] = b[c] \/ (b[c] = 0 /\ new[c] = v)
  BY <2>3, <2>4
<2> QED BY <1>1, <2>2, <2>3, <2>4, <2>5 DEF v
<1> QED BY <1>2, <1>3

-----------------------------------------------------------------------------
(***************************************************************************)
(* Powers of two.                                                          *)
(***************************************************************************)
DoublesBy(n, f) == f = [k \in 1 .. n |-> IF k = 1 THEN 2 ELSE 2 * f[k - 1]]

(* How many exponents there are.                                           *)
LEMMA SquareSide ==
  /\ SIZE * SIZE \in Nat /\ SIZE * SIZE >= 4
  /\ MaxExponent = SIZE * SIZE + 1
<1>1. \A n \in Nat : n >= 2 => n * n \in Nat /\ n * n >= 4
  OBVIOUS
<1> QED BY <1>1, Sides DEF MaxExponent

(* A function that doubles at each step exists.                            *)
LEMMA Doubles ==
  ASSUME NEW n \in Nat
  PROVE  \E f : DoublesBy(n, f) /\ f \in [1 .. n -> Nat]
<1> DEFINE S == {k \in Nat : \E f : DoublesBy(k, f) /\ f \in [1 .. k -> Nat]}
<1>1. 0 \in S
<2> DEFINE f == [k \in 1 .. 0 |-> 2]
<2>1. DoublesBy(0, f) /\ f \in [1 .. 0 -> Nat]
  BY DEF DoublesBy
<2> QED BY <2>1
<1>2. ASSUME NEW k \in 1 .. n, k - 1 \in S PROVE k \in S
<2> DEFINE p == k - 1
<2>1. p \in Nat /\ k = p + 1
  OBVIOUS
<2>2. PICK f : DoublesBy(p, f) /\ f \in [1 .. p -> Nat]
  BY <1>2
<2> HIDE DEF p
<2> DEFINE g == [i \in 1 .. k |-> IF i = 1 THEN 2 ELSE 2 * f[i - 1]]
<2>3. \A i \in 1 .. p : f[i] = IF i = 1 THEN 2 ELSE 2 * f[i - 1]
  BY <2>2 DEF DoublesBy
<2>4. \A i \in 1 .. p : g[i] = f[i]
<3>1. \A i \in 1 .. p : i \in 1 .. k
  BY <2>1
<3> QED BY <2>3, <3>1
<2>5. \A i \in 1 .. k : i # 1 => i - 1 \in 1 .. p
  BY <2>1
<2>6. \A i \in 1 .. k : i # 1 => f[i - 1] \in Nat
  BY <2>2, <2>5
<2>7. g \in [1 .. k -> Nat]
  BY <2>6
<2>8. \A i \in 1 .. k : g[i] = IF i = 1 THEN 2 ELSE 2 * g[i - 1]
<3> SUFFICES ASSUME NEW i \in 1 .. k PROVE g[i] = IF i = 1 THEN 2 ELSE 2 * g[i - 1]
  OBVIOUS
<3>1. i # 1 => g[i - 1] = f[i - 1]
  BY <2>4, <2>5
<3>2. g[i] = IF i = 1 THEN 2 ELSE 2 * f[i - 1]
  OBVIOUS
<3> HIDE DEF g
<3> QED BY <3>1, <3>2
<2>9. g = [i \in 1 .. k |-> g[i]]
  OBVIOUS
<2> HIDE DEF g
<2>10. DoublesBy(k, g)
  BY <2>8, <2>9 DEF DoublesBy
<2> QED BY <2>7, <2>10
<1>3. n \in S
<2> HIDE DEF S
<2> QED BY <1>1, <1>2, UpTo
<1> QED BY <1>3

(* TwoTo is that function.                                                 *)
LEMMA TwoTos ==
  /\ TwoTo \in [1 .. MaxExponent -> Nat]
  /\ TwoTo[1] = 2
  /\ \A k \in 2 .. MaxExponent : TwoTo[k] = 2 * TwoTo[k - 1]
<1> DEFINE M == MaxExponent
<1>1. M \in Nat /\ M >= 5
  BY SquareSide
<1>2. PICK f : DoublesBy(M, f) /\ f \in [1 .. M -> Nat]
  BY <1>1, Doubles
<1>3. TwoTo = CHOOSE g : DoublesBy(M, g)
  BY DEF TwoTo, DoublesBy
<1>4. DoublesBy(M, TwoTo)
  BY <1>2, <1>3
<1> HIDE DEF M
<1>5. \A k \in 1 .. M : TwoTo[k] = IF k = 1 THEN 2 ELSE 2 * TwoTo[k - 1]
  BY <1>4 DEF DoublesBy
<1>6. TwoTo[1] = 2
  BY <1>1, <1>5
<1>7. \A k \in 2 .. M : TwoTo[k] = 2 * TwoTo[k - 1]
  BY <1>5
<1> DEFINE S == {k \in Nat : k + 1 <= M => TwoTo[k + 1] \in Nat}
<1>8. 0 \in S
  BY <1>6
<1>9. ASSUME NEW k \in Nat, k \in S PROVE k + 1 \in S
<2> SUFFICES ASSUME k + 1 + 1 <= M PROVE TwoTo[k + 1 + 1] \in Nat
  OBVIOUS
<2>1. k + 1 + 1 \in 2 .. M /\ k + 1 <= M /\ k + 1 + 1 - 1 = k + 1
  BY <1>1
<2>2. TwoTo[k + 1] \in Nat
  BY <1>9, <2>1
<2>3. TwoTo[k + 1 + 1] = 2 * TwoTo[k + 1]
  BY <1>7, <2>1
<2> QED BY <2>2, <2>3
<1>10. Nat \subseteq S
<2> HIDE DEF S
<2> QED BY <1>8, <1>9, SetInduction
<1>11. ASSUME NEW k \in 1 .. M PROVE TwoTo[k] \in Nat
<2>1. k - 1 \in Nat /\ (k - 1) + 1 = k /\ k <= M
  BY <1>1
<2>2. k - 1 \in S
<3> HIDE DEF S
<3> QED BY <1>10, <2>1
<2> QED BY <2>1, <2>2
<1>12. TwoTo = [k \in 1 .. M |-> TwoTo[k]]
  BY <1>4 DEF DoublesBy
<1>13. TwoTo \in [1 .. M -> Nat]
  BY <1>11, <1>12
<1> QED BY <1>6, <1>7, <1>13 DEF M

(* The first powers, and the order of the others.                          *)
LEMMA TwoTosGrow ==
  /\ MaxExponent \in Nat /\ MaxExponent >= 5
  /\ TwoTo[1] = 2 /\ TwoTo[2] = 4 /\ TwoTo[3] = 8
  /\ \A k \in 1 .. MaxExponent : TwoTo[k] \in Nat /\ TwoTo[k] > 0
  /\ \A k \in 3 .. MaxExponent : TwoTo[k] >= 8
<1> DEFINE M == MaxExponent
<1>1. M \in Nat /\ M >= 5
  BY SquareSide
<1>2. TwoTo[1] = 2 /\ TwoTo[2] = 2 * TwoTo[1] /\ TwoTo[3] = 2 * TwoTo[2]
<2>1. 2 \in 2 .. M /\ 3 \in 2 .. M /\ 2 - 1 = 1 /\ 3 - 1 = 2
  BY <1>1
<2> QED BY <2>1, TwoTos
<1>3. TwoTo[2] = 4 /\ TwoTo[3] = 8
  BY <1>2
<1> DEFINE S == {k \in Nat : k + 3 <= M => TwoTo[k + 3] >= 8}
<1>4. 0 \in S
  BY <1>3
<1>5. ASSUME NEW k \in Nat, k \in S PROVE k + 1 \in S
<2> SUFFICES ASSUME k + 1 + 3 <= M PROVE TwoTo[k + 1 + 3] >= 8
  OBVIOUS
<2>1. k + 1 + 3 \in 2 .. M /\ k + 3 \in 1 .. M /\ k + 3 <= M /\ k + 1 + 3 - 1 = k + 3
  BY <1>1
<2>2. TwoTo[k + 3] >= 8 /\ TwoTo[k + 3] \in Nat
  BY <1>5, <2>1, TwoTos
<2>3. TwoTo[k + 1 + 3] = 2 * TwoTo[k + 3]
<3> DEFINE q == k + 1 + 3
<3>1. q \in 2 .. M /\ q - 1 = k + 3
  BY <2>1
<3> HIDE DEF q
<3>2. TwoTo[q] = 2 * TwoTo[k + 3]
  BY <3>1, TwoTos
<3> QED BY <3>2 DEF q
<2> QED BY <2>2, <2>3
<1>6. Nat \subseteq S
<2> HIDE DEF S
<2> QED BY <1>4, <1>5, SetInduction
<1>7. ASSUME NEW k \in 3 .. M PROVE TwoTo[k] >= 8
<2>1. k - 3 \in Nat /\ (k - 3) + 3 = k /\ k <= M
  BY <1>1
<2>2. k - 3 \in S
<3> HIDE DEF S
<3> QED BY <1>6, <2>1
<2> QED BY <2>1, <2>2
<1>8. ASSUME NEW k \in 1 .. M PROVE TwoTo[k] \in Nat /\ TwoTo[k] > 0
<2>1. TwoTo[k] \in Nat
  BY TwoTos
<2>2. k = 1 \/ k = 2 \/ k \in 3 .. M
  BY <1>1
<2> QED BY <1>2, <1>3, <1>7, <2>1, <2>2
<1> QED BY <1>1, <1>2, <1>3, <1>7, <1>8

(***************************************************************************)
(* Where the tiles of a board come from when a direction is moved.         *)
(***************************************************************************)
Taken(b) == {c \in Cells : b[c] # 0}

CameFrom(b, a, s) ==
  /\ s \in [Taken(a) -> Cells]
  /\ \A c, d \in Taken(a) : s[c] = s[d] => c = d
  /\ \A c \in Taken(a) :
       /\ b[s[c]] > 0
       /\ \/ a[c] = b[s[c]]
          \/ /\ a[c] = 2 * b[s[c]]
             /\ \E p \in Cells : /\ p # s[c] /\ b[p] = b[s[c]]
                                 /\ \A d \in Taken(a) : s[d] # p

(* Every tile after a move comes from a tile before, or from two of half   *)
(* its value.                                                              *)
LEMMA MoveComes ==
  ASSUME NEW b \in Board, NEW dir
  PROVE  \E s : CameFrom(b, Moved(b, dir), s)
<1> DEFINE a == Moved(b, dir)
           A == Taken(a)
           line(l) == Line(b, dir, l)
           merged(l) == Merged(b, dir, l)
           G(l) == CHOOSE g : Comes(line(l), merged(l), g)
           L(c) == CHOOSE l \in Side : \E i \in Side : c = LineCell(dir, l, i)
           P(c) == CHOOSE i \in Side : c = LineCell(dir, L(c), i)
           s == [c \in A |-> LineCell(dir, L(c), G(L(c))[P(c)])]
<1>1. ASSUME NEW c \in Cells PROVE L(c) \in Side /\ P(c) \in Side /\ c = LineCell(dir, L(c), P(c))
<2>1. L(c) \in Side /\ \E i \in Side : c = LineCell(dir, L(c), i)
  BY LineCells
<2> HIDE DEF L
<2> QED BY <2>1
<1>2. ASSUME NEW l \in Side PROVE Comes(line(l), merged(l), G(l))
  BY LineComes
<1>3. ASSUME NEW l \in Side, NEW i \in Side PROVE line(l)[i] = b[LineCell(dir, l, i)]
  BY LineType
<1>4. ASSUME NEW c \in A
      PROVE  /\ c \in Cells /\ P(c) \in 1 .. Len(merged(L(c))) /\ a[c] = merged(L(c))[P(c)]
<2>1. c \in Cells /\ a[c] # 0
  BY DEF Taken
<2>2. L(c) \in Side /\ P(c) \in Side /\ c = LineCell(dir, L(c), P(c))
  BY <1>1, <2>1
<2> HIDE DEF P, L
<2>3. a[c] = IF P(c) <= Len(merged(L(c))) THEN merged(L(c))[P(c)] ELSE 0
<3> DEFINE k == L(c)
           i == P(c)
<3>1. k \in Side /\ i \in Side /\ c = LineCell(dir, k, i)
  BY <2>2
<3> HIDE DEF k, i
<3>2. Moved(b, dir)[LineCell(dir, k, i)] =
        IF i <= Len(Merged(b, dir, k)) THEN Merged(b, dir, k)[i] ELSE 0
  BY <3>1, MoveCells
<3>3. a[c] = IF i <= Len(merged(k)) THEN merged(k)[i] ELSE 0
  BY <3>1, <3>2
<3> HIDE DEF a, merged
<3> QED BY <3>3 DEF k, i
<2>4. P(c) \in Nat /\ P(c) >= 1 /\ merged(L(c)) \in Seq(Nat)
  BY <2>2, ValuesType, Sides DEF Side
<2> HIDE DEF a, merged
<2> QED BY <2>1, <2>3, <2>4
<1> HIDE DEF G, L, P, line, merged, a, A
<1>5. ASSUME NEW c \in A
      PROVE  /\ L(c) \in Side /\ G(L(c))[P(c)] \in Side /\ s[c] \in Cells
             /\ b[s[c]] = line(L(c))[G(L(c))[P(c)]] /\ b[s[c]] > 0
             /\ s[c] = LineCell(dir, L(c), G(L(c))[P(c)])
             /\ FromOne(line(L(c)), merged(L(c)), G(L(c)), P(c))
                \/ FromTwo(line(L(c)), merged(L(c)), G(L(c)), P(c))
<2>1. c \in Cells /\ P(c) \in 1 .. Len(merged(L(c))) /\ L(c) \in Side
  BY <1>1, <1>4
<2>2. /\ G(L(c))[P(c)] \in Side /\ line(L(c))[G(L(c))[P(c)]] > 0
      /\ FromOne(line(L(c)), merged(L(c)), G(L(c)), P(c))
         \/ FromTwo(line(L(c)), merged(L(c)), G(L(c)), P(c))
  BY <1>2, <2>1 DEF Comes
<2>3. s[c] = LineCell(dir, L(c), G(L(c))[P(c)])
  OBVIOUS
<2> HIDE DEF s
<2>4. s[c] \in Cells /\ b[s[c]] = line(L(c))[G(L(c))[P(c)]]
<3> DEFINE k == L(c)
           i == G(L(c))[P(c)]
<3>1. k \in Side /\ i \in Side /\ s[c] = LineCell(dir, k, i)
  BY <2>1, <2>2, <2>3
<3> HIDE DEF k, i
<3>2. LineCell(dir, k, i) \in Cells /\ line(k)[i] = b[LineCell(dir, k, i)]
  BY <1>3, <3>1, LineCells
<3>3. s[c] \in Cells /\ b[s[c]] = line(k)[i]
  BY <3>1, <3>2
<3> QED BY <3>3 DEF k, i
<2> QED BY <2>1, <2>2, <2>3, <2>4
<1>6. s \in [A -> Cells]
<2>1. \A c \in A : s[c] \in Cells
  BY <1>5
<2> QED BY <2>1
<1> HIDE DEF s
<1>7. ASSUME NEW c \in A, NEW d \in A, s[c] = s[d] PROVE c = d
<2>1. L(c) = L(d) /\ G(L(c))[P(c)] = G(L(d))[P(d)]
<3>1. LineCell(dir, L(c), G(L(c))[P(c)]) = LineCell(dir, L(d), G(L(d))[P(d)])
  BY <1>5, <1>7
<3>2. L(c) \in Side /\ L(d) \in Side /\ G(L(c))[P(c)] \in Side /\ G(L(d))[P(d)] \in Side
  BY <1>5
<3> QED BY <3>1, <3>2, LineCells
<2> DEFINE g == G(L(c))
           m == Len(merged(L(c)))
<2>2. g \in [1 .. m -> Side] /\ Increases(g, m) /\ m \in Nat
<3>1. L(c) \in Side
  BY <1>5
<3>2. m \in Nat
  BY <3>1, ValuesType DEF merged
<3> QED BY <3>1, <3>2, <1>2 DEF Comes
<2>3. P(c) \in 1 .. m /\ P(d) \in 1 .. m /\ g[P(c)] = g[P(d)]
  BY <1>4, <2>1
<2>4. P(c) = P(d)
<3> HIDE DEF g, m
<3> QED BY <2>2, <2>3, ListFits
<2>5. c = LineCell(dir, L(c), P(c)) /\ d = LineCell(dir, L(d), P(d))
  BY <1>1, <1>4
<2> QED BY <2>1, <2>4, <2>5
<1>8. ASSUME NEW c \in A
      PROVE  /\ b[s[c]] > 0
             /\ \/ a[c] = b[s[c]]
                \/ /\ a[c] = 2 * b[s[c]]
                   /\ \E p \in Cells : /\ p # s[c] /\ b[p] = b[s[c]]
                                       /\ \A d \in A : s[d] # p
<2> DEFINE l == L(c)
           j == P(c)
           g == G(L(c))
<2>1. /\ l \in Side /\ g[j] \in Side /\ b[s[c]] = line(l)[g[j]] /\ b[s[c]] > 0
      /\ s[c] = LineCell(dir, l, g[j])
      /\ FromOne(line(l), merged(l), g, j) \/ FromTwo(line(l), merged(l), g, j)
      /\ a[c] = merged(l)[j]
  BY <1>4, <1>5
<2> HIDE DEF l, j, g
<2>2. CASE FromOne(line(l), merged(l), g, j)
  BY <2>1, <2>2 DEF FromOne
<2>3. CASE FromTwo(line(l), merged(l), g, j)
<3>1. PICK q \in Side : /\ q # g[j] /\ line(l)[q] = line(l)[g[j]]
                        /\ \A i \in 1 .. Len(merged(l)) : g[i] # q
  BY <2>3 DEF FromTwo
<3> DEFINE p == LineCell(dir, l, q)
<3>2. p \in Cells /\ b[p] = line(l)[q]
  BY <1>3, <2>1, <3>1, LineCells
<3>3. p # s[c]
  BY <2>1, <3>1, LineCells
<3>4. ASSUME NEW d \in A PROVE s[d] # p
<4> SUFFICES ASSUME s[d] = p PROVE FALSE
  OBVIOUS
<4>1. /\ L(d) \in Side /\ G(L(d))[P(d)] \in Side /\ s[d] = LineCell(dir, L(d), G(L(d))[P(d)])
      /\ P(d) \in 1 .. Len(merged(L(d)))
  BY <1>4, <1>5
<4>2. L(d) = l /\ G(L(d))[P(d)] = q
<5> DEFINE k == L(d)
           i == G(L(d))[P(d)]
<5>1. k \in Side /\ i \in Side /\ LineCell(dir, k, i) = LineCell(dir, l, q)
  BY <4>1
<5> HIDE DEF k, i
<5>2. k = l /\ i = q
  BY <2>1, <3>1, <5>1, LineCells
<5> QED BY <5>2 DEF k, i
<4>3. g = G(l)
  BY DEF g, l
<4> HIDE DEF p
<4> QED BY <3>1, <4>1, <4>2, <4>3
<3>5. a[c] = 2 * b[s[c]]
  BY <2>1, <2>3 DEF FromTwo
<3> HIDE DEF p
<3> QED BY <2>1, <3>1, <3>2, <3>3, <3>4, <3>5
<2> QED BY <2>1, <2>2, <2>3
<1>9. CameFrom(b, a, s)
  BY <1>6, <1>7, <1>8 DEF CameFrom, A
<1> QED BY <1>9 DEF a

-----------------------------------------------------------------------------
(***************************************************************************)
(* The tallest tile.  A tile of 2^k for k > 2 is made of two of 2^(k - 1), *)
(* so of the tiles of 2^k and more there are at most SIZE^2 + 2 - k.       *)
(***************************************************************************)
Tall(b, k) == {c \in Cells : b[c] >= TwoTo[k]}

Tower(b) == \A k \in 2 .. MaxExponent : Cardinality(Tall(b, k)) <= MaxExponent + 1 - k

Powers(b) == b \in [Cells -> Power \cup {0}]

(* Powers are positive numbers; a new tile is one.                         *)
LEMMA PowerNumbers ==
  /\ Power \subseteq Nat /\ 0 \notin Power
  /\ \A k \in 1 .. MaxExponent : TwoTo[k] \in Power
  /\ 2 \in Power /\ 4 \in Power
<1>1. \A k \in 1 .. MaxExponent : TwoTo[k] \in Nat /\ TwoTo[k] > 0
  BY TwoTosGrow
<1>2. 1 \in 1 .. MaxExponent /\ 2 \in 1 .. MaxExponent
  BY TwoTosGrow
<1> QED BY <1>1, <1>2, TwoTosGrow DEF Power

(* A board of powers is a board.                                           *)
LEMMA PowersBoard ==
  ASSUME NEW b, Powers(b)
  PROVE  b \in Board
<1>1. Power \cup {0} \subseteq Nat
  BY PowerNumbers
<1>2. \A c \in Cells : b[c] \in Nat
  BY <1>1 DEF Powers
<1> QED BY <1>2 DEF Powers, Board

(* The tall cells are finitely many.                                       *)
LEMMA TallFinite ==
  ASSUME NEW b, NEW k
  PROVE  /\ IsFiniteSet(Tall(b, k)) /\ Cardinality(Tall(b, k)) \in Nat
         /\ Cardinality(Tall(b, k)) <= MaxExponent - 1
<1>1. Tall(b, k) \in SUBSET Cells
  BY DEF Tall
<1>2. IsFiniteSet(Tall(b, k)) /\ Cardinality(Tall(b, k)) <= Cardinality(Cells)
  BY <1>1, Sides, FS_Subset
<1>3. Cardinality(Cells) = MaxExponent - 1
  BY Sides, SquareSide
<1> QED BY <1>2, <1>3, FS_CardinalityType

(* The tallest tile is alone: it is never merged.                          *)
LEMMA TallestAlone ==
  ASSUME NEW b \in Board, Tower(b), NEW c \in Cells, NEW p \in Cells, b[p] = b[c], c # p
  PROVE  b[c] < TwoTo[MaxExponent]
<1> DEFINE M == MaxExponent
           T == Tall(b, M)
<1>1. M \in Nat /\ M >= 5 /\ TwoTo[M] \in Nat
  BY TwoTosGrow
<1> SUFFICES ASSUME b[c] >= TwoTo[M] PROVE FALSE
  BY <1>1 DEF Board
<1>2. c \in T /\ p \in T
  BY DEF Tall
<1>3. Cardinality(T) <= M + 1 - M /\ IsFiniteSet(T)
  BY <1>1, TallFinite DEF Tower
<1> HIDE DEF T
<1>4. Cardinality(T \ {c}) = Cardinality(T) - 1 /\ IsFiniteSet(T \ {c})
  BY <1>2, <1>3, FS_RemoveElement
<1>5. p \in T \ {c}
  BY <1>2
<1>6. Cardinality(T) \in Nat /\ Cardinality(T \ {c}) \in Nat
  BY <1>3, <1>4, FS_CardinalityType
<1>7. Cardinality(T \ {c}) = 0
  BY <1>1, <1>3, <1>4, <1>6
<1> QED BY <1>4, <1>5, <1>7, FS_EmptySet

(* A move leaves powers: a tower that could double past the last one is    *)
(* too tall.                                                               *)
LEMMA MovePowers ==
  ASSUME NEW b, Powers(b), Tower(b), NEW dir
  PROVE  Powers(Moved(b, dir))
<1> DEFINE a == Moved(b, dir)
<1>1. b \in Board
  BY PowersBoard
<1>2. PICK s : CameFrom(b, a, s)
  BY <1>1, MoveComes
<1>3. a \in [Cells -> Nat]
  BY <1>1, MoveCells DEF Board
<1> HIDE DEF a
<1>4. ASSUME NEW c \in Cells, a[c] # 0 PROVE a[c] \in Power
<2>1. c \in Taken(a)
  BY <1>4 DEF Taken
<2>2. s[c] \in Cells /\ b[s[c]] > 0
  BY <1>2, <2>1 DEF CameFrom
<2>3. b[s[c]] \in Power
  BY <2>2 DEF Powers
<2>4. CASE a[c] = b[s[c]]
  BY <2>3, <2>4
<2>5. ASSUME a[c] = 2 * b[s[c]], NEW p \in Cells, p # s[c], b[p] = b[s[c]] PROVE a[c] \in Power
<3>1. b[s[c]] < TwoTo[MaxExponent]
  BY <1>1, <2>2, <2>5, TallestAlone
<3>2. PICK e \in 1 .. MaxExponent : b[s[c]] = TwoTo[e]
  BY <2>3 DEF Power
<3>3. e # MaxExponent /\ MaxExponent \in Nat /\ b[s[c]] \in Nat
  BY <1>1, <2>2, <3>1, <3>2, TwoTosGrow DEF Board
<3>4. e + 1 \in 2 .. MaxExponent /\ e + 1 - 1 = e
  BY <3>3
<3>5. TwoTo[e + 1] = 2 * TwoTo[e]
<4> DEFINE q == e + 1
<4>1. q \in 2 .. MaxExponent /\ q - 1 = e
  BY <3>4
<4> HIDE DEF q
<4>2. TwoTo[q] = 2 * TwoTo[e]
  BY <4>1, TwoTos
<4> QED BY <4>2 DEF q
<3>6. TwoTo[e + 1] \in Power
  BY <3>4, PowerNumbers
<3> QED BY <2>5, <3>2, <3>5, <3>6
<2> QED BY <1>2, <2>1, <2>4, <2>5 DEF CameFrom
<1> QED BY <1>3, <1>4 DEF Powers, a

(* Making a tile of 2^k uses two of 2^(k - 1), of which one place is free  *)
(* afterwards.                                                             *)
LEMMA MoveTower ==
  ASSUME NEW b \in Board, Tower(b), NEW dir
  PROVE  Tower(Moved(b, dir))
<1> DEFINE a == Moved(b, dir)
           M == MaxExponent
<1>1. PICK s : CameFrom(b, a, s)
  BY MoveComes
<1>2. a \in [Cells -> Nat] /\ M \in Nat /\ M >= 5
  BY MoveCells, TwoTosGrow DEF Board
<1> HIDE DEF a, M
<1> SUFFICES ASSUME NEW k \in 2 .. M PROVE Cardinality(Tall(a, k)) <= M + 1 - k
  BY DEF Tower, a, M
<1> DEFINE A == Tall(a, k)
<1>3. IsFiniteSet(A) /\ Cardinality(A) \in Nat /\ Cardinality(A) <= M - 1
  BY TallFinite DEF M
<1>4. CASE k = 2
  BY <1>2, <1>3, <1>4
<1>5. CASE k # 2
<2> DEFINE f == [c \in A |-> s[c]]
           B == Tall(b, k)
           C == Tall(b, k - 1)
           p1 == k - 1
<2>1. /\ k \in 2 .. M /\ k \in Nat /\ k - 1 \in 2 .. M /\ TwoTo[k] = 2 * TwoTo[k - 1]
      /\ TwoTo[k] \in Nat /\ TwoTo[k - 1] \in Nat /\ TwoTo[k - 1] > 0
<3>1. k \in Nat /\ k - 1 \in 2 .. M /\ k \in 1 .. M /\ k - 1 \in 1 .. M
  BY <1>2, <1>5
<3> QED BY <3>1, TwoTos, TwoTosGrow DEF M
<2>2. ASSUME NEW c \in A
      PROVE  /\ c \in Taken(a) /\ s[c] \in Cells /\ b[s[c]] > 0 /\ b[s[c]] \in Nat
             /\ \/ a[c] = b[s[c]]
                \/ /\ a[c] = 2 * b[s[c]]
                   /\ \E p \in Cells : /\ p # s[c] /\ b[p] = b[s[c]]
                                       /\ \A d \in Taken(a) : s[d] # p
             /\ a[c] >= TwoTo[k]
<3>1. c \in Cells /\ a[c] >= TwoTo[k]
  BY DEF Tall
<3>2. c \in Taken(a)
  BY <2>1, <3>1, <1>2 DEF Taken
<3>3. s[c] \in Cells /\ b[s[c]] > 0
  BY <3>2, <1>1 DEF CameFrom
<3> QED BY <3>1, <3>2, <3>3, <1>1 DEF CameFrom, Board
<2>3. \A c, d \in A : s[c] = s[d] => c = d
  BY <2>2, <1>1 DEF CameFrom
<2>4. ASSUME NEW c \in A PROVE s[c] \in C /\ (a[c] = b[s[c]] => s[c] \in B)
<3>1. b[s[c]] >= TwoTo[k - 1]
  BY <2>1, <2>2
<3>2. a[c] = b[s[c]] => b[s[c]] >= TwoTo[k]
  BY <2>2
<3> QED BY <2>2, <3>1, <3>2 DEF Tall
<2>5. /\ IsFiniteSet(B) /\ Cardinality(B) \in Nat /\ Cardinality(B) <= M + 1 - k
      /\ IsFiniteSet(C) /\ Cardinality(C) \in Nat /\ Cardinality(C) <= M + 1 - (k - 1)
  BY <2>1, TallFinite DEF Tower, M
<2> HIDE DEF B, C, A
<2>6. CASE \A c \in A : s[c] \in B
<3>1. f \in Injection(A, B)
  BY <2>3, <2>6 DEF Injection, IsInjective
<3>2. Cardinality(A) <= Cardinality(B)
  BY <2>5, <3>1, FS_Injection
<3> QED BY <1>2, <1>3, <2>1, <2>5, <3>2 DEF A
<2>7. CASE \E c \in A : s[c] \notin B
<3>1. PICK c \in A : s[c] \notin B
  BY <2>7
<3>2. PICK p \in Cells : b[p] = b[s[c]] /\ \A d \in Taken(a) : s[d] # p
  BY <2>2, <2>4, <3>1
<3>3. p \in C
  BY <2>4, <3>1, <3>2 DEF C, Tall
<3>4. f \in Injection(A, C \ {p})
<4>1. \A d \in A : s[d] \in C \ {p}
  BY <2>2, <2>4, <3>2
<4> QED BY <2>3, <4>1 DEF Injection, IsInjective
<3>5. IsFiniteSet(C \ {p}) /\ Cardinality(C \ {p}) = Cardinality(C) - 1
  BY <2>5, <3>3, FS_RemoveElement
<3>6. Cardinality(A) <= Cardinality(C \ {p})
  BY <3>4, <3>5, FS_Injection
<3> QED BY <1>2, <1>3, <2>1, <2>5, <3>5, <3>6 DEF A
<2> QED BY <2>6, <2>7 DEF A
<1> QED BY <1>4, <1>5

(* A new tile, 2 or 4, is no taller than a tower allows.                   *)
LEMMA SpawnTower ==
  ASSUME NEW b, Powers(b), Tower(b), NEW u \in Draw, NEW w \in Draw
  PROVE  Powers(Spawn(b, u, w)) /\ Tower(Spawn(b, u, w))
<1> DEFINE a == Spawn(b, u, w)
           M == MaxExponent
<1>1. b \in Board
  BY PowersBoard
<1>2. /\ a \in Board
      /\ \A c \in Cells : a[c] = b[c] \/ (b[c] = 0 /\ a[c] = DrawnValue(w))
  BY <1>1, SpawnCells
<1>3. DrawnValue(w) \in {2, 4} /\ M \in Nat /\ M >= 5
  BY TwoTosGrow DEF DrawnValue
<1> HIDE DEF a
<1>4. Powers(a)
<2>1. \A c \in Cells : a[c] \in Power \cup {0}
  BY <1>2, <1>3, PowerNumbers DEF Powers
<2> QED BY <1>2, <2>1 DEF Board, Powers
<1>5. ASSUME NEW k \in 2 .. M PROVE Cardinality(Tall(a, k)) <= M + 1 - k
<2>1. CASE k = 2
  BY <2>1, <1>3, TallFinite
<2>2. CASE k # 2
<3>1. k \in 3 .. M /\ k \in 1 .. M
  BY <2>2
<3>2. TwoTo[k] >= 8 /\ TwoTo[k] \in Nat
  BY <3>1, TwoTosGrow
<3>3. ASSUME NEW c \in Cells PROVE a[c] >= TwoTo[k] <=> b[c] >= TwoTo[k]
  BY <1>2, <1>3, <3>2
<3>4. Tall(a, k) = Tall(b, k)
  BY <3>3 DEF Tall
<3> QED BY <3>4 DEF Tower
<2> QED BY <2>1, <2>2
<1> QED BY <1>4, <1>5 DEF Tower, a

(* The empty board is a tower.                                             *)
LEMMA EmptyTower == Powers(EmptyBoard) /\ Tower(EmptyBoard)
<1>1. Powers(EmptyBoard)
  BY DEF Powers, EmptyBoard
<1>2. MaxExponent \in Nat
  BY TwoTosGrow
<1>3. ASSUME NEW k \in 2 .. MaxExponent
      PROVE  Cardinality(Tall(EmptyBoard, k)) <= MaxExponent + 1 - k
<2>1. k \in 1 .. MaxExponent
  BY <1>2
<2>2. TwoTo[k] > 0 /\ TwoTo[k] \in Nat
  BY <2>1, TwoTosGrow
<2>3. Tall(EmptyBoard, k) = {}
  BY <2>2 DEF Tall, EmptyBoard
<2>4. Cardinality(Tall(EmptyBoard, k)) = 0
  BY <2>3, FS_EmptySet
<2> QED BY <2>4, <1>2
<1> QED BY <1>1, <1>3 DEF Tower

-----------------------------------------------------------------------------
(***************************************************************************)
(* The server's half of the state.                                         *)
(***************************************************************************)
HasTile(b) == \E c \in Cells : b[c] # 0

BoardInv ==
  /\ Powers(board) /\ Tower(board) /\ HasTile(board)
  /\ score \in Nat /\ fours \in Nat

(* How many 4s were drawn.                                                 *)
Four(w) == IF DrawnValue(w) = 4 THEN 1 ELSE 0

(* The 4s of one draw, and of two.                                         *)
LEMMA Fours ==
  /\ \A w : FourFrom(<<w>>) = Four(w)
  /\ \A ws : DOMAIN ws = {1, 2} => FourFrom(ws) = Four(ws[1]) + Four(ws[2])
<1>1. Cardinality({}) = 0 /\ Cardinality({1}) = 1 /\ Cardinality({2}) = 1
  BY FS_EmptySet, FS_Singleton
<1>2. Cardinality({1, 2}) = 2
<2>0. 2 \notin {1} /\ {1, 2} = {1} \cup {2}
  OBVIOUS
<2>1. IsFiniteSet({1})
  BY FS_Singleton
<2>2. Cardinality({1} \cup {2}) = Cardinality({1}) + 1
  BY <2>0, <2>1, FS_AddElement
<2>3. Cardinality({1} \cup {2}) = 2
  BY <1>1, <2>2
<2> QED BY <2>0, <2>3, Zenon
<1>3. ASSUME NEW w PROVE FourFrom(<<w>>) = Four(w)
<2> DEFINE A == {i \in DOMAIN <<w>> : DrawnValue(<<w>>[i]) = 4}
<2>1. FourFrom(<<w>>) = Cardinality(A)
  BY DEF FourFrom
<2>2. DOMAIN <<w>> = {1} /\ <<w>>[1] = w
  OBVIOUS
<2>3. A = IF DrawnValue(w) = 4 THEN {1} ELSE {}
  BY <2>2
<2> HIDE DEF A
<2> QED BY <1>1, <2>1, <2>3 DEF Four
<1>4. ASSUME NEW ws, DOMAIN ws = {1, 2} PROVE FourFrom(ws) = Four(ws[1]) + Four(ws[2])
<2> DEFINE A == {i \in DOMAIN ws : DrawnValue(ws[i]) = 4}
<2>1. FourFrom(ws) = Cardinality(A)
  BY DEF FourFrom
<2>2. A = IF DrawnValue(ws[1]) = 4
          THEN IF DrawnValue(ws[2]) = 4 THEN {1, 2} ELSE {1}
          ELSE IF DrawnValue(ws[2]) = 4 THEN {2} ELSE {}
  BY <1>4
<2> HIDE DEF A
<2> QED BY <1>1, <1>2, <2>1, <2>2 DEF Four
<1> QED BY <1>3, <1>4

(* A move gains a number of points.                                        *)
LEMMA GainType ==
  ASSUME NEW b \in Board, NEW dir
  PROVE  ApplyMove(b, dir).gained \in Nat
<1> DEFINE g == [l \in Side |-> Gained(b, dir, l)]
<1>1. g \in [Side -> Nat]
  BY ValuesType
<1>2. ApplyMove(b, dir).gained = SumFunction(g)
  BY MoveCells
<1> HIDE DEF g
<1> QED BY <1>1, <1>2, Sides, SumType

(* Two tiles on an empty board.                                            *)
LEMMA InitBoard == Init => BoardInv
<1> SUFFICES ASSUME Init PROVE BoardInv
  OBVIOUS
<1>1. PICK us \in [{1, 2} -> Draw], ws \in [{1, 2} -> Draw] :
        /\ board = Spawn(Spawn(EmptyBoard, us[1], ws[1]), us[2], ws[2])
        /\ score = 0 /\ fours = FourFrom(ws)
  BY DEF Init
<1> DEFINE b == Spawn(EmptyBoard, us[1], ws[1])
<1>2. us[1] \in Draw /\ ws[1] \in Draw /\ us[2] \in Draw /\ ws[2] \in Draw
  OBVIOUS
<1>3. Powers(b) /\ Tower(b)
  BY <1>2, EmptyTower, SpawnTower
<1> HIDE DEF b
<1>4. Powers(Spawn(b, us[2], ws[2])) /\ Tower(Spawn(b, us[2], ws[2]))
  BY <1>2, <1>3, SpawnTower
<1>5. HasTile(Spawn(b, us[2], ws[2]))
  BY <1>2, <1>3, PowersBoard, SpawnCells DEF HasTile
<1>6. FourFrom(ws) \in Nat
<2>1. FourFrom(ws) = Four(ws[1]) + Four(ws[2])
  BY Fours
<2> QED BY <2>1 DEF Four
<1> QED BY <1>1, <1>4, <1>5, <1>6 DEF b, BoardInv

(* A move of the log keeps the board a tower of powers.                    *)
LEMMA NextBoard == BoardInv /\ [Next]_vars => BoardInv'
<1> SUFFICES ASSUME BoardInv, [Next]_vars PROVE BoardInv'
  OBVIOUS
<1>1. CASE UNCHANGED vars
  BY <1>1 DEF BoardInv, vars
<1>2. ASSUME NEW dir \in Direction, NEW u \in Draw, NEW w \in Draw, ReplayMove(dir, u, w)
      PROVE  BoardInv'
<2> DEFINE r == ApplyMove(board, dir)
<2>1. CASE CanMoveAny(board) /\ r.moved
<3>1. /\ board' = Spawn(Moved(board, dir), u, w)
      /\ score' = score + r.gained
      /\ fours' = fours + FourFrom(<<w>>)
  BY <1>2, <2>1 DEF ReplayMove, Moved
<3>2. Powers(Moved(board, dir)) /\ Tower(Moved(board, dir))
  BY PowersBoard, MovePowers, MoveTower DEF BoardInv
<3>3. /\ Powers(Spawn(Moved(board, dir), u, w)) /\ Tower(Spawn(Moved(board, dir), u, w))
      /\ HasTile(Spawn(Moved(board, dir), u, w))
  BY <3>2, PowersBoard, SpawnTower, SpawnCells DEF HasTile
<3>4. r.gained \in Nat
  BY PowersBoard, GainType DEF BoardInv
<3>5. FourFrom(<<w>>) \in Nat
<4>1. FourFrom(<<w>>) = Four(w)
  BY Fours
<4> QED BY <4>1 DEF Four
<3> QED BY <3>1, <3>3, <3>4, <3>5 DEF BoardInv
<2>2. CASE ~(CanMoveAny(board) /\ r.moved)
<3>1. UNCHANGED <<board, score, fours>>
  BY <1>2, <2>2 DEF ReplayMove
<3> QED BY <3>1 DEF BoardInv
<2> QED BY <2>1, <2>2
<1> QED BY <1>1, <1>2 DEF Next

(* After any log the board holds powers of two, none above                 *)
(* 2^(SIZE*SIZE+1), and is never empty: replay.ts never makes a tile the   *)
(* rules cannot make.                                                      *)
THEOREM BoardCorrect == Spec => []BoardInv
<1>1. Init => BoardInv
  BY InitBoard
<1>2. BoardInv /\ [Next]_vars => BoardInv'
  BY NextBoard
<1> QED BY <1>1, <1>2, PTL DEF Spec

-----------------------------------------------------------------------------
(***************************************************************************)
(* The client's tiles lie on the server's board.                           *)
(***************************************************************************)
At(t) == <<t.row, t.col>>

Covers(ts, b) ==
  /\ ts \in Seq(Tile)
  /\ \A j, k \in 1 .. Len(ts) : At(ts[j]) = At(ts[k]) => j = k
  /\ \A k \in 1 .. Len(ts) : ts[k].value # 0 /\ b[At(ts[k])] = ts[k].value
  /\ \A c \in Cells : b[c] # 0 => \E k \in 1 .. Len(ts) : At(ts[k]) = c

(* A tile lies in a cell.                                                  *)
LEMMA TileCell ==
  ASSUME NEW t \in Tile
  PROVE  At(t) \in Cells /\ t.value \in Nat
  BY DEF Tile, At, Cells

(* No tiles cover the empty board.                                         *)
LEMMA CoversEmpty == Covers(<<>>, EmptyBoard)
<1>1. 1 .. Len(<<>>) = {}
  OBVIOUS
<1> QED BY <1>1 DEF Covers, EmptyBoard

(* Client and server find the same cells free.                             *)
LEMMA FreeCells ==
  ASSUME NEW b \in Board, NEW ts, Covers(ts, b)
  PROVE  Cells \ {<<t.row, t.col>> : t \in ToSet(ts)} = {c \in Cells : b[c] = 0}
<1>1. ASSUME NEW c \in Cells, b[c] = 0 PROVE ~ \E t \in ToSet(ts) : c = <<t.row, t.col>>
<2>1. SUFFICES ASSUME NEW k \in DOMAIN ts, c = At(ts[k]) PROVE FALSE
  BY DEF ToSet, At
<2>2. k \in 1 .. Len(ts)
  BY DEF Covers
<2> QED BY <1>1, <2>1, <2>2 DEF Covers
<1>2. ASSUME NEW c \in Cells, b[c] # 0 PROVE \E t \in ToSet(ts) : c = <<t.row, t.col>>
<2>1. PICK k \in 1 .. Len(ts) : At(ts[k]) = c
  BY <1>2 DEF Covers
<2>2. ts[k] \in ToSet(ts)
  BY DEF ToSet, Covers
<2> QED BY <2>1, <2>2 DEF At
<1> QED BY <1>1, <1>2

(* The same draw puts the same tile in the same cell on both sides.        *)
LEMMA CoversSpawn ==
  ASSUME NEW b \in Board, NEW ts, Covers(ts, b), NEW u \in Draw, NEW w \in Draw
  PROVE  Covers(SpawnTile(ts, u, w), Spawn(b, u, w))
<1> DEFINE free == {c \in Cells : b[c] = 0}
           x == DrawnCell(free, u)
           v == DrawnValue(w)
           t == [row |-> x[1], col |-> x[2], value |-> v]
           new == Append(ts, t)
           a == [b EXCEPT ![x] = v]
           n == Len(ts)
<1>1. /\ SpawnTile(ts, u, w) = IF free = {} THEN ts ELSE new
      /\ Spawn(b, u, w) = IF free = {} THEN b ELSE a
  BY FreeCells DEF SpawnTile, Spawn
<1>2. CASE free = {}
  BY <1>1, <1>2
<1>3. CASE free # {}
<2>1. x \in Cells /\ b[x] = 0
<3> HIDE DEF free
<3>1. free \in SUBSET Cells
  BY DEF free
<3>2. x \in free
  BY <1>3, <3>1, DrawnIsFree
<3> QED BY <3>2 DEF free
<2>2. v \in Nat /\ v # 0
  BY DEF DrawnValue
<2> HIDE DEF x, v, free
<2>3. t \in Tile /\ At(t) = x /\ t.value = v
  BY <2>1, <2>2 DEF Tile, At, Cells
<2>4. a \in Board /\ a[x] = v /\ \A c \in Cells \ {x} : a[c] = b[c]
  BY <2>1, <2>2 DEF Board
<2> HIDE DEF a, t
<2>5. ts \in Seq(Tile) /\ n \in Nat
  BY DEF Covers
<2>6. /\ new \in Seq(Tile) /\ Len(new) = n + 1 /\ new[n + 1] = t
      /\ \A k \in 1 .. n : new[k] = ts[k]
  BY <2>3, <2>5
<2> HIDE DEF new
<2>7. \A k \in 1 .. n + 1 : k \in 1 .. n \/ k = n + 1
  BY <2>5
<2>8. ASSUME NEW k \in 1 .. n
      PROVE  /\ At(ts[k]) \in Cells /\ ts[k].value # 0 /\ b[At(ts[k])] = ts[k].value
             /\ At(ts[k]) # x
<3>1. ts[k] \in Tile
  BY <2>5
<3> QED BY <3>1, <2>1, TileCell DEF Covers
<2>9. ASSUME NEW j \in 1 .. n + 1, NEW k \in 1 .. n + 1, At(new[j]) = At(new[k]) PROVE j = k
<3>1. CASE j \in 1 .. n /\ k \in 1 .. n
  BY <2>6, <2>9, <3>1 DEF Covers
<3>2. CASE j \in 1 .. n /\ k = n + 1
  BY <2>3, <2>6, <2>8, <2>9, <3>2
<3>3. CASE k \in 1 .. n /\ j = n + 1
  BY <2>3, <2>6, <2>8, <2>9, <3>3
<3> QED BY <2>7, <3>1, <3>2, <3>3
<2>10. ASSUME NEW k \in 1 .. n + 1 PROVE new[k].value # 0 /\ a[At(new[k])] = new[k].value
<3>1. CASE k = n + 1
  BY <2>2, <2>3, <2>4, <2>6, <3>1
<3>2. CASE k \in 1 .. n
  BY <2>4, <2>6, <2>8, <3>2
<3> QED BY <2>7, <3>1, <3>2
<2>11. ASSUME NEW c \in Cells, a[c] # 0 PROVE \E k \in 1 .. n + 1 : At(new[k]) = c
<3>1. CASE c = x
<4>1. n + 1 \in 1 .. n + 1
  BY <2>5
<4> QED BY <3>1, <4>1, <2>3, <2>6
<3>2. CASE c # x
<4>1. PICK k \in 1 .. n : At(ts[k]) = c
  BY <2>4, <2>11, <3>2 DEF Covers
<4>2. k \in 1 .. n + 1
  BY <2>5
<4> QED BY <4>1, <4>2, <2>6
<3> QED BY <3>1, <3>2
<2>12. Covers(new, a)
  BY <2>6, <2>9, <2>10, <2>11 DEF Covers
<2> QED BY <1>1, <1>3, <2>12 DEF free
<1> QED BY <1>2, <1>3

-----------------------------------------------------------------------------
(***************************************************************************)
(* The tiles of a line are its values, in the order of their places.       *)
(***************************************************************************)
LEMMA TilePlace ==
  ASSUME NEW dir, NEW l \in Side, NEW i \in Side, NEW t \in Tile, At(t) = LineCell(dir, l, i)
  PROVE  /\ Across(dir, t) = l
         /\ Along(dir, t) = IF Reverses(dir) THEN SIZE + 1 - i ELSE i
  BY DEF At, LineCell, Across, Along

(* The client's sort follows the places of the line.                       *)
LEMMA PlacesSort ==
  ASSUME NEW dir, NEW ts \in Seq(Tile), NEW l \in Side,
         NEW j \in 1 .. Len(ts), NEW k \in 1 .. Len(ts), NEW x \in Side, NEW y \in Side,
         At(ts[j]) = LineCell(dir, l, x), At(ts[k]) = LineCell(dir, l, y)
  PROVE  /\ x < y => SortsBefore(ts, dir, j, k)
         /\ j = k => ~SortsBefore(ts, dir, j, k)
         /\ y < x => ~SortsBefore(ts, dir, j, k)
<1> DEFINE p == Along(dir, ts[j])
           q == Along(dir, ts[k])
<1>1. /\ p = IF Reverses(dir) THEN SIZE + 1 - x ELSE x
      /\ q = IF Reverses(dir) THEN SIZE + 1 - y ELSE y
  BY TilePlace
<1>2. x \in Nat /\ y \in Nat /\ SIZE \in Nat
  BY Sides DEF Side
<1>3. /\ p = q => (SortsBefore(ts, dir, j, k) <=> j < k)
      /\ p # q => (SortsBefore(ts, dir, j, k) <=> (p < q <=> ~Reverses(dir)))
  BY DEF SortsBefore
<1>4. j = k => p = q /\ ~(j < k)
  OBVIOUS
<1> HIDE DEF p, q
<1>5. CASE Reverses(dir)
<2>1. p = SIZE + 1 - x /\ q = SIZE + 1 - y
  BY <1>1, <1>5
<2>2. (p < q <=> y < x) /\ (p = q <=> x = y)
  BY <1>2, <2>1
<2>3. p # q => (SortsBefore(ts, dir, j, k) <=> ~(p < q))
  BY <1>3, <1>5
<2> QED BY <1>2, <1>3, <1>4, <2>2, <2>3
<1>6. CASE ~Reverses(dir)
<2>1. p = x /\ q = y
  BY <1>1, <1>6
<2>2. p # q => (SortsBefore(ts, dir, j, k) <=> p < q)
  BY <1>3, <1>6
<2> QED BY <1>2, <1>3, <1>4, <2>1, <2>2
<1> QED BY <1>5, <1>6

(* An increasing list of as many numbers as there are lists them all.      *)
LEMMA ListsAll ==
  ASSUME NEW n \in Nat, NEW S \in SUBSET Nat, NEW e, Lists(e, n, S),
         NEW q \in [1 .. n -> S], Increases(q, n)
  PROVE  \A i \in 1 .. n : q[i] = e[i]
<1>1. ASSUME NEW f \in [1 .. n -> S], Increases(f, n) PROVE f \in Injection(1 .. n, S)
<2>1. ASSUME NEW i \in 1 .. n, NEW j \in 1 .. n, i # j PROVE f[i] # f[j]
<3>1. i < j \/ j < i
  BY <2>1
<3>2. f[i] < f[j] \/ f[j] < f[i]
  BY <1>1, <3>1 DEF Increases
<3>3. f[i] \in Nat /\ f[j] \in Nat
  BY <1>1
<3> QED BY <3>2, <3>3
<2> QED BY <2>1 DEF Injection, IsInjective
<1>2. e \in Bijection(1 .. n, S)
<2>1. e \in Injection(1 .. n, S)
  BY <1>1 DEF Lists
<2>2. e \in Surjection(1 .. n, S)
  BY DEF Lists, Surjection
<2> QED BY <2>1, <2>2 DEF Bijection
<1>3. IsFiniteSet(S) /\ Cardinality(S) = n
<2>1. ExistsBijection(1 .. n, S)
  BY <1>2 DEF ExistsBijection
<2> QED BY <2>1, FS_CountingElements, FS_NatBijection
<1>4. q \in Injection(1 .. n, S)
  BY <1>1
<1>5. Cardinality(1 .. n) = n
  BY FS_Interval
<1>6. q \in Surjection(1 .. n, S)
  BY <1>3, <1>4, <1>5, FS_Injection
<1>7. Lists(q, n, S)
  BY <1>6 DEF Lists, Surjection
<1> QED BY <1>7, ListsAgree

(* The client's sorted tiles of a line are the server's values, in order.  *)
LEMMA InLineTiles ==
  ASSUME NEW b \in Board, NEW ts, Covers(ts, b), NEW dir, NEW l \in Side,
         NEW e, Picks(Line(b, dir, l), SIZE, Values(b, dir, l), e)
  PROVE  /\ InLine(ts, dir, l) \in Seq(Tile)
         /\ Len(InLine(ts, dir, l)) = Len(Values(b, dir, l))
         /\ \A i \in 1 .. Len(Values(b, dir, l)) :
              /\ InLine(ts, dir, l)[i].value = Values(b, dir, l)[i]
              /\ At(InLine(ts, dir, l)[i]) = LineCell(dir, l, e[i])
<1> DEFINE line == Line(b, dir, l)
           vs == Values(b, dir, l)
           n == Len(vs)
           in == {k \in DOMAIN ts : Across(dir, ts[k]) = l}
           P(k) == CHOOSE i \in Side : At(ts[k]) = LineCell(dir, l, i)
           F == Filled(line, SIZE)
           K(x) == CHOOSE k \in in : P(k) = x
           o == [i \in 1 .. n |-> K(e[i])]
           Good(s) == /\ s \in [1 .. n -> in]
                      /\ \A i, j \in DOMAIN s : i < j => SortsBefore(ts, dir, s[i], s[j])
           order == CHOOSE s \in [1 .. Cardinality(in) -> in] :
                      \A i, j \in DOMAIN s : i < j => SortsBefore(ts, dir, s[i], s[j])
<1>0. InLine(ts, dir, l) = [i \in 1 .. Cardinality(in) |-> ts[order[i]]]
  BY DEF InLine
<1>1. ts \in Seq(Tile) /\ DOMAIN ts = 1 .. Len(ts)
  BY DEF Covers
<1>2. ASSUME NEW k \in in
      PROVE  /\ k \in 1 .. Len(ts) /\ ts[k] \in Tile
             /\ P(k) \in Side /\ At(ts[k]) = LineCell(dir, l, P(k))
<2>1. k \in 1 .. Len(ts) /\ ts[k] \in Tile /\ Across(dir, ts[k]) = l
  BY <1>1
<2>2. PICK m \in Side, i \in Side : At(ts[k]) = LineCell(dir, m, i)
  BY <2>1, TileCell, LineCells
<2>3. m = l
  BY <2>1, <2>2, TilePlace
<2> QED BY <2>1, <2>2, <2>3
<1>3. ASSUME NEW j \in in, NEW k \in in, P(j) = P(k) PROVE j = k
  BY <1>2, <1>3 DEF Covers
<1>4. ASSUME NEW k \in in PROVE P(k) \in F /\ line[P(k)] = ts[k].value
<2>1. line[P(k)] = b[LineCell(dir, l, P(k))]
  BY <1>2, LineType
<2>2. line[P(k)] = ts[k].value /\ ts[k].value # 0
  BY <2>1, <1>2 DEF Covers
<2>3. P(k) \in 1 .. SIZE
  BY <1>2 DEF Side
<2> HIDE DEF line, P
<2> QED BY <2>2, <2>3 DEF Filled
<1>5. ASSUME NEW x \in F PROVE \E k \in in : P(k) = x
<2>1. x \in Side /\ line[x] # 0
  BY DEF Filled, Side
<2>2. b[LineCell(dir, l, x)] # 0 /\ LineCell(dir, l, x) \in Cells
  BY <2>1, LineType, LineCells
<2>3. PICK k \in 1 .. Len(ts) : At(ts[k]) = LineCell(dir, l, x)
  BY <2>2 DEF Covers
<2>4. k \in in
<3>1. ts[k] \in Tile
  BY <1>1
<3> QED BY <1>1, <2>1, <2>3, <3>1, TilePlace
<2>5. P(k) = x
  BY <1>2, <2>1, <2>3, <2>4, LineCells
<2> QED BY <2>4, <2>5
<1>6. n \in Nat /\ F \subseteq Nat /\ Lists(e, n, F)
  BY ValuesType DEF Picks, Filled
<1>7. e \in [1 .. n -> F] /\ Increases(e, n) /\ \A x \in F : \E i \in 1 .. n : e[i] = x
  BY <1>6 DEF Lists
<1>8. \A k \in in : P(k) \in Nat
  BY <1>2, Sides DEF Side
<1> HIDE DEF in, P, F, line, vs, n, order
<1>9. ASSUME NEW i \in 1 .. n PROVE o[i] \in in /\ P(o[i]) = e[i]
<2>1. \E k \in in : P(k) = e[i]
  BY <1>5, <1>7
<2> QED BY <2>1
<1>10. o \in [1 .. n -> in]
<2>1. \A i \in 1 .. n : K(e[i]) \in in
  BY <1>9
<2> HIDE DEF K
<2> QED BY <2>1
<1> HIDE DEF o, K
<1>11. Cardinality(in) = n
<2>1. \A i, j \in 1 .. n : o[i] = o[j] => i = j
<3> SUFFICES ASSUME NEW i \in 1 .. n, NEW j \in 1 .. n, i # j, o[i] = o[j] PROVE FALSE
  OBVIOUS
<3>1. i < j \/ j < i
  BY <1>6
<3>2. e[i] < e[j] \/ e[j] < e[i]
  BY <1>7, <3>1 DEF Increases
<3>3. e[i] = e[j] /\ e[i] \in Nat
  BY <1>6, <1>7, <1>9
<3> QED BY <3>2, <3>3
<2>2. \A k \in in : \E i \in 1 .. n : o[i] = k
<3> SUFFICES ASSUME NEW k \in in PROVE \E i \in 1 .. n : o[i] = k
  OBVIOUS
<3>1. PICK i \in 1 .. n : e[i] = P(k)
  BY <1>4, <1>7
<3> QED BY <1>3, <1>9, <3>1
<2>3. o \in Bijection(1 .. n, in)
  BY <1>10, <2>1, <2>2 DEF Bijection, Injection, IsInjective, Surjection
<2>4. ExistsBijection(1 .. n, in)
  BY <2>3 DEF ExistsBijection
<2> QED BY <1>6, <2>4, FS_CountingElements
<1>12. ASSUME NEW j \in in, NEW k \in in
       PROVE  /\ P(j) < P(k) => SortsBefore(ts, dir, j, k)
              /\ SortsBefore(ts, dir, j, k) => P(j) < P(k)
<2>1. P(j) < P(k) \/ P(j) = P(k) \/ P(k) < P(j)
  BY <1>8
<2>2. P(j) = P(k) => j = k
  BY <1>3
<2> QED BY <1>1, <1>2, <2>1, <2>2, PlacesSort
<1>13. Good(o)
<2> SUFFICES ASSUME NEW i \in 1 .. n, NEW j \in 1 .. n, i < j
             PROVE  SortsBefore(ts, dir, o[i], o[j])
  BY <1>10
<2>1. e[i] < e[j]
  BY <1>7 DEF Increases
<2> QED BY <1>9, <1>12, <2>1
<1>14. Good(order)
  BY <1>11, <1>13 DEF order
<1> DEFINE q == [i \in 1 .. n |-> P(order[i])]
           s == [i \in 1 .. n |-> ts[order[i]]]
<1>16. \A i \in 1 .. n : order[i] \in in
  BY <1>14
<1>17. q \in [1 .. n -> F] /\ \A i \in 1 .. n : q[i] = P(order[i])
  BY <1>4, <1>16
<1>18. Increases(q, n)
<2> SUFFICES ASSUME NEW i \in 1 .. n, NEW j \in 1 .. n, i < j PROVE q[i] < q[j]
  BY DEF Increases
<2>1. SortsBefore(ts, dir, order[i], order[j])
  BY <1>14
<2>2. P(order[i]) < P(order[j])
  BY <1>12, <1>16, <2>1
<2> QED BY <1>17, <2>2
<1> HIDE DEF q
<1>19. \A i \in 1 .. n : q[i] = e[i]
  <2>1. F \in SUBSET Nat
  BY <1>6
<2> QED BY <1>6, <1>17, <1>18, <2>1, ListsAll
<1>20. ASSUME NEW i \in 1 .. n
       PROVE  /\ ts[order[i]] \in Tile /\ ts[order[i]].value = vs[i]
              /\ At(ts[order[i]]) = LineCell(dir, l, e[i])
<2>1. order[i] \in in /\ P(order[i]) = e[i]
  BY <1>16, <1>17, <1>19
<2>2. vs[i] = line[e[i]]
  BY DEF Picks, line, vs, n
<2> QED BY <1>2, <1>4, <2>1, <2>2
<1>21. s \in Seq(Tile) /\ Len(s) = n /\ \A i \in 1 .. n : s[i] = ts[order[i]]
  BY <1>6, <1>20
<1>22. InLine(ts, dir, l) = s
  BY <1>0, <1>11
<1> HIDE DEF s
<1> QED BY <1>20, <1>21, <1>22 DEF n, vs

-----------------------------------------------------------------------------
(***************************************************************************)
(* Placing the tiles of a line one after the other.                        *)
(***************************************************************************)
Piece == [row : Int, col : Int, value : Nat]

Placing ==
  {a \in [placed : Seq(Piece), canMerge : BOOLEAN, gained : Nat, moved : BOOLEAN] :
     a.canMerge => Len(a.placed) > 0}

Joins(acc, t) == acc.canMerge /\ Last(acc.placed).value = t.value

(* The tile doubles the last one placed, or is placed behind it.           *)
Doubled(acc, t, n, new) ==
  /\ new \in Placing
  /\ n > 0 /\ Len(new.placed) = n
  /\ \A j \in 1 .. n - 1 : new.placed[j] = acc.placed[j]
  /\ At(new.placed[n]) = At(acc.placed[n]) /\ new.placed[n].value = 2 * t.value
  /\ ~new.canMerge /\ new.gained = acc.gained + 2 * t.value /\ new.moved

Put(acc, t, n, new, at) ==
  /\ new \in Placing
  /\ Len(new.placed) = n + 1
  /\ \A j \in 1 .. n : new.placed[j] = acc.placed[j]
  /\ At(new.placed[n + 1]) = at /\ new.placed[n + 1].value = t.value
  /\ new.canMerge /\ new.gained = acc.gained
  /\ new.moved = (acc.moved \/ at # At(t))

(* The step that merges a tile.                                            *)
LEMMA PlaceJoins ==
  ASSUME NEW dir, NEW l \in Side, NEW acc \in Placing, NEW t \in Piece, Joins(acc, t),
         NEW n \in Nat, n = Len(acc.placed)
  PROVE  Doubled(acc, t, n, PlaceStep(dir, l, acc, t))
<1> DEFINE old == acc.placed
           x == [Last(old) EXCEPT !.value = 2 * @]
           w == Front(old) \o <<x>>
           new == [placed |-> w, canMerge |-> FALSE,
                   gained |-> acc.gained + 2 * t.value, moved |-> TRUE]
<1>1. /\ old \in Seq(Piece) /\ acc.gained \in Nat /\ n > 0 /\ n \in Nat
      /\ t.value \in Nat
  BY DEF Placing, Joins, Piece
<1>2. PlaceStep(dir, l, acc, t) = new
  BY DEF PlaceStep, Joins
<1>3. Last(old) = old[n] /\ old[n] \in Piece
<2>1. n \in 1 .. Len(old)
  BY <1>1
<2> QED BY <1>1, <2>1 DEF Last
<1>4. x \in Piece /\ At(x) = At(old[n]) /\ x.value = 2 * t.value
<2> DEFINE y == old[n]
<2>1. Last(old) = y /\ y \in Piece /\ y.value = t.value
  BY <1>3 DEF Joins
<2>2. x = [y EXCEPT !.value = 2 * @]
  BY <2>1
<2> HIDE DEF x, y
<2>3. x \in Piece /\ x.row = y.row /\ x.col = y.col /\ x.value = 2 * y.value
  BY <2>1, <2>2 DEF Piece
<2>4. x \in Piece /\ At(x) = At(y) /\ x.value = 2 * t.value
  BY <2>1, <2>3 DEF At
<2> QED BY <2>4 DEF y
<1> HIDE DEF x
<1>5. w \in Seq(Piece) /\ Len(w) = n /\ w[n] = x /\ \A j \in 1 .. n - 1 : w[j] = old[j]
<2> HIDE DEF old
<2>1. n = Len(old)
  BY DEF old
<2> QED BY <1>1, <1>4, <2>1, Replaced
<1> HIDE DEF w, old
<1>6. new.placed = w /\ ~new.canMerge /\ new.gained = acc.gained + 2 * t.value /\ new.moved
  OBVIOUS
<1>7. new \in Placing
  BY <1>1, <1>5 DEF Placing
<1> HIDE DEF new
<1> QED BY <1>1, <1>2, <1>4, <1>5, <1>6, <1>7 DEF old, Doubled

(* The step that places a tile.                                            *)
LEMMA PlacePuts ==
  ASSUME NEW dir, NEW l \in Side, NEW acc \in Placing, NEW t \in Piece, ~Joins(acc, t),
         NEW n \in Nat, n = Len(acc.placed)
  PROVE  Put(acc, t, n, PlaceStep(dir, l, acc, t), LineCell(dir, l, n + 1))
<1> DEFINE old == acc.placed
           at == LineCell(dir, l, n + 1)
           x == [t EXCEPT !.row = at[1], !.col = at[2]]
           w == Append(old, x)
           mv == (acc.moved \/ at # At(t))
           new == [acc EXCEPT !.placed = w, !.canMerge = TRUE, !.moved = mv]
<1>1. /\ old \in Seq(Piece) /\ acc.gained \in Nat /\ n \in Nat
      /\ acc.moved \in BOOLEAN
      /\ acc \in [placed : Seq(Piece), canMerge : BOOLEAN, gained : Nat, moved : BOOLEAN]
  BY DEF Placing
<1>2. PlaceStep(dir, l, acc, t) = new
  BY DEF PlaceStep, Joins, At
<1>3. at = <<at[1], at[2]>> /\ at[1] \in Int /\ at[2] \in Int
<2>1. l \in Int /\ SIZE \in Int
  BY Sides DEF Side
<2> QED BY <1>1, <2>1 DEF LineCell
<1> HIDE DEF at
<1>4. x \in Piece /\ x.row = at[1] /\ x.col = at[2] /\ x.value = t.value
  BY <1>3 DEF Piece
<1>5. At(x) = at
  BY <1>3, <1>4 DEF At
<1> HIDE DEF x
<1>6. /\ w \in Seq(Piece) /\ Len(w) = n + 1 /\ w[n + 1] = x
      /\ \A j \in 1 .. n : w[j] = old[j]
  BY <1>1, <1>4
<1>7. mv \in BOOLEAN
  BY <1>1
<1> HIDE DEF w, old, mv
<1>8. new.placed = w /\ new.canMerge /\ new.gained = acc.gained /\ new.moved = mv
  BY <1>1
<1>9. new \in Placing
<2>1. new \in [placed : Seq(Piece), canMerge : BOOLEAN, gained : Nat, moved : BOOLEAN]
  BY <1>1, <1>6, <1>7
<2>2. Len(new.placed) > 0
  BY <1>1, <1>6, <1>8
<2> HIDE DEF new
<2> QED BY <2>1, <2>2 DEF Placing
<1> HIDE DEF new
<1> QED BY <1>2, <1>4, <1>5, <1>6, <1>8, <1>9 DEF old, mv, at, Put

(* A step keeps its types.                                                 *)
LEMMA PlaceStepType ==
  ASSUME NEW dir, NEW l \in Side, NEW acc \in Placing, NEW t \in Piece
  PROVE  PlaceStep(dir, l, acc, t) \in Placing
<1>1. Len(acc.placed) \in Nat
  BY DEF Placing
<1> QED BY <1>1, PlaceJoins, PlacePuts DEF Doubled, Put

(* The accumulators of a line.                                             *)
PlacesStep(dir, l, ts) ==
  [x \in Placing \X (1 .. Len(ts)) |-> PlaceStep(dir, l, x[1], ts[x[2]])]

PlacedBy(dir, l, ts, it) ==
  it = [s \in SUBSET DOMAIN ts |->
          IF s = {} THEN PlaceNothing
          ELSE PlaceStep(dir, l, it[s \ {Max(s)}], ts[Max(s)])]

PlaceSteps(dir, l, ts, n, h) ==
  /\ h \in [0 .. n -> Placing]
  /\ h[0] = PlaceNothing /\ h[n] = PlaceLine(dir, l, ts)
  /\ \A k \in 1 .. n : h[k] = PlaceStep(dir, l, h[k - 1], ts[k])

(* PlaceLine, step by step.                                                *)
LEMMA PlaceTrace ==
  ASSUME NEW dir, NEW l \in Side, NEW ts \in Seq(Piece), NEW n \in Nat, n = Len(ts)
  PROVE  \E h : PlaceSteps(dir, l, ts, n, h)
<1> DEFINE F == PlacesStep(dir, l, ts)
           T == Placing
           b == PlaceNothing
<1>1. DOMAIN ts = 1 .. n /\ b \in T
<2>1. <<>> \in Seq(Piece)
  OBVIOUS
<2> QED BY <2>1 DEF Placing, PlaceNothing
<1>2. F \in [T \X (1 .. n) -> T]
<2>1. \A x \in T \X (1 .. n) : x[1] \in Placing /\ ts[x[2]] \in Piece
  OBVIOUS
<2>2. \A x \in T \X (1 .. n) : PlaceStep(dir, l, x[1], ts[x[2]]) \in Placing
  BY <2>1, PlaceStepType
<2> QED BY <2>2 DEF PlacesStep
<1>3. PICK jt : FoldsBy(T, F, b, n, jt)
<2> HIDE DEF b, F, T
<2> QED BY <1>1, <1>2, FoldExists
<1>4. PlacedBy(dir, l, ts, jt)
<2>1. ASSUME NEW s \in SUBSET (1 .. n)
      PROVE  jt[s] = IF s = {} THEN b
                     ELSE PlaceStep(dir, l, jt[s \ {Max(s)}], ts[Max(s)])
<3>1. CASE s = {}
  BY <3>1, <1>3 DEF FoldStep, FoldsBy
<3>2. CASE s # {}
<4>1. Max(s) \in 1 .. n
  BY <3>2, MaxIn
<4>2. jt[s \ {Max(s)}] \in T
  BY <1>3 DEF FoldsBy
<4>3. jt[s] = F[<<jt[s \ {Max(s)}], Max(s)>>]
  BY <1>3, <3>2 DEF FoldStep, FoldsBy
<4> HIDE DEF T
<4> QED BY <3>2, <4>1, <4>2, <4>3 DEF PlacesStep, T
<3> QED BY <3>1, <3>2
<2>2. jt = [s \in SUBSET (1 .. n) |-> jt[s]]
  BY <1>3 DEF FoldsBy
<2> QED BY <1>1, <2>1, <2>2 DEF PlacedBy
<1> DEFINE it == CHOOSE i : PlacedBy(dir, l, ts, i)
<1>5. PlaceLine(dir, l, ts) = it[1 .. n]
  BY <1>1 DEF PlaceLine, FoldLeft, MapThenFoldSet, PlacedBy
<1>6. PlacedBy(dir, l, ts, it)
  BY <1>4
<1> HIDE DEF it
<1>7. Folding(T, F, b, it, n)
<2>1. it[{}] = b
  BY <1>6 DEF PlacedBy
<2>2. ASSUME NEW k \in 1 .. n, it[1 .. k - 1] \in T
      PROVE  it[1 .. k] = F[<<it[1 .. k - 1], k>>]
<3>1. k \in Nat /\ k # 0 /\ 1 .. k \in SUBSET DOMAIN ts
  BY <1>1
<3>2. (1 .. k) \ {Max(1 .. k)} = 1 .. k - 1 /\ Max(1 .. k) = k /\ 1 .. k # {}
  BY <3>1, SegmentStep
<3>3. it[1 .. k] = PlaceStep(dir, l, it[1 .. k - 1], ts[k])
  BY <3>1, <3>2, <1>6 DEF PlacedBy
<3> QED BY <2>2, <3>3 DEF PlacesStep
<2> QED BY <2>1, <2>2 DEF Folding
<1>8. Stepping(T, F, n)
  BY <1>2 DEF Stepping
<1>9. PICK h \in [0 .. n -> T] :
        /\ h[0] = b /\ h[n] = it[1 .. n]
        /\ \A k \in 1 .. n : h[k] = F[<<h[k - 1], k>>]
<2> HIDE DEF b, F, T
<2> QED BY <1>1, <1>7, <1>8, FoldingTrace
<1>10. ASSUME NEW k \in 1 .. n PROVE h[k] = PlaceStep(dir, l, h[k - 1], ts[k])
<2>1. k - 1 \in 0 .. n
  OBVIOUS
<2> QED BY <1>9, <2>1 DEF PlacesStep
<1>11. PlaceSteps(dir, l, ts, n, h)
  BY <1>5, <1>9, <1>10 DEF PlaceSteps
<1> QED BY <1>11

-----------------------------------------------------------------------------
(***************************************************************************)
(* The client's line is the server's, step by step.                        *)
(***************************************************************************)
Joined(acc, v, n, new) ==
  /\ Len(new.merged) = n
  /\ \A j \in 1 .. n - 1 : new.merged[j] = acc.merged[j]
  /\ new.merged[n] = 2 * v
  /\ ~new.canMerge /\ new.gained = acc.gained + 2 * v

Pushed(acc, v, n, new) ==
  /\ Len(new.merged) = n + 1
  /\ \A j \in 1 .. n : new.merged[j] = acc.merged[j]
  /\ new.merged[n + 1] = v
  /\ new.canMerge /\ new.gained = acc.gained

(* The server's step that merges a value.                                  *)
LEMMA MergeJoins ==
  ASSUME NEW acc \in Merging, NEW v \in Nat, acc.canMerge, Last(acc.merged) = v,
         NEW n \in Nat, n = Len(acc.merged), n > 0
  PROVE  Joined(acc, v, n, MergeStep(acc, v))
<1> DEFINE old == acc.merged
           w == Front(old) \o <<2 * v>>
           new == [merged |-> w, gained |-> acc.gained + 2 * v, canMerge |-> FALSE]
<1>1. MergeStep(acc, v) = new
  BY DEF MergeStep
<1>2. Len(w) = n /\ w[n] = 2 * v /\ \A j \in 1 .. n - 1 : w[j] = old[j]
<2>1. old \in Seq(Nat) /\ n = Len(old) /\ 2 * v \in Nat
  BY DEF Merging
<2> HIDE DEF old
<2> QED BY <2>1, Replaced
<1> HIDE DEF w
<1>3. new.merged = w /\ ~new.canMerge /\ new.gained = acc.gained + 2 * v
  OBVIOUS
<1> HIDE DEF new
<1> QED BY <1>1, <1>2, <1>3 DEF Joined

(* The server's step that puts a value.                                    *)
LEMMA MergePuts ==
  ASSUME NEW acc \in Merging, NEW v \in Nat, ~(acc.canMerge /\ Last(acc.merged) = v),
         NEW n \in Nat, n = Len(acc.merged)
  PROVE  Pushed(acc, v, n, MergeStep(acc, v))
<1> DEFINE old == acc.merged
           w == Append(old, v)
           new == [acc EXCEPT !.merged = w, !.canMerge = TRUE]
<1>1. MergeStep(acc, v) = new
  BY DEF MergeStep
<1>2. Len(w) = n + 1 /\ w[n + 1] = v /\ \A j \in 1 .. n : w[j] = old[j]
  BY DEF Merging
<1> HIDE DEF w
<1>3. new.merged = w /\ new.canMerge /\ new.gained = acc.gained
  BY DEF Merging
<1> HIDE DEF new
<1> QED BY <1>1, <1>2, <1>3 DEF Pushed

Alike(dir, l, p, m) ==
  /\ Len(p.placed) = Len(m.merged)
  /\ p.canMerge <=> m.canMerge
  /\ p.gained = m.gained
  /\ \A j \in 1 .. Len(p.placed) :
       p.placed[j].value = m.merged[j] /\ At(p.placed[j]) = LineCell(dir, l, j)

(* Steps of the two on the same value keep them alike.                     *)
LEMMA StepsAlike ==
  ASSUME NEW dir, NEW l \in Side, NEW p \in Placing, NEW m \in Merging, NEW t \in Piece,
         Alike(dir, l, p, m)
  PROVE  Alike(dir, l, PlaceStep(dir, l, p, t), MergeStep(m, t.value))
<1> DEFINE n == Len(p.placed)
           v == t.value
           p1 == PlaceStep(dir, l, p, t)
           m1 == MergeStep(m, v)
<1>0. n = Len(p.placed)
  OBVIOUS
<1>1. /\ n \in Nat /\ n = Len(m.merged) /\ v \in Nat
      /\ p.canMerge <=> m.canMerge
      /\ p.canMerge => n > 0
      /\ p.gained = m.gained
      /\ \A j \in 1 .. n : p.placed[j].value = m.merged[j] /\ At(p.placed[j]) = LineCell(dir, l, j)
  BY DEF Alike, Placing, Piece
<1>2. n > 0 => Last(p.placed).value = Last(m.merged)
<2>1. n > 0 => n \in 1 .. n
  BY <1>1
<2> QED BY <1>1, <2>1 DEF Last
<1>3. Joins(p, t) <=> m.canMerge /\ Last(m.merged) = v
  BY <1>1, <1>2 DEF Joins
<1>4. CASE Joins(p, t)
<2>1. /\ n > 0 /\ Len(p1.placed) = n
      /\ \A j \in 1 .. n - 1 : p1.placed[j] = p.placed[j]
      /\ At(p1.placed[n]) = At(p.placed[n]) /\ p1.placed[n].value = 2 * v
      /\ ~p1.canMerge /\ p1.gained = p.gained + 2 * v
<3>1. Doubled(p, t, n, p1)
<4> HIDE DEF n
<4> QED BY <1>0, <1>1, <1>4, PlaceJoins
<3> HIDE DEF n, p1
<3> QED BY <3>1 DEF Doubled
<2>2. /\ Len(m1.merged) = n
      /\ \A j \in 1 .. n - 1 : m1.merged[j] = m.merged[j]
      /\ m1.merged[n] = 2 * v
      /\ ~m1.canMerge /\ m1.gained = m.gained + 2 * v
<3>1. Joined(m, v, n, m1)
<4> HIDE DEF n, v
<4> QED BY <1>1, <1>3, <1>4, <2>1, MergeJoins
<3> HIDE DEF n, v, m1
<3> QED BY <3>1 DEF Joined
<2> HIDE DEF p1, m1, n, v
<2>3. ASSUME NEW j \in 1 .. n
      PROVE  p1.placed[j].value = m1.merged[j] /\ At(p1.placed[j]) = LineCell(dir, l, j)
<3>1. j = n \/ j \in 1 .. n - 1
  BY <1>1
<3> QED BY <1>1, <2>1, <2>2, <3>1
<2> QED BY <1>1, <2>1, <2>2, <2>3 DEF Alike, p1, m1, v
<1>5. CASE ~Joins(p, t)
<2>1. /\ Len(p1.placed) = n + 1
      /\ \A j \in 1 .. n : p1.placed[j] = p.placed[j]
      /\ At(p1.placed[n + 1]) = LineCell(dir, l, n + 1) /\ p1.placed[n + 1].value = v
      /\ p1.canMerge /\ p1.gained = p.gained
<3>1. Put(p, t, n, p1, LineCell(dir, l, n + 1))
<4> HIDE DEF n
<4> QED BY <1>0, <1>1, <1>5, PlacePuts
<3> HIDE DEF n, p1
<3> QED BY <3>1 DEF Put
<2>2. /\ Len(m1.merged) = n + 1
      /\ \A j \in 1 .. n : m1.merged[j] = m.merged[j]
      /\ m1.merged[n + 1] = v
      /\ m1.canMerge /\ m1.gained = m.gained
<3>1. Pushed(m, v, n, m1)
<4> HIDE DEF n, v
<4> QED BY <1>1, <1>3, <1>5, MergePuts
<3> HIDE DEF n, v, m1
<3> QED BY <3>1 DEF Pushed
<2> HIDE DEF p1, m1, n, v
<2>3. ASSUME NEW j \in 1 .. n + 1
      PROVE  p1.placed[j].value = m1.merged[j] /\ At(p1.placed[j]) = LineCell(dir, l, j)
<3>1. j = n + 1 \/ j \in 1 .. n
  BY <1>1
<3> QED BY <1>1, <2>1, <2>2, <3>1
<2> QED BY <1>1, <2>1, <2>2, <2>3 DEF Alike, p1, m1, v
<1> QED BY <1>4, <1>5

(* The tiles have not moved while each is on the place it came from.       *)
Still(p, k, e) == Len(p.placed) = k /\ \A i \in 1 .. k : e[i] = i

Follows(dir, l, p, m, k, e) ==
  /\ Alike(dir, l, p, m)
  /\ Len(p.placed) <= k
  /\ p.moved <=> ~Still(p, k, e)

(* The client's flag says whether a place was left or a tile merged so     *)
(* far.                                                                    *)
LEMMA StepsFollow ==
  ASSUME NEW dir, NEW l \in Side, NEW p \in Placing, NEW m \in Merging, NEW t \in Piece,
         NEW k \in Nat, k + 1 <= SIZE, NEW e, e[k + 1] \in Side,
         At(t) = LineCell(dir, l, e[k + 1]), Follows(dir, l, p, m, k, e)
  PROVE  Follows(dir, l, PlaceStep(dir, l, p, t), MergeStep(m, t.value), k + 1, e)
<1> DEFINE n == Len(p.placed)
           p1 == PlaceStep(dir, l, p, t)
<1>0. n = Len(p.placed)
  OBVIOUS
<1>1. n \in Nat /\ n <= k /\ SIZE \in Nat /\ p.moved \in BOOLEAN
  BY Sides DEF Follows, Placing
<1>2. Alike(dir, l, p1, MergeStep(m, t.value))
  BY StepsAlike DEF Follows
<1>3. p.moved <=> ~(n = k /\ \A i \in 1 .. k : e[i] = i)
  BY DEF Follows, Still
<1>4. CASE Joins(p, t)
<2>1. Len(p1.placed) = n /\ p1.moved
<3>1. Doubled(p, t, n, p1)
<4> HIDE DEF n
<4> QED BY <1>0, <1>1, <1>4, PlaceJoins
<3> HIDE DEF n, p1
<3> QED BY <3>1 DEF Doubled
<2> HIDE DEF n, p1
<2>2. Len(p1.placed) <= k + 1 /\ ~Still(p1, k + 1, e)
  BY <1>1, <2>1 DEF Still
<2> QED BY <1>2, <2>1, <2>2 DEF Follows, p1
<1>5. CASE ~Joins(p, t)
<2>1. Len(p1.placed) = n + 1 /\ p1.moved = (p.moved \/ LineCell(dir, l, n + 1) # At(t))
<3>1. Put(p, t, n, p1, LineCell(dir, l, n + 1))
<4> HIDE DEF n
<4> QED BY <1>0, <1>1, <1>5, PlacePuts
<3> HIDE DEF n, p1
<3> QED BY <3>1 DEF Put
<2> HIDE DEF n, p1
<2>2. LineCell(dir, l, n + 1) # At(t) <=> e[k + 1] # n + 1
<3> DEFINE x == n + 1
           y == e[k + 1]
<3>1. x \in Side /\ y \in Side /\ At(t) = LineCell(dir, l, y)
  BY <1>1 DEF Side
<3> HIDE DEF x, y
<3>2. LineCell(dir, l, x) = LineCell(dir, l, y) <=> x = y
  BY <3>1, LineCells
<3>3. LineCell(dir, l, x) # At(t) <=> y # x
  BY <3>1, <3>2
<3> QED BY <3>3 DEF x, y
<2>3. p1.moved <=> (p.moved \/ e[k + 1] # n + 1)
  BY <2>1, <2>2
<2>4. Still(p1, k + 1, e) <=> n = k /\ (\A i \in 1 .. k : e[i] = i) /\ e[k + 1] = n + 1
<3>1. \A i : i \in 1 .. k + 1 <=> i \in 1 .. k \/ i = k + 1
  OBVIOUS
<3>2. Len(p1.placed) = k + 1 <=> n = k
  BY <1>1, <2>1
<3>3. (\A i \in 1 .. k + 1 : e[i] = i) <=> (\A i \in 1 .. k : e[i] = i) /\ e[k + 1] = k + 1
  BY <3>1
<3> QED BY <3>2, <3>3 DEF Still
<2>5. p1.moved <=> ~Still(p1, k + 1, e)
  BY <1>3, <2>3, <2>4
<2>6. Len(p1.placed) <= k + 1
  BY <1>1, <2>1
<2> QED BY <1>2, <2>5, <2>6 DEF Follows, p1
<1> QED BY <1>4, <1>5

(* No tile of a merged line is 0.                                          *)
LEMMA MergedTiles ==
  ASSUME NEW b \in Board, NEW dir, NEW l \in Side
  PROVE  \A j \in 1 .. Len(Merged(b, dir, l)) : Merged(b, dir, l)[j] # 0
<1> DEFINE line == Line(b, dir, l)
           merged == Merged(b, dir, l)
           m == Len(merged)
<1>1. \A i \in Side : line[i] \in Nat
  BY LineType, LineCells DEF Board
<1>2. PICK g : Comes(line, merged, g)
  BY LineComes
<1> SUFFICES ASSUME NEW j \in 1 .. m PROVE merged[j] # 0
  OBVIOUS
<1>3. /\ g[j] \in Side /\ line[g[j]] > 0
      /\ merged[j] = line[g[j]] \/ merged[j] = 2 * line[g[j]]
  BY <1>2 DEF Comes, FromOne, FromTwo
<1>4. line[g[j]] \in Nat
  BY <1>1, <1>3
<1> HIDE DEF line, merged
<1> QED BY <1>3, <1>4

(* A line stays exactly when its tiles fill its first places and none are  *)
(* merged.                                                                 *)
LEMMA LineStays ==
  ASSUME NEW b \in Board, NEW dir, NEW l \in Side,
         NEW e, Picks(Line(b, dir, l), SIZE, Values(b, dir, l), e)
  PROVE  LET n == Len(Values(b, dir, l))
         IN  Stays(b, dir, l) <=> /\ Len(Merged(b, dir, l)) = n
                                  /\ \A i \in 1 .. n : e[i] = i
<1> DEFINE line == Line(b, dir, l)
           vs == Values(b, dir, l)
           n == Len(vs)
           merged == Merged(b, dir, l)
           m == Len(merged)
           F == Filled(line, SIZE)
<1>1. /\ \A i \in Side : line[i] = b[LineCell(dir, l, i)] /\ line[i] \in Nat
      /\ SIZE \in Nat /\ Side = 1 .. SIZE
<2>1. \A i \in Side : line[i] = b[LineCell(dir, l, i)]
  BY LineType
<2>2. \A i \in Side : b[LineCell(dir, l, i)] \in Nat
  BY LineCells DEF Board
<2> HIDE DEF line
<2> QED BY <2>1, <2>2, Sides DEF Side
<1>2. /\ n \in Nat /\ e \in [1 .. n -> F] /\ Lists(e, n, F)
      /\ \A x \in F : \E i \in 1 .. n : e[i] = x
      /\ \A j \in 1 .. n : vs[j] = line[e[j]]
<2>1. Lists(e, n, F) /\ \A j \in 1 .. n : vs[j] = line[e[j]]
  BY DEF Picks
<2> HIDE DEF F, n
<2> QED BY <2>1 DEF Lists
<1>3. m \in Nat /\ m <= n /\ (m = n => \A j \in 1 .. m : merged[j] = vs[j])
<2>1. PICK f : Merges(vs, n, Merge(vs), f)
  BY ValuesType, MergeMerges
<2>2. merged \in Seq(Nat)
  BY ValuesType
<2> QED BY <2>1, <2>2 DEF Merges, Merged
<1>4. n <= SIZE
<2>1. e \in [1 .. n -> Side] /\ Increases(e, n)
  BY <1>1, <1>2 DEF Lists, Filled
<2> HIDE DEF n
<2> QED BY <1>2, <2>1, ListFits
<1>5. \A j \in 1 .. m : merged[j] # 0
  BY MergedTiles
<1>6. Stays(b, dir, l) <=> \A i \in Side : line[i] = IF i <= m THEN merged[i] ELSE 0
<2>1. \A i \in Side : Moved(b, dir)[LineCell(dir, l, i)] = IF i <= m THEN merged[i] ELSE 0
  BY MoveCells
<2> HIDE DEF line, m, merged
<2> QED BY <1>1, <2>1 DEF Stays
<1>7. \A i \in Side : i \in F <=> line[i] # 0
  BY <1>1 DEF Filled
<1> HIDE DEF line, vs, n, merged, m
<1>8. ASSUME m = n, \A i \in 1 .. n : e[i] = i, NEW i \in Side
      PROVE  line[i] = IF i <= m THEN merged[i] ELSE 0
<2>1. CASE i <= m
<3>1. i \in 1 .. n /\ i \in 1 .. m
  BY <1>1, <1>3, <1>8, <2>1
<3> QED BY <1>2, <1>3, <1>8, <2>1, <3>1
<2>2. CASE ~(i <= m)
<3>1. i \notin F
<4> SUFFICES ASSUME i \in F PROVE FALSE
  OBVIOUS
<4>1. PICK j \in 1 .. n : e[j] = i
  BY <1>2
<4>2. i = j
  BY <1>8, <4>1
<4> QED BY <1>8, <2>2, <4>2, <1>2
<3> QED BY <1>7, <2>2, <3>1
<2> QED BY <2>1, <2>2
<1>9. ASSUME \A i \in Side : line[i] = IF i <= m THEN merged[i] ELSE 0
      PROVE  m = n /\ \A i \in 1 .. n : e[i] = i
<2> DEFINE id == [i \in 1 .. m |-> i]
<2>1. \A i \in 1 .. m : i \in F
  BY <1>1, <1>2, <1>3, <1>4, <1>5, <1>7, <1>9
<2>2. \A i \in F : i \in 1 .. m
<3> SUFFICES ASSUME NEW i \in F PROVE i \in 1 .. m
  OBVIOUS
<3>1. i \in Side /\ line[i] # 0
  BY <1>1, <1>7 DEF Filled
<3>2. i <= m
  BY <1>9, <3>1
<3> QED BY <1>1, <1>3, <3>1, <3>2
<2>3. id \in [1 .. m -> F] /\ (\A i \in 1 .. m : id[i] = i)
  BY <2>1
<2>4. F \subseteq Nat
  BY <1>1 DEF Filled
<2> HIDE DEF id, F
<2>5. Increases(id, m)
  BY <2>3 DEF Increases
<2>6. Lists(id, m, F)
  BY <1>3, <2>2, <2>3, <2>4, <2>5 DEF Lists
<2>7. n = m /\ \A i \in 1 .. n : e[i] = id[i]
  BY <1>2, <2>6, ListsAgree
<2> QED BY <2>3, <2>7
<1>10. Stays(b, dir, l) <=> m = n /\ \A i \in 1 .. n : e[i] = i
  BY <1>6, <1>8, <1>9
<1> QED BY <1>10 DEF m, n, merged, vs

(* A line of the client after a move, and whether it has moved.            *)
LEMMA LinePlaced ==
  ASSUME NEW b \in Board, NEW ts, Covers(ts, b), NEW dir, NEW l \in Side,
         NEW r, r = PlaceLine(dir, l, InLine(ts, dir, l))
  PROVE  /\ r \in Placing /\ r.placed \in Seq(Tile)
         /\ Alike(dir, l, r, Merge(Values(b, dir, l)))
         /\ r.moved <=> ~Stays(b, dir, l)
<1> DEFINE line == Line(b, dir, l)
           vs == Values(b, dir, l)
           n == Len(vs)
           s == InLine(ts, dir, l)
<1>1. PICK e : Picks(line, SIZE, vs, e)
  BY ValuesPick
<1>2. /\ s \in Seq(Tile) /\ Len(s) = n
      /\ \A i \in 1 .. n : s[i].value = vs[i] /\ At(s[i]) = LineCell(dir, l, e[i])
  BY <1>1, InLineTiles
<1>3. vs \in Seq(Nat) /\ n \in Nat
  BY ValuesType
<1>4. e \in [1 .. n -> Side] /\ n <= SIZE /\ SIZE \in Nat
<2>1. Filled(line, SIZE) \subseteq Side
  BY DEF Filled, Side
<2>2. e \in [1 .. n -> Side] /\ Increases(e, n)
  BY <1>1, <2>1 DEF Picks, Lists
<2> HIDE DEF n
<2> QED BY <1>3, <2>2, ListFits, Sides
<1> HIDE DEF line, s
<1>5. s \in Seq(Piece)
<2>1. Tile \subseteq Piece
  BY Sides DEF Tile, Piece, Side
<2> HIDE DEF n
<2>2. \A i \in 1 .. n : s[i] \in Piece
  BY <1>2, <2>1
<2>3. s \in [1 .. n -> Piece]
  BY <1>2, <2>2
<2> QED BY <1>3, <2>3
<1>6. PICK h \in [0 .. n -> Placing] :
        /\ h[0] = PlaceNothing /\ h[n] = PlaceLine(dir, l, s)
        /\ \A k \in 1 .. n : h[k] = PlaceStep(dir, l, h[k - 1], s[k])
<2>1. n \in Nat /\ n = Len(s) /\ s \in Seq(Piece)
  BY <1>2, <1>3, <1>5
<2> HIDE DEF n
<2>2. PICK h : PlaceSteps(dir, l, s, n, h)
  BY <2>1, PlaceTrace
<2> QED BY <2>2 DEF PlaceSteps
<1>7. PICK g \in [0 .. n -> Merging] :
        /\ g[0] = MergeNothing /\ g[n] = Merge(vs)
        /\ \A k \in 1 .. n : g[k] = MergeStep(g[k - 1], vs[k])
  BY <1>3, MergeTrace
<1> HIDE DEF vs, n
<1> DEFINE S == {k \in 0 .. n : Follows(dir, l, h[k], g[k], k, e)}
<1>8. 0 \in S
<2> DEFINE p == PlaceNothing
           q == MergeNothing
<2>1. Alike(dir, l, p, q) /\ Len(p.placed) = 0 /\ p.moved = FALSE
<3>1. p.placed = <<>> /\ q.merged = <<>> /\ p.gained = 0 /\ q.gained = 0
      /\ p.canMerge = FALSE /\ q.canMerge = FALSE /\ p.moved = FALSE
  BY DEF PlaceNothing, MergeNothing
<3>2. Len(p.placed) = 0 /\ Len(q.merged) = 0
  BY <3>1
<3> HIDE DEF p, q
<3> QED BY <3>1, <3>2 DEF Alike
<2> HIDE DEF p, q
<2>2. Still(p, 0, e)
  BY <2>1 DEF Still
<2>3. Follows(dir, l, p, q, 0, e)
  BY <2>1, <2>2 DEF Follows
<2> QED BY <1>3, <1>6, <1>7, <2>3 DEF p, q
<1>9. ASSUME NEW k \in 1 .. n, k - 1 \in S PROVE k \in S
<2> DEFINE j == k - 1
           p == h[j]
           q == g[j]
           t == s[k]
<2>1. j \in Nat /\ j + 1 = k /\ j \in 0 .. n /\ k \in 0 .. n /\ j + 1 <= SIZE
  BY <1>3, <1>4
<2>2. p \in Placing /\ q \in Merging /\ Follows(dir, l, p, q, j, e)
  BY <1>9, <2>1
<2>3. t \in Piece /\ e[k] \in Side /\ t.value = vs[k] /\ At(t) = LineCell(dir, l, e[k])
  BY <1>2, <1>4, <1>5
<2>4. h[k] = PlaceStep(dir, l, p, t) /\ g[k] = MergeStep(q, t.value)
  BY <1>6, <1>7, <2>3
<2> HIDE DEF j, p, q, t
<2>5. e[j + 1] \in Side /\ At(t) = LineCell(dir, l, e[j + 1])
  BY <2>1, <2>3
<2>6. Follows(dir, l, PlaceStep(dir, l, p, t), MergeStep(q, t.value), j + 1, e)
  BY <2>1, <2>2, <2>3, <2>5, StepsFollow
<2>7. Follows(dir, l, h[k], g[k], k, e)
  BY <2>1, <2>4, <2>6
<2> QED BY <2>1, <2>7
<1>10. n \in S
<2> HIDE DEF S
<2> QED BY <1>3, <1>8, <1>9, UpTo
<1>11. r = h[n] /\ r \in Placing /\ Follows(dir, l, r, Merge(vs), n, e)
<2>1. n \in 0 .. n
  BY <1>3
<2> QED BY <1>6, <1>7, <1>10, <2>1 DEF s
<1>12. Alike(dir, l, r, Merge(vs)) /\ (r.moved <=> ~Still(r, n, e)) /\ Len(r.placed) <= n
  BY <1>11 DEF Follows
<1>13. Len(r.placed) = Len(Merged(b, dir, l))
  BY <1>12 DEF Alike, Merged, vs
<1>14. Stays(b, dir, l) <=> Len(Merged(b, dir, l)) = n /\ \A i \in 1 .. n : e[i] = i
  BY <1>1, LineStays DEF line, vs, n
<1>15. r.moved <=> ~Stays(b, dir, l)
  BY <1>12, <1>13, <1>14 DEF Still
<1>16. r.placed \in Seq(Tile)
<2> DEFINE p == r.placed
           m == Len(p)
<2>1. p \in Seq(Piece) /\ m \in Nat
  BY <1>11 DEF Placing
<2>2. ASSUME NEW j \in 1 .. m PROVE p[j] \in Tile
<3>1. j \in Side
  BY <1>3, <1>4, <1>12, <2>1 DEF Side
<3>2. At(p[j]) \in Cells /\ p[j] \in Piece
  BY <1>12, <2>1, <3>1, LineCells DEF Alike
<3> HIDE DEF p
<3> QED BY <3>2 DEF Piece, Tile, At, Cells
<2> HIDE DEF p, m
<2>3. p \in [1 .. m -> Tile]
  BY <2>1, <2>2 DEF m
<2>4. p \in Seq(Tile)
  BY <2>1, <2>3
<2> QED BY <2>4 DEF p
<1> QED BY <1>11, <1>12, <1>15, <1>16 DEF vs

-----------------------------------------------------------------------------
(***************************************************************************)
(* The lines put behind each other.                                        *)
(***************************************************************************)
FlattensBy(seqs, n, f) ==
  f = [i \in 1 .. n |-> IF i = 1 THEN seqs[i] ELSE f[i - 1] \o seqs[i]]

(* A concatenation of the first sequences, for each number of them,        *)
(* exists.                                                                 *)
LEMMA Flattens ==
  ASSUME NEW n \in Nat, NEW seqs \in [1 .. n -> Seq(Tile)]
  PROVE  \E f : FlattensBy(seqs, n, f)
<1> DEFINE S == {k \in Nat : k <= n => \E f \in [1 .. k -> Seq(Tile)] : FlattensBy(seqs, k, f)}
<1>1. 0 \in S
<2> DEFINE f == [k \in 1 .. 0 |-> <<>>]
<2>1. FlattensBy(seqs, 0, f) /\ f \in [1 .. 0 -> Seq(Tile)]
  BY DEF FlattensBy
<2> QED BY <2>1
<1>2. ASSUME NEW k \in 1 .. n, k - 1 \in S PROVE k \in S
<2> DEFINE p == k - 1
<2>1. p \in Nat /\ k = p + 1 /\ k \in Nat
  OBVIOUS
<2>2. PICK f \in [1 .. p -> Seq(Tile)] : FlattensBy(seqs, p, f)
  BY <1>2
<2> HIDE DEF p
<2> DEFINE g == [i \in 1 .. k |-> IF i = 1 THEN seqs[i] ELSE f[i - 1] \o seqs[i]]
<2>3. \A i \in 1 .. p : f[i] = IF i = 1 THEN seqs[i] ELSE f[i - 1] \o seqs[i]
  BY <2>2 DEF FlattensBy
<2>4. \A i \in 1 .. p : g[i] = f[i]
<3>1. \A i \in 1 .. p : i \in 1 .. k
  BY <2>1
<3> QED BY <2>3, <3>1
<2>5. \A i \in 1 .. k : i # 1 => i - 1 \in 1 .. p
  BY <2>1
<2>6. ASSUME NEW i \in 1 .. k PROVE g[i] \in Seq(Tile)
<3>1. seqs[i] \in Seq(Tile)
<4>1. i \in 1 .. n
  BY <2>1
<4> QED BY <4>1
<3>2. i # 1 => f[i - 1] \in Seq(Tile)
  BY <2>5
<3>3. i # 1 => f[i - 1] \o seqs[i] \in Seq(Tile)
  BY <3>1, <3>2, ConcatProperties
<3> QED BY <3>1, <3>3
<2>7. g \in [1 .. k -> Seq(Tile)]
<3> DEFINE q(i) == IF i = 1 THEN seqs[i] ELSE f[i - 1] \o seqs[i]
<3>1. \A i \in 1 .. k : q(i) \in Seq(Tile)
  BY <2>6
<3> HIDE DEF q
<3>2. [i \in 1 .. k |-> q(i)] \in [1 .. k -> Seq(Tile)]
  BY <3>1
<3> QED BY <3>2 DEF q
<2>8. \A i \in 1 .. k : g[i] = IF i = 1 THEN seqs[i] ELSE g[i - 1] \o seqs[i]
<3> SUFFICES ASSUME NEW i \in 1 .. k
             PROVE  g[i] = IF i = 1 THEN seqs[i] ELSE g[i - 1] \o seqs[i]
  OBVIOUS
<3>1. i # 1 => g[i - 1] = f[i - 1]
  BY <2>4, <2>5
<3>2. g[i] = IF i = 1 THEN seqs[i] ELSE f[i - 1] \o seqs[i]
  OBVIOUS
<3> HIDE DEF g
<3> QED BY <3>1, <3>2
<2>9. g = [i \in 1 .. k |-> g[i]]
  OBVIOUS
<2> HIDE DEF g
<2>10. FlattensBy(seqs, k, g)
  BY <2>8, <2>9 DEF FlattensBy
<2> QED BY <2>1, <2>7, <2>10
<1>3. n \in S
<2> HIDE DEF S
<2> QED BY <1>1, <1>2, UpTo
<1> QED BY <1>3

Behind(seqs, n, f) == f[1] = seqs[1] /\ \A k \in 2 .. n : f[k] = f[k - 1] \o seqs[k]

(* FlattenSeq, sequence by sequence.                                       *)
LEMMA FlattenTrace ==
  ASSUME NEW n \in Nat, n >= 1, NEW seqs \in [1 .. n -> Seq(Tile)]
  PROVE  \E f : Behind(seqs, n, f) /\ FlattenSeq(seqs) = f[n]
<1> DEFINE f == CHOOSE g : FlattensBy(seqs, n, g)
<1>1. Len(seqs) = n
  OBVIOUS
<1>2. FlattenSeq(seqs) = f[n]
  BY <1>1 DEF FlattenSeq, FlattensBy
<1>3. FlattensBy(seqs, n, f)
  BY Flattens
<1> HIDE DEF f
<1>4. \A k \in 1 .. n : f[k] = IF k = 1 THEN seqs[k] ELSE f[k - 1] \o seqs[k]
  BY <1>3 DEF FlattensBy
<1>5. f[1] = seqs[1]
<2>1. 1 \in 1 .. n
  OBVIOUS
<2> QED BY <1>4, <2>1
<1>6. ASSUME NEW k \in 2 .. n PROVE f[k] = f[k - 1] \o seqs[k]
<2>1. k \in 1 .. n /\ k # 1
  OBVIOUS
<2> QED BY <1>4, <2>1
<1> QED BY <1>2, <1>5, <1>6 DEF Behind

-----------------------------------------------------------------------------
(* The tiles of the first k lines lie on the board.                        *)
CoversLines(ts, a, dir, k) ==
  /\ ts \in Seq(Tile)
  /\ \A i, j \in 1 .. Len(ts) : At(ts[i]) = At(ts[j]) => i = j
  /\ \A j \in 1 .. Len(ts) : /\ ts[j].value # 0 /\ a[At(ts[j])] = ts[j].value
                             /\ Across(dir, ts[j]) <= k
  /\ \A l \in 1 .. k : \A i \in Side :
       a[LineCell(dir, l, i)] # 0 => \E j \in 1 .. Len(ts) : At(ts[j]) = LineCell(dir, l, i)

(* The tiles of line l alone.                                              *)
CoversLine(ts, a, dir, l) ==
  /\ ts \in Seq(Tile)
  /\ \A i, j \in 1 .. Len(ts) : At(ts[i]) = At(ts[j]) => i = j
  /\ \A j \in 1 .. Len(ts) : /\ ts[j].value # 0 /\ a[At(ts[j])] = ts[j].value
                             /\ Across(dir, ts[j]) = l
  /\ \A i \in Side :
       a[LineCell(dir, l, i)] # 0 => \E j \in 1 .. Len(ts) : At(ts[j]) = LineCell(dir, l, i)

(* One more line behind the lines that are covered.                        *)
LEMMA NextLine ==
  ASSUME NEW a, NEW dir, NEW k \in Nat, NEW ts, CoversLines(ts, a, dir, k),
         NEW us, CoversLine(us, a, dir, k + 1)
  PROVE  CoversLines(ts \o us, a, dir, k + 1)
<1> DEFINE m == Len(ts)
           n == Len(us)
           w == ts \o us
<1>1. ts \in Seq(Tile) /\ us \in Seq(Tile) /\ m \in Nat /\ n \in Nat
  BY DEF CoversLines, CoversLine
<1>2. /\ w \in Seq(Tile) /\ Len(w) = m + n
      /\ \A i \in 1 .. m + n : w[i] = IF i <= m THEN ts[i] ELSE us[i - m]
  BY <1>1, ConcatProperties
<1> HIDE DEF w, m, n
<1>3. ASSUME NEW i \in 1 .. m + n
      PROVE  \/ i \in 1 .. m /\ w[i] = ts[i]
             \/ i - m \in 1 .. n /\ w[i] = us[i - m] /\ ~(i <= m)
  BY <1>1, <1>2
<1>4. \A i \in 1 .. m : i \in 1 .. m + n /\ w[i] = ts[i]
  BY <1>1, <1>2
<1>5. \A i \in 1 .. n : m + i \in 1 .. m + n /\ w[m + i] = us[i]
<2> SUFFICES ASSUME NEW i \in 1 .. n PROVE m + i \in 1 .. m + n /\ w[m + i] = us[i]
  OBVIOUS
<2>1. m + i \in 1 .. m + n /\ ~(m + i <= m) /\ (m + i) - m = i
  BY <1>1
<2> DEFINE x == m + i
<2> HIDE DEF x
<2>2. x \in 1 .. m + n /\ ~(x <= m) /\ x - m = i
  BY <2>1 DEF x
<2>3. w[x] = us[i]
  BY <1>2, <2>2
<2> QED BY <2>2, <2>3 DEF x
<1>6. ASSUME NEW i \in 1 .. m
      PROVE  /\ ts[i] \in Tile /\ ts[i].value # 0 /\ a[At(ts[i])] = ts[i].value
             /\ Across(dir, ts[i]) <= k /\ Across(dir, ts[i]) \in Nat
<2>1. ts[i] \in Tile
  BY <1>1 DEF m
<2>2. Across(dir, ts[i]) \in Nat
  BY <2>1, Sides DEF Across, Tile, Side
<2> QED BY <2>1, <2>2 DEF CoversLines, m
<1>7. ASSUME NEW i \in 1 .. n
      PROVE  /\ us[i].value # 0 /\ a[At(us[i])] = us[i].value
             /\ Across(dir, us[i]) = k + 1
  BY DEF CoversLine, n
<1>8. ASSUME NEW i \in 1 .. m, NEW j \in 1 .. n PROVE At(ts[i]) # At(us[j])
<2> SUFFICES ASSUME At(ts[i]) = At(us[j]) PROVE FALSE
  OBVIOUS
<2>1. ts[i].row = us[j].row /\ ts[i].col = us[j].col
  BY DEF At
<2>2. Across(dir, ts[i]) = Across(dir, us[j])
  BY <2>1 DEF Across
<2> QED BY <1>6, <1>7, <2>2
<1>9. ASSUME NEW i \in 1 .. m + n, NEW j \in 1 .. m + n, At(w[i]) = At(w[j]) PROVE i = j
<2>1. CASE i <= m /\ j <= m
<3>1. i \in 1 .. m /\ j \in 1 .. m /\ At(ts[i]) = At(ts[j])
  BY <1>3, <1>9, <2>1
<3> QED BY <3>1 DEF CoversLines, m
<2>2. CASE ~(i <= m) /\ ~(j <= m)
<3>1. i - m \in 1 .. n /\ j - m \in 1 .. n /\ At(us[i - m]) = At(us[j - m])
  BY <1>1, <1>3, <1>9, <2>2
<3>2. i - m = j - m
<4> DEFINE x == i - m
           y == j - m
<4> HIDE DEF x, y
<4>1. x \in 1 .. n /\ y \in 1 .. n /\ At(us[x]) = At(us[y])
  BY <3>1 DEF x, y
<4>2. x = y
  BY <4>1 DEF CoversLine, n
<4> QED BY <4>2 DEF x, y
<3> QED BY <1>1, <3>2
<2>3. CASE i <= m /\ ~(j <= m)
  BY <1>1, <1>3, <1>8, <1>9, <2>3
<2>4. CASE ~(i <= m) /\ j <= m
  BY <1>1, <1>3, <1>8, <1>9, <2>4
<2> QED BY <2>1, <2>2, <2>3, <2>4
<1>10. ASSUME NEW i \in 1 .. m + n
       PROVE  w[i].value # 0 /\ a[At(w[i])] = w[i].value /\ Across(dir, w[i]) <= k + 1
<2>1. CASE i \in 1 .. m /\ w[i] = ts[i]
  BY <1>6, <2>1
<2>2. CASE i - m \in 1 .. n /\ w[i] = us[i - m]
  BY <1>7, <2>2
<2> QED BY <1>3, <2>1, <2>2
<1>11. ASSUME NEW l \in 1 .. k + 1, NEW i \in Side, a[LineCell(dir, l, i)] # 0
       PROVE  \E j \in 1 .. m + n : At(w[j]) = LineCell(dir, l, i)
<2>1. CASE l \in 1 .. k
<3>1. PICK j \in 1 .. m : At(ts[j]) = LineCell(dir, l, i)
  BY <1>11, <2>1 DEF CoversLines, m
<3> QED BY <1>4, <3>1
<2>2. CASE l = k + 1
<3>1. PICK j \in 1 .. n : At(us[j]) = LineCell(dir, l, i)
  BY <1>11, <2>2 DEF CoversLine, n
<3> QED BY <1>5, <3>1
<2> QED BY <2>1, <2>2
<1>12. CoversLines(w, a, dir, k + 1)
  BY <1>2, <1>9, <1>10, <1>11 DEF CoversLines
<1> QED BY <1>12 DEF w

(* The tiles of a moved line cover the moved line of the board.            *)
LEMMA LineCovers ==
  ASSUME NEW b \in Board, NEW ts, Covers(ts, b), NEW dir, NEW l \in Side,
         NEW r, r = PlaceLine(dir, l, InLine(ts, dir, l))
  PROVE  CoversLine(r.placed, Moved(b, dir), dir, l)
<1> DEFINE p == r.placed
           a == Moved(b, dir)
           merged == Merged(b, dir, l)
           m == Len(merged)
<1>1. /\ p \in Seq(Tile) /\ Len(p) = m
      /\ \A j \in 1 .. m : p[j].value = merged[j] /\ At(p[j]) = LineCell(dir, l, j)
  BY LinePlaced DEF Alike, Merged
<1>2. m \in Nat /\ \A j \in 1 .. m : merged[j] # 0
  BY ValuesType, MergedTiles
<1>3. \A j \in 1 .. m : j \in Side
<2>1. PICK g : Comes(Line(b, dir, l), merged, g)
  BY LineComes
<2>2. g \in [1 .. m -> Side] /\ Increases(g, m)
  BY <2>1 DEF Comes
<2> HIDE DEF m
<2>3. m <= SIZE
  BY <1>2, <2>2, ListFits
<2> QED BY <1>2, <2>3, Sides DEF Side
<1>4. \A i \in Side : a[LineCell(dir, l, i)] = IF i <= m THEN merged[i] ELSE 0
  BY MoveCells
<1> HIDE DEF p, a, merged, m
<1>5. ASSUME NEW i \in 1 .. m, NEW j \in 1 .. m, At(p[i]) = At(p[j]) PROVE i = j
  BY <1>1, <1>3, <1>5, LineCells
<1>6. ASSUME NEW j \in 1 .. m
      PROVE  /\ p[j].value # 0 /\ a[At(p[j])] = p[j].value
             /\ Across(dir, p[j]) = l
<2>1. p[j] \in Tile /\ j \in Side /\ j <= m
  BY <1>1, <1>3
<2>2. a[LineCell(dir, l, j)] = merged[j]
  BY <1>4, <2>1
<2> QED BY <1>1, <1>2, <2>1, <2>2, TilePlace
<1>7. ASSUME NEW i \in Side, a[LineCell(dir, l, i)] # 0
      PROVE  \E j \in 1 .. m : At(p[j]) = LineCell(dir, l, i)
<2>1. i <= m
  BY <1>4, <1>7
<2>2. i \in 1 .. m
  BY <1>2, <2>1, Sides DEF Side
<2> QED BY <1>1, <2>2
<1> QED BY <1>1, <1>5, <1>6, <1>7 DEF CoversLine, p, a

(* A move of the client's is the server's.                                 *)
LEMMA MoveCovers ==
  ASSUME NEW b \in Board, NEW ts, Covers(ts, b), NEW dir
  PROVE  /\ Covers(Move(ts, dir).tiles, Moved(b, dir))
         /\ Move(ts, dir).gained = ApplyMove(b, dir).gained
         /\ Move(ts, dir).moved <=> ApplyMove(b, dir).moved
<1> DEFINE after == [l \in Side |-> PlaceLine(dir, l, InLine(ts, dir, l))]
           seqs == [l \in Side |-> after[l].placed]
           a == Moved(b, dir)
<1>1. /\ Move(ts, dir).tiles = FlattenSeq(seqs)
      /\ Move(ts, dir).gained = SumFunction([l \in Side |-> after[l].gained])
      /\ Move(ts, dir).moved = (\E l \in Side : after[l].moved)
  BY DEF Move
<1>2. ASSUME NEW l \in Side
      PROVE  /\ after[l].placed \in Seq(Tile) /\ after[l].gained = Gained(b, dir, l)
             /\ after[l].moved <=> ~Stays(b, dir, l)
             /\ CoversLine(after[l].placed, a, dir, l)
<2> DEFINE r == after[l]
<2>1. r = PlaceLine(dir, l, InLine(ts, dir, l))
  OBVIOUS
<2> HIDE DEF after, r
<2>2. /\ r.placed \in Seq(Tile) /\ Alike(dir, l, r, Merge(Values(b, dir, l)))
      /\ r.moved <=> ~Stays(b, dir, l)
  BY <2>1, LinePlaced
<2>3. CoversLine(r.placed, a, dir, l)
  BY <2>1, LineCovers
<2> QED BY <2>2, <2>3 DEF Alike, Gained, r
<1> HIDE DEF after
<1>3. Move(ts, dir).moved <=> ApplyMove(b, dir).moved
  BY <1>1, <1>2, MovedWhenNotStays
<1>4. [l \in Side |-> after[l].gained] = [l \in Side |-> Gained(b, dir, l)]
  BY <1>2
<1>5. Move(ts, dir).gained = ApplyMove(b, dir).gained
  BY <1>1, <1>4, MoveCells
<1>6. SIZE \in Nat /\ SIZE >= 2 /\ Side = 1 .. SIZE
  BY Sides DEF Side
<1>7. /\ seqs \in [1 .. SIZE -> Seq(Tile)]
      /\ \A l \in Side : CoversLine(seqs[l], a, dir, l)
  BY <1>2, <1>6
<1> HIDE DEF seqs, a
<1>8. PICK f : Behind(seqs, SIZE, f) /\ FlattenSeq(seqs) = f[SIZE]
  BY <1>6, <1>7, FlattenTrace
<1> DEFINE S == {k \in 0 .. SIZE : k > 0 => CoversLines(f[k], a, dir, k)}
<1>9. 0 \in S
  BY <1>6
<1>10. ASSUME NEW k \in 1 .. SIZE, k - 1 \in S PROVE k \in S
<2>1. k \in Side /\ k \in Nat /\ k \in 0 .. SIZE
  BY <1>6
<2>2. CoversLine(seqs[k], a, dir, k)
  BY <1>7, <2>1
<2>3. CASE k = 1
<3> DEFINE us == seqs[1]
<3>1. f[1] = us /\ CoversLine(us, a, dir, 1)
  BY <1>8, <2>2, <2>3 DEF Behind
<3> HIDE DEF us
<3>2. \A l \in 1 .. 1 : l = 1
  OBVIOUS
<3>3. CoversLines(us, a, dir, 1)
  BY <3>1, <3>2 DEF CoversLine, CoversLines
<3> QED BY <2>1, <2>3, <3>1, <3>3
<2>4. CASE k # 1
<3> DEFINE j == k - 1
<3>1. j \in Nat /\ j > 0 /\ j + 1 = k /\ k \in 2 .. SIZE
  BY <1>6, <2>4
<3>2. CoversLines(f[j], a, dir, j)
  BY <1>10, <3>1
<3>3. f[k] = f[j] \o seqs[k]
  BY <1>8, <3>1 DEF Behind
<3> HIDE DEF j
<3>4. CoversLine(seqs[k], a, dir, j + 1)
  BY <2>2, <3>1
<3>5. CoversLines(f[j] \o seqs[k], a, dir, j + 1)
  BY <3>1, <3>2, <3>4, NextLine
<3>6. CoversLines(f[k], a, dir, k)
  BY <3>1, <3>3, <3>5
<3> QED BY <2>1, <3>6
<2> QED BY <2>3, <2>4
<1>11. CoversLines(f[SIZE], a, dir, SIZE)
<2>1. SIZE \in S
<3> HIDE DEF S
<3> QED BY <1>6, <1>9, <1>10, UpTo
<2> QED BY <1>6, <2>1
<1>12. Covers(f[SIZE], a)
<2> DEFINE us == f[SIZE]
<2> HIDE DEF us
<2>1. CoversLines(us, a, dir, SIZE)
  BY <1>11 DEF us
<2>2. ASSUME NEW c \in Cells, a[c] # 0 PROVE \E j \in 1 .. Len(us) : At(us[j]) = c
<3>1. PICK l \in Side, i \in Side : c = LineCell(dir, l, i)
  BY LineCells
<3> QED BY <1>6, <2>1, <2>2, <3>1 DEF CoversLines
<2>3. Covers(us, a)
  BY <2>1, <2>2 DEF CoversLines, Covers
<2> QED BY <2>3 DEF us
<1> QED BY <1>1, <1>3, <1>5, <1>8, <1>12 DEF a

-----------------------------------------------------------------------------
(***************************************************************************)
(* The board the tiles show.                                               *)
(***************************************************************************)
Lay(b, t) == [b EXCEPT ![<<t.row, t.col>>] = t.value]

LaysStep(ts) == [x \in Board \X (1 .. Len(ts)) |-> Lay(x[1], ts[x[2]])]

LaidBy(ts, it) ==
  it = [s \in SUBSET DOMAIN ts |->
          IF s = {} THEN EmptyBoard ELSE Lay(it[s \ {Max(s)}], ts[Max(s)])]

(* TilesToBoard, tile by tile.                                             *)
LEMMA LayTrace ==
  ASSUME NEW ts \in Seq(Tile), NEW n \in Nat, n = Len(ts)
  PROVE  \E h \in [0 .. n -> Board] :
           /\ h[0] = EmptyBoard /\ h[n] = TilesToBoard(ts)
           /\ \A k \in 1 .. n : h[k] = Lay(h[k - 1], ts[k])
<1> DEFINE F == LaysStep(ts)
           T == Board
           b == EmptyBoard
<1>1. DOMAIN ts = 1 .. n /\ b \in T
  BY DEF EmptyBoard, Board
<1>2. F \in [T \X (1 .. n) -> T]
<2>1. \A x \in T \X (1 .. n) : x[1] \in Board /\ ts[x[2]] \in Tile
  OBVIOUS
<2>2. ASSUME NEW c \in Board, NEW t \in Tile PROVE Lay(c, t) \in Board
  BY DEF Lay, Board, Tile
<2>3. \A x \in T \X (1 .. n) : Lay(x[1], ts[x[2]]) \in Board
  BY <2>1, <2>2
<2> QED BY <2>3 DEF LaysStep
<1>3. PICK jt : FoldsBy(T, F, b, n, jt)
<2> HIDE DEF b, F, T
<2> QED BY <1>1, <1>2, FoldExists
<1>4. LaidBy(ts, jt)
<2>1. ASSUME NEW s \in SUBSET (1 .. n)
      PROVE  jt[s] = IF s = {} THEN b ELSE Lay(jt[s \ {Max(s)}], ts[Max(s)])
<3>1. CASE s = {}
  BY <3>1, <1>3 DEF FoldStep, FoldsBy
<3>2. CASE s # {}
<4>1. Max(s) \in 1 .. n
  BY <3>2, MaxIn
<4>2. jt[s \ {Max(s)}] \in T
  BY <1>3 DEF FoldsBy
<4>3. jt[s] = F[<<jt[s \ {Max(s)}], Max(s)>>]
  BY <1>3, <3>2 DEF FoldStep, FoldsBy
<4> QED BY <3>2, <4>1, <4>2, <4>3 DEF LaysStep
<3> QED BY <3>1, <3>2
<2>2. jt = [s \in SUBSET (1 .. n) |-> jt[s]]
  BY <1>3 DEF FoldsBy
<2> QED BY <1>1, <2>1, <2>2 DEF LaidBy
<1> DEFINE it == CHOOSE i : LaidBy(ts, i)
<1>5. TilesToBoard(ts) = it[1 .. n]
  BY <1>1 DEF TilesToBoard, FoldLeft, MapThenFoldSet, LaidBy, Lay
<1>6. LaidBy(ts, it)
  BY <1>4
<1> HIDE DEF it
<1>7. Folding(T, F, b, it, n)
<2>1. it[{}] = b
  BY <1>6 DEF LaidBy
<2>2. ASSUME NEW k \in 1 .. n, it[1 .. k - 1] \in T
      PROVE  it[1 .. k] = F[<<it[1 .. k - 1], k>>]
<3>1. k \in Nat /\ k # 0 /\ 1 .. k \in SUBSET DOMAIN ts
  BY <1>1
<3>2. (1 .. k) \ {Max(1 .. k)} = 1 .. k - 1 /\ Max(1 .. k) = k /\ 1 .. k # {}
  BY <3>1, SegmentStep
<3>3. it[1 .. k] = Lay(it[1 .. k - 1], ts[k])
  BY <3>1, <3>2, <1>6 DEF LaidBy
<3> QED BY <2>2, <3>3 DEF LaysStep
<2> QED BY <2>1, <2>2 DEF Folding
<1>8. Stepping(T, F, n)
  BY <1>2 DEF Stepping
<1>9. PICK h \in [0 .. n -> T] :
        /\ h[0] = b /\ h[n] = it[1 .. n]
        /\ \A k \in 1 .. n : h[k] = F[<<h[k - 1], k>>]
<2> HIDE DEF b, F, T
<2> QED BY <1>1, <1>7, <1>8, FoldingTrace
<1>10. ASSUME NEW k \in 1 .. n PROVE h[k] = Lay(h[k - 1], ts[k])
<2>1. k - 1 \in 0 .. n
  OBVIOUS
<2> QED BY <1>9, <2>1 DEF LaysStep
<1> QED BY <1>5, <1>9, <1>10

(* Tiles that cover a board show it.                                       *)
LEMMA TilesShow ==
  ASSUME NEW b \in Board, NEW ts, Covers(ts, b)
  PROVE  TilesToBoard(ts) = b
<1> DEFINE n == Len(ts)
<1>1. ts \in Seq(Tile) /\ n \in Nat
  BY DEF Covers
<1>2. PICK h \in [0 .. n -> Board] :
        /\ h[0] = EmptyBoard /\ h[n] = TilesToBoard(ts)
        /\ \A k \in 1 .. n : h[k] = Lay(h[k - 1], ts[k])
<2>1. n = Len(ts)
  OBVIOUS
<2> HIDE DEF n
<2> QED BY <1>1, <2>1, LayTrace
<1> HIDE DEF n
<1> DEFINE Shows(k) == \A c \in Cells :
                         /\ \A j \in 1 .. k : At(ts[j]) = c => h[k][c] = ts[j].value
                         /\ (\A j \in 1 .. k : At(ts[j]) # c) => h[k][c] = 0
           S == {k \in 0 .. n : Shows(k)}
<1>3. 0 \in S
<2>1. Shows(0)
  BY <1>2 DEF EmptyBoard
<2> QED BY <1>1, <2>1
<1>4. ASSUME NEW k \in 1 .. n, k - 1 \in S PROVE k \in S
<2> DEFINE p == k - 1
           old == h[p]
           new == h[k]
           t == ts[k]
<2>1. p \in Nat /\ p \in 0 .. n /\ k = p + 1 /\ k \in 0 .. n
  BY <1>1
<2>2. /\ old \in Board
      /\ \A c \in Cells : /\ \A j \in 1 .. p : At(ts[j]) = c => old[c] = ts[j].value
                          /\ (\A j \in 1 .. p : At(ts[j]) # c) => old[c] = 0
  BY <1>4, <2>1
<2>3. new = Lay(old, t) /\ t \in Tile
  BY <1>1, <1>2 DEF n
<2>4. \A j \in 1 .. p : At(ts[j]) # At(t)
  BY <1>1, <2>1 DEF Covers, n
<2>5. \A j \in 1 .. k : j \in 1 .. p \/ j = k
  BY <2>1
<2> HIDE DEF p, old, new
<2>6. ASSUME NEW c \in Cells PROVE new[c] = IF c = At(t) THEN t.value ELSE old[c]
  BY <2>2, <2>3, TileCell DEF Lay, At, Board
<2>7. ASSUME NEW c \in Cells, NEW j \in 1 .. k, At(ts[j]) = c PROVE new[c] = ts[j].value
  BY <2>2, <2>4, <2>5, <2>6, <2>7
<2>8. ASSUME NEW c \in Cells, \A j \in 1 .. k : At(ts[j]) # c PROVE new[c] = 0
<3>1. \A j \in 1 .. p : At(ts[j]) # c
  BY <2>1, <2>8
<3>2. c # At(t)
  BY <2>8
<3> QED BY <2>2, <2>6, <3>1, <3>2
<2>9. Shows(k)
  BY <2>7, <2>8 DEF new
<2> QED BY <2>1, <2>9
<1>5. Shows(n)
<2>1. n \in S
<3> HIDE DEF S
<3> QED BY <1>1, <1>3, <1>4, UpTo
<2> QED BY <2>1
<1> DEFINE d == h[n]
<1>6. d \in Board
  BY <1>1, <1>2
<1>7. ASSUME NEW c \in Cells PROVE d[c] = b[c]
<2>1. CASE b[c] # 0
<3>1. PICK j \in 1 .. n : At(ts[j]) = c
  BY <2>1 DEF Covers, n
<3>2. d[c] = ts[j].value
  BY <1>5, <3>1
<3> QED BY <3>1, <3>2 DEF Covers, n
<2>2. CASE b[c] = 0
<3>1. \A j \in 1 .. n : At(ts[j]) # c
  BY <2>2 DEF Covers, n
<3> QED BY <1>5, <2>2, <3>1
<2> QED BY <2>1, <2>2
<1> HIDE DEF d
<1>8. d = b
  BY <1>6, <1>7 DEF Board
<1> QED BY <1>2, <1>8 DEF d

(* They are as many as its cells that are not 0.                           *)
LEMMA TilesCount ==
  ASSUME NEW b \in Board, NEW ts, Covers(ts, b)
  PROVE  Len(ts) = Cardinality({c \in Cells : b[c] # 0})
<1> DEFINE n == Len(ts)
           A == {c \in Cells : b[c] # 0}
           f == [j \in 1 .. n |-> At(ts[j])]
<1>1. ts \in Seq(Tile) /\ n \in Nat
  BY DEF Covers
<1>2. ASSUME NEW j \in 1 .. n PROVE At(ts[j]) \in A
<2>1. At(ts[j]) \in Cells
  BY <1>1, TileCell
<2> QED BY <2>1 DEF Covers
<1>3. \A i, j \in 1 .. n : At(ts[i]) = At(ts[j]) => i = j
  BY DEF Covers
<1>4. \A c \in A : \E j \in 1 .. n : At(ts[j]) = c
  BY DEF Covers
<1> HIDE DEF A, n
<1>5. f \in [1 .. n -> A] /\ \A j \in 1 .. n : f[j] = At(ts[j])
  BY <1>2
<1> HIDE DEF f
<1>6. f \in Bijection(1 .. n, A)
  BY <1>3, <1>4, <1>5 DEF Bijection, Injection, IsInjective, Surjection
<1>7. ExistsBijection(1 .. n, A)
  BY <1>6 DEF ExistsBijection
<1>8. Cardinality(A) = n
  BY <1>1, <1>7, FS_CountingElements
<1> QED BY <1>8 DEF A, n

(* The client's test for game over is the server's.                        *)
LEMMA ClientTries ==
  ASSUME NEW b \in Board, NEW ts, Covers(ts, b)
  PROVE  CanMove(ts) <=> CanMoveAny(b)
<1> DEFINE A == {c \in Cells : b[c] # 0}
<1>1. Len(ts) = Cardinality(A)
  BY TilesCount
<1>2. A \in SUBSET Cells
  OBVIOUS
<1>3. Cardinality(A) < SIZE * SIZE <=> A # Cells
<2> DEFINE n == SIZE * SIZE
<2>1. Cardinality(Cells) = n /\ IsFiniteSet(Cells) /\ n \in Nat
  BY Sides, SquareSide
<2> HIDE DEF A, n
<2>2. IsFiniteSet(A) /\ Cardinality(A) <= n /\ (n = Cardinality(A) => Cells = A)
  BY <1>2, <2>1, FS_Subset
<2>3. Cardinality(A) \in Nat
  BY <2>2, FS_CardinalityType
<2>4. Cardinality(A) < n <=> A # Cells
  BY <2>1, <2>2, <2>3
<2> QED BY <2>4 DEF n
<1>4. A # Cells <=> \E c \in Cells : b[c] = 0
  OBVIOUS
<1>5. CanMove(ts) <=>
        \/ \E c \in Cells : b[c] = 0
        \/ \E c \in Cells : \/ c[2] < SIZE /\ b[c] = b[<<c[1], c[2] + 1>>]
                            \/ c[1] < SIZE /\ b[c] = b[<<c[1] + 1, c[2]>>]
<2> HIDE DEF A
<2> QED BY <1>1, <1>3, <1>4, TilesShow DEF CanMove
<1> QED BY <1>5 DEF CanMoveAny

-----------------------------------------------------------------------------
(***************************************************************************)
(* The two halves together.                                                *)
(***************************************************************************)
ReplayInv ==
  /\ BoardInv
  /\ Covers(tiles, board)
  /\ shown = score

(* The two halves start alike.                                             *)
LEMMA InitReplay == Init => ReplayInv
<1> SUFFICES ASSUME Init PROVE ReplayInv
  OBVIOUS
<1>1. PICK us \in [{1, 2} -> Draw], ws \in [{1, 2} -> Draw] :
        /\ board = Spawn(Spawn(EmptyBoard, us[1], ws[1]), us[2], ws[2])
        /\ tiles = SpawnTile(SpawnTile(<<>>, us[1], ws[1]), us[2], ws[2])
        /\ score = 0 /\ shown = 0
  BY DEF Init
<1> DEFINE b == Spawn(EmptyBoard, us[1], ws[1])
           ts == SpawnTile(<<>>, us[1], ws[1])
<1>2. us[1] \in Draw /\ ws[1] \in Draw /\ us[2] \in Draw /\ ws[2] \in Draw
  OBVIOUS
<1>3. EmptyBoard \in Board
  BY DEF EmptyBoard, Board
<1>4. b \in Board /\ Covers(ts, b)
  BY <1>2, <1>3, CoversEmpty, CoversSpawn, SpawnCells
<1> HIDE DEF b, ts
<1>5. Covers(SpawnTile(ts, us[2], ws[2]), Spawn(b, us[2], ws[2]))
  BY <1>2, <1>4, CoversSpawn
<1> QED BY <1>1, <1>5, InitBoard DEF ReplayInv, b, ts

(* A move keeps them alike.                                                *)
LEMMA NextReplay == ReplayInv /\ [Next]_vars => ReplayInv'
<1> SUFFICES ASSUME ReplayInv, [Next]_vars PROVE ReplayInv'
  OBVIOUS
<1>0. BoardInv'
  BY NextBoard DEF ReplayInv
<1>1. CASE UNCHANGED vars
  BY <1>0, <1>1 DEF ReplayInv, vars
<1>2. ASSUME NEW dir \in Direction, NEW u \in Draw, NEW w \in Draw,
             ReplayMove(dir, u, w), ApplyKey(dir, u, w)
      PROVE  ReplayInv'
<2> DEFINE r == ApplyMove(board, dir)
           q == Move(tiles, dir)
<2>1. board \in Board /\ Covers(tiles, board) /\ shown = score
  BY PowersBoard DEF ReplayInv, BoardInv
<2>2. /\ Covers(q.tiles, r.board) /\ q.gained = r.gained
      /\ q.moved <=> r.moved
      /\ r.board \in Board
  BY <2>1, MoveCovers, MoveCells DEF Moved
<2>3. CanMove(tiles) <=> CanMoveAny(board)
  BY <2>1, ClientTries
<2>4. CASE CanMoveAny(board) /\ r.moved
<3>1. board' = Spawn(r.board, u, w) /\ score' = score + r.gained
  BY <1>2, <2>4 DEF ReplayMove
<3>2. tiles' = SpawnTile(q.tiles, u, w) /\ shown' = shown + q.gained
  BY <1>2, <2>2, <2>3, <2>4 DEF ApplyKey
<3> HIDE DEF q, r
<3>3. Covers(SpawnTile(q.tiles, u, w), Spawn(r.board, u, w))
  BY <2>2, CoversSpawn
<3> QED BY <1>0, <2>1, <2>2, <3>1, <3>2, <3>3 DEF ReplayInv
<2>5. CASE ~(CanMoveAny(board) /\ r.moved)
<3>1. UNCHANGED <<board, score, fours>>
  BY <1>2, <2>5 DEF ReplayMove
<3>2. UNCHANGED <<tiles, shown>>
  BY <1>2, <2>2, <2>3, <2>5 DEF ApplyKey
<3> QED BY <1>0, <2>1, <3>1, <3>2 DEF ReplayInv
<2> QED BY <2>4, <2>5
<1> QED BY <1>1, <1>2 DEF Next

(* The inductive invariant holds.                                          *)
LEMMA ReplayInvariant == Spec => []ReplayInv
<1>1. Init => ReplayInv
  BY InitReplay
<1>2. ReplayInv /\ [Next]_vars => ReplayInv'
  BY NextReplay
<1> QED BY <1>1, <1>2, PTL DEF Spec

(* The types, and that every tile is a power of two that fits the board    *)
(* (replay.ts, game.ts).                                                   *)
THEOREM TypeCorrect == Spec => []TypeOK
<1>1. ReplayInv => TypeOK
  BY DEF ReplayInv, BoardInv, Powers, Covers, TypeOK
<1> QED BY <1>1, ReplayInvariant, PTL

(* What the client shows after a move, tile by tile and in points, is what *)
(* the server's replay of the same log computes: game.ts implements        *)
(* replay.ts.                                                              *)
THEOREM AgreeCorrect == Spec => []ClientAgrees
<1>1. ReplayInv => ClientAgrees
  BY PowersBoard, TilesShow, TilesCount DEF ReplayInv, BoardInv, ClientAgrees
<1> QED BY <1>1, ReplayInvariant, PTL

(* Both tests for game over are right: they say over exactly when no       *)
(* direction moves a tile (canMoveAny in replay.ts, canMove in game.ts).   *)
THEOREM StuckCorrect == Spec => []OverIsStuck
<1>1. ReplayInv => OverIsStuck
<2> SUFFICES ASSUME ReplayInv PROVE OverIsStuck
  OBVIOUS
<2>1. board \in Board /\ Covers(tiles, board) /\ \E c \in Cells : board[c] # 0
  BY PowersBoard DEF ReplayInv, BoardInv, HasTile
<2>2. CanMoveAny(board) <=> \E dir \in Direction : ApplyMove(board, dir).moved
  BY <2>1, TriesMoves
<2>3. CanMove(tiles) <=> CanMoveAny(board)
  BY <2>1, ClientTries
<2> QED BY <2>2, <2>3 DEF OverIsStuck
<1> QED BY <1>1, ReplayInvariant, PTL

-----------------------------------------------------------------------------
(***************************************************************************)
(* What the tiles are worth.                                               *)
(***************************************************************************)
(* Powers of two are different.                                            *)
LEMMA TwoTosRise ==
  ASSUME NEW k \in 1 .. MaxExponent, NEW j \in 1 .. MaxExponent, j < k
  PROVE  TwoTo[j] < TwoTo[k]
<1> DEFINE S == {i \in 0 .. k : \A x \in 1 .. MaxExponent : x < i => TwoTo[x] < TwoTo[i]}
<1>1. MaxExponent \in Nat /\ \A i \in 1 .. MaxExponent : TwoTo[i] \in Nat /\ TwoTo[i] > 0
  BY TwoTosGrow
<1>2. 0 \in S
  BY <1>1
<1>3. ASSUME NEW i \in 1 .. k, i - 1 \in S PROVE i \in S
<2> SUFFICES ASSUME NEW x \in 1 .. MaxExponent, x < i PROVE TwoTo[x] < TwoTo[i]
  BY <1>1
<2>1. i \in 2 .. MaxExponent /\ i - 1 \in 1 .. MaxExponent
  BY <1>1
<2>2. TwoTo[i] = 2 * TwoTo[i - 1]
  BY <2>1, TwoTos
<2>3. x = i - 1 \/ TwoTo[x] < TwoTo[i - 1]
  BY <1>1, <1>3
<2> QED BY <1>1, <2>1, <2>2, <2>3
<1>4. k \in S
<2> HIDE DEF S
<2> QED BY <1>1, <1>2, <1>3, UpTo
<1> QED BY <1>4

(* What a power of two is worth.                                           *)
LEMMA WorthOf ==
  ASSUME NEW k \in 1 .. MaxExponent
  PROVE  Worth(TwoTo[k]) = (k - 1) * TwoTo[k]
<1>1. TwoTo[k] # 0
  BY TwoTosGrow
<1>2. \A j \in 1 .. MaxExponent : TwoTo[j] = TwoTo[k] => j = k
<2> SUFFICES ASSUME NEW j \in 1 .. MaxExponent, j # k PROVE TwoTo[j] # TwoTo[k]
  OBVIOUS
<2>1. j < k \/ k < j
  BY TwoTosGrow
<2> QED BY <2>1, TwoTosRise, TwoTosGrow
<1>3. Exponent(TwoTo[k]) = k
  BY <1>2 DEF Exponent
<1> QED BY <1>1, <1>3 DEF Worth

(* What a value is worth, and 0 for what is no value of a tile.            *)
Price(v) == IF v \in Power THEN Worth(v) ELSE 0

(* A merge gains what its tile is worth more than the two it is made of.   *)
LEMMA Prices ==
  /\ \A v : Price(v) \in Nat
  /\ Price(0) = 0 /\ Price(2) = 0 /\ Price(4) = 4
  /\ \A v \in Power : v < TwoTo[MaxExponent] => Price(2 * v) = 2 * Price(v) + 2 * v
<1>1. /\ MaxExponent \in Nat /\ MaxExponent >= 5 /\ TwoTo[1] = 2 /\ TwoTo[2] = 4
      /\ \A k \in 1 .. MaxExponent : TwoTo[k] \in Nat /\ TwoTo[k] > 0
  BY TwoTosGrow
<1>2. \A k \in 1 .. MaxExponent : Price(TwoTo[k]) = (k - 1) * TwoTo[k]
  BY PowerNumbers, WorthOf DEF Price
<1>3. \A a, x \in Nat : a * x \in Nat /\ (a + 1) * (2 * x) = 2 * (a * x) + 2 * x
  OBVIOUS
<1>4. ASSUME NEW v PROVE Price(v) \in Nat
<2>1. CASE v \in Power
<3>1. PICK k \in 1 .. MaxExponent : v = TwoTo[k]
  BY <2>1 DEF Power
<3>2. k - 1 \in Nat /\ v \in Nat /\ Price(v) = (k - 1) * v
  BY <1>1, <1>2, <3>1
<3> QED BY <1>3, <3>2
<2>2. CASE v \notin Power
  BY <2>2 DEF Price
<2> QED BY <2>1, <2>2
<1>5. Price(0) = 0
  BY PowerNumbers DEF Price
<1>6. Price(2) = 0 /\ Price(4) = 4
<2>1. 1 \in 1 .. MaxExponent /\ 2 \in 1 .. MaxExponent
  BY <1>1
<2>2. Price(2) = (1 - 1) * 2 /\ Price(4) = (2 - 1) * 4
  BY <1>1, <1>2, <2>1
<2> QED BY <2>2
<1>7. ASSUME NEW v \in Power, v < TwoTo[MaxExponent] PROVE Price(2 * v) = 2 * Price(v) + 2 * v
<2>1. PICK k \in 1 .. MaxExponent : v = TwoTo[k]
  BY DEF Power
<2>2. k # MaxExponent
  BY <1>1, <1>7, <2>1
<2>3. k + 1 \in 2 .. MaxExponent /\ k + 1 \in 1 .. MaxExponent /\ k - 1 \in Nat
  BY <1>1, <2>2
<2>4. TwoTo[k + 1] = 2 * v
<3>1. (k + 1) - 1 = k
  OBVIOUS
<3> QED BY <2>1, <2>3, <3>1, TwoTos
<2>5. Price(v) = (k - 1) * v
  BY <1>2, <2>1
<2>6. Price(2 * v) = ((k + 1) - 1) * (2 * v)
  BY <1>2, <2>3, <2>4
<2>7. v \in Nat
  BY <1>1, <2>1
<2>8. Price(2 * v) = ((k - 1) + 1) * (2 * v)
<3>1. (k + 1) - 1 = (k - 1) + 1
  OBVIOUS
<3> QED BY <2>6, <3>1
<2> HIDE DEF Price
<2> QED BY <1>3, <2>3, <2>5, <2>7, <2>8
<1> QED BY <1>4, <1>5, <1>6, <1>7

-----------------------------------------------------------------------------
(***************************************************************************)
(* What a sequence of values is worth.                                     *)
(***************************************************************************)
Weight(s) == SumFunction([j \in 1 .. Len(s) |-> Price(s[j])])

(* A sequence with one value more.                                         *)
LEMMA WeightLonger ==
  ASSUME NEW n \in Nat, NEW s, n = Len(s), NEW t, n + 1 = Len(t),
         \A j \in 1 .. n : t[j] = s[j]
  PROVE  Weight(t) = Weight(s) + Price(t[n + 1]) /\ Weight(s) \in Nat
<1> DEFINE f == [j \in 1 .. n + 1 |-> Price(t[j])]
           g == [j \in 1 .. n |-> Price(s[j])]
<1>1. f \in [1 .. n + 1 -> Nat] /\ g \in [1 .. n -> Nat]
<2>1. (\A j \in 1 .. n + 1 : Price(t[j]) \in Nat) /\ \A j \in 1 .. n : Price(s[j]) \in Nat
  BY Prices
<2> QED BY <2>1
<1>2. \A j \in 1 .. n : g[j] = f[j]
  OBVIOUS
<1>3. f[n + 1] = Price(t[n + 1])
  OBVIOUS
<1>4. Weight(t) = SumFunction(f) /\ Weight(s) = SumFunction(g)
  BY DEF Weight
<1> HIDE DEF f, g
<1> QED BY <1>1, <1>2, <1>3, <1>4, SumLast

(* A sequence with another last value.                                     *)
LEMMA WeightReplaced ==
  ASSUME NEW n \in Nat, n > 0, NEW s, n = Len(s), NEW t, n = Len(t),
         \A j \in 1 .. n - 1 : t[j] = s[j]
  PROVE  Weight(t) + Price(s[n]) = Weight(s) + Price(t[n])
<1> DEFINE r == [j \in 1 .. n - 1 |-> s[j]]
           m == n - 1
<1>1. /\ m \in Nat /\ m + 1 = n /\ m = Len(r) /\ m + 1 = Len(s) /\ m + 1 = Len(t)
      /\ \A j \in 1 .. m : s[j] = r[j] /\ t[j] = r[j]
  OBVIOUS
<1> HIDE DEF r, m
<1>2. Weight(t) = Weight(r) + Price(t[m + 1]) /\ Weight(r) \in Nat
  BY <1>1, WeightLonger
<1>3. Weight(s) = Weight(r) + Price(s[m + 1])
  BY <1>1, WeightLonger
<1>4. Price(t[n]) \in Nat /\ Price(s[n]) \in Nat
  BY Prices
<1> QED BY <1>1, <1>2, <1>3, <1>4

-----------------------------------------------------------------------------
(***************************************************************************)
(* A line before and after a merge.                                        *)
(***************************************************************************)
LEMMA WeightType ==
  ASSUME NEW n \in Nat, NEW s, n = Len(s)
  PROVE  Weight(s) \in Nat
<1> DEFINE f == [j \in 1 .. n |-> Price(s[j])]
<1>1. f \in [1 .. n -> Nat]
<2>1. \A j \in 1 .. n : Price(s[j]) \in Nat
  BY Prices
<2> QED BY <2>1
<1>2. Weight(s) = SumFunction(f)
  BY DEF Weight
<1> HIDE DEF f
<1>3. PICK h : Partial(f, n, h) /\ h[n] = SumFunction(f)
  BY <1>1, SumTrace
<1> QED BY <1>2, <1>3 DEF Partial

(* Neighbours that can merge make a tile that exists.                      *)
Fits(vs) ==
  \A k \in 1 .. Len(vs) - 1 : vs[k] = vs[k + 1] => vs[k] \in Power /\ vs[k] < TwoTo[MaxExponent]

(* After k values, with p the sums of their prices.                        *)
Balanced(vs, k, p, acc) ==
  /\ acc.canMerge => k > 0 /\ Len(acc.merged) > 0 /\ acc.merged[Len(acc.merged)] = vs[k]
  /\ Weight(acc.merged) = p[k] + acc.gained

(* A merge step keeps the balance of points and prices.                    *)
LEMMA MergeBalances ==
  ASSUME NEW vs \in Seq(Nat), Fits(vs), NEW p, NEW k \in 1 .. Len(vs), NEW acc \in Merging,
         Balanced(vs, k - 1, p, acc), p[k - 1] \in Nat, p[k] = p[k - 1] + Price(vs[k])
  PROVE  Balanced(vs, k, p, MergeStep(acc, vs[k]))
<1> DEFINE v == vs[k]
           n == Len(acc.merged)
           new == MergeStep(acc, v)
<1>1. v \in Nat /\ n \in Nat /\ acc.gained \in Nat /\ k > 0
  BY DEF Merging
<1>2. n > 0 => Last(acc.merged) = acc.merged[n]
  BY DEF Last
<1>3. Price(v) \in Nat /\ p[k] = p[k - 1] + Price(v) /\ p[k - 1] \in Nat
  BY Prices
<1>4. Weight(acc.merged) = p[k - 1] + acc.gained
  BY DEF Balanced
<1> HIDE DEF n
<1>5. CASE acc.canMerge /\ Last(acc.merged) = v
<2>1. n > 0 /\ acc.merged[n] = vs[k - 1] /\ k - 1 > 0
  BY <1>5 DEF Balanced, n
<2>2. Joined(acc, v, n, new)
  BY <1>1, <1>5, <2>1, MergeJoins DEF n
<2>3. v \in Power /\ v < TwoTo[MaxExponent]
<3>1. vs[k - 1] = v
  BY <1>2, <1>5, <2>1
<3>2. k - 1 \in 1 .. Len(vs) - 1 /\ (k - 1) + 1 = k
  BY <2>1
<3>3. vs[k - 1] = vs[(k - 1) + 1]
  BY <3>1, <3>2
<3> QED BY <3>1, <3>2, <3>3 DEF Fits
<2>4. Price(2 * v) = 2 * Price(v) + 2 * v
  BY <2>3, Prices
<2>5. /\ Len(new.merged) = n /\ new.merged[n] = 2 * v
      /\ \A j \in 1 .. n - 1 : new.merged[j] = acc.merged[j]
      /\ ~new.canMerge /\ new.gained = acc.gained + 2 * v
  BY <2>2 DEF Joined
<2>6. acc.merged[n] = v
  BY <1>2, <1>5, <2>1
<2>7. Weight(new.merged) + Price(acc.merged[n]) = Weight(acc.merged) + Price(new.merged[n])
<3> DEFINE s == acc.merged
           t == new.merged
<3>1. n = Len(s) /\ n = Len(t) /\ \A j \in 1 .. n - 1 : t[j] = s[j]
  BY <2>5 DEF n
<3> HIDE DEF new, v, s, t
<3>2. Weight(t) + Price(s[n]) = Weight(s) + Price(t[n])
  BY <1>1, <2>1, <3>1, WeightReplaced
<3> QED BY <3>2 DEF s, t
<2>8. Weight(new.merged) \in Nat
<3> DEFINE t == new.merged
<3>1. n = Len(t)
  BY <2>5
<3> HIDE DEF t, new
<3>2. Weight(t) \in Nat
  BY <1>1, <3>1, WeightType
<3> QED BY <3>2 DEF t
<2>9. Weight(new.merged) = p[k] + new.gained
<3> DEFINE x == Weight(new.merged)
           y == Price(v)
           z == p[k - 1]
           g == acc.gained
<3>1. x + y = (z + g) + (2 * y + 2 * v)
  BY <1>4, <2>4, <2>5, <2>6, <2>7
<3>2. x \in Nat /\ y \in Nat /\ z \in Nat /\ g \in Nat /\ v \in Nat
  BY <1>1, <1>3, <2>8
<3>3. p[k] = z + y /\ new.gained = g + 2 * v
  BY <1>3, <2>5
<3> HIDE DEF x, y, z, g, v, new
<3>4. x = (z + y) + (g + 2 * v)
  BY <3>1, <3>2
<3> QED BY <3>3, <3>4 DEF x
<2> HIDE DEF new, v
<2> QED BY <2>5, <2>9 DEF Balanced, v, new
<1>6. CASE ~(acc.canMerge /\ Last(acc.merged) = v)
<2>1. Pushed(acc, v, n, new)
  BY <1>1, <1>6, MergePuts DEF n
<2>2. /\ Len(new.merged) = n + 1 /\ new.merged[n + 1] = v
      /\ \A j \in 1 .. n : new.merged[j] = acc.merged[j]
      /\ new.canMerge /\ new.gained = acc.gained
  BY <2>1 DEF Pushed
<2>3. Weight(new.merged) = Weight(acc.merged) + Price(v) /\ Weight(acc.merged) \in Nat
<3> DEFINE s == acc.merged
           t == new.merged
<3>1. n = Len(s) /\ n + 1 = Len(t) /\ t[n + 1] = v /\ \A j \in 1 .. n : t[j] = s[j]
  BY <2>2 DEF n
<3> HIDE DEF new, v, s, t
<3>2. Weight(t) = Weight(s) + Price(t[n + 1]) /\ Weight(s) \in Nat
  BY <1>1, <3>1, WeightLonger
<3> QED BY <3>1, <3>2 DEF s, t
<2>4. Weight(new.merged) = p[k] + new.gained
  BY <1>1, <1>3, <1>4, <2>2, <2>3
<2>5. Len(new.merged) > 0 /\ new.merged[Len(new.merged)] = v
  BY <1>1, <2>2
<2> HIDE DEF new
<2> QED BY <1>1, <2>4, <2>5 DEF Balanced, new
<1> QED BY <1>5, <1>6

(* An empty sequence is worth nothing.                                     *)
LEMMA WeightEmpty ==
  ASSUME NEW s, Len(s) = 0
  PROVE  Weight(s) = 0
<1> DEFINE f == [j \in 1 .. Len(s) |-> Price(s[j])]
<1>1. f \in [1 .. 0 -> Nat]
<2>1. 1 .. Len(s) = {} /\ 1 .. 0 = {}
  OBVIOUS
<2> QED BY <2>1
<1>2. Weight(s) = SumFunction(f)
  BY DEF Weight
<1> HIDE DEF f
<1> DEFINE n == 0
<1>3. n \in Nat /\ f \in [1 .. n -> Nat]
  BY <1>1
<1> HIDE DEF n
<1>4. PICK h : Partial(f, n, h) /\ h[n] = SumFunction(f)
  BY <1>3, SumTrace
<1>5. h[0] = 0
  BY <1>4 DEF Partial
<1> QED BY <1>2, <1>4, <1>5 DEF n

(* A merged line is worth what it gained more than the line.               *)
LEMMA MergeWeighs ==
  ASSUME NEW vs \in Seq(Nat), Fits(vs)
  PROVE  Weight(Merge(vs).merged) = Weight(vs) + Merge(vs).gained
<1> DEFINE n == Len(vs)
           f == [j \in 1 .. n |-> Price(vs[j])]
<1>0. n \in Nat
  OBVIOUS
<1>1. PICK h \in [0 .. n -> Merging] :
        /\ h[0] = MergeNothing /\ h[n] = Merge(vs)
        /\ \A k \in 1 .. n : h[k] = MergeStep(h[k - 1], vs[k])
  BY <1>0, MergeTrace
<1>2. f \in [1 .. n -> Nat]
<2>1. \A j \in 1 .. n : Price(vs[j]) \in Nat
  BY Prices
<2> QED BY <2>1
<1>3. Weight(vs) = SumFunction(f) /\ \A k \in 1 .. n : f[k] = Price(vs[k])
  BY DEF Weight
<1> HIDE DEF f
<1>4. PICK p : Partial(f, n, p) /\ p[n] = SumFunction(f)
  BY <1>0, <1>2, SumTrace
<1> DEFINE S == {k \in 0 .. n : Balanced(vs, k, p, h[k])}
<1>5. 0 \in S
<2>1. ~MergeNothing.canMerge /\ MergeNothing.gained = 0 /\ Len(MergeNothing.merged) = 0
  BY DEF MergeNothing
<2>2. Weight(MergeNothing.merged) = 0
  BY <2>1, WeightEmpty
<2>3. p[0] = 0
  BY <1>4 DEF Partial
<2>4. Balanced(vs, 0, p, MergeNothing)
  BY <2>1, <2>2, <2>3 DEF Balanced
<2> QED BY <1>0, <1>1, <2>4
<1>6. ASSUME NEW k \in 1 .. n, k - 1 \in S PROVE k \in S
<2>1. k - 1 \in 0 .. n /\ k \in 0 .. n /\ h[k - 1] \in Merging
  BY <1>0
<2>2. Balanced(vs, k - 1, p, h[k - 1])
  BY <1>6
<2>3. p[k] = p[k - 1] + Price(vs[k]) /\ p[k - 1] \in Nat
  BY <1>3, <1>4, <2>1 DEF Partial
<2>4. k \in 1 .. Len(vs)
  OBVIOUS
<2>5. Balanced(vs, k, p, MergeStep(h[k - 1], vs[k]))
  BY <2>1, <2>2, <2>3, <2>4, MergeBalances
<2> QED BY <1>1, <2>1, <2>5
<1>7. n \in S
<2> HIDE DEF S
<2> QED BY <1>0, <1>5, <1>6, UpTo
<1>8. Weight(h[n].merged) = p[n] + h[n].gained
  BY <1>7 DEF Balanced
<1> QED BY <1>1, <1>3, <1>4, <1>8

LineSum(b, dir, l) == SumFunction([i \in Side |-> Price(b[LineCell(dir, l, i)])])

(* What the cells of a line are worth together is a number.                *)
LEMMA LineSumTrace ==
  ASSUME NEW b, NEW dir, NEW l
  PROVE  \E p : /\ p \in [0 .. SIZE -> Nat] /\ p[0] = 0 /\ p[SIZE] = LineSum(b, dir, l)
                /\ \A i \in Side : p[i] = p[i - 1] + Price(b[LineCell(dir, l, i)])
<1> DEFINE f == [i \in Side |-> Price(b[LineCell(dir, l, i)])]
<1>1. SIZE \in Nat /\ Side = 1 .. SIZE
  BY Sides DEF Side
<1>2. f \in [1 .. SIZE -> Nat] /\ \A i \in Side : f[i] = Price(b[LineCell(dir, l, i)])
<2>1. \A i \in Side : Price(b[LineCell(dir, l, i)]) \in Nat
  BY Prices
<2> QED BY <1>1, <2>1
<1>3. LineSum(b, dir, l) = SumFunction(f)
  BY DEF LineSum
<1> HIDE DEF f
<1>4. PICK h : Partial(f, SIZE, h) /\ h[SIZE] = SumFunction(f)
  BY <1>1, <1>2, SumTrace
<1> QED BY <1>1, <1>2, <1>3, <1>4 DEF Partial

(* The holes of a line are worth nothing.                                  *)
LEMMA LineWeighs ==
  ASSUME NEW b \in Board, NEW dir, NEW l \in Side
  PROVE  Weight(Values(b, dir, l)) = LineSum(b, dir, l)
<1> DEFINE line == Line(b, dir, l)
<1>1. SIZE \in Nat /\ Side = 1 .. SIZE
  BY Sides DEF Side
<1>2. /\ line \in Seq(Nat) /\ SIZE = Len(line)
      /\ \A i \in Side : line[i] = b[LineCell(dir, l, i)]
  BY LineType
<1>3. Values(b, dir, l) = FoldLeft(PushValue, <<>>, line)
  BY DEF Values
<1> HIDE DEF line
<1>4. PICK h \in [0 .. SIZE -> Seq(Nat)] :
        /\ h[0] = <<>> /\ h[SIZE] = FoldLeft(PushValue, <<>>, line)
        /\ \A k \in 1 .. SIZE : h[k] = PushValue(h[k - 1], line[k])
  BY <1>1, <1>2, PushTrace
<1>5. PICK p : /\ p \in [0 .. SIZE -> Nat] /\ p[0] = 0 /\ p[SIZE] = LineSum(b, dir, l)
               /\ \A i \in Side : p[i] = p[i - 1] + Price(b[LineCell(dir, l, i)])
  BY LineSumTrace
<1> DEFINE S == {k \in 0 .. SIZE : Weight(h[k]) = p[k]}
<1>6. 0 \in S
<2>1. Len(h[0]) = 0
  BY <1>4
<2> QED BY <1>1, <1>5, <2>1, WeightEmpty
<1>7. ASSUME NEW k \in 1 .. SIZE, k - 1 \in S PROVE k \in S
<2> DEFINE s == h[k - 1]
           t == h[k]
           n == Len(s)
<2>1. /\ k - 1 \in 0 .. SIZE /\ k \in 0 .. SIZE /\ k \in Side
      /\ s \in Seq(Nat) /\ t \in Seq(Nat) /\ Weight(s) = p[k - 1]
  BY <1>1, <1>7
<2>2. t = PushValue(s, line[k]) /\ line[k] = b[LineCell(dir, l, k)]
  BY <1>2, <1>4, <2>1
<2>3. p[k] = p[k - 1] + Price(line[k]) /\ p[k - 1] \in Nat
  BY <1>2, <1>5, <2>1
<2> HIDE DEF s, t
<2>4. CASE line[k] = 0
<3>1. t = s /\ Price(line[k]) = 0
  BY <2>2, <2>4, Prices DEF PushValue
<3>2. Weight(t) = p[k]
  BY <2>1, <2>3, <3>1
<3> QED BY <2>1, <3>2 DEF t
<2>5. CASE line[k] # 0
<3>1. t = Append(s, line[k])
  BY <2>2, <2>5 DEF PushValue
<3>2. /\ n \in Nat /\ n + 1 = Len(t) /\ t[n + 1] = line[k]
      /\ \A j \in 1 .. n : t[j] = s[j]
  BY <2>1, <3>1
<3>3. n = Len(s)
  OBVIOUS
<3> HIDE DEF n
<3>4. Weight(t) = Weight(s) + Price(t[n + 1])
  BY <3>2, <3>3, WeightLonger
<3>5. Weight(t) = p[k]
  BY <2>1, <2>3, <3>2, <3>4
<3> QED BY <2>1, <3>5 DEF t
<2> QED BY <2>4, <2>5
<1>8. SIZE \in S
<2> HIDE DEF S
<2> QED BY <1>1, <1>6, <1>7, UpTo
<1> QED BY <1>3, <1>4, <1>5, <1>8

(* After a move a line holds its merged values, and holes.                 *)
LEMMA MovedLineWeighs ==
  ASSUME NEW b \in Board, NEW dir, NEW l \in Side
  PROVE  LineSum(Moved(b, dir), dir, l) = Weight(Merged(b, dir, l))
<1> DEFINE a == Moved(b, dir)
           merged == Merged(b, dir, l)
           m == Len(merged)
           f == [i \in Side |-> Price(a[LineCell(dir, l, i)])]
           g == [j \in 1 .. m |-> Price(merged[j])]
<1>1. SIZE \in Nat /\ Side = 1 .. SIZE
  BY Sides DEF Side
<1>2. m \in 0 .. SIZE
<2>1. merged \in Seq(Nat)
  BY ValuesType
<2>2. PICK e : Comes(Line(b, dir, l), merged, e)
  BY LineComes
<2>3. m \in Nat /\ e \in [1 .. m -> Side] /\ Increases(e, m)
  BY <2>1, <2>2 DEF Comes
<2> HIDE DEF m, merged
<2>4. m <= SIZE
  BY <2>3, ListFits
<2> QED BY <1>1, <2>3, <2>4
<1>3. f \in [1 .. SIZE -> Nat] /\ g \in [1 .. m -> Nat]
<2>1. /\ \A i \in Side : Price(a[LineCell(dir, l, i)]) \in Nat
      /\ \A j \in 1 .. m : Price(merged[j]) \in Nat
  BY Prices
<2> QED BY <1>1, <2>1
<1>4. \A i \in Side : a[LineCell(dir, l, i)] = IF i <= m THEN merged[i] ELSE 0
  BY MoveCells
<1>5. \A j \in 1 .. m : g[j] = f[j]
  BY <1>1, <1>2, <1>4
<1>6. \A i \in m + 1 .. SIZE : f[i] = 0
<2> SUFFICES ASSUME NEW i \in m + 1 .. SIZE PROVE f[i] = 0
  OBVIOUS
<2>1. i \in Side /\ ~(i <= m)
  BY <1>1, <1>2
<2> HIDE DEF a, m
<2>2. a[LineCell(dir, l, i)] = 0
  BY <1>4, <2>1
<2> QED BY <2>1, <2>2, Prices
<1>7. LineSum(a, dir, l) = SumFunction(f) /\ Weight(merged) = SumFunction(g)
  BY DEF LineSum, Weight
<1> HIDE DEF f, g, m, a, merged
<1>8. SumFunction(f) = SumFunction(g)
  BY <1>1, <1>2, <1>3, <1>5, <1>6, SumPadded
<1> QED BY <1>7, <1>8 DEF a, merged

(* In a tower two equal tiles are not the tallest.                         *)
LEMMA LineFits ==
  ASSUME NEW b, Powers(b), Tower(b), NEW dir, NEW l \in Side
  PROVE  Fits(Values(b, dir, l))
<1> DEFINE vs == Values(b, dir, l)
           line == Line(b, dir, l)
<1>1. b \in Board
  BY PowersBoard
<1>2. PICK e : Picks(line, SIZE, vs, e)
  BY <1>1, ValuesPick
<1>3. /\ SIZE \in Nat /\ Side = 1 .. SIZE
      /\ \A i \in Side : line[i] = b[LineCell(dir, l, i)]
  BY <1>1, Sides, LineType DEF Side
<1> HIDE DEF vs, line
<1> SUFFICES ASSUME NEW k \in 1 .. Len(vs) - 1, vs[k] = vs[k + 1]
             PROVE  vs[k] \in Power /\ vs[k] < TwoTo[MaxExponent]
  BY DEF Fits, vs
<1>4. /\ vs \in Seq(Nat) /\ Len(vs) \in Nat
      /\ \A j \in 1 .. Len(vs) : /\ e[j] \in Side /\ vs[j] = line[e[j]] /\ vs[j] > 0
      /\ \A i, j \in 1 .. Len(vs) : i < j => e[i] < e[j]
  BY <1>2, <1>3 DEF Picks, Lists, Increases, Filled
<1>5. k \in 1 .. Len(vs) /\ k + 1 \in 1 .. Len(vs) /\ k < k + 1
  BY <1>4
<1> DEFINE c == LineCell(dir, l, e[k])
           d == LineCell(dir, l, e[k + 1])
<1>6. e[k] \in Side /\ e[k + 1] \in Side /\ e[k] # e[k + 1]
  BY <1>3, <1>4, <1>5
<1>7. c \in Cells /\ d \in Cells /\ c # d
  BY <1>6, LineCells
<1>8. b[c] = vs[k] /\ b[d] = vs[k] /\ vs[k] > 0
  BY <1>3, <1>4, <1>5, <1>6
<1> HIDE DEF c, d
<1>9. b[c] < TwoTo[MaxExponent]
  BY <1>1, <1>7, <1>8, TallestAlone
<1>10. b[c] \in Power
  BY <1>7, <1>8 DEF Powers
<1> QED BY <1>8, <1>9, <1>10

(* So a line is worth what it gains more after a move than before.         *)
LEMMA LineGains ==
  ASSUME NEW b, Powers(b), Tower(b), NEW dir, NEW l \in Side
  PROVE  LineSum(Moved(b, dir), dir, l) = LineSum(b, dir, l) + Gained(b, dir, l)
<1>1. b \in Board
  BY PowersBoard
<1>2. Values(b, dir, l) \in Seq(Nat) /\ Fits(Values(b, dir, l))
  BY <1>1, ValuesType, LineFits
<1>3. Weight(Merged(b, dir, l)) = Weight(Values(b, dir, l)) + Gained(b, dir, l)
  BY <1>2, MergeWeighs DEF Merged, Gained
<1> QED BY <1>1, <1>3, LineWeighs, MovedLineWeighs

-----------------------------------------------------------------------------
(***************************************************************************)
(* What a board is worth, by lines and by cells.                           *)
(***************************************************************************)
BoardSum(b) == SumFunction([c \in Cells |-> Price(b[c])])

(* The cells of a board, added up line by line in any direction.           *)
LEMMA SumBySides ==
  ASSUME NEW b, NEW dir
  PROVE  BoardSum(b) = SumFunction([l \in Side |-> LineSum(b, dir, l)])
<1> DEFINE g == [c \in Cells |-> Price(b[c])]
           f == [l \in Side |-> LineSum(b, dir, l)]
           Below(k) == {LineCell(dir, l, i) : l \in 1 .. k, i \in Side}
<1>1. SIZE \in Nat /\ Side = 1 .. SIZE /\ IsFiniteSet(Cells)
  BY Sides DEF Side
<1>2. g \in [Cells -> Nat] /\ \A c \in Cells : g[c] = Price(b[c])
<2>1. \A c \in Cells : Price(b[c]) \in Nat
  BY Prices
<2> QED BY <2>1
<1>3. f \in [1 .. SIZE -> Nat] /\ \A l \in Side : f[l] = LineSum(b, dir, l)
<2>1. ASSUME NEW l \in Side PROVE LineSum(b, dir, l) \in Nat
<3>1. PICK p : /\ p \in [0 .. SIZE -> Nat] /\ p[0] = 0 /\ p[SIZE] = LineSum(b, dir, l)
               /\ \A i \in Side : p[i] = p[i - 1] + Price(b[LineCell(dir, l, i)])
  BY LineSumTrace
<3> QED BY <1>1, <3>1
<2> QED BY <1>1, <2>1
<1>4. BoardSum(b) = SumFunction(g)
  BY DEF BoardSum
<1> HIDE DEF g, f
<1>5. PICK it : Sums(Cells, g, it) /\ it[Cells] = SumFunction(g)
  BY <1>1, <1>2, SumOf
<1>6. PICK h : Partial(f, SIZE, h) /\ h[SIZE] = SumFunction(f)
  BY <1>1, <1>3, SumTrace
<1> DEFINE Q == {k \in 0 .. SIZE : it[Below(k)] = h[k]}
<1>7. 0 \in Q
<2>1. Below(0) = {}
  OBVIOUS
<2>2. it[{}] = 0 /\ h[0] = 0
  BY <1>5, <1>6 DEF Sums, Partial
<2> HIDE DEF Below
<2> QED BY <1>1, <2>1, <2>2
<1>8. ASSUME NEW k \in 1 .. SIZE, k - 1 \in Q PROVE k \in Q
<2> DEFINE c == [i \in 1 .. SIZE |-> LineCell(dir, k, i)]
           S == Below(k - 1)
<2>1. /\ c \in [1 .. SIZE -> Cells]
      /\ \A i, j \in 1 .. SIZE : c[i] = c[j] => i = j
  BY <1>1, LineCells
<2>2. S \in SUBSET Cells
<3>1. \A l \in 1 .. k - 1 : l \in Side
  BY <1>1
<3> QED BY <3>1, LineCells
<2>3. ASSUME NEW i \in 1 .. SIZE PROVE c[i] \notin S
<3> SUFFICES ASSUME NEW l \in 1 .. k - 1, NEW j \in Side, c[i] = LineCell(dir, l, j) PROVE FALSE
  OBVIOUS
<3>1. l \in Side /\ k \in Side /\ i \in Side /\ l # k
  BY <1>1
<3> QED BY <3>1, LineCells
<2>4. S \cup {c[i] : i \in 1 .. SIZE} = Below(k)
<3>1. \A l : l \in 1 .. k <=> l \in 1 .. k - 1 \/ l = k
  OBVIOUS
<3>2. \A x : x \in S \cup {c[i] : i \in 1 .. SIZE} <=> x \in Below(k)
  BY <1>1, <3>1
<3> HIDE DEF Below, S
<3> QED BY <3>2
<2>5. SumFunction([i \in 1 .. SIZE |-> g[c[i]]]) = f[k]
<3>1. [i \in 1 .. SIZE |-> g[c[i]]] = [i \in Side |-> Price(b[LineCell(dir, k, i)])]
  BY <1>1, <1>2, LineCells
<3>2. f[k] = LineSum(b, dir, k)
  BY <1>1, <1>3
<3> QED BY <3>1, <3>2 DEF LineSum
<2> HIDE DEF c, S, Below
<2>6. it[S \cup {c[i] : i \in 1 .. SIZE}] = it[S] + SumFunction([i \in 1 .. SIZE |-> g[c[i]]])
<3>1. RowAdds(g, it, S, SIZE, c)
  BY <1>1, <1>2, <1>5, <2>1, <2>2, <2>3, SumRow
<3> QED BY <3>1 DEF RowAdds
<2>7. it[S] = h[k - 1]
  BY <1>8 DEF S
<2>8. h[k] = h[k - 1] + f[k]
  BY <1>6 DEF Partial
<2>9. it[Below(k)] = h[k]
  BY <2>4, <2>5, <2>6, <2>7, <2>8
<2> QED BY <1>1, <2>9
<1>9. SIZE \in Q
<2> HIDE DEF Q
<2> QED BY <1>1, <1>7, <1>8, UpTo
<1>10. Below(SIZE) = Cells
<2>1. \A x \in Below(SIZE) : x \in Cells
  BY <1>1, LineCells
<2>2. \A x \in Cells : x \in Below(SIZE)
  BY <1>1, LineCells
<2> HIDE DEF Below
<2> QED BY <2>1, <2>2
<1>11. it[Below(SIZE)] = h[SIZE]
  BY <1>9
<1> HIDE DEF Below
<1> QED BY <1>4, <1>5, <1>6, <1>10, <1>11 DEF f

(* A move gains what the board is worth more after it.                     *)
LEMMA BoardGains ==
  ASSUME NEW b, Powers(b), Tower(b), NEW dir
  PROVE  BoardSum(Moved(b, dir)) = BoardSum(b) + ApplyMove(b, dir).gained
<1> DEFINE f == [l \in Side |-> LineSum(Moved(b, dir), dir, l)]
           g == [l \in Side |-> LineSum(b, dir, l)]
           d == [l \in Side |-> Gained(b, dir, l)]
<1>1. SIZE \in Nat /\ Side = 1 .. SIZE /\ b \in Board
  BY Sides, PowersBoard DEF Side
<1>2. ASSUME NEW a, NEW l \in Side PROVE LineSum(a, dir, l) \in Nat
<2>1. PICK p : /\ p \in [0 .. SIZE -> Nat] /\ p[0] = 0 /\ p[SIZE] = LineSum(a, dir, l)
               /\ \A i \in Side : p[i] = p[i - 1] + Price(a[LineCell(dir, l, i)])
  BY LineSumTrace
<2> QED BY <1>1, <2>1
<1>3. f \in [1 .. SIZE -> Nat] /\ g \in [1 .. SIZE -> Nat] /\ d \in [1 .. SIZE -> Nat]
<2>1. \A l \in Side : Gained(b, dir, l) \in Nat
  BY <1>1, ValuesType
<2>2. \A l \in Side : LineSum(Moved(b, dir), dir, l) \in Nat /\ LineSum(b, dir, l) \in Nat
  BY <1>2
<2> QED BY <1>1, <2>1, <2>2
<1>4. \A l \in 1 .. SIZE : f[l] = g[l] + d[l]
  BY <1>1, LineGains
<1>5. /\ BoardSum(Moved(b, dir)) = SumFunction(f) /\ BoardSum(b) = SumFunction(g)
      /\ ApplyMove(b, dir).gained = SumFunction(d)
  BY <1>1, SumBySides, MoveCells
<1> HIDE DEF f, g, d
<1>6. SumFunction(f) = SumFunction(g) + SumFunction(d)
  BY <1>1, <1>3, <1>4, SumAdds
<1> QED BY <1>5, <1>6

(* Nothing is worth nothing.                                               *)
LEMMA SumZero ==
  ASSUME NEW b, \A c \in Cells : b[c] = 0
  PROVE  BoardSum(b) = 0
<1> DEFINE dir == "left"
           f == [l \in Side |-> LineSum(b, dir, l)]
           g == [i \in 1 .. 0 |-> 0]
<1>1. SIZE \in Nat /\ Side = 1 .. SIZE /\ 0 \in 0 .. SIZE
  BY Sides DEF Side
<1>2. ASSUME NEW l \in Side PROVE LineSum(b, dir, l) = 0
<2> DEFINE h == [i \in Side |-> Price(b[LineCell(dir, l, i)])]
<2>1. \A i \in Side : h[i] = 0
  BY LineCells, Prices
<2>2. h \in [1 .. SIZE -> Nat]
  BY <1>1, <2>1
<2>3. LineSum(b, dir, l) = SumFunction(h)
  BY DEF LineSum
<2> HIDE DEF h
<2> QED BY <1>1, <2>1, <2>2, <2>3, ZeroSum
<1>3. f \in [1 .. SIZE -> Nat] /\ \A l \in 1 .. SIZE : f[l] = 0
  BY <1>1, <1>2
<1>4. BoardSum(b) = SumFunction(f)
  BY SumBySides
<1> HIDE DEF f
<1> QED BY <1>1, <1>3, <1>4, ZeroSum

(* A new tile is worth 4 points if it is a 4, which no merge has earned.   *)
LEMMA SpawnWorth ==
  ASSUME NEW b \in Board, NEW e \in Cells, b[e] = 0, NEW u \in Draw, NEW w \in Draw
  PROVE  BoardSum(Spawn(b, u, w)) = BoardSum(b) + 4 * Four(w) /\ BoardSum(b) \in Nat
<1> DEFINE free == {c \in Cells : b[c] = 0}
           x == DrawnCell(free, u)
           v == DrawnValue(w)
           a == [b EXCEPT ![x] = v]
           f == [c \in Cells |-> Price(a[c])]
           g == [c \in Cells |-> Price(b[c])]
<1>1. free # {} /\ free \in SUBSET Cells
  OBVIOUS
<1>2. Spawn(b, u, w) = a
  BY <1>1 DEF Spawn
<1> HIDE DEF free
<1>3. x \in free
  BY <1>1, DrawnIsFree
<1>4. x \in Cells /\ b[x] = 0
  BY <1>3 DEF free
<1> HIDE DEF x, v
<1>5. a[x] = v /\ \A c \in Cells : c # x => a[c] = b[c]
  BY <1>4 DEF Board
<1> HIDE DEF a
<1>6. f \in [Cells -> Nat] /\ g \in [Cells -> Nat]
<2>1. \A c \in Cells : Price(a[c]) \in Nat /\ Price(b[c]) \in Nat
  BY Prices
<2> QED BY <2>1
<1>7. f[x] = Price(v) /\ g[x] = 0 /\ \A c \in Cells : c # x => f[c] = g[c]
  BY <1>4, <1>5, Prices
<1>8. Price(v) = 4 * Four(w)
  BY Prices DEF v, Four, DrawnValue
<1>9. BoardSum(a) = SumFunction(f) /\ BoardSum(b) = SumFunction(g)
  BY DEF BoardSum
<1> HIDE DEF f, g
<1>10. SumFunction(f) + g[x] = SumFunction(g) + f[x]
  BY <1>4, <1>6, <1>7, Sides, SumChanges
<1>11. SumFunction(f) \in Nat /\ SumFunction(g) \in Nat
  BY <1>6, Sides, SumType
<1>12. Four(w) \in Nat
  BY DEF Four
<1> QED BY <1>2, <1>7, <1>8, <1>9, <1>10, <1>11, <1>12

(* One tile does not fill two holes.                                       *)
LEMMA SpawnOne ==
  ASSUME NEW b \in Board, NEW d \in Cells, NEW e \in Cells, d # e, b[d] = 0, b[e] = 0,
         NEW u \in Draw, NEW w \in Draw
  PROVE  \E c \in Cells : Spawn(b, u, w)[c] = 0
<1> DEFINE free == {c \in Cells : b[c] = 0}
           x == DrawnCell(free, u)
           v == DrawnValue(w)
<1>1. free # {}
  OBVIOUS
<1>2. Spawn(b, u, w) = [b EXCEPT ![x] = v]
  BY <1>1 DEF Spawn
<1> HIDE DEF free, x, v
<1>3. d # x \/ e # x
  OBVIOUS
<1> QED BY <1>2, <1>3 DEF Board

(* A move that moves leaves a hole.                                        *)
LEMMA MoveLeavesHole ==
  ASSUME NEW b \in Board, NEW dir, ApplyMove(b, dir).moved
  PROVE  \E e \in Cells : Moved(b, dir)[e] = 0
<1> SUFFICES ASSUME \A e \in Cells : Moved(b, dir)[e] # 0 PROVE FALSE
  OBVIOUS
<1>1. PICK l \in Side : ~Stays(b, dir, l)
  BY MovedWhenNotStays
<1> DEFINE merged == Merged(b, dir, l)
           m == Len(merged)
           line == Line(b, dir, l)
<1>2. /\ SIZE \in Nat /\ SIZE >= 2 /\ Side = 1 .. SIZE /\ SIZE \in Side
      /\ \A i \in Side : LineCell(dir, l, i) \in Cells
  BY Sides, LineCells DEF Side
<1>3. SIZE <= m
<2>1. Moved(b, dir)[LineCell(dir, l, SIZE)] # 0
  BY <1>2
<2> QED BY <1>2, <2>1, MoveCells
<1>4. PICK g : Comes(line, merged, g)
  BY LineComes
<1>5. m \in Nat /\ g \in [1 .. m -> Side] /\ Increases(g, m) /\ \A j \in 1 .. m : line[g[j]] > 0
<2>1. merged \in Seq(Nat)
  BY ValuesType
<2> QED BY <1>4, <2>1 DEF Comes
<1>6. \A i \in Side : line[i] = b[LineCell(dir, l, i)]
  BY LineType
<1> HIDE DEF m, merged, line
<1>7. m = SIZE /\ \A i, j \in 1 .. m : g[i] = g[j] => i = j
<2>1. m \in Nat /\ g \in [1 .. m -> Side] /\ Increases(g, m)
  BY <1>5
<2>2. m <= SIZE /\ \A i, j \in 1 .. m : g[i] = g[j] => i = j
  BY <2>1, ListFits
<2> QED BY <1>2, <1>3, <1>5, <2>2
<1>8. \A i \in Side : b[LineCell(dir, l, i)] # 0
<2> SUFFICES ASSUME NEW y \in Side, b[LineCell(dir, l, y)] = 0 PROVE FALSE
  OBVIOUS
<2>1. \A j \in 1 .. m : g[j] # y
  BY <1>5, <1>6
<2> DEFINE R == Side \ {y}
<2>2. IsFiniteSet(R) /\ Cardinality(R) = SIZE - 1
  BY Sides, FS_RemoveElement
<2>3. g \in [1 .. m -> R]
  BY <1>5, <2>1
<2> HIDE DEF R
<2>4. g \in Injection(1 .. m, R)
  BY <1>7, <2>3 DEF Injection, IsInjective
<2>5. Cardinality(1 .. m) <= Cardinality(R)
  BY <2>2, <2>4, FS_Injection
<2>6. Cardinality(1 .. m) = m
  BY <1>5, FS_Interval
<2> QED BY <1>2, <1>7, <2>2, <2>5, <2>6
<1>9. Stays(b, dir, l)
  BY <1>7, <1>8, FullLine DEF m, merged
<1> QED BY <1>1, <1>9

-----------------------------------------------------------------------------
(***************************************************************************)
(* The score.                                                              *)
(***************************************************************************)
Earned == score + 4 * fours = BoardSum(board)

(* The first two tiles earn nothing.                                       *)
LEMMA InitEarned == Init => Earned
<1> SUFFICES ASSUME Init PROVE Earned
  OBVIOUS
<1>1. PICK us \in [{1, 2} -> Draw], ws \in [{1, 2} -> Draw] :
        /\ board = Spawn(Spawn(EmptyBoard, us[1], ws[1]), us[2], ws[2])
        /\ score = 0 /\ fours = FourFrom(ws)
  BY DEF Init
<1> DEFINE b == Spawn(EmptyBoard, us[1], ws[1])
<1>2. us[1] \in Draw /\ ws[1] \in Draw /\ us[2] \in Draw /\ ws[2] \in Draw
  OBVIOUS
<1>3. EmptyBoard \in Board /\ \A c \in Cells : EmptyBoard[c] = 0
  BY DEF EmptyBoard, Board
<1>4. <<1, 1>> \in Cells /\ <<1, 2>> \in Cells /\ <<1, 1>> # <<1, 2>>
  BY Sides DEF Cells, Side
<1>5. BoardSum(EmptyBoard) = 0
  BY <1>3, SumZero
<1>6. b \in Board /\ \E e \in Cells : b[e] = 0
<2>1. b \in Board
  BY <1>2, <1>3, SpawnCells
<2>2. \E e \in Cells : b[e] = 0
  BY <1>2, <1>3, <1>4, SpawnOne
<2> QED BY <2>1, <2>2
<1>7. BoardSum(b) = 4 * Four(ws[1])
  BY <1>2, <1>3, <1>4, <1>5, SpawnWorth DEF Four
<1> HIDE DEF b
<1>8. BoardSum(Spawn(b, us[2], ws[2])) = BoardSum(b) + 4 * Four(ws[2])
  BY <1>2, <1>6, SpawnWorth
<1>9. fours = Four(ws[1]) + Four(ws[2])
  BY <1>1, Fours
<1>10. Four(ws[1]) \in Nat /\ Four(ws[2]) \in Nat
  BY DEF Four
<1> QED BY <1>1, <1>7, <1>8, <1>9, <1>10 DEF Earned, b

(* A move earns what it makes.                                             *)
LEMMA NextEarned == BoardInv /\ Earned /\ [Next]_vars => Earned'
<1> SUFFICES ASSUME BoardInv, Earned, [Next]_vars PROVE Earned'
  OBVIOUS
<1>1. CASE UNCHANGED vars
  BY <1>1 DEF Earned, BoardSum, vars
<1>2. ASSUME NEW dir \in Direction, NEW u \in Draw, NEW w \in Draw, ReplayMove(dir, u, w)
      PROVE  Earned'
<2> DEFINE r == ApplyMove(board, dir)
           a == Moved(board, dir)
<2>1. CASE CanMoveAny(board) /\ r.moved
<3>1. /\ board' = Spawn(a, u, w)
      /\ score' = score + r.gained
      /\ fours' = fours + Four(w)
  BY <1>2, <2>1, Fours DEF ReplayMove, Moved
<3>2. board \in Board /\ Powers(board) /\ Tower(board) /\ score \in Nat /\ fours \in Nat
  BY PowersBoard DEF BoardInv
<3>3. a \in Board /\ r.gained \in Nat /\ BoardSum(a) = BoardSum(board) + r.gained
  BY <3>2, MoveCells, GainType, BoardGains
<3>4. \E e \in Cells : a[e] = 0
  BY <2>1, <3>2, MoveLeavesHole
<3> HIDE DEF r, a
<3>5. BoardSum(Spawn(a, u, w)) = BoardSum(a) + 4 * Four(w)
  BY <3>3, <3>4, SpawnWorth
<3>6. score + 4 * fours = BoardSum(board)
  BY DEF Earned
<3>7. Four(w) \in Nat
  BY DEF Four
<3>8. score' + 4 * fours' = BoardSum(Spawn(a, u, w))
  BY <3>1, <3>2, <3>3, <3>5, <3>6, <3>7
<3> QED BY <3>1, <3>8 DEF Earned, BoardSum
<2>2. CASE ~(CanMoveAny(board) /\ r.moved)
<3>1. UNCHANGED <<board, score, fours>>
  BY <1>2, <2>2 DEF ReplayMove
<3> QED BY <3>1 DEF Earned, BoardSum
<2> QED BY <2>1, <2>2
<1> QED BY <1>1, <1>2 DEF Next

(* Points are never lost and no tile is counted twice: the score of a      *)
(* replay (replay.ts) is what its board is worth, less the 4s that came    *)
(* for nothing.                                                            *)
THEOREM ScoreCorrect == Spec => []ScoreMatchesBoard
<1>1. Init => BoardInv /\ Earned
  BY InitBoard, InitEarned
<1>2. BoardInv /\ Earned /\ [Next]_vars => (BoardInv /\ Earned)'
  BY NextBoard, NextEarned
<1>3. BoardInv /\ Earned => ScoreMatchesBoard
<2> SUFFICES ASSUME BoardInv, Earned PROVE ScoreMatchesBoard
  OBVIOUS
<2>1. \A c \in Cells : Price(board[c]) = Worth(board[c])
<3> SUFFICES ASSUME NEW c \in Cells PROVE Price(board[c]) = Worth(board[c])
  OBVIOUS
<3>1. board[c] \in Power \/ board[c] = 0
  BY DEF BoardInv, Powers
<3>2. Worth(0) = 0 /\ 0 \notin Power
  BY PowerNumbers DEF Worth
<3> QED BY <3>1, <3>2 DEF Price
<2>2. [c \in Cells |-> Price(board[c])] = [c \in Cells |-> Worth(board[c])]
  BY <2>1
<2> QED BY <2>2 DEF Earned, BoardSum, ScoreMatchesBoard
<1> QED BY <1>1, <1>2, <1>3, PTL DEF Spec
==============================================================================
