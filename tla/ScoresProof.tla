------------------------------ MODULE ScoresProof ------------------------------
(***************************************************************************)
(* Theorems about Scores, for every number of players, pages, results,     *)
(* requests and share ids, and every limit.                                *)
(***************************************************************************)
EXTENDS Scores, FiniteSetTheorems, TLAPS

-----------------------------------------------------------------------------
(***************************************************************************)
(* The table: what Upserted does to its rows.                              *)
(***************************************************************************)
Table(rows) ==
  /\ rows \in Seq(ScoreRow)
  /\ \A i, j \in DOMAIN rows :
       i < j => rows[i].player # rows[j].player /\ rows[i].score >= rows[j].score

(* The rows at least as good as a score are those before its place.        *)
LEMMA PlaceSplits ==
  ASSUME NEW rows, Table(rows), NEW s \in Nat
  PROVE  /\ Place(rows, s) \in 1 .. Len(rows) + 1
         /\ \A i \in DOMAIN rows : i < Place(rows, s) <=> rows[i].score >= s
<1> DEFINE D == {i \in DOMAIN rows : rows[i].score >= s}
           n == Cardinality(D)
<1>1. /\ Len(rows) \in Nat /\ DOMAIN rows = 1 .. Len(rows)
      /\ \A i \in DOMAIN rows : rows[i].score \in Nat
<2>1. rows \in Seq(ScoreRow)
  BY DEF Table
<2>2. Len(rows) \in Nat /\ DOMAIN rows = 1 .. Len(rows) /\ \A i \in 1 .. Len(rows) : rows[i] \in ScoreRow
  BY <2>1
<2> QED BY <2>2 DEF ScoreRow
<1>2. /\ IsFiniteSet(D) /\ n \in Nat /\ n <= Len(rows)
<2>1. IsFiniteSet(1 .. Len(rows)) /\ Cardinality(1 .. Len(rows)) = Len(rows)
  BY <1>1, FS_Interval
<2>2. D \subseteq 1 .. Len(rows)
  BY <1>1
<2>3. IsFiniteSet(D) /\ Cardinality(D) <= Cardinality(1 .. Len(rows))
  BY <2>1, <2>2, FS_Subset
<2> QED BY <2>1, <2>3, FS_CardinalityType
<1>3. \A i \in D : i <= n
<2> SUFFICES ASSUME NEW i \in D PROVE i <= n
  OBVIOUS
<2>1. 1 .. i \subseteq D
  BY <1>1 DEF Table
<2>2. Cardinality(1 .. i) = i
  BY <1>1, FS_Interval
<2>3. Cardinality(1 .. i) <= n
  BY <1>2, <2>1, FS_Subset
<2> QED BY <2>2, <2>3
<1>4. D = 1 .. n
<2>1. D \subseteq 1 .. n
  BY <1>1, <1>3
<2>2. IsFiniteSet(1 .. n) /\ Cardinality(1 .. n) = n
  BY <1>2, FS_Interval
<2> QED BY <2>1, <2>2, FS_Subset
<1> HIDE DEF n
<1>5. Place(rows, s) = n + 1
  BY DEF Place, n
<1> QED BY <1>1, <1>2, <1>4, <1>5

LEMMA ConcatElements ==
  ASSUME NEW S, NEW A \in Seq(S), NEW C \in Seq(S)
  PROVE  /\ A \o C \in Seq(S)
         /\ Len(A \o C) = Len(A) + Len(C)
         /\ \A i \in 1 .. Len(A) + Len(C) :
              (A \o C)[i] = IF i <= Len(A) THEN A[i] ELSE C[i - Len(A)]
OBVIOUS

LEMMA InsertElements ==
  ASSUME NEW S, NEW rows \in Seq(S), NEW k \in 1 .. Len(rows) + 1, NEW e \in S
  PROVE  /\ InsertAt(rows, k, e) \in Seq(S)
         /\ Len(InsertAt(rows, k, e)) = Len(rows) + 1
         /\ \A i \in 1 .. Len(rows) + 1 :
              InsertAt(rows, k, e)[i] = IF i < k THEN rows[i] ELSE IF i = k THEN e ELSE rows[i - 1]
<1> DEFINE A == SubSeq(rows, 1, k - 1)
           C == SubSeq(rows, k, Len(rows))
<1>0. Len(rows) \in Nat /\ k \in Nat
  OBVIOUS
<1>1. /\ A \in Seq(S) /\ Len(A) = k - 1
      /\ \A i \in 1 .. k - 1 : A[i] = rows[i]
  OBVIOUS
<1>2. /\ C \in Seq(S) /\ Len(C) = Len(rows) - k + 1
      /\ \A i \in 1 .. Len(rows) - k + 1 : C[i] = rows[k + i - 1]
  OBVIOUS
<1>3. <<e>> \in Seq(S) /\ Len(<<e>>) = 1 /\ <<e>>[1] = e
  OBVIOUS
<1> HIDE DEF A, C
<1>4. /\ A \o <<e>> \in Seq(S) /\ Len(A \o <<e>>) = k
      /\ \A i \in 1 .. k : (A \o <<e>>)[i] = IF i < k THEN rows[i] ELSE e
  BY <1>1, <1>3
<1> DEFINE AE == A \o <<e>>
<1> HIDE DEF AE
<1>5. AE \in Seq(S) /\ Len(AE) = k /\ \A i \in 1 .. k : AE[i] = IF i < k THEN rows[i] ELSE e
  BY <1>4 DEF AE
<1>6. /\ AE \o C \in Seq(S) /\ Len(AE \o C) = Len(rows) + 1
      /\ \A i \in 1 .. Len(rows) + 1 :
           (AE \o C)[i] = IF i < k THEN rows[i] ELSE IF i = k THEN e ELSE rows[i - 1]
<2>0. AE \in Seq(S) /\ C \in Seq(S)
  BY <1>2, <1>5
<2>1. /\ AE \o C \in Seq(S)
      /\ Len(AE \o C) = Len(AE) + Len(C)
      /\ \A i \in 1 .. Len(AE) + Len(C) :
           (AE \o C)[i] = IF i <= Len(AE) THEN AE[i] ELSE C[i - Len(AE)]
  BY <2>0, ConcatElements, Zenon
<2>3. Len(AE) = k /\ Len(C) = Len(rows) - k + 1
  BY <1>2, <1>5
<2>2. ASSUME NEW i \in 1 .. Len(rows) + 1
      PROVE  (AE \o C)[i] = IF i < k THEN rows[i] ELSE IF i = k THEN e ELSE rows[i - 1]
<3>1. (AE \o C)[i] = IF i <= k THEN AE[i] ELSE C[i - k]
  BY <1>0, <2>1, <2>3
<3>2. CASE i <= k
  BY <1>5, <3>1, <3>2
<3>3. CASE i > k
  BY <1>2, <3>1, <3>3
<3>4. i <= k \/ i > k
  BY <1>0
<3> QED BY <3>2, <3>3, <3>4
<2> QED BY <1>0, <2>1, <2>2, <2>3
<1>7. InsertAt(rows, k, e) = AE \o C
  BY DEF InsertAt, AE, A, C
<1> QED BY <1>6, <1>7

LEMMA InsertRow ==
  \A rows \in Seq(ScoreRow), e \in ScoreRow : \A k \in 1 .. Len(rows) + 1 :
    /\ InsertAt(rows, k, e) \in Seq(ScoreRow)
    /\ Len(InsertAt(rows, k, e)) = Len(rows) + 1
    /\ \A i \in 1 .. Len(rows) + 1 :
         InsertAt(rows, k, e)[i] = IF i < k THEN rows[i] ELSE IF i = k THEN e ELSE rows[i - 1]
<1> TAKE rows \in Seq(ScoreRow), e \in ScoreRow
<1> TAKE k \in 1 .. Len(rows) + 1
<1> QED BY InsertElements

LEMMA RemoveElements ==
  ASSUME NEW S, NEW rows \in Seq(S), NEW k \in 1 .. Len(rows)
  PROVE  /\ RemoveAt(rows, k) \in Seq(S)
         /\ Len(RemoveAt(rows, k)) = Len(rows) - 1
         /\ \A i \in 1 .. Len(rows) - 1 :
              RemoveAt(rows, k)[i] = IF i < k THEN rows[i] ELSE rows[i + 1]
<1> DEFINE A == SubSeq(rows, 1, k - 1)
           C == SubSeq(rows, k + 1, Len(rows))
<1>0. Len(rows) \in Nat /\ k \in Nat
  OBVIOUS
<1>1. /\ A \in Seq(S) /\ Len(A) = k - 1
      /\ \A i \in 1 .. k - 1 : A[i] = rows[i]
  OBVIOUS
<1>2. /\ C \in Seq(S) /\ Len(C) = Len(rows) - k
      /\ \A i \in 1 .. Len(rows) - k : C[i] = rows[k + i]
  OBVIOUS
<1> HIDE DEF A, C
<1>3. /\ A \o C \in Seq(S)
      /\ Len(A \o C) = Len(A) + Len(C)
      /\ \A i \in 1 .. Len(A) + Len(C) :
           (A \o C)[i] = IF i <= Len(A) THEN A[i] ELSE C[i - Len(A)]
<2>1. A \in Seq(S) /\ C \in Seq(S)
  BY <1>1, <1>2
<2> QED BY <2>1, ConcatElements, Zenon
<1>4. Len(A) = k - 1 /\ Len(C) = Len(rows) - k
  BY <1>1, <1>2
<1>6. ASSUME NEW i \in 1 .. Len(rows) - 1
      PROVE  (A \o C)[i] = IF i < k THEN rows[i] ELSE rows[i + 1]
<2>1. (A \o C)[i] = IF i <= k - 1 THEN A[i] ELSE C[i - (k - 1)]
  BY <1>0, <1>3, <1>4
<2>2. CASE i < k
  BY <1>0, <1>1, <2>1, <2>2
<2>3. CASE i >= k
<3>1. i - (k - 1) \in 1 .. Len(rows) - k /\ k + (i - (k - 1)) = i + 1
  BY <1>0, <2>3
<3>2. (A \o C)[i] = C[i - (k - 1)]
  BY <1>0, <2>1, <2>3
<3>3. C[i - (k - 1)] = rows[i + 1]
  BY <1>2, <3>1
<3>4. ~(i < k)
  BY <1>0, <2>3
<3> QED BY <3>2, <3>3, <3>4
<2>4. i < k \/ i >= k
  BY <1>0
<2> QED BY <2>2, <2>3, <2>4
<1>5. RemoveAt(rows, k) = A \o C
  BY DEF RemoveAt, A, C
<1>7. Len(A) + Len(C) = Len(rows) - 1
  BY <1>0, <1>4
<1> QED BY <1>3, <1>5, <1>6, <1>7

LEMMA OthersTable ==
  ASSUME Table(board), NEW p
  PROVE  /\ Table(Others(p))
         /\ \A i \in DOMAIN Others(p) : Others(p)[i].player # p
         /\ \A i \in DOMAIN board : board[i].player # p =>
              \E j \in DOMAIN Others(p) : Others(p)[j] = board[i]
<1>0. /\ board \in Seq(ScoreRow) /\ Len(board) \in Nat /\ DOMAIN board = 1 .. Len(board)
      /\ \A i \in 1 .. Len(board) : board[i] \in ScoreRow
<2>1. board \in Seq(ScoreRow)
  BY DEF Table
<2> QED BY <2>1
<1>1. CASE RowOf(p) = {}
  BY <1>1 DEF Others, RowOf
<1>2. CASE RowOf(p) # {}
<2> DEFINE k == CHOOSE i \in RowOf(p) : TRUE
           O == RemoveAt(board, k)
<2>1. k \in 1 .. Len(board) /\ board[k].player = p
  BY <1>0, <1>2 DEF RowOf
<2>2. Others(p) = O
  BY <1>2 DEF Others
<2> HIDE DEF k
<2>3. /\ O \in Seq(ScoreRow)
      /\ Len(O) = Len(board) - 1
      /\ \A i \in 1 .. Len(board) - 1 : O[i] = IF i < k THEN board[i] ELSE board[i + 1]
  BY <1>0, <2>1, RemoveElements, Zenon
<2> HIDE DEF O
<2>4. DOMAIN O = 1 .. Len(board) - 1
  BY <1>0, <2>3
<2>5. \A i, j \in 1 .. Len(board) :
        i < j => board[i].player # board[j].player /\ board[i].score >= board[j].score
  BY <1>0 DEF Table
<2>6. ASSUME NEW i \in DOMAIN O, NEW j \in DOMAIN O, i < j
      PROVE  O[i].player # O[j].player /\ O[i].score >= O[j].score
  BY <1>0, <2>1, <2>3, <2>4, <2>5, <2>6
<2>7. ASSUME NEW i \in DOMAIN O PROVE O[i].player # p
<3>1. CASE i < k
  BY <1>0, <2>1, <2>3, <2>4, <2>5, <3>1
<3>2. CASE i >= k
  BY <1>0, <2>1, <2>3, <2>4, <2>5, <3>2
<3> QED BY <1>0, <2>1, <2>4, <3>1, <3>2
<2>8. ASSUME NEW i \in DOMAIN board, board[i].player # p
      PROVE  \E j \in DOMAIN O : O[j] = board[i]
<3>1. CASE i < k
  BY <1>0, <2>1, <2>3, <2>4, <2>8, <3>1
<3>2. CASE i > k
<4>1. i - 1 \in DOMAIN O /\ ~(i - 1 < k) /\ (i - 1) + 1 = i
  BY <1>0, <2>1, <2>4, <3>2
<4> QED BY <2>3, <2>4, <4>1
<3>3. i # k
  BY <2>1, <2>8
<3> QED BY <1>0, <2>1, <3>1, <3>2, <3>3
<2>9. Table(O)
  BY <2>3, <2>6 DEF Table
<2> QED BY <2>2, <2>7, <2>8, <2>9
<1> QED BY <1>1, <1>2

(* The table keeps its key and its order, and no player's best goes down.  *)
LEMMA UpsertedTable ==
  ASSUME LeaderboardAssumption, Table(board), NEW result \in Results
  PROVE  /\ Table(Upserted(result))
         /\ \A i \in DOMAIN board :
              \E j \in DOMAIN Upserted(result) :
                /\ Upserted(result)[j].player = board[i].player
                /\ Upserted(result)[j].score >= board[i].score
<1> DEFINE U == Upserted(result)
<1>0. /\ board \in Seq(ScoreRow) /\ Len(board) \in Nat /\ DOMAIN board = 1 .. Len(board)
      /\ \A i \in 1 .. Len(board) : board[i] \in ScoreRow
<2>1. board \in Seq(ScoreRow)
  BY DEF Table
<2> QED BY <2>1
<1>1. result.player \in Player /\ result.score \in Nat
  BY DEF LeaderboardAssumption
<1>2. CASE Improves(result)
<2> DEFINE O == Others(result.player)
           k == Place(O, result.score)
           e == NewRow(result)
<2>1. /\ Table(O)
      /\ \A i \in DOMAIN O : O[i].player # result.player
      /\ \A i \in DOMAIN board : board[i].player # result.player =>
           \E j \in DOMAIN O : O[j] = board[i]
  BY OthersTable
<2>2. /\ k \in 1 .. Len(O) + 1
      /\ \A i \in DOMAIN O : i < k <=> O[i].score >= result.score
  BY <1>1, <2>1, PlaceSplits
<2>3. U = InsertAt(O, k, e)
  BY <1>2 DEF Upserted
<2>4. e \in ScoreRow /\ e.player = result.player /\ e.score = result.score
  BY <1>1 DEF NewRow, ScoreRow
<2>5. O \in Seq(ScoreRow)
  BY <2>1 DEF Table
<2> HIDE DEF U, O, k, e
<2>6. /\ U \in Seq(ScoreRow)
      /\ Len(U) = Len(O) + 1
      /\ \A i \in 1 .. Len(O) + 1 : U[i] = IF i < k THEN O[i] ELSE IF i = k THEN e ELSE O[i - 1]
<3>1. /\ InsertAt(O, k, e) \in Seq(ScoreRow)
      /\ Len(InsertAt(O, k, e)) = Len(O) + 1
      /\ \A i \in 1 .. Len(O) + 1 :
           InsertAt(O, k, e)[i] = IF i < k THEN O[i] ELSE IF i = k THEN e ELSE O[i - 1]
<4>1. k \in 1 .. Len(O) + 1 /\ e \in ScoreRow
  BY <2>2, <2>4
<4> QED BY <2>5, <4>1, InsertRow
<3> QED BY <2>3, <3>1
<2>7. /\ Len(O) \in Nat /\ DOMAIN O = 1 .. Len(O) /\ DOMAIN U = 1 .. Len(O) + 1
      /\ \A i \in 1 .. Len(O) : O[i] \in ScoreRow
      /\ k \in Nat
  BY <2>2, <2>5, <2>6
<2>8. \A i, j \in 1 .. Len(O) :
        i < j => O[i].player # O[j].player /\ O[i].score >= O[j].score
  BY <2>1, <2>7 DEF Table
<2>9. \A i \in 1 .. Len(O) : O[i].score \in Nat
  BY <2>7 DEF ScoreRow
<2>10. ASSUME NEW i \in 1 .. Len(O) + 1, NEW j \in 1 .. Len(O) + 1, i < j
       PROVE  U[i].player # U[j].player /\ U[i].score >= U[j].score
<3>1. CASE j < k
<4>1. U[i] = O[i] /\ U[j] = O[j]
  BY <2>6, <2>7, <2>10, <3>1
<4>2. i \in 1 .. Len(O) /\ j \in 1 .. Len(O)
  BY <2>2, <2>7, <2>10, <3>1
<4> QED BY <2>8, <2>10, <4>1, <4>2
<3>2. CASE j = k
  BY <2>1, <2>2, <2>4, <2>6, <2>7, <2>10, <3>2
<3>3. CASE j > k
<4>1. U[j] = O[j - 1] /\ j - 1 \in 1 .. Len(O) /\ ~(j - 1 < k)
<5>1. ~(j < k) /\ j # k /\ j - 1 \in 1 .. Len(O) /\ ~(j - 1 < k)
  BY <2>2, <2>7, <3>3
<5> QED BY <2>6, <5>1
<4>2. CASE i < k
  BY <2>6, <2>7, <2>8, <3>3, <4>1, <4>2
<4>3. CASE i = k
<5>1. ~(O[j - 1].score >= result.score)
  BY <2>2, <2>7, <4>1
<5> QED BY <1>1, <2>1, <2>4, <2>6, <2>7, <2>9, <4>1, <4>3, <5>1
<4>4. CASE i > k
<5>1. U[i] = O[i - 1] /\ i - 1 \in 1 .. Len(O) /\ i - 1 < j - 1
<6>1. ~(i < k) /\ i # k /\ i - 1 \in 1 .. Len(O) /\ i - 1 < j - 1
  BY <2>2, <2>7, <2>10, <4>4
<6> QED BY <2>6, <6>1
<5> QED BY <2>8, <4>1, <5>1
<4> QED BY <2>7, <4>2, <4>3, <4>4
<3> QED BY <2>7, <3>1, <3>2, <3>3
<2>11. Table(U)
  BY <2>6, <2>7, <2>10 DEF Table
<2>12. \A m \in 1 .. Len(O) : \E j \in DOMAIN U : U[j] = O[m]
<3> SUFFICES ASSUME NEW m \in 1 .. Len(O) PROVE \E j \in DOMAIN U : U[j] = O[m]
  OBVIOUS
<3>1. CASE m < k
  BY <2>6, <2>7, <3>1
<3>2. CASE m >= k
<4>1. m + 1 \in 1 .. Len(O) + 1 /\ ~(m + 1 < k) /\ m + 1 # k /\ (m + 1) - 1 = m
  BY <2>7, <3>2
<4> QED BY <2>6, <2>7, <4>1
<3> QED BY <2>7, <3>1, <3>2
<2>13. ASSUME NEW i \in DOMAIN board
       PROVE  \E j \in DOMAIN U : U[j].player = board[i].player /\ U[j].score >= board[i].score
<3>1. board[i].score \in Nat
  BY <1>0 DEF ScoreRow
<3>2. CASE board[i].player = result.player
<4>1. k \in DOMAIN U /\ U[k] = e
  BY <2>2, <2>6, <2>7
<4>2. result.score > board[i].score
  BY <1>2, <3>2 DEF Improves, RowOf
<4> QED BY <1>1, <2>4, <3>1, <3>2, <4>1, <4>2
<3>3. CASE board[i].player # result.player
<4>1. PICK m \in DOMAIN O : O[m] = board[i]
  BY <2>1, <3>3
<4>2. PICK j \in DOMAIN U : U[j] = O[m]
  BY <2>7, <2>12
<4> QED BY <3>1, <4>1, <4>2
<3> QED BY <3>2, <3>3
<2> QED BY <2>11, <2>13 DEF U
<1>3. CASE ~Improves(result)
<2>1. U = [i \in DOMAIN board |-> IF i \in RowOf(result.player)
                                 THEN [board[i] EXCEPT !.final = result.score] ELSE board[i]]
  BY <1>3 DEF Upserted
<2>2. /\ DOMAIN U = 1 .. Len(board)
      /\ \A i \in 1 .. Len(board) :
           /\ U[i] \in ScoreRow
           /\ U[i].player = board[i].player /\ U[i].score = board[i].score
  BY <1>0, <1>1, <2>1 DEF ScoreRow
<2>3. U \in Seq(ScoreRow)
<3>1. U \in [1 .. Len(board) -> ScoreRow]
  BY <1>0, <2>1, <2>2
<3> QED BY <1>0, <3>1
<2>4. Table(U)
  BY <1>0, <2>2, <2>3 DEF Table
<2>5. ASSUME NEW i \in DOMAIN board
      PROVE  U[i].player = board[i].player /\ U[i].score >= board[i].score
<3>1. board[i].score \in Nat
  BY <1>0 DEF ScoreRow
<3> QED BY <1>0, <2>2, <3>1
<2> QED BY <1>0, <2>2, <2>4, <2>5
<1> QED BY <1>2, <1>3

-----------------------------------------------------------------------------
(***************************************************************************)
(* The inductive invariant.                                                *)
(***************************************************************************)
(* The window's count bounds the calls it admitted.                        *)
WithinWindow ==
  \A p \in Caller : admitted[p] <= window[p].count /\ admitted[p] <= Limit

(* A sweep that has scanned knows every page it owes, and the submit that  *)
(* will improve the row knows that it must sweep, because no best goes     *)
(* down between its SELECT and its upsert.                                 *)
Sweeps ==
  /\ ImprovementSweepsPages
  /\ \A r \in Req, n \in Page :
       At(r, "delete") /\ cache[n] # Nothing /\ r \in cache[n].owed => n \in req[r].keys
  /\ \A r \in Req : At(r, "upsert") /\ Improves(req[r].result) => req[r].newBest

(* The card about to be inserted is the one that was uploaded.             *)
Stored ==
  /\ ShareHasImage
  /\ \A r \in Req : At(r, "insert") => objects[req[r].id] = req[r].card

IInv == TypeOK /\ WithinWindow /\ Sweeps /\ Stored

(* The pc tells which kind of request it is.                               *)
LEMMA ByPc ==
  ASSUME NEW q \in ApiRequest
  PROVE  /\ q.pc = "idle" => q = Idle
         /\ q.pc \in {"select", "set"} => q \in Reading
         /\ q.pc = "upsert" => q \in Submitting
         /\ q.pc \in {"scan", "delete"} => q \in Sweeping
         /\ q.pc \in {"expire", "snapshot"} => q \in Asking
         /\ q.pc \in {"rank", "upload"} => q \in Drawing
         /\ q.pc = "insert" => q \in Storing
BY DEF ApiRequest, Idle, Reading, Submitting, Sweeping, Asking, Drawing, Storing

LEMMA TableOK == LeaderboardTypeOK <=> Table(board) /\ cache \in [Page -> CachedPage \cup {Nothing}]
BY DEF LeaderboardTypeOK, Table

LEMMA LimiterKept ==
  ASSUME LimiterTypeOK, WithinWindow, UNCHANGED limiterVars
  PROVE  LimiterTypeOK' /\ WithinWindow'
BY DEF LimiterTypeOK, WithinWindow, limiterVars

LEMMA LimiterStep ==
  ASSUME LimitAssumption, LimiterTypeOK, WithinWindow, NEW p \in Caller,
         Incr(p) \/ IncrUnnoticed(p) \/ Expire(p) \/ Orphan(p) \/ WindowEnds(p)
  PROVE  LimiterTypeOK' /\ WithinWindow'
<1>1. CASE Incr(p)
  BY <1>1 DEF Incr, Counted, WithinLimit, LimiterTypeOK, WithinWindow, LimitAssumption
<1>2. CASE Expire(p)
  BY <1>2 DEF Expire, LimiterTypeOK, WithinWindow
<1>3. CASE Orphan(p)
  BY <1>3 DEF Orphan, LimiterTypeOK, WithinWindow
<1>4. CASE WindowEnds(p)
  BY <1>4 DEF WindowEnds, NoWindow, LimiterTypeOK, WithinWindow, LimitAssumption
<1>5. CASE IncrUnnoticed(p)
  BY <1>5 DEF IncrUnnoticed, Counted, OpensWindow, LimiterTypeOK, WithinWindow, LimitAssumption
<1> QED BY <1>1, <1>2, <1>3, <1>4, <1>5

(* A step that leaves the table, the pages and the shares alone, by a      *)
(* request that neither sweeps nor goes on to write.                       *)
LEMMA Aside ==
  ASSUME TypeOK, Sweeps, Stored, NEW r \in Req, NEW x \in ApiRequest,
         req' = [req EXCEPT ![r] = x],
         UNCHANGED <<board, cache, shareVars>>,
         ~At(r, "scan"), ~At(r, "delete"),
         x.pc \notin {"scan", "delete", "upsert", "insert"},
         LimiterTypeOK'
  PROVE  TypeOK' /\ Sweeps' /\ Stored'
<1>1. req' \in [Req -> ApiRequest] /\ req'[r] = x /\ \A q \in Req \ {r} : req'[q] = req[q]
  BY DEF TypeOK
<1>2. TypeOK'
  BY <1>1 DEF TypeOK, LeaderboardTypeOK, shareVars
<1>3. \A res : Improves(res)' <=> Improves(res)
  BY DEF Improves, RowOf
<1>4. Sweeps'
<2>1. ImprovementSweepsPages'
  BY <1>1 DEF Sweeps, ImprovementSweepsPages, At
<2>2. ASSUME NEW q \in Req, NEW n \in Page,
             At(q, "delete")', cache'[n] # Nothing, q \in cache'[n].owed
      PROVE  n \in req'[q].keys
  BY <1>1, <2>2 DEF Sweeps, At
<2>3. ASSUME NEW q \in Req, At(q, "upsert")', Improves(req[q].result)'
      PROVE  req'[q].newBest
  BY <1>1, <1>3, <2>3 DEF Sweeps, At
<2>4. \A q \in Req : At(q, "upsert")' => req'[q] = req[q]
  BY <1>1 DEF At
<2> QED BY <2>1, <2>2, <2>3, <2>4 DEF Sweeps
<1>5. Stored'
  BY <1>1 DEF Stored, ShareHasImage, SharePage, ShareImage, At, shareVars
<1> QED BY <1>2, <1>4, <1>5

LEMMA PageTyped ==
  ASSUME LeaderboardAssumption, Table(board), NEW n \in Page
  PROVE  PageOf(n) \in Seq(ShownRow)
<1>1. /\ Len(board) \in Nat /\ \A i \in 1 .. Len(board) : board[i] \in ScoreRow
<2>1. board \in Seq(ScoreRow)
  BY DEF Table
<2> QED BY <2>1
<1>2. n \in Nat /\ PageSize \in Nat
  BY DEF LeaderboardAssumption
<1> DEFINE start == n * PageSize
           left == Len(board) - start
           m == IF left < PageSize THEN left ELSE PageSize
<1>3. start \in Nat
  BY <1>2
<1>4. PageOf(n) = [i \in 1 .. m |-> [player |-> board[start + i].player, score |-> board[start + i].score]]
  BY DEF PageOf
<1> HIDE DEF start
<1>5. m \in Int
  BY <1>1, <1>2, <1>3
<1>6. \A i \in 1 .. m : start + i \in 1 .. Len(board)
  BY <1>1, <1>2, <1>3
<1>7. \A i \in 1 .. m :
        [player |-> board[start + i].player, score |-> board[start + i].score] \in ShownRow
  BY <1>1, <1>6 DEF ScoreRow, ShownRow
<1> HIDE DEF m
<1>8. PageOf(n) \in [1 .. m -> ShownRow]
  BY <1>4, <1>7
<1>9. CASE m \in Nat
  BY <1>8, <1>9
<1>10. CASE m \notin Nat
<2>1. 1 .. m = 1 .. 0
  BY <1>5, <1>10
<2> DEFINE empty == 0
<2>2. empty \in Nat /\ PageOf(n) \in [1 .. empty -> ShownRow]
  BY <1>8, <2>1
<2> HIDE DEF empty
<2> QED BY <2>2
<1> QED BY <1>9, <1>10

LEMMA RankTyped ==
  ASSUME Table(board), NEW s
  PROVE  RankForScore(s) \in Nat \ {0}
<1>1. Len(board) \in Nat /\ DOMAIN board = 1 .. Len(board)
<2>1. board \in Seq(ScoreRow)
  BY DEF Table
<2> QED BY <2>1
<1>2. IsFiniteSet(DOMAIN board)
  BY <1>1, FS_Interval
<1>3. Cardinality({i \in DOMAIN board : board[i].score > s}) \in Nat
  BY <1>2, FS_Subset, FS_CardinalityType
<1> QED BY <1>3 DEF RankForScore

LEMMA InitIInv == ASSUME LimitAssumption, Init PROVE IInv
<1>1. LeaderboardTypeOK
  BY DEF Init, LeaderboardInit, LeaderboardTypeOK
<1>2. LimiterTypeOK /\ WithinWindow
  BY DEF Init, LimiterInit, NoWindow, LimiterTypeOK, WithinWindow, LimitAssumption
<1>3. req \in [Req -> ApiRequest]
  BY DEF Init, LeaderboardInit, ApiRequest
<1>4. TypeOK
  BY <1>1, <1>2, <1>3 DEF Init, TypeOK
<1>5. Sweeps
  BY DEF Init, LeaderboardInit, Sweeps, ImprovementSweepsPages, At, Idle
<1>6. Stored
  BY DEF Init, LeaderboardInit, Stored, ShareHasImage, SharePage, ShareImage, At, Idle
<1> QED BY <1>2, <1>4, <1>5, <1>6 DEF IInv

-----------------------------------------------------------------------------
(***************************************************************************)
(* Requests that read, count and draw.                                     *)
(***************************************************************************)
LEMMA ReadKeeps ==
  ASSUME IInv, LeaderboardAssumption, ScoresAssumption, NEW r \in Req,
         \/ \E n \in Page : ReadCache(r, n) /\ UNCHANGED <<limiterVars, shareVars>>
         \/ SelectPage(r) /\ UNCHANGED <<limiterVars, shareVars>>
  PROVE  IInv'
<1>0. req \in [Req -> ApiRequest] /\ req[r] \in ApiRequest /\ Table(board)
  BY TableOK DEF IInv, TypeOK
<1>1. LimiterTypeOK' /\ WithinWindow'
  BY LimiterKept DEF IInv, TypeOK
<1>2. CASE \E n \in Page : ReadCache(r, n) /\ UNCHANGED <<limiterVars, shareVars>>
<2>1. PICK n \in Page : ReadCache(r, n) /\ UNCHANGED <<limiterVars, shareVars>>
  BY <1>2
<2> DEFINE x == [pc |-> "select", page |-> n, rows |-> <<>>]
<2>2. x \in ApiRequest /\ x.pc = "select"
  BY DEF ApiRequest, Reading
<2>3. req' = [req EXCEPT ![r] = x] /\ UNCHANGED <<board, cache, shareVars>> /\ ~At(r, "scan") /\ ~At(r, "delete")
  BY <2>1 DEF ReadCache, Begin, At
<2> HIDE DEF x
<2> QED BY <1>1, <2>2, <2>3, Aside DEF IInv
<1>3. CASE SelectPage(r) /\ UNCHANGED <<limiterVars, shareVars>>
<2> DEFINE x == [req[r] EXCEPT !.pc = "set", !.rows = PageOf(req[r].page)]
<2>1. req[r] \in Reading
  BY <1>0, <1>3, ByPc DEF SelectPage, At
<2>2. PageOf(req[r].page) \in Seq(ShownRow)
  BY <1>0, <2>1, PageTyped DEF Reading
<2>3. x \in ApiRequest /\ x.pc = "set"
  BY <2>1, <2>2 DEF ApiRequest, Reading
<2>4. req' = [req EXCEPT ![r] = x] /\ UNCHANGED <<board, cache, shareVars>> /\ ~At(r, "scan") /\ ~At(r, "delete")
  BY <1>0, <1>3 DEF SelectPage, At
<2> HIDE DEF x
<2> QED BY <1>1, <2>3, <2>4, Aside DEF IInv
<1> QED BY <1>2, <1>3

LEMMA LimitKeeps ==
  ASSUME IInv, LimitAssumption, NEW r \in Req,
         \/ \E p \in Caller, kind \in Kind : ShareIncr(r, p, kind)
         \/ ShareExpire(r)
         \/ LimiterFails(r)
  PROVE  IInv'
<1>0. /\ req \in [Req -> ApiRequest] /\ req[r] \in ApiRequest
      /\ LimiterTypeOK /\ WithinWindow /\ TypeOK /\ Sweeps /\ Stored
  BY DEF IInv, TypeOK
<1>n. ASSUME NEW p \in Caller, NEW kind \in Kind, NEW pc \in {"expire", "snapshot"}
      PROVE  NewSharing(p, kind, pc) \in ApiRequest /\ NewSharing(p, kind, pc).pc = pc
  BY DEF ApiRequest, Asking, NewSharing
<1>c. ASSUME At(r, "expire"), Continue(r, "snapshot")
      PROVE  /\ req[r].player \in Caller
             /\ [req[r] EXCEPT !.pc = "snapshot"] \in ApiRequest
             /\ req' = [req EXCEPT ![r] = [req[r] EXCEPT !.pc = "snapshot"]]
             /\ [req[r] EXCEPT !.pc = "snapshot"].pc = "snapshot"
<2>1. req[r] \in Asking
  BY <1>0, <1>c, ByPc DEF At
<2> QED BY <1>0, <1>c, <2>1 DEF Continue, ApiRequest, Asking
<1>i. Idle \in ApiRequest /\ Idle.pc = "idle"
  BY DEF ApiRequest, Idle
<1>1. ASSUME NEW p \in Caller, NEW kind \in Kind, ShareIncr(r, p, kind) PROVE IInv'
<2>1. LimiterTypeOK' /\ WithinWindow'
  BY <1>0, <1>1, LimiterStep DEF ShareIncr
<2>2. UNCHANGED <<board, cache, shareVars>> /\ At(r, "idle") /\ ~At(r, "scan") /\ ~At(r, "delete")
  BY <1>1 DEF ShareIncr, Begin, At
<2>3. PICK x \in ApiRequest : req' = [req EXCEPT ![r] = x] /\ x.pc \in {"idle", "expire", "snapshot"}
<3>1. CASE Begin(r, NewSharing(p, kind, "expire"))
  BY <1>n, <3>1 DEF Begin
<3>2. CASE Begin(r, NewSharing(p, kind, "snapshot"))
  BY <1>n, <3>2 DEF Begin
<3>3. CASE UNCHANGED req
<4>1. req' = [req EXCEPT ![r] = req[r]] /\ req[r].pc = "idle"
  BY <1>0, <2>2, <3>3 DEF At
<4> QED BY <1>0, <4>1
<3> QED BY <1>1, <3>1, <3>2, <3>3 DEF ShareIncr
<2> QED BY <1>0, <2>1, <2>2, <2>3, Aside DEF IInv
<1>2. CASE ShareExpire(r)
<2>1. At(r, "expire") /\ Continue(r, "snapshot") /\ UNCHANGED <<board, cache, shareVars>>
  BY <1>2 DEF ShareExpire
<2>2. LimiterTypeOK' /\ WithinWindow'
  BY <1>0, <1>2, <1>c, LimiterStep DEF ShareExpire
<2> QED BY <1>0, <1>c, <2>1, <2>2, Aside DEF IInv, At
<1>3. CASE LimiterFails(r)
<2>1. UNCHANGED <<board, cache, shareVars>>
  BY <1>3 DEF LimiterFails
<2>2. CASE (\E p \in Caller, kind \in Kind : Begin(r, NewSharing(p, kind, "snapshot"))) /\ UNCHANGED limiterVars
<3>1. PICK p \in Caller, kind \in Kind : Begin(r, NewSharing(p, kind, "snapshot"))
  BY <2>2
<3>2. LimiterTypeOK' /\ WithinWindow'
  BY <1>0, <2>2, LimiterKept
<3>3. /\ NewSharing(p, kind, "snapshot") \in ApiRequest
      /\ NewSharing(p, kind, "snapshot").pc = "snapshot"
  BY <1>n
<3>4. req' = [req EXCEPT ![r] = NewSharing(p, kind, "snapshot")] /\ ~At(r, "scan") /\ ~At(r, "delete")
  BY <3>1 DEF Begin, At
<3> QED BY <1>0, <2>1, <3>2, <3>3, <3>4, Aside DEF IInv
<2>3. CASE At(r, "expire") /\ Orphan(req[r].player) /\ Continue(r, "snapshot")
<3>1. LimiterTypeOK' /\ WithinWindow'
  BY <1>0, <1>c, <2>3, LimiterStep
<3> QED BY <1>0, <1>c, <2>1, <2>3, <3>1, Aside DEF IInv, At
<2>4. ASSUME NEW p \in Caller, NEW kind \in Kind,
             IncrUnnoticed(p), Begin(r, NewSharing(p, kind, "snapshot"))
      PROVE  IInv'
<3>1. LimiterTypeOK' /\ WithinWindow'
  BY <1>0, <2>4, LimiterStep
<3>2. /\ NewSharing(p, kind, "snapshot") \in ApiRequest
      /\ NewSharing(p, kind, "snapshot").pc = "snapshot"
  BY <1>n
<3>3. req' = [req EXCEPT ![r] = NewSharing(p, kind, "snapshot")] /\ ~At(r, "scan") /\ ~At(r, "delete")
  BY <2>4 DEF Begin, At
<3> QED BY <1>0, <2>1, <3>1, <3>2, <3>3, Aside DEF IInv
<2> QED BY <1>3, <2>2, <2>3, <2>4 DEF LimiterFails
<1> QED BY <1>1, <1>2, <1>3

LEMMA DrawKeeps ==
  ASSUME IInv, ScoresAssumption, NEW r \in Req, LoadShareSnapshot(r) \/ RankCard(r)
  PROVE  IInv'
<1>0. /\ req \in [Req -> ApiRequest] /\ req[r] \in ApiRequest /\ Table(board)
      /\ TypeOK /\ Sweeps /\ Stored
  BY TableOK DEF IInv, TypeOK
<1>1. LimiterTypeOK' /\ WithinWindow'
  BY LimiterKept DEF IInv, TypeOK, LoadShareSnapshot, RankCard
<1>2. UNCHANGED <<board, cache, shareVars>> /\ ~At(r, "scan") /\ ~At(r, "delete")
  BY DEF LoadShareSnapshot, RankCard, At
<1>3. PICK x \in ApiRequest : req' = [req EXCEPT ![r] = x] /\ x.pc \in {"idle", "rank", "upload"}
<2>1. CASE Return(r)
<3>1. Idle \in ApiRequest /\ Idle.pc = "idle"
  BY DEF ApiRequest, Idle
<3> QED BY <2>1, <3>1 DEF Return
<2>2. CASE LoadShareSnapshot(r) /\ ~Return(r)
<3>1. PICK i \in RowOf(req[r].player) :
        req' = [req EXCEPT ![r].pc = "rank",
                           ![r].card = [player |-> req[r].player, score |-> board[i].final, rank |-> 1]]
  BY <2>2 DEF LoadShareSnapshot
<3> DEFINE c == [player |-> req[r].player, score |-> board[i].final, rank |-> 1]
           x == [req[r] EXCEPT !.pc = "rank", !.card = c]
<3>2. req[r] \in Asking
  BY <1>0, <2>2, ByPc DEF LoadShareSnapshot, At
<3>3. board[i].final \in Nat
<4>1. board \in Seq(ScoreRow) /\ i \in DOMAIN board
  BY <1>0 DEF Table, RowOf
<4>2. board[i] \in ScoreRow
  BY <4>1
<4> QED BY <4>2 DEF ScoreRow
<3>4. c \in Card
  BY <3>2, <3>3 DEF Card, Asking, ScoresAssumption
<3>5. req' = [req EXCEPT ![r] = x]
  BY <1>0, <3>1
<3> HIDE DEF c
<3>6. x \in ApiRequest /\ x.pc = "rank"
  BY <3>2, <3>4 DEF ApiRequest, Asking, Drawing
<3> QED BY <3>5, <3>6
<2>3. CASE RankCard(r) /\ ~Return(r)
<3> DEFINE k == RankForScore(req[r].card.score)
           x == [req[r] EXCEPT !.pc = "upload", !.card.rank = k]
<3>2. req[r] \in Drawing
  BY <1>0, <2>3, ByPc DEF RankCard, At
<3>3. k \in Nat \ {0}
  BY <1>0, RankTyped
<3>5. req' = [req EXCEPT ![r] = x]
  BY <1>0, <2>3 DEF RankCard
<3> HIDE DEF k
<3>6. x \in ApiRequest /\ x.pc = "upload"
  BY <3>2, <3>3 DEF ApiRequest, Drawing, Card
<3> QED BY <3>5, <3>6
<2> QED BY <2>1, <2>2, <2>3
<1> QED BY <1>0, <1>1, <1>2, <1>3, Aside DEF IInv

-----------------------------------------------------------------------------
(***************************************************************************)
(* Requests that change the pages and the table.                           *)
(***************************************************************************)
(* Steps on the board, the pages and the requests alone.                   *)
LEMMA BoardSteps ==
  ASSUME IInv, LimiterTypeOK', WithinWindow', UNCHANGED shareVars, LeaderboardTypeOK', Sweeps',
         req' \in [Req -> ApiRequest],
         \A r \in Req : At(r, "insert")' => req'[r] = req[r]
  PROVE  IInv'
<1>1. TypeOK'
  BY DEF IInv, TypeOK, shareVars
<1>2. Stored'
  BY DEF IInv, Stored, ShareHasImage, SharePage, ShareImage, At, shareVars
<1> QED BY <1>1, <1>2 DEF IInv

(* A request returns, and pages are left, dropped, set anew or excused.    *)
LEMMA PagesStep ==
  ASSUME IInv, NEW r \in Req, Return(r), UNCHANGED <<board, shareVars>>,
         LimiterTypeOK', WithinWindow',
         cache' \in [Page -> CachedPage \cup {Nothing}],
         \A n \in Page : cache'[n] # Nothing =>
           /\ r \notin cache'[n].owed
           /\ cache'[n].owed = {} \/ (cache[n] # Nothing /\ cache'[n].owed \subseteq cache[n].owed)
  PROVE  IInv'
<1>1. req' \in [Req -> ApiRequest] /\ req'[r].pc = "idle" /\ \A q \in Req \ {r} : req'[q] = req[q]
<2>1. Idle \in ApiRequest /\ Idle.pc = "idle"
  BY DEF ApiRequest, Idle
<2>2. req \in [Req -> ApiRequest]
  BY DEF IInv, TypeOK
<2> QED BY <2>1, <2>2 DEF Return
<1>2. LeaderboardTypeOK'
  BY DEF IInv, TypeOK, LeaderboardTypeOK
<1>3. \A q \in Req : ~At(q, "idle")' => req'[q] = req[q] /\ q # r
  BY <1>1 DEF At
<1>4. ASSUME NEW q \in Req, NEW n \in Page, cache'[n] # Nothing, q \in cache'[n].owed
      PROVE  q # r /\ req'[q] = req[q] /\ cache[n] # Nothing /\ q \in cache[n].owed
  BY <1>1, <1>4
<1>5. ImprovementSweepsPages'
  BY <1>4 DEF IInv, Sweeps, ImprovementSweepsPages, At, TypeOK, LeaderboardTypeOK, CachedPage
<1>6. \A q \in Req, n \in Page :
        At(q, "delete")' /\ cache'[n] # Nothing /\ q \in cache'[n].owed => n \in req'[q].keys
  BY <1>4 DEF IInv, Sweeps, At
<1>7. \A res : Improves(res)' <=> Improves(res)
  BY DEF Improves, RowOf
<1>8. \A q \in Req : At(q, "upsert")' /\ Improves(req[q].result)' => req'[q].newBest
  BY <1>3, <1>7 DEF IInv, Sweeps, At
<1>9. Sweeps'
  BY <1>5, <1>6, <1>8 DEF Sweeps
<1>10. \A q \in Req : At(q, "insert")' => req'[q] = req[q]
  BY <1>3 DEF At
<1> QED BY <1>1, <1>2, <1>9, <1>10, BoardSteps

LEMMA SetPageKeeps ==
  ASSUME IInv, NEW r \in Req, SetPage(r), UNCHANGED <<limiterVars, shareVars>>
  PROVE  IInv'
<1>0. req \in [Req -> ApiRequest] /\ cache \in [Page -> CachedPage \cup {Nothing}]
  BY DEF IInv, TypeOK, LeaderboardTypeOK
<1>l. LimiterTypeOK' /\ WithinWindow'
  BY LimiterKept DEF IInv, TypeOK
<1>1. req[r] \in Reading /\ req[r].page \in Page
<2>1. req[r] \in Reading
  BY <1>0, ByPc DEF SetPage, At
<2> QED BY <2>1 DEF Reading
<1>2. \A n \in Page : cache[n] # Nothing => r \notin cache[n].owed
  BY DEF SetPage, At, IInv, Sweeps, ImprovementSweepsPages
<1> DEFINE x == [rows |-> req[r].rows, owed |-> {}]
<1>3. x \in CachedPage /\ x.owed = {}
  BY <1>1 DEF Reading, CachedPage
<1>4. CASE cache' = [cache EXCEPT ![req[r].page] = x]
<2> HIDE DEF x
<2>1. cache' \in [Page -> CachedPage \cup {Nothing}]
  BY <1>0, <1>3, <1>4
<2>2. \A n \in Page : cache'[n] # Nothing =>
        /\ r \notin cache'[n].owed
        /\ cache'[n].owed = {} \/ (cache[n] # Nothing /\ cache'[n].owed \subseteq cache[n].owed)
  BY <1>0, <1>2, <1>3, <1>4
<2>3. Return(r) /\ UNCHANGED board
  BY DEF SetPage
<2> QED BY <1>l, <2>1, <2>2, <2>3, PagesStep
<1>5. CASE UNCHANGED cache
  BY <1>0, <1>l, <1>2, <1>5, PagesStep DEF SetPage
<1> QED BY <1>4, <1>5 DEF SetPage

LEMMA DeleteKeeps ==
  ASSUME IInv, NEW r \in Req, Delete(r), UNCHANGED <<limiterVars, shareVars>>
  PROVE  IInv'
<1>0. req \in [Req -> ApiRequest] /\ cache \in [Page -> CachedPage \cup {Nothing}]
  BY DEF IInv, TypeOK, LeaderboardTypeOK
<1>l. LimiterTypeOK' /\ WithinWindow'
  BY LimiterKept DEF IInv, TypeOK
<1>1. PICK later \in SUBSET {n \in Page : cache[n] # Nothing} :
        cache' = [n \in Page |-> IF n \in req[r].keys \cup later THEN Nothing ELSE cache[n]]
  BY DEF Delete
<1>2. \A n \in Page : cache[n] # Nothing /\ r \in cache[n].owed => n \in req[r].keys
  BY DEF Delete, IInv, Sweeps
<1>3. cache' \in [Page -> CachedPage \cup {Nothing}]
  BY <1>0, <1>1
<1>4. \A n \in Page : cache'[n] # Nothing => cache'[n] = cache[n] /\ r \notin cache[n].owed
  BY <1>1, <1>2
<1>5. Return(r) /\ UNCHANGED board
  BY DEF Delete
<1> QED BY <1>l, <1>3, <1>4, <1>5, PagesStep

LEMMA ExcusedKeeps ==
  ASSUME IInv, NEW r \in Req, cache' = Excused(r), Return(r),
         LimiterTypeOK', WithinWindow', UNCHANGED <<board, shareVars>>
  PROVE  IInv'
<1>0. cache \in [Page -> CachedPage \cup {Nothing}]
  BY DEF IInv, TypeOK, LeaderboardTypeOK
<1>1. \A n \in Page : cache[n] # Nothing =>
        /\ [cache[n] EXCEPT !.owed = @ \ {r}] \in CachedPage
        /\ [cache[n] EXCEPT !.owed = @ \ {r}].owed = cache[n].owed \ {r}
  BY <1>0 DEF CachedPage
<1>2. \A n \in Page : cache'[n] = IF cache[n] = Nothing THEN Nothing ELSE [cache[n] EXCEPT !.owed = @ \ {r}]
  BY DEF Excused
<1>3. cache' \in [Page -> CachedPage \cup {Nothing}]
  BY <1>1 DEF Excused
<1>4. \A n \in Page : cache'[n] # Nothing => cache[n] # Nothing /\ cache'[n].owed = cache[n].owed \ {r}
  BY <1>1, <1>2
<1> QED BY <1>3, <1>4, PagesStep

LEMMA FailureKeeps ==
  ASSUME IInv, LimitAssumption, NEW r \in Req,
         \/ SweepFails(r) /\ UNCHANGED <<limiterVars, shareVars>>
         \/ SharingDies(r)
  PROVE  IInv'
<1>1. CASE SweepFails(r) /\ UNCHANGED <<limiterVars, shareVars>>
<2>1. LimiterTypeOK' /\ WithinWindow'
  BY <1>1, LimiterKept DEF IInv, TypeOK
<2> QED BY <1>1, <2>1, ExcusedKeeps DEF SweepFails
<1>2. CASE SharingDies(r)
<2>1. LimiterTypeOK' /\ WithinWindow'
<3>1. LimiterTypeOK /\ WithinWindow /\ req \in [Req -> ApiRequest]
  BY DEF IInv, TypeOK
<3>2. CASE At(r, "expire")
<4>1. req[r] \in Asking
  BY <3>1, <3>2, ByPc DEF At
<4>2. req[r].player \in Caller /\ Orphan(req[r].player)
  BY <1>2, <3>2, <4>1 DEF Asking, SharingDies
<4> QED BY <3>1, <4>2, LimiterStep
<3>3. CASE ~At(r, "expire")
  BY <1>2, <3>1, <3>3, LimiterKept DEF SharingDies
<3> QED BY <3>2, <3>3
<2> QED BY <1>2, <2>1, ExcusedKeeps DEF SharingDies, RequestDies
<1> QED BY <1>1, <1>2

LEMMA ExpireKeeps ==
  ASSUME IInv, NEW p \in Page, ExpirePage(p), UNCHANGED <<limiterVars, shareVars>>
  PROVE  IInv'
<1>1. LimiterTypeOK' /\ WithinWindow' /\ LeaderboardTypeOK'
  BY LimiterKept DEF IInv, TypeOK, LeaderboardTypeOK, ExpirePage
<1>2. \A n \in Page : cache'[n] # Nothing => cache'[n] = cache[n]
  BY DEF ExpirePage, IInv, TypeOK, LeaderboardTypeOK
<1>3. \A res : Improves(res)' <=> Improves(res)
  BY DEF Improves, RowOf, ExpirePage
<1>4. Sweeps'
  BY <1>2, <1>3 DEF IInv, Sweeps, ImprovementSweepsPages, At, ExpirePage
<1> QED BY <1>1, <1>4, BoardSteps DEF IInv, TypeOK, ExpirePage

LEMMA SelectKeeps ==
  ASSUME IInv, NEW r \in Req, NEW result \in Results,
         SelectExisting(r, result), UNCHANGED <<limiterVars, shareVars>>
  PROVE  IInv'
<1> DEFINE x == [pc |-> "upsert", result |-> result, newBest |-> NewBest(result)]
<1>0. req \in [Req -> ApiRequest] /\ At(r, "idle") /\ req' = [req EXCEPT ![r] = x] /\ UNCHANGED <<board, cache>>
  BY DEF SelectExisting, Begin, IInv, TypeOK
<1>1. NewBest(result) \in BOOLEAN
  BY DEF NewBest, Improves
<1>2. x \in ApiRequest /\ x.pc = "upsert" /\ x.result = result /\ x.newBest = Improves(result)
  BY <1>1 DEF ApiRequest, Submitting, NewBest
<1> HIDE DEF x
<1>3. req' \in [Req -> ApiRequest] /\ req'[r] = x /\ \A q \in Req \ {r} : req'[q] = req[q]
  BY <1>0, <1>2
<1>4. LimiterTypeOK' /\ WithinWindow' /\ LeaderboardTypeOK'
  BY <1>0, LimiterKept DEF IInv, TypeOK, LeaderboardTypeOK
<1>5. \A res : Improves(res)' <=> Improves(res)
  BY <1>0 DEF Improves, RowOf
<1>6. Sweeps'
<2>1. ImprovementSweepsPages'
  BY <1>0, <1>3 DEF IInv, Sweeps, ImprovementSweepsPages, At
<2>2. \A q \in Req, n \in Page :
        At(q, "delete")' /\ cache'[n] # Nothing /\ q \in cache'[n].owed => n \in req'[q].keys
  BY <1>0, <1>2, <1>3 DEF IInv, Sweeps, At
<2>3. ASSUME NEW q \in Req, At(q, "upsert")', Improves(req[q].result)' PROVE req'[q].newBest
<3>1. CASE q = r
  BY <1>2, <1>3, <1>5, <2>3, <3>1
<3>2. CASE q # r
  BY <1>3, <1>5, <2>3, <3>2 DEF IInv, Sweeps, At
<3> QED BY <3>1, <3>2
<2> QED BY <2>1, <2>2, <2>3 DEF Sweeps
<1>7. \A q \in Req : At(q, "insert")' => req'[q] = req[q]
  BY <1>2, <1>3 DEF At
<1> QED BY <1>3, <1>4, <1>6, <1>7, BoardSteps

LEMMA ScanKeeps ==
  ASSUME IInv, NEW r \in Req, Scan(r), UNCHANGED <<limiterVars, shareVars>>
  PROVE  IInv'
<1> DEFINE K == {n \in Page : cache[n] # Nothing}
           x == [req[r] EXCEPT !.pc = "delete", !.keys = K]
<1>0. req \in [Req -> ApiRequest] /\ At(r, "scan") /\ UNCHANGED <<board, cache>>
  BY DEF Scan, IInv, TypeOK
<1>1. req[r] \in Sweeping
  BY <1>0, ByPc DEF At
<1>2. K \in SUBSET Page /\ req' = [req EXCEPT ![r] = x]
  BY <1>0 DEF Scan
<1>3. x \in ApiRequest /\ x.pc = "delete" /\ x.keys = K
  BY <1>1 DEF ApiRequest, Sweeping
<1> HIDE DEF x
<1>4. req' \in [Req -> ApiRequest] /\ req'[r] = x /\ \A q \in Req \ {r} : req'[q] = req[q]
  BY <1>0, <1>2, <1>3
<1>5. LimiterTypeOK' /\ WithinWindow' /\ LeaderboardTypeOK'
  BY <1>0, LimiterKept DEF IInv, TypeOK, LeaderboardTypeOK
<1>6. \A res : Improves(res)' <=> Improves(res)
  BY <1>0 DEF Improves, RowOf
<1>7. Sweeps'
<2>1. ImprovementSweepsPages'
<3>1. \A n \in Page : cache[n] # Nothing => cache[n].owed \subseteq Req
  BY DEF IInv, TypeOK, LeaderboardTypeOK, CachedPage
<3> QED BY <1>0, <1>3, <1>4, <3>1 DEF IInv, Sweeps, ImprovementSweepsPages, At
<2>2. \A q \in Req, n \in Page :
        At(q, "delete")' /\ cache'[n] # Nothing /\ q \in cache'[n].owed => n \in req'[q].keys
  BY <1>0, <1>3, <1>4 DEF IInv, Sweeps, At
<2>3. \A q \in Req : At(q, "upsert")' /\ Improves(req[q].result)' => req'[q].newBest
  BY <1>3, <1>4, <1>6 DEF IInv, Sweeps, At
<2> QED BY <2>1, <2>2, <2>3 DEF Sweeps
<1>8. \A q \in Req : At(q, "insert")' => req'[q] = req[q]
  BY <1>3, <1>4 DEF At
<1> QED BY <1>4, <1>5, <1>7, <1>8, BoardSteps

LEMMA UpsertKeeps ==
  ASSUME IInv, LeaderboardAssumption, NEW r \in Req, UpsertScore(r), UNCHANGED <<limiterVars, shareVars>>
  PROVE  IInv'
<1> DEFINE result == req[r].result
           x == IF req[r].newBest THEN [pc |-> "scan", keys |-> {}] ELSE Idle
<1>0. /\ req \in [Req -> ApiRequest] /\ At(r, "upsert") /\ Table(board)
      /\ cache \in [Page -> CachedPage \cup {Nothing}]
  BY TableOK DEF UpsertScore, IInv, TypeOK
<1>1. req[r] \in Submitting /\ result \in Results
<2>1. req[r] \in Submitting
  BY <1>0, ByPc DEF At
<2> QED BY <2>1 DEF Submitting
<1>2. /\ Table(Upserted(result)) /\ board' = Upserted(result)
      /\ \A i \in DOMAIN board : \E j \in DOMAIN board' :
           board'[j].player = board[i].player /\ board'[j].score >= board[i].score
  BY <1>0, <1>1, UpsertedTable DEF UpsertScore
<1>3. x \in ApiRequest /\ x.pc \in {"scan", "idle"} /\ (req[r].newBest => x.pc = "scan")
  BY DEF ApiRequest, Sweeping, Idle
<1>4. req' = [req EXCEPT ![r] = x]
  BY <1>0 DEF UpsertScore
<1> HIDE DEF x
<1>5. req' \in [Req -> ApiRequest] /\ req'[r] = x /\ \A q \in Req \ {r} : req'[q] = req[q]
  BY <1>0, <1>3, <1>4
<1>6. /\ cache' \in [Page -> CachedPage \cup {Nothing}]
      /\ \A n \in Page : cache'[n] # Nothing =>
           /\ cache[n] # Nothing
           /\ \A q \in cache'[n].owed : q \in cache[n].owed \/ (q = r /\ Improves(result))
<2>1. CASE Improves(result)
<3>1. cache' = Owed(r)
  BY <2>1 DEF UpsertScore
<3>2. \A n \in Page : cache[n] # Nothing =>
        /\ [cache[n] EXCEPT !.owed = @ \cup {r}] \in CachedPage
        /\ [cache[n] EXCEPT !.owed = @ \cup {r}].owed = cache[n].owed \cup {r}
  BY <1>0 DEF CachedPage
<3>3. \A n \in Page : cache'[n] = IF cache[n] = Nothing THEN Nothing ELSE [cache[n] EXCEPT !.owed = @ \cup {r}]
  BY <3>1 DEF Owed
<3>4. cache' \in [Page -> CachedPage \cup {Nothing}]
  BY <3>1, <3>2 DEF Owed
<3>5. ASSUME NEW n \in Page, cache'[n] # Nothing
      PROVE  cache[n] # Nothing /\ cache'[n].owed = cache[n].owed \cup {r}
  BY <3>2, <3>3, <3>5
<3> QED BY <2>1, <3>4, <3>5
<2>2. CASE ~Improves(result)
  BY <1>0, <2>2 DEF UpsertScore
<2> QED BY <2>1, <2>2
<1>7. LeaderboardTypeOK'
  BY <1>2, <1>6 DEF LeaderboardTypeOK, Table
<1>8. LimiterTypeOK' /\ WithinWindow'
  BY LimiterKept DEF IInv, TypeOK
<1>9. \A res \in Results : Improves(res)' => Improves(res)
<2> SUFFICES ASSUME NEW res \in Results, Improves(res)', NEW i \in RowOf(res.player)
             PROVE  res.score > board[i].score
  BY DEF Improves
<2>1. i \in DOMAIN board /\ board[i].player = res.player
  BY DEF RowOf
<2>2. PICK j \in DOMAIN board' : board'[j].player = board[i].player /\ board'[j].score >= board[i].score
  BY <1>2, <2>1
<2>3. res.score > board'[j].score
  BY <2>1, <2>2 DEF Improves, RowOf
<2>4. board \in Seq(ScoreRow) /\ board' \in Seq(ScoreRow)
  BY <1>0, <1>2 DEF Table
<2>5. board[i].score \in Nat /\ board'[j].score \in Nat
<3>1. board[i] \in ScoreRow /\ board'[j] \in ScoreRow
  BY <2>1, <2>2, <2>4
<3> QED BY <3>1 DEF ScoreRow
<2>6. res.score \in Nat
  BY DEF LeaderboardAssumption
<2> QED BY <2>2, <2>3, <2>5, <2>6
<1>10. Sweeps'
<2>1. ASSUME NEW n \in Page, cache'[n] # Nothing, NEW q \in cache'[n].owed
      PROVE  At(q, "scan")' \/ At(q, "delete")'
<3>1. CASE q \in cache[n].owed
<4>1. q \in Req
  BY <1>0, <1>6, <2>1, <3>1 DEF CachedPage
<4>2. At(q, "scan") \/ At(q, "delete")
  BY <1>6, <2>1, <3>1 DEF IInv, Sweeps, ImprovementSweepsPages
<4>3. q # r
  BY <1>0, <4>2 DEF At
<4> QED BY <1>5, <4>1, <4>2, <4>3 DEF At
<3>2. CASE q = r /\ Improves(result)
<4>1. req[r].newBest
  BY <1>0, <3>2 DEF IInv, Sweeps
<4> QED BY <1>3, <1>5, <3>2, <4>1 DEF At
<3> QED BY <1>6, <2>1, <3>1, <3>2
<2>2. ASSUME NEW q \in Req, NEW n \in Page, At(q, "delete")', cache'[n] # Nothing, q \in cache'[n].owed
      PROVE  n \in req'[q].keys
<3>1. q # r /\ req'[q] = req[q]
  BY <1>3, <1>5, <2>2 DEF At
<3>2. cache[n] # Nothing /\ q \in cache[n].owed
  BY <1>6, <2>2, <3>1
<3> QED BY <2>2, <3>1, <3>2 DEF IInv, Sweeps, At
<2>3. ASSUME NEW q \in Req, At(q, "upsert")', Improves(req[q].result)' PROVE req'[q].newBest
<3>1. q # r /\ req'[q] = req[q]
  BY <1>3, <1>5, <2>3 DEF At
<3>2. req[q] \in Submitting
  BY <1>0, <2>3, <3>1, ByPc DEF At
<3>3. req[q].result \in Results
  BY <3>2 DEF Submitting
<3>4. Improves(req[q].result)
  BY <1>9, <2>3, <3>1, <3>3
<3> QED BY <2>3, <3>1, <3>4 DEF IInv, Sweeps, At
<2> QED BY <2>1, <2>2, <2>3 DEF Sweeps, ImprovementSweepsPages
<1>11. \A q \in Req : At(q, "insert")' => req'[q] = req[q]
  BY <1>3, <1>5 DEF At
<1> QED BY <1>5, <1>7, <1>8, <1>10, <1>11, BoardSteps

-----------------------------------------------------------------------------
(***************************************************************************)
(* Requests that store a card.                                             *)
(***************************************************************************)
LEMMA StoreKeeps ==
  ASSUME IInv, NEW r \in Req, UploadCard(r) \/ InsertShare(r)
  PROVE  IInv'
<1>0. /\ req \in [Req -> ApiRequest] /\ req[r] \in ApiRequest
      /\ shares \in [ShareId -> Card \cup {Nothing}] /\ objects \in [ShareId -> Card \cup {Nothing}]
      /\ Stored
  BY DEF IInv, TypeOK
<1>1. LimiterTypeOK' /\ WithinWindow' /\ LeaderboardTypeOK' /\ UNCHANGED <<board, cache>>
  BY LimiterKept DEF IInv, TypeOK, LeaderboardTypeOK, UploadCard, InsertShare
<1>2. \A res : Improves(res)' <=> Improves(res)
  BY <1>1 DEF Improves, RowOf
<1>3. \A n \in Page : cache[n] # Nothing => cache[n].owed \subseteq Req
  BY DEF IInv, TypeOK, LeaderboardTypeOK, CachedPage
<1>s. ASSUME NEW x \in ApiRequest, x.pc \in {"idle", "insert"}, req' = [req EXCEPT ![r] = x],
             ~At(r, "scan"), ~At(r, "delete")
      PROVE  Sweeps' /\ req' \in [Req -> ApiRequest]
<2>1. req' \in [Req -> ApiRequest] /\ req'[r] = x /\ \A q \in Req \ {r} : req'[q] = req[q]
  BY <1>0, <1>s
<2>2. ImprovementSweepsPages'
  BY <1>1, <1>3, <1>s, <2>1 DEF IInv, Sweeps, ImprovementSweepsPages, At
<2>3. \A q \in Req, n \in Page :
        At(q, "delete")' /\ cache'[n] # Nothing /\ q \in cache'[n].owed => n \in req'[q].keys
  BY <1>1, <1>s, <2>1 DEF IInv, Sweeps, At
<2>4. \A q \in Req : At(q, "upsert")' /\ Improves(req[q].result)' => req'[q].newBest
  BY <1>2, <1>s, <2>1 DEF IInv, Sweeps, At
<2> QED BY <2>1, <2>2, <2>3, <2>4 DEF Sweeps
<1>4. CASE UploadCard(r)
<2>1. PICK i \in NewShareId : /\ objects' = [objects EXCEPT ![i] = req[r].card]
                              /\ req' = [req EXCEPT ![r].pc = "insert", ![r].id = i]
                              /\ shares' = shares /\ At(r, "upload")
  BY <1>4 DEF UploadCard
<2> DEFINE x == [req[r] EXCEPT !.pc = "insert", !.id = i]
<2>2. req[r] \in Drawing /\ req[r].card \in Card
<3>1. req[r] \in Drawing
  BY <1>0, <2>1, ByPc DEF At
<3> QED BY <3>1 DEF Drawing
<2>3. i \in ShareId /\ shares[i] = Nothing /\ \A q \in Req : At(q, "insert") => req[q].id # i
  BY DEF NewShareId
<2>4. x \in ApiRequest /\ x.pc = "insert" /\ x.id = i /\ x.card = req[r].card
  BY <2>2, <2>3 DEF ApiRequest, Drawing, Storing
<2>5. req' = [req EXCEPT ![r] = x] /\ ~At(r, "scan") /\ ~At(r, "delete")
  BY <1>0, <2>1 DEF At
<2> HIDE DEF x
<2>6. Sweeps' /\ req' \in [Req -> ApiRequest]
  BY <1>s, <2>4, <2>5
<2>7. objects' \in [ShareId -> Card \cup {Nothing}]
  BY <1>0, <2>1, <2>2
<2>8. Stored'
<3>1. ShareHasImage'
  BY <1>0, <2>1, <2>3 DEF Stored, ShareHasImage, SharePage, ShareImage
<3>2. ASSUME NEW q \in Req, At(q, "insert")' PROVE objects'[req'[q].id] = req'[q].card
<4>1. CASE q = r
  BY <1>0, <2>1, <2>3, <2>4, <2>5, <4>1
<4>2. CASE q # r
<5>1. req'[q] = req[q] /\ At(q, "insert") /\ req[q].id # i
  BY <1>0, <2>3, <2>5, <3>2, <4>2 DEF At
<5>2. objects'[req[q].id] = objects[req[q].id]
<6>1. req[q] \in Storing
  BY <1>0, <5>1, ByPc DEF At
<6>2. req[q].id \in ShareId
  BY <6>1 DEF Storing
<6> QED BY <1>0, <2>1, <5>1, <6>2
<5> QED BY <1>0, <5>1, <5>2 DEF Stored
<4> QED BY <4>1, <4>2
<3> QED BY <3>1, <3>2 DEF Stored
<2>9. TypeOK'
  BY <1>0, <1>1, <2>1, <2>6, <2>7 DEF TypeOK
<2> QED BY <1>1, <2>6, <2>8, <2>9 DEF IInv
<1>5. CASE InsertShare(r)
<2>1. /\ shares' = [shares EXCEPT ![req[r].id] = req[r].card]
      /\ objects' = objects /\ At(r, "insert") /\ req' = [req EXCEPT ![r] = Idle]
  BY <1>5 DEF InsertShare, Return
<2>2. req[r] \in Storing /\ req[r].card \in Card /\ req[r].id \in ShareId
<3>1. req[r] \in Storing
  BY <1>0, <2>1, ByPc DEF At
<3> QED BY <3>1 DEF Storing
<2>3. Idle \in ApiRequest /\ Idle.pc = "idle"
  BY DEF ApiRequest, Idle
<2>4. ~At(r, "scan") /\ ~At(r, "delete")
  BY <2>1 DEF At
<2>5. Sweeps' /\ req' \in [Req -> ApiRequest]
  BY <1>s, <2>1, <2>3, <2>4
<2>6. shares' \in [ShareId -> Card \cup {Nothing}]
  BY <1>0, <2>1, <2>2
<2>7. objects[req[r].id] = req[r].card
  BY <1>0, <2>1 DEF Stored
<2>8. Stored'
<3>1. ShareHasImage'
  BY <1>0, <2>1, <2>2, <2>7 DEF Stored, ShareHasImage, SharePage, ShareImage
<3>2. \A q \in Req : At(q, "insert")' => objects'[req'[q].id] = req'[q].card
  BY <1>0, <2>1, <2>3 DEF Stored, At
<3> QED BY <3>1, <3>2 DEF Stored
<2>9. TypeOK'
  BY <1>0, <1>1, <2>1, <2>5, <2>6 DEF TypeOK
<2> QED BY <1>1, <2>5, <2>8, <2>9 DEF IInv
<1> QED BY <1>4, <1>5

-----------------------------------------------------------------------------
(***************************************************************************)
(* The invariant, and the theorems.                                        *)
(***************************************************************************)
LEMMA NextIInv ==
  ASSUME LimitAssumption, LeaderboardAssumption, ScoresAssumption, IInv, [Next]_vars
  PROVE  IInv'
<1>1. ASSUME NEW r \in Req, Step(r) PROVE IInv'
<2>1. CASE SelectPage(r) /\ UNCHANGED <<limiterVars, shareVars>>
  BY <2>1, ReadKeeps
<2>2. CASE SetPage(r) /\ UNCHANGED <<limiterVars, shareVars>>
  BY <2>2, SetPageKeeps
<2>3. CASE UpsertScore(r) /\ UNCHANGED <<limiterVars, shareVars>>
  BY <2>3, UpsertKeeps
<2>4. CASE Scan(r) /\ UNCHANGED <<limiterVars, shareVars>>
  BY <2>4, ScanKeeps
<2>5. CASE Delete(r) /\ UNCHANGED <<limiterVars, shareVars>>
  BY <2>5, DeleteKeeps
<2>6. CASE ShareExpire(r)
  BY <2>6, LimitKeeps
<2>7. CASE LoadShareSnapshot(r) \/ RankCard(r)
  BY <2>7, DrawKeeps
<2>8. CASE UploadCard(r) \/ InsertShare(r)
  BY <2>8, StoreKeeps
<2> QED BY <1>1, <2>1, <2>2, <2>3, <2>4, <2>5, <2>6, <2>7, <2>8 DEF Step, LeaderboardStep
<1>2. ASSUME NEW r \in Req, Fails(r) PROVE IInv'
  BY <1>2, FailureKeeps, LimitKeeps DEF Fails
<1>3. ASSUME NEW r \in Req, NEW n \in Page, ReadCache(r, n) /\ UNCHANGED <<limiterVars, shareVars>>
      PROVE  IInv'
  BY <1>3, ReadKeeps
<1>4. ASSUME NEW r \in Req, NEW result \in Results,
             SelectExisting(r, result) /\ UNCHANGED <<limiterVars, shareVars>>
      PROVE  IInv'
  BY <1>4, SelectKeeps
<1>5. ASSUME NEW r \in Req, NEW p \in Caller, NEW kind \in Kind, ShareIncr(r, p, kind) PROVE IInv'
  BY <1>5, LimitKeeps
<1>6. ASSUME NEW n \in Page, ExpirePage(n) /\ UNCHANGED <<limiterVars, shareVars>> PROVE IInv'
  BY <1>6, ExpireKeeps
<1>b. ASSUME UNCHANGED <<board, cache, req>>
      PROVE  LeaderboardTypeOK' /\ Sweeps' /\ req' \in [Req -> ApiRequest] /\ \A r \in Req : req'[r] = req[r]
<2>1. \A res : Improves(res)' <=> Improves(res)
  BY <1>b DEF Improves, RowOf
<2> QED BY <1>b, <2>1 DEF IInv, TypeOK, LeaderboardTypeOK, Sweeps, ImprovementSweepsPages, At
<1>7. ASSUME NEW p \in Caller, WindowEnds(p) /\ UNCHANGED <<board, cache, req, shareVars>> PROVE IInv'
<2>1. LimiterTypeOK' /\ WithinWindow'
  BY <1>7, LimiterStep DEF IInv, TypeOK
<2> QED BY <1>7, <1>b, <2>1, BoardSteps
<1>8. CASE UNCHANGED vars
<2>1. LimiterTypeOK' /\ WithinWindow'
  BY <1>8, LimiterKept DEF IInv, TypeOK, vars
<2> QED BY <1>8, <1>b, <2>1, BoardSteps DEF vars
<1> QED BY <1>1, <1>2, <1>3, <1>4, <1>5, <1>6, <1>7, <1>8 DEF Next

(* Every variable holds what the code can put there; the table keeps one   *)
(* row a player and its order through overlapping submits (index.ts,       *)
(* /api/scores/submit).                                                    *)
THEOREM TypeCorrect == Spec => []TypeOK
<1>1. Init => IInv
  BY InitIInv, LimitAssumption
<1>2. IInv /\ [Next]_vars => IInv'
  BY NextIInv, LimitAssumption, LeaderboardAssumption, ScoresAssumption
<1>3. IInv => TypeOK
  BY DEF IInv
<1> QED BY <1>1, <1>2, <1>3, PTL DEF Spec

(* No page cached before a player's best went into the table outlives the  *)
(* sweep of the submit that put it there (index.ts,                        *)
(* cacheInvalidatePattern).                                                *)
THEOREM SweepsCorrect == Spec => []ImprovementSweepsPages
<1>1. Init => IInv
  BY InitIInv, LimitAssumption
<1>2. IInv /\ [Next]_vars => IInv'
  BY NextIInv, LimitAssumption, LeaderboardAssumption, ScoresAssumption
<1>3. IInv => ImprovementSweepsPages
  BY DEF IInv, Sweeps
<1> QED BY <1>1, <1>2, <1>3, PTL DEF Spec

(* A window admits no more calls than its limit (cache.ts, rateLimit).     *)
THEOREM LimitCorrect == Spec => []AtMostLimit
<1>1. Init => IInv
  BY InitIInv, LimitAssumption
<1>2. IInv /\ [Next]_vars => IInv'
  BY NextIInv, LimitAssumption, LeaderboardAssumption, ScoresAssumption
<1>3. IInv => AtMostLimit
  BY DEF IInv, WithinWindow, AtMostLimit
<1> QED BY <1>1, <1>2, <1>3, PTL DEF Spec

(* A share page has its image, with what the page says on it (index.ts,    *)
(* /api/share/create).                                                     *)
THEOREM SharesCorrect == Spec => []ShareHasImage
<1>1. Init => IInv
  BY InitIInv, LimitAssumption
<1>2. IInv /\ [Next]_vars => IInv'
  BY NextIInv, LimitAssumption, LeaderboardAssumption, ScoresAssumption
<1>3. IInv => ShareHasImage
  BY DEF IInv, Stored
<1> QED BY <1>1, <1>2, <1>3, PTL DEF Spec
=============================================================================
