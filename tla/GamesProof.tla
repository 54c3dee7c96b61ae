------------------------------ MODULE GamesProof ------------------------------
(***************************************************************************)
(* Theorems about Games, for every number of seeds, requests, credits and  *)
(* moves, and whatever Moves and Points are.                               *)
(***************************************************************************)
EXTENDS Games, FiniteSetTheorems, FoldLemmas

(* What the theorems ask of the constants beyond GamesAssumption: a score  *)
(* is a number, and "no such row" is no row.                               *)
ScoresAreNumbers == \A seed, played : Points(seed, played) \in Nat

NoGameIsNoRow ==
  \A s, f, seed, log :
    NoGame # [score |-> s, finalScore |-> f, seed |-> seed, log |-> log]

-----------------------------------------------------------------------------
(***************************************************************************)
(* replay() and the acceptance of a batch are folds, move by move.         *)
(***************************************************************************)
(* What one more move does to a replay.                                    *)
Keep(seed, played, d) == IF Moves(seed, played, d) THEN Append(played, d) ELSE played

KeepStep(seed, log) ==
  [x \in Seq(Dir) \X (1 .. Len(log)) |-> Keep(seed, x[1], log[x[2]])]

PlayedBy(seed, log, it) ==
  it = [s \in SUBSET DOMAIN log |->
          IF s = {} THEN <<>> ELSE Keep(seed, it[s \ {Max(s)}], log[Max(s)])]

(* The fold of replay() has the steps Keep.                                *)
LEMMA PlayedFolds ==
  ASSUME NEW seed, NEW log \in Seq(Dir)
  PROVE  \E it : /\ Played(seed, log) = it[1 .. Len(log)]
                 /\ Folding(Seq(Dir), KeepStep(seed, log), <<>>, it, Len(log))
<1>1. DOMAIN log = 1 .. Len(log) /\ Len(log) \in Nat
  OBVIOUS
<1>2. KeepStep(seed, log) \in [Seq(Dir) \X (1 .. Len(log)) -> Seq(Dir)]
  BY DEF KeepStep, Keep
<1>3. <<>> \in Seq(Dir)
  OBVIOUS
<1>4. PICK jt : FoldsBy(Seq(Dir), KeepStep(seed, log), <<>>, Len(log), jt)
  BY <1>1, <1>2, <1>3, FoldExists
<1>5. PlayedBy(seed, log, jt)
<2>1. ASSUME NEW s \in SUBSET (1 .. Len(log))
      PROVE  jt[s] = IF s = {} THEN <<>> ELSE Keep(seed, jt[s \ {Max(s)}], log[Max(s)])
<3>1. CASE s = {}
  BY <3>1, <1>4 DEF FoldStep, FoldsBy
<3>2. CASE s # {}
<4>1. Max(s) \in 1 .. Len(log)
  BY <1>1, <3>2, MaxIn
<4>2. jt[s \ {Max(s)}] \in Seq(Dir)
  BY <1>4 DEF FoldsBy
<4>3. jt[s] = KeepStep(seed, log)[<<jt[s \ {Max(s)}], Max(s)>>]
  BY <1>4, <3>2 DEF FoldStep, FoldsBy
<4> QED BY <3>2, <4>1, <4>2, <4>3 DEF KeepStep
<3> QED BY <3>1, <3>2
<2>2. jt = [s \in SUBSET (1 .. Len(log)) |-> jt[s]]
  BY <1>4 DEF FoldsBy
<2> QED BY <1>1, <2>1, <2>2 DEF PlayedBy
<1> DEFINE it == CHOOSE i : PlayedBy(seed, log, i)
<1>6. Played(seed, log) = it[1 .. Len(log)]
  BY <1>1 DEF Played, FoldLeft, MapThenFoldSet, PlayedBy, Keep
<1>7. PlayedBy(seed, log, it)
  BY <1>5
<1> HIDE DEF it
<1>8. Folding(Seq(Dir), KeepStep(seed, log), <<>>, it, Len(log))
<2>1. it[{}] = <<>>
  BY <1>7 DEF PlayedBy
<2>2. ASSUME NEW k \in 1 .. Len(log), it[1 .. k - 1] \in Seq(Dir)
      PROVE  it[1 .. k] = KeepStep(seed, log)[<<it[1 .. k - 1], k>>]
<3>1. k \in Nat /\ k # 0 /\ 1 .. k \in SUBSET DOMAIN log
  BY <1>1
<3>2. (1 .. k) \ {Max(1 .. k)} = 1 .. k - 1 /\ Max(1 .. k) = k /\ 1 .. k # {}
  BY <3>1, SegmentStep
<3>3. it[1 .. k] = Keep(seed, it[1 .. k - 1], log[k])
  BY <3>1, <3>2, <1>7 DEF PlayedBy
<3> QED BY <2>2, <3>3 DEF KeepStep
<2> QED BY <2>1, <2>2 DEF Folding
<1> QED BY <1>6, <1>8

LEMMA PlayedEmpty ==
  ASSUME NEW seed
  PROVE  Played(seed, <<>>) = <<>>
<1>1. <<>> \in Seq(Dir) /\ Len(<<>>) = 0 /\ 1 .. 0 = {}
  OBVIOUS
<1>2. PICK it : /\ Played(seed, <<>>) = it[1 .. Len(<<>>)]
                /\ Folding(Seq(Dir), KeepStep(seed, <<>>), <<>>, it, Len(<<>>))
  BY <1>1, PlayedFolds
<1>3. it[{}] = <<>>
  BY <1>2 DEF Folding
<1> QED BY <1>1, <1>2, <1>3

LEMMA PlayedType ==
  ASSUME NEW seed, NEW log \in Seq(Dir)
  PROVE  Played(seed, log) \in Seq(Dir)
<1> DEFINE b == <<>>
<1>1. Len(log) \in Nat /\ Len(log) \in 0 .. Len(log) /\ b \in Seq(Dir)
  OBVIOUS
<1>2. Stepping(Seq(Dir), KeepStep(seed, log), Len(log))
  BY DEF Stepping, KeepStep, Keep
<1>3. PICK it : /\ Played(seed, log) = it[1 .. Len(log)]
                /\ Folding(Seq(Dir), KeepStep(seed, log), b, it, Len(log))
  BY PlayedFolds
<1> HIDE DEF b
<1> QED BY <1>1, <1>2, <1>3, FoldingType

(* The replay of one more move.                                            *)
LEMMA PlayedAppend ==
  ASSUME NEW seed, NEW log \in Seq(Dir), NEW d \in Dir
  PROVE  Played(seed, Append(log, d)) = Keep(seed, Played(seed, log), d)
<1> DEFINE T == Seq(Dir)
           n == Len(log)
           m == Len(Append(log, d))
           G == KeepStep(seed, log)
           F == KeepStep(seed, Append(log, d))
           b == <<>>
<1>1. /\ Append(log, d) \in T /\ n \in Nat /\ m \in Nat /\ m = n + 1
      /\ Append(log, d)[m] = d
      /\ \A k \in 1 .. n : Append(log, d)[k] = log[k]
  OBVIOUS
<1>2. Stepping(T, F, m) /\ b \in T
  BY <1>1 DEF KeepStep, Keep, Stepping
<1>3. PICK it : Played(seed, log) = it[1 .. n] /\ Folding(T, G, b, it, n)
  BY PlayedFolds
<1>4. PICK jt : Played(seed, Append(log, d)) = jt[1 .. m] /\ Folding(T, F, b, jt, m)
  BY <1>1, PlayedFolds
<1>5. Folding(T, F, b, it, n)
<2>1. it[{}] = b
  BY <1>3 DEF Folding
<2>2. ASSUME NEW k \in 1 .. n, it[1 .. k - 1] \in T
      PROVE  it[1 .. k] = F[<<it[1 .. k - 1], k>>]
<3>1. it[1 .. k] = G[<<it[1 .. k - 1], k>>]
  BY <1>3, <2>2 DEF Folding
<3> QED BY <1>1, <2>2, <3>1 DEF KeepStep
<2> QED BY <2>1, <2>2 DEF Folding
<1>6. it[1 .. n] \in T /\ jt[1 .. m] = F[<<it[1 .. n], m>>]
<2>1. n \in Nat /\ m = n + 1
  BY <1>1
<2> HIDE DEF T, n, m, F, b
<2> QED BY <1>2, <1>4, <1>5, <2>1, FoldingAppend
<1>7. F[<<it[1 .. n], m>>] = Keep(seed, it[1 .. n], d)
  BY <1>1, <1>6 DEF KeepStep
<1> QED BY <1>3, <1>4, <1>6, <1>7

(* What one more move of a batch adds to the log accepted so far.          *)
AcceptOne(seed, acc, d) ==
  IF Len(Played(seed, Append(acc, d))) = Len(Played(seed, acc)) THEN acc ELSE Append(acc, d)

AcceptStep(seed, dirs) ==
  [x \in Seq(Dir) \X (1 .. Len(dirs)) |-> AcceptOne(seed, x[1], dirs[x[2]])]

AcceptedBy(seed, log, dirs, it) ==
  it = [s \in SUBSET DOMAIN dirs |->
          IF s = {} THEN log ELSE AcceptOne(seed, it[s \ {Max(s)}], dirs[Max(s)])]

(* The fold of /api/games/move has the steps AcceptOne.                    *)
LEMMA AcceptFolds ==
  ASSUME NEW seed, NEW log \in Seq(Dir), NEW dirs \in Seq(Dir)
  PROVE  \E it : /\ Accept(seed, log, dirs) = it[1 .. Len(dirs)]
                 /\ Folding(Seq(Dir), AcceptStep(seed, dirs), log, it, Len(dirs))
<1>1. DOMAIN dirs = 1 .. Len(dirs) /\ Len(dirs) \in Nat
  OBVIOUS
<1>2. AcceptStep(seed, dirs) \in [Seq(Dir) \X (1 .. Len(dirs)) -> Seq(Dir)]
  BY DEF AcceptStep, AcceptOne
<1>3. PICK jt : FoldsBy(Seq(Dir), AcceptStep(seed, dirs), log, Len(dirs), jt)
  BY <1>1, <1>2, FoldExists
<1>4. AcceptedBy(seed, log, dirs, jt)
<2>1. ASSUME NEW s \in SUBSET (1 .. Len(dirs))
      PROVE  jt[s] = IF s = {} THEN log ELSE AcceptOne(seed, jt[s \ {Max(s)}], dirs[Max(s)])
<3>1. CASE s = {}
  BY <3>1, <1>3 DEF FoldStep, FoldsBy
<3>2. CASE s # {}
<4>1. Max(s) \in 1 .. Len(dirs)
  BY <1>1, <3>2, MaxIn
<4>2. jt[s \ {Max(s)}] \in Seq(Dir)
  BY <1>3 DEF FoldsBy
<4>3. jt[s] = AcceptStep(seed, dirs)[<<jt[s \ {Max(s)}], Max(s)>>]
  BY <1>3, <3>2 DEF FoldStep, FoldsBy
<4> QED BY <3>2, <4>1, <4>2, <4>3 DEF AcceptStep
<3> QED BY <3>1, <3>2
<2>2. jt = [s \in SUBSET (1 .. Len(dirs)) |-> jt[s]]
  BY <1>3 DEF FoldsBy
<2> QED BY <1>1, <2>1, <2>2 DEF AcceptedBy
<1> DEFINE it == CHOOSE i : AcceptedBy(seed, log, dirs, i)
<1>5. Accept(seed, log, dirs) = it[1 .. Len(dirs)]
  BY <1>1 DEF Accept, FoldLeft, MapThenFoldSet, AcceptedBy, AcceptOne
<1>6. AcceptedBy(seed, log, dirs, it)
  BY <1>4
<1> HIDE DEF it
<1>7. Folding(Seq(Dir), AcceptStep(seed, dirs), log, it, Len(dirs))
<2>1. it[{}] = log
  BY <1>6 DEF AcceptedBy
<2>2. ASSUME NEW k \in 1 .. Len(dirs), it[1 .. k - 1] \in Seq(Dir)
      PROVE  it[1 .. k] = AcceptStep(seed, dirs)[<<it[1 .. k - 1], k>>]
<3>1. k \in Nat /\ k # 0 /\ 1 .. k \in SUBSET DOMAIN dirs
  BY <1>1
<3>2. (1 .. k) \ {Max(1 .. k)} = 1 .. k - 1 /\ Max(1 .. k) = k /\ 1 .. k # {}
  BY <3>1, SegmentStep
<3>3. it[1 .. k] = AcceptOne(seed, it[1 .. k - 1], dirs[k])
  BY <3>1, <3>2, <1>6 DEF AcceptedBy
<3> QED BY <2>2, <3>3 DEF AcceptStep
<2> QED BY <2>1, <2>2 DEF Folding
<1> QED BY <1>5, <1>7

LEMMA AcceptEmpty ==
  ASSUME NEW seed, NEW log \in Seq(Dir)
  PROVE  Accept(seed, log, <<>>) = log
<1>1. <<>> \in Seq(Dir) /\ Len(<<>>) = 0 /\ 1 .. 0 = {}
  OBVIOUS
<1>2. PICK it : /\ Accept(seed, log, <<>>) = it[1 .. Len(<<>>)]
                /\ Folding(Seq(Dir), AcceptStep(seed, <<>>), log, it, Len(<<>>))
  BY <1>1, AcceptFolds
<1>3. it[{}] = log
  BY <1>2 DEF Folding
<1> QED BY <1>1, <1>2, <1>3

LEMMA AcceptType ==
  ASSUME NEW seed, NEW log \in Seq(Dir), NEW dirs \in Seq(Dir)
  PROVE  Accept(seed, log, dirs) \in Seq(Dir)
<1>1. Len(dirs) \in Nat /\ Len(dirs) \in 0 .. Len(dirs)
  OBVIOUS
<1>2. Stepping(Seq(Dir), AcceptStep(seed, dirs), Len(dirs))
  BY DEF Stepping, AcceptStep, AcceptOne
<1>3. PICK it : /\ Accept(seed, log, dirs) = it[1 .. Len(dirs)]
                /\ Folding(Seq(Dir), AcceptStep(seed, dirs), log, it, Len(dirs))
  BY AcceptFolds
<1> QED BY <1>1, <1>2, <1>3, FoldingType

(* The acceptance of one more move.                                        *)
LEMMA AcceptAppend ==
  ASSUME NEW seed, NEW log \in Seq(Dir), NEW dirs \in Seq(Dir), NEW d \in Dir
  PROVE  Accept(seed, log, Append(dirs, d)) = AcceptOne(seed, Accept(seed, log, dirs), d)
<1> DEFINE T == Seq(Dir)
           n == Len(dirs)
           m == Len(Append(dirs, d))
           G == AcceptStep(seed, dirs)
           F == AcceptStep(seed, Append(dirs, d))
           b == log
<1>1. /\ Append(dirs, d) \in T /\ n \in Nat /\ m \in Nat /\ m = n + 1
      /\ Append(dirs, d)[m] = d
      /\ \A k \in 1 .. n : Append(dirs, d)[k] = dirs[k]
  OBVIOUS
<1>2. Stepping(T, F, m) /\ b \in T
  BY <1>1 DEF AcceptStep, AcceptOne, Stepping
<1>3. PICK it : Accept(seed, log, dirs) = it[1 .. n] /\ Folding(T, G, b, it, n)
  BY AcceptFolds
<1>4. PICK jt : Accept(seed, log, Append(dirs, d)) = jt[1 .. m] /\ Folding(T, F, b, jt, m)
  BY <1>1, AcceptFolds
<1>5. Folding(T, F, b, it, n)
<2>1. it[{}] = b
  BY <1>3 DEF Folding
<2>2. ASSUME NEW k \in 1 .. n, it[1 .. k - 1] \in T
      PROVE  it[1 .. k] = F[<<it[1 .. k - 1], k>>]
<3>1. it[1 .. k] = G[<<it[1 .. k - 1], k>>]
  BY <1>3, <2>2 DEF Folding
<3> QED BY <1>1, <2>2, <3>1 DEF AcceptStep
<2> QED BY <2>1, <2>2 DEF Folding
<1>6. it[1 .. n] \in T /\ jt[1 .. m] = F[<<it[1 .. n], m>>]
<2>1. n \in Nat /\ m = n + 1
  BY <1>1
<2> HIDE DEF T, n, m, F, b
<2> QED BY <1>2, <1>4, <1>5, <2>1, FoldingAppend
<1>7. F[<<it[1 .. n], m>>] = AcceptOne(seed, it[1 .. n], d)
  BY <1>1, <1>6 DEF AcceptStep
<1> QED BY <1>3, <1>4, <1>6, <1>7

-----------------------------------------------------------------------------
(***************************************************************************)
(* A batch whose every move did something on the page is accepted whole.   *)
(***************************************************************************)

(* Each move of log after the first n moved a tile when it was made.       *)
Plays(seed, log, n) ==
  \A k \in n + 1 .. Len(log) : Moves(seed, Played(seed, SubSeq(log, 1, k - 1)), log[k])

(* A move that moves a tile is accepted.                                   *)
LEMMA AcceptsMove ==
  ASSUME NEW seed, NEW acc \in Seq(Dir), NEW d \in Dir, Moves(seed, Played(seed, acc), d)
  PROVE  AcceptOne(seed, acc, d) = Append(acc, d)
<1>1. Played(seed, acc) \in Seq(Dir)
  BY PlayedType
<1>2. Played(seed, Append(acc, d)) = Append(Played(seed, acc), d)
  BY PlayedAppend DEF Keep
<1>3. Len(Append(Played(seed, acc), d)) # Len(Played(seed, acc))
  BY <1>1
<1> QED BY <1>2, <1>3 DEF AcceptOne

LEMMA AcceptsAll ==
  ASSUME NEW seed, NEW log \in Seq(Dir), NEW dirs \in Seq(Dir),
         Plays(seed, log \o dirs, Len(log))
  PROVE  Accept(seed, log, dirs) = log \o dirs
<1> DEFINE first(k) == SubSeq(dirs, 1, k)
           S == {k \in Nat : k <= Len(dirs) => Accept(seed, log, first(k)) = log \o first(k)}
<1>1. 0 \in S
<2>1. first(0) = <<>> /\ log \o <<>> = log
  OBVIOUS
<2> QED BY <2>1, AcceptEmpty
<1>2. ASSUME NEW k \in Nat, k \in S PROVE k + 1 \in S
<2> SUFFICES ASSUME k + 1 <= Len(dirs)
             PROVE  Accept(seed, log, first(k + 1)) = log \o first(k + 1)
  OBVIOUS
<2> DEFINE d == dirs[k + 1]
           now == first(k)
           next == first(k + 1)
           acc == log \o now
<2>1. d \in Dir /\ now \in Seq(Dir) /\ acc \in Seq(Dir)
  OBVIOUS
<2>2. next = Append(now, d) /\ Append(acc, d) = log \o next
  OBVIOUS
<2>3. Accept(seed, log, now) = acc
  BY <1>2
<2>4. Moves(seed, Played(seed, acc), d)
<3> DEFINE j == Len(log) + k + 1
<3>1. j \in Len(log) + 1 .. Len(log \o dirs) /\ (log \o dirs)[j] = d
  OBVIOUS
<3>2. SubSeq(log \o dirs, 1, j - 1) = acc
  OBVIOUS
<3> HIDE DEF j, d, acc
<3> QED BY <3>1, <3>2 DEF Plays
<2>5. Accept(seed, log, next) = log \o next
<3> HIDE DEF now, next, d, acc
<3>1. Accept(seed, log, next) = AcceptOne(seed, acc, d)
  BY <2>1, <2>2, <2>3, AcceptAppend
<3> QED BY <2>1, <2>2, <2>4, <3>1, AcceptsMove
<2> QED BY <2>5
<1>3. Nat \subseteq S
<2> HIDE DEF S
<2> QED BY <1>1, <1>2, SetInduction
<1>4. Len(dirs) \in S
<2> HIDE DEF S
<2> QED BY <1>3
<1>5. Accept(seed, log, first(Len(dirs))) = log \o first(Len(dirs))
  BY <1>4
<1>6. first(Len(dirs)) = dirs
  OBVIOUS
<1> HIDE DEF first
<1> QED BY <1>5, <1>6

(* A game on which a move can still be made is not over.                   *)
LEMMA PlaysOn ==
  ASSUME NEW seed, NEW log \in Seq(Dir), NEW more \in Seq(Dir), more # <<>>,
         Plays(seed, log \o more, Len(log))
  PROVE  ~Over(seed, log)
<1> DEFINE j == Len(log) + 1
<1>1. j \in Len(log) + 1 .. Len(log \o more) /\ (log \o more)[j] = more[1] /\ more[1] \in Dir
  OBVIOUS
<1>2. SubSeq(log \o more, 1, j - 1) = log
  OBVIOUS
<1> HIDE DEF j
<1>3. Moves(seed, Played(seed, log), more[1])
  BY <1>1, <1>2 DEF Plays
<1> QED BY <1>1, <1>3 DEF Over

(* One more move that moves a tile.                                        *)
LEMMA PlaysMore ==
  ASSUME NEW seed, NEW log \in Seq(Dir), NEW n \in Nat, NEW d \in Dir,
         Plays(seed, log, n), Moves(seed, Played(seed, log), d)
  PROVE  Plays(seed, Append(log, d), n)
<1> DEFINE more == Append(log, d)
<1> SUFFICES ASSUME NEW k \in n + 1 .. Len(more)
             PROVE  Moves(seed, Played(seed, SubSeq(more, 1, k - 1)), more[k])
  BY DEF Plays
<1>1. CASE k = Len(log) + 1
<2>1. SubSeq(more, 1, k - 1) = log /\ more[k] = d
  BY <1>1
<2> QED BY <2>1
<1>2. CASE k # Len(log) + 1
<2>1. k \in n + 1 .. Len(log)
  BY <1>2
<2>2. SubSeq(more, 1, k - 1) = SubSeq(log, 1, k - 1) /\ more[k] = log[k]
  BY <2>1
<2> HIDE DEF more
<2> QED BY <2>1, <2>2 DEF Plays
<1> QED BY <1>1, <1>2

(* The moves of a prefix, and those after a longer beginning.              *)
LEMMA PlaysPart ==
  ASSUME NEW seed, NEW log \in Seq(Dir), NEW more \in Seq(Dir), NEW n \in Nat,
         Plays(seed, log \o more, n)
  PROVE  /\ Plays(seed, log, n)
         /\ \A m \in Nat : n <= m => Plays(seed, log \o more, m)
<1>1. Plays(seed, log, n)
<2> SUFFICES ASSUME NEW k \in n + 1 .. Len(log)
             PROVE  Moves(seed, Played(seed, SubSeq(log, 1, k - 1)), log[k])
  BY DEF Plays
<2>1. k \in n + 1 .. Len(log \o more) /\ (log \o more)[k] = log[k]
  OBVIOUS
<2>2. SubSeq(log \o more, 1, k - 1) = SubSeq(log, 1, k - 1)
  OBVIOUS
<2> QED BY <2>1, <2>2 DEF Plays
<1>2. ASSUME NEW m \in Nat, n <= m PROVE Plays(seed, log \o more, m)
<2>1. m + 1 .. Len(log \o more) \subseteq n + 1 .. Len(log \o more)
  BY <1>2
<2> QED BY <2>1 DEF Plays
<1> QED BY <1>1, <1>2

-----------------------------------------------------------------------------
(***************************************************************************)
(* The inductive invariant.                                                *)
(***************************************************************************)
PC == {"idle", "append", "pop", "refund", "finish", "upsert"}

(* The shape of the variables; of a log only that it is the log field.     *)
Shape ==
  /\ req = [r \in Req |-> req[r]]
  /\ \A r \in Req :
       /\ req[r] = [pc |-> req[r].pc, game |-> req[r].game, log |-> req[r].log]
       /\ req[r].pc \in PC
  /\ game # NoGame =>
       game = [seed |-> game.seed, log |-> game.log, finished |-> game.finished]
  /\ credits \in Nat
  /\ pops \in Nat
  /\ scored \subseteq Nat
  /\ row # NoGame =>
       /\ row = [score |-> row.score, finalScore |-> row.finalScore,
                 seed |-> row.seed, log |-> row.log]
       /\ row.score \in Nat
       /\ row.finalScore \in Nat

(* A submit that passed its checks carries a game that is over, through    *)
(* its three awaits.                                                       *)
SubmitsOver ==
  \A r \in Req : req[r].pc \in {"finish", "upsert"} =>
    Over(req[r].game.seed, req[r].game.log)

IInv == Shape /\ SubmitsOver /\ NoFreeUndo /\ RowKeepsBest /\ SnapshotReplays

-----------------------------------------------------------------------------
(***************************************************************************)
(* What a step of a request does to the requests.                          *)
(***************************************************************************)
RequestsShape(q) ==
  /\ q = [r \in Req |-> q[r]]
  /\ \A r \in Req :
       /\ q[r] = [pc |-> q[r].pc, game |-> q[r].game, log |-> q[r].log]
       /\ q[r].pc \in PC

(* A request that spends nothing and goes on spending nothing leaves the   *)
(* set of spending requests alone.                                         *)
LEMMA SpendingSame ==
  ASSUME NEW r \in Req,
         \A o \in Req \ {r} : req'[o].pc = req[o].pc,
         req[r].pc \in {"pop", "refund"} <=> req'[r].pc \in {"pop", "refund"}
  PROVE  Spending' = Spending
BY DEF Spending

(* A request that starts to spend adds one to them.                        *)
LEMMA SpendingMore ==
  ASSUME NEW r \in Req,
         \A o \in Req \ {r} : req'[o].pc = req[o].pc,
         req[r].pc \notin {"pop", "refund"},
         req'[r].pc \in {"pop", "refund"}
  PROVE  Cardinality(Spending') = Cardinality(Spending) + 1
<1>1. Spending' = Spending \cup {r} /\ r \notin Spending
  BY DEF Spending
<1>2. IsFiniteSet(Spending)
  BY GamesAssumption, FS_Subset DEF Spending
<1> QED BY <1>1, <1>2, FS_AddElement

(* A request that ends its spending takes one from them.                   *)
LEMMA SpendingLess ==
  ASSUME NEW r \in Req,
         \A o \in Req \ {r} : req'[o].pc = req[o].pc,
         req[r].pc \in {"pop", "refund"},
         req'[r].pc \notin {"pop", "refund"}
  PROVE  Cardinality(Spending') = Cardinality(Spending) - 1
<1>1. Spending' = Spending \ {r} /\ r \in Spending
  BY DEF Spending
<1>2. IsFiniteSet(Spending)
  BY GamesAssumption, FS_Subset DEF Spending
<1> QED BY <1>1, <1>2, FS_RemoveElement

LEMMA SpendingNat == Cardinality(Spending) \in Nat
BY GamesAssumption, FS_Subset, FS_CardinalityType DEF Spending

(* The effect of Continue and of Return on every request.              *)
LEMMA ContinueStep ==
  ASSUME Shape, NEW r \in Req, NEW pc \in PC, Continue(r, pc)
  PROVE  /\ RequestsShape(req')
         /\ req'[r] = [req[r] EXCEPT !.pc = pc]
         /\ req'[r].pc = pc
         /\ req'[r].game = req[r].game
         /\ \A o \in Req \ {r} : req'[o] = req[o]
<1>1. req' = [o \in Req |-> IF o = r THEN [req[r] EXCEPT !.pc = pc] ELSE req[o]]
  BY DEF Shape, Continue
<1>2. [req[r] EXCEPT !.pc = pc] = [pc |-> pc, game |-> req[r].game, log |-> req[r].log]
  BY DEF Shape
<1> QED BY <1>1, <1>2 DEF Shape, RequestsShape

LEMMA ReturnStep ==
  ASSUME Shape, NEW r \in Req, Return(r)
  PROVE  /\ RequestsShape(req')
         /\ req'[r] = Idle
         /\ req'[r].pc = "idle"
         /\ \A o \in Req \ {r} : req'[o] = req[o]
BY DEF Shape, Return, Idle, RequestsShape, PC

-----------------------------------------------------------------------------
(***************************************************************************)
(* Each action keeps the invariant.                                        *)
(***************************************************************************)
LEMMA InitIInv == Init => IInv
<1> SUFFICES ASSUME Init PROVE IInv
  OBVIOUS
<1>1. Shape
  BY GamesAssumption DEF Init, Shape, Idle, PC
<1>2. SubmitsOver
  BY DEF Init, SubmitsOver, Idle
<1>3. NoFreeUndo
<2>1. Spending = {}
  BY DEF Init, Spending, Idle
<2> QED BY <2>1, GamesAssumption, FS_EmptySet DEF Init, NoFreeUndo
<1>4. RowKeepsBest /\ SnapshotReplays
  BY DEF Init, RowKeepsBest, SnapshotReplays
<1> QED BY <1>1, <1>2, <1>3, <1>4 DEF IInv

(* The row, its history and its properties stay where only the game, the   *)
(* requests and the credits change.                                        *)
LEMMA RowUntouched ==
  ASSUME RowKeepsBest, SnapshotReplays, UNCHANGED <<row, scored>>
  PROVE  RowKeepsBest' /\ SnapshotReplays'
BY DEF RowKeepsBest, SnapshotReplays

(* The rest of Shape, for a step that leaves it alone.                     *)
LEMMA ShapeKept ==
  ASSUME Shape, RequestsShape(req'), UNCHANGED <<row, scored>>,
         credits' \in Nat, pops' \in Nat,
         game' # NoGame =>
           game' = [seed |-> game'.seed, log |-> game'.log, finished |-> game'.finished]
  PROVE  Shape'
BY DEF Shape, RequestsShape

(* A request that is not submitting after the step has nothing to carry.   *)
LEMMA SubmitsOverKept ==
  ASSUME SubmitsOver, NEW r \in Req,
         \A o \in Req \ {r} : req'[o] = req[o],
         req'[r].pc \in {"finish", "upsert"} =>
           Over(req'[r].game.seed, req'[r].game.log)
  PROVE  SubmitsOver'
BY DEF SubmitsOver, Over

LEMMA MoveReadStep ==
  ASSUME IInv, NEW r \in Req, NEW dirs \in Batch, MoveRead(r, dirs)
  PROVE  IInv'
<1>1. UNCHANGED <<game, credits, row, pops, scored>>
  BY DEF MoveRead
<1> DEFINE log == Accept(game.seed, game.log, dirs)
<1>2. Begin(r, "append", game, log)
  BY DEF MoveRead
<1> HIDE DEF log
<1>3. /\ RequestsShape(req')
      /\ req[r].pc = "idle"
      /\ req'[r].pc = "append"
      /\ \A o \in Req \ {r} : req'[o] = req[o]
  BY <1>2 DEF IInv, Shape, Begin, At, RequestsShape, PC
<1>4. Shape'
  BY <1>1, <1>3, ShapeKept DEF IInv, Shape
<1>5. SubmitsOver'
  BY <1>3, SubmitsOverKept DEF IInv
<1>6. NoFreeUndo'
<2>1. Spending' = Spending
  BY <1>3, SpendingSame
<2> QED BY <2>1, <1>1 DEF IInv, NoFreeUndo
<1> QED BY <1>1, <1>4, <1>5, <1>6, RowUntouched DEF IInv

LEMMA StartStep ==
  ASSUME IInv, NEW seed \in Seed, Start(seed)
  PROVE  IInv'
<1>1. UNCHANGED <<credits, row, req, pops, scored>>
  BY DEF Start
<1>2. RequestsShape(req')
  BY <1>1 DEF IInv, Shape, RequestsShape
<1>3. Shape'
  BY <1>1, <1>2, ShapeKept DEF IInv, Shape, Start
<1>4. SubmitsOver' /\ NoFreeUndo'
  BY <1>1 DEF IInv, SubmitsOver, NoFreeUndo, Spending, Over
<1> QED BY <1>1, <1>3, <1>4, RowUntouched DEF IInv

LEMMA MoveAppendStep ==
  ASSUME IInv, NEW r \in Req, MoveAppend(r)
  PROVE  IInv'
<1>1. UNCHANGED <<credits, row, pops, scored>>
  BY DEF MoveAppend
<1>2. req[r].pc = "append"
  BY DEF MoveAppend, At
<1>3. /\ RequestsShape(req')
      /\ req'[r].pc = "idle"
      /\ \A o \in Req \ {r} : req'[o] = req[o]
  BY ReturnStep DEF MoveAppend, IInv
<1>4. game' # NoGame =>
        game' = [seed |-> game'.seed, log |-> game'.log, finished |-> game'.finished]
  BY DEF IInv, Shape, MoveAppend, Appendable
<1>5. Shape'
  BY <1>1, <1>3, <1>4, ShapeKept DEF IInv, Shape
<1>6. SubmitsOver'
  BY <1>3, SubmitsOverKept DEF IInv
<1>7. NoFreeUndo'
<2>1. Spending' = Spending
  BY <1>2, <1>3, SpendingSame
<2> QED BY <2>1, <1>1 DEF IInv, NoFreeUndo
<1> QED BY <1>1, <1>5, <1>6, <1>7, RowUntouched DEF IInv

LEMMA UndoConsumeStep ==
  ASSUME IInv, NEW r \in Req, UndoConsume(r)
  PROVE  IInv'
<1>1. UNCHANGED <<game, row, pops, scored>> /\ credits > 0 /\ credits' = credits - 1
  BY DEF UndoConsume, HasCredit
<1>2. Begin(r, "pop", NoGame, <<>>)
  BY DEF UndoConsume
<1>3. /\ RequestsShape(req')
      /\ req[r].pc = "idle"
      /\ req'[r].pc = "pop"
      /\ \A o \in Req \ {r} : req'[o] = req[o]
  BY <1>2 DEF IInv, Shape, Begin, At, RequestsShape, PC
<1>4. Shape'
  BY <1>1, <1>3, ShapeKept DEF IInv, Shape
<1>5. SubmitsOver'
  BY <1>3, SubmitsOverKept DEF IInv
<1>6. NoFreeUndo'
<2>1. Cardinality(Spending') = Cardinality(Spending) + 1
  BY <1>3, SpendingMore
<2> QED BY <2>1, <1>1, SpendingNat, GamesAssumption DEF IInv, Shape, NoFreeUndo
<1> QED BY <1>1, <1>4, <1>5, <1>6, RowUntouched DEF IInv

LEMMA UndoPopStep ==
  ASSUME IInv, NEW r \in Req, UndoPop(r)
  PROVE  IInv'
<1>1. UNCHANGED <<credits, row, scored>> /\ req[r].pc = "pop"
  BY DEF UndoPop, At
<1>2. CASE Poppable
<2>1. pops' = pops + 1 /\ Return(r) /\ game' = [game EXCEPT !.log = Front(@)]
  BY <1>2 DEF UndoPop
<2>2. /\ RequestsShape(req')
      /\ req'[r].pc = "idle"
      /\ \A o \in Req \ {r} : req'[o] = req[o]
  BY <2>1, ReturnStep DEF IInv
<2>3. Shape'
<3>1. game' = [seed |-> game.seed, log |-> Front(game.log), finished |-> game.finished]
  BY <1>2, <2>1 DEF IInv, Shape, Poppable
<3>2. game' = [seed |-> game'.seed, log |-> game'.log, finished |-> game'.finished]
  BY <3>1
<3> QED BY <1>1, <2>1, <2>2, <3>2, ShapeKept DEF IInv, Shape
<2>4. SubmitsOver'
  BY <2>2, SubmitsOverKept DEF IInv
<2>5. NoFreeUndo'
<3>1. Cardinality(Spending') = Cardinality(Spending) - 1
  BY <1>1, <2>2, SpendingLess
<3> QED BY <3>1, <1>1, <2>1, SpendingNat, GamesAssumption DEF IInv, Shape, NoFreeUndo
<2> QED BY <1>1, <2>3, <2>4, <2>5, RowUntouched DEF IInv
<1>3. CASE ~Poppable
<2>1. UNCHANGED <<game, pops>> /\ Continue(r, "refund")
  BY <1>3 DEF UndoPop
<2>2. /\ RequestsShape(req')
      /\ req'[r].pc = "refund"
      /\ \A o \in Req \ {r} : req'[o] = req[o]
  BY <2>1, ContinueStep DEF IInv, PC
<2>3. Shape'
  BY <1>1, <2>1, <2>2, ShapeKept DEF IInv, Shape
<2>4. SubmitsOver'
  BY <2>2, SubmitsOverKept DEF IInv
<2>5. NoFreeUndo'
<3>1. Spending' = Spending
  BY <1>1, <2>2, SpendingSame
<3> QED BY <3>1, <1>1, <2>1 DEF IInv, NoFreeUndo
<2> QED BY <1>1, <2>3, <2>4, <2>5, RowUntouched DEF IInv
<1> QED BY <1>2, <1>3

LEMMA UndoRefundStep ==
  ASSUME IInv, NEW r \in Req, UndoRefund(r)
  PROVE  IInv'
<1>1. /\ UNCHANGED <<game, row, pops, scored>>
      /\ credits' = credits + 1
      /\ req[r].pc = "refund"
  BY DEF UndoRefund, At
<1>2. /\ RequestsShape(req')
      /\ req'[r].pc = "idle"
      /\ \A o \in Req \ {r} : req'[o] = req[o]
  BY ReturnStep DEF IInv, UndoRefund
<1>3. Shape'
  BY <1>1, <1>2, ShapeKept DEF IInv, Shape
<1>4. SubmitsOver'
  BY <1>2, SubmitsOverKept DEF IInv
<1>5. NoFreeUndo'
<2>1. Cardinality(Spending') = Cardinality(Spending) - 1
  BY <1>1, <1>2, SpendingLess
<2> QED BY <2>1, <1>1, SpendingNat, GamesAssumption DEF IInv, Shape, NoFreeUndo
<1> QED BY <1>1, <1>3, <1>4, <1>5, RowUntouched DEF IInv

LEMMA SubmitReadStep ==
  ASSUME IInv, NEW r \in Req, SubmitRead(r)
  PROVE  IInv'
<1>1. /\ UNCHANGED <<game, credits, row, pops, scored>>
      /\ Over(game.seed, game.log)
  BY DEF SubmitRead
<1>2. Begin(r, "finish", game, <<>>)
  BY DEF SubmitRead
<1>3. /\ RequestsShape(req')
      /\ req[r].pc = "idle"
      /\ req'[r].pc = "finish"
      /\ req'[r].game = game
      /\ \A o \in Req \ {r} : req'[o] = req[o]
  BY <1>2 DEF IInv, Shape, Begin, At, RequestsShape, PC
<1>4. Shape'
  BY <1>1, <1>3, ShapeKept DEF IInv, Shape
<1>5. SubmitsOver'
<2>1. Over(req'[r].game.seed, req'[r].game.log)
  BY <1>1, <1>3
<2> QED BY <1>3, <2>1, SubmitsOverKept DEF IInv
<1>6. NoFreeUndo'
<2>1. Spending' = Spending
  BY <1>3, SpendingSame
<2> QED BY <2>1, <1>1 DEF IInv, NoFreeUndo
<1> QED BY <1>1, <1>4, <1>5, <1>6, RowUntouched DEF IInv

LEMMA SubmitFinishStep ==
  ASSUME IInv, NEW r \in Req, SubmitFinish(r)
  PROVE  IInv'
<1>1. UNCHANGED <<credits, row, pops, scored>> /\ req[r].pc = "finish"
  BY DEF SubmitFinish, At
<1>2. /\ RequestsShape(req')
      /\ req'[r].pc = "upsert"
      /\ req'[r].game = req[r].game
      /\ \A o \in Req \ {r} : req'[o] = req[o]
  BY ContinueStep DEF IInv, PC, SubmitFinish
<1>3. game' # NoGame =>
        game' = [seed |-> game'.seed, log |-> game'.log, finished |-> game'.finished]
  BY DEF IInv, Shape, SubmitFinish
<1>4. Shape'
  BY <1>1, <1>2, <1>3, ShapeKept DEF IInv, Shape
<1>5. SubmitsOver'
<2>1. Over(req'[r].game.seed, req'[r].game.log)
  BY <1>1, <1>2 DEF IInv, SubmitsOver
<2> QED BY <1>2, <2>1, SubmitsOverKept DEF IInv
<1>6. NoFreeUndo'
<2>1. Spending' = Spending
  BY <1>1, <1>2, SpendingSame
<2> QED BY <2>1, <1>1 DEF IInv, NoFreeUndo
<1> QED BY <1>1, <1>4, <1>5, <1>6, RowUntouched DEF IInv

(* The row after an upsert, and what was written to it.                    *)
LEMMA SubmitUpsertStep ==
  ASSUME ScoresAreNumbers, NoGameIsNoRow, IInv, NEW r \in Req, SubmitUpsert(r)
  PROVE  IInv'
<1> DEFINE g == req[r].game
           s == Score(g.seed, g.log)
           new == [score |-> s, finalScore |-> s, seed |-> g.seed, log |-> g.log]
<1>1. /\ UNCHANGED <<game, credits, pops>>
      /\ req[r].pc = "upsert"
      /\ row' = IF row = NoGame THEN new ELSE Upserted(row, new)
      /\ scored' = scored \cup {s}
  BY DEF SubmitUpsert, At
<1>2. /\ RequestsShape(req')
      /\ req'[r].pc = "idle"
      /\ \A o \in Req \ {r} : req'[o] = req[o]
  BY ReturnStep DEF IInv, SubmitUpsert
<1>3. s \in Nat
  BY DEF Score, ScoresAreNumbers
<1>4. Over(g.seed, g.log)
  BY <1>1 DEF IInv, SubmitsOver
<1> DEFINE best == IF row = NoGame THEN s ELSE BestScore(row.score, s)
           seed == g.seed
           log == g.log
<1>5. row' = [score |-> best, finalScore |-> s, seed |-> seed, log |-> log]
  BY <1>1 DEF Upserted
<1>6. best \in Nat /\ s <= best
  BY <1>3 DEF best, BestScore, IInv, Shape
<1>7. best \in scored' /\ \A o \in scored' : o <= best
<2>1. CASE row = NoGame
<3>1. scored' = {s} /\ best = s
  BY <1>1, <2>1 DEF IInv, RowKeepsBest, best
<3> QED BY <3>1, <1>3
<2>2. CASE row # NoGame
<3>1. row.score \in scored /\ row.score \in Nat /\ \A o \in scored : o <= row.score
  BY <2>2 DEF IInv, RowKeepsBest, Shape
<3>2. best = BestScore(row.score, s) /\ scored' = scored \cup {s} /\ scored \subseteq Nat
  BY <1>1, <2>2 DEF best, IInv, Shape
<3> HIDE DEF s, best
<3> QED BY <1>3, <3>1, <3>2 DEF BestScore
<2> QED BY <2>1, <2>2
<1>8. s = Score(seed, log)
  OBVIOUS
<1> HIDE DEF g, s, best, seed, log
<1>9. row' # NoGame
  BY <1>5 DEF NoGameIsNoRow
<1>10. Shape'
  BY <1>1, <1>2, <1>3, <1>5, <1>6 DEF IInv, Shape, RequestsShape
<1>11. SubmitsOver'
  BY <1>2, SubmitsOverKept DEF IInv
<1>12. NoFreeUndo'
<2>1. Spending' = Spending
  BY <1>1, <1>2, SpendingSame
<2> QED BY <2>1, <1>1 DEF IInv, NoFreeUndo
<1>13. RowKeepsBest'
  BY <1>5, <1>7, <1>9 DEF RowKeepsBest
<1>14. SnapshotReplays'
<2>1. row'.seed = seed /\ row'.log = log /\ row'.finalScore = s /\ row'.score = best
  BY <1>5
<2>2. Over(row'.seed, row'.log) /\ row'.finalScore = Score(row'.seed, row'.log)
  BY <2>1, <1>4, <1>8 DEF seed, log
<2> QED BY <2>1, <2>2, <1>6 DEF SnapshotReplays
<1> QED BY <1>10, <1>11, <1>12, <1>13, <1>14 DEF IInv

LEMMA RequestDiesStep ==
  ASSUME IInv, NEW r \in Req, RequestDies(r)
  PROVE  IInv'
<1>1. UNCHANGED <<game, credits, row, pops, scored>>
  BY DEF RequestDies
<1>2. /\ RequestsShape(req')
      /\ req'[r].pc = "idle"
      /\ \A o \in Req \ {r} : req'[o] = req[o]
  BY ReturnStep DEF IInv, RequestDies
<1>3. Shape'
  BY <1>1, <1>2, ShapeKept DEF IInv, Shape
<1>4. SubmitsOver'
  BY <1>2, SubmitsOverKept DEF IInv
<1>5. NoFreeUndo'
<2>1. Cardinality(Spending') = Cardinality(Spending)
        \/ Cardinality(Spending') = Cardinality(Spending) - 1
<3>1. CASE req[r].pc \in {"pop", "refund"}
  BY <1>2, <3>1, SpendingLess
<3>2. CASE req[r].pc \notin {"pop", "refund"}
  BY <1>2, <3>2, SpendingSame
<3> QED BY <3>1, <3>2
<2> QED BY <2>1, <1>1, SpendingNat, GamesAssumption DEF IInv, Shape, NoFreeUndo
<1> QED BY <1>1, <1>3, <1>4, <1>5, RowUntouched DEF IInv

LEMMA LoseGameStep == ASSUME IInv, LoseGame PROVE IInv'
<1>1. UNCHANGED <<credits, row, req, pops, scored>> /\ game' = NoGame
  BY DEF LoseGame
<1>2. Shape'
  BY <1>1 DEF IInv, Shape
<1>3. SubmitsOver' /\ NoFreeUndo'
  BY <1>1 DEF IInv, SubmitsOver, NoFreeUndo, Spending, Over
<1> QED BY <1>1, <1>2, <1>3, RowUntouched DEF IInv

LEMMA StutterStep == ASSUME IInv, UNCHANGED vars PROVE IInv'
<1>1. UNCHANGED <<game, credits, row, req, pops, scored>>
  BY DEF vars
<1>2. Shape'
  BY <1>1 DEF IInv, Shape
<1>3. SubmitsOver' /\ NoFreeUndo'
  BY <1>1 DEF IInv, SubmitsOver, NoFreeUndo, Spending, Over
<1> QED BY <1>1, <1>2, <1>3, RowUntouched DEF IInv

LEMMA NextIInv ==
  ASSUME ScoresAreNumbers, NoGameIsNoRow, IInv, [Next]_vars
  PROVE  IInv'
<1>1. CASE UNCHANGED vars
  BY <1>1, StutterStep
<1>2. ASSUME NEW seed \in Seed, Start(seed) PROVE IInv'
  BY <1>2, StartStep
<1>3. ASSUME NEW r \in Req, NEW dirs \in Batch, MoveRead(r, dirs) PROVE IInv'
  BY <1>3, MoveReadStep
<1>4. ASSUME NEW r \in Req,
             MoveAppend(r) \/ UndoConsume(r) \/ UndoPop(r) \/ UndoRefund(r)
      PROVE  IInv'
  BY <1>4, MoveAppendStep, UndoConsumeStep, UndoPopStep, UndoRefundStep
<1>5. ASSUME NEW r \in Req,
             SubmitRead(r) \/ SubmitFinish(r) \/ SubmitUpsert(r) \/ RequestDies(r)
      PROVE  IInv'
  BY <1>5, SubmitReadStep, SubmitFinishStep, SubmitUpsertStep, RequestDiesStep
<1>6. CASE LoseGame
  BY <1>6, LoseGameStep
<1> QED BY <1>1, <1>2, <1>3, <1>4, <1>5, <1>6 DEF Next

-----------------------------------------------------------------------------
(***************************************************************************)
(* The theorems.                                                           *)
(***************************************************************************)

(* The inductive invariant holds.                                          *)
THEOREM InvCorrect ==
  ASSUME ScoresAreNumbers, NoGameIsNoRow
  PROVE  Spec => []IInv
<1>1. Init => IInv
  BY InitIInv
<1>2. IInv /\ [Next]_vars => IInv'
  BY NextIInv
<1> QED BY <1>1, <1>2, PTL DEF Spec

(* However undos, moves, new games and submits of a player overlap, no     *)
(* move is taken back without a credit and none is refunded twice          *)
(* (/api/games/undo).                                                      *)
THEOREM UndosArePaid ==
  ASSUME ScoresAreNumbers, NoGameIsNoRow
  PROVE  Spec => []NoFreeUndo
<1>1. IInv => NoFreeUndo
  BY DEF IInv
<1> QED BY <1>1, InvCorrect, PTL

(* The leaderboard row keeps the best of all the scores written to it, in  *)
(* whatever order submits overlap (/api/scores/submit, the upsert).        *)
THEOREM RowCorrect ==
  ASSUME ScoresAreNumbers, NoGameIsNoRow
  PROVE  Spec => []RowKeepsBest
<1>1. IInv => RowKeepsBest
  BY DEF IInv
<1> QED BY <1>1, InvCorrect, PTL

(* The replay tuple of the row is always a finished game that gives the    *)
(* final score next to it (/api/scores/submit; SubmitsOver carries it from *)
(* the replay to the upsert).                                              *)
THEOREM SnapshotCorrect ==
  ASSUME ScoresAreNumbers, NoGameIsNoRow
  PROVE  Spec => []SnapshotReplays
<1>1. IInv => SnapshotReplays
  BY DEF IInv
<1> QED BY <1>1, InvCorrect, PTL

(* A finished game is never played on nor reopened (the guards of the      *)
(* scripts in gameStore.ts).                                               *)
THEOREM FinishedCorrect ==
  ASSUME ScoresAreNumbers, NoGameIsNoRow
  PROVE  Spec => FinishedIsFrozen
<1> DEFINE Frozen == game # NoGame /\ game.finished =>
                       game' = NoGame \/ (game'.log = <<>> /\ ~game'.finished)
<1>1. IInv /\ [Next]_vars => [Frozen]_game
<2> SUFFICES ASSUME IInv, [Next]_vars, game # NoGame, game.finished, game' # game
             PROVE  game' = NoGame \/ (game'.log = <<>> /\ ~game'.finished)
  OBVIOUS
<2>1. ASSUME NEW seed \in Seed, Start(seed)
      PROVE  game' = NoGame \/ (game'.log = <<>> /\ ~game'.finished)
  BY <2>1 DEF Start
<2>2. ASSUME NEW r \in Req, NEW dirs \in Batch, MoveRead(r, dirs) PROVE FALSE
  BY <2>2 DEF MoveRead
<2>3. ASSUME NEW r \in Req, MoveAppend(r) PROVE FALSE
  BY <2>3 DEF MoveAppend, Appendable
<2>4. ASSUME NEW r \in Req, UndoPop(r) PROVE FALSE
  BY <2>4 DEF UndoPop, Poppable
<2>5. ASSUME NEW r \in Req, SubmitFinish(r) PROVE FALSE
<3>1. game' = [game EXCEPT !.finished = TRUE]
  BY <2>5 DEF SubmitFinish
<3>2. game.finished = TRUE
  BY DEF IInv, Shape
<3> QED BY <3>1, <3>2 DEF IInv, Shape
<2>6. ASSUME NEW r \in Req,
             \/ UndoConsume(r) \/ UndoRefund(r) \/ SubmitRead(r)
             \/ SubmitUpsert(r) \/ RequestDies(r)
      PROVE  FALSE
  BY <2>6 DEF UndoConsume, UndoRefund, SubmitRead, SubmitUpsert, RequestDies
<2>7. CASE LoseGame
  BY <2>7 DEF LoseGame
<2> QED BY <2>1, <2>2, <2>3, <2>4, <2>5, <2>6, <2>7 DEF Next, vars
<1> QED BY <1>1, InvCorrect, PTL DEF Spec, FinishedIsFrozen

-----------------------------------------------------------------------------
(***************************************************************************)
(* The types.                                                              *)
(***************************************************************************)

(* A submit carries the game that it read through its awaits.              *)
CarriesGame ==
  \A r \in Req : req[r].pc \in {"finish", "upsert"} => req[r].game \in Game

TypeInv == TypeOK /\ CarriesGame

LEMMA IdleIsRequest == Idle \in ApiRequest /\ Idle.pc = "idle"
BY DEF Idle, ApiRequest

(* A request that is not submitting after the step has nothing to carry.   *)
LEMMA RequestsTyped ==
  ASSUME TypeInv, NEW r \in Req, NEW q \in ApiRequest,
         q.pc \in {"finish", "upsert"} => q.game \in Game,
         req' = [req EXCEPT ![r] = q]
  PROVE  req' \in [Req -> ApiRequest] /\ CarriesGame'
<1>1. req \in [Req -> ApiRequest]
  BY DEF TypeInv, TypeOK
<1>2. req' \in [Req -> ApiRequest]
  BY <1>1
<1>3. \A o \in Req : req'[o] = IF o = r THEN q ELSE req[o]
  BY <1>1
<1> QED BY <1>2, <1>3 DEF TypeInv, CarriesGame

LEMMA TypeInit == Init => TypeInv
BY GamesAssumption, IdleIsRequest DEF Init, TypeInv, TypeOK, CarriesGame, Idle

LEMMA TypeNext ==
  ASSUME ScoresAreNumbers, TypeInv, [Next]_vars
  PROVE  TypeInv'
<1> USE DEF TypeInv, TypeOK
<1>1. CASE UNCHANGED vars
  BY <1>1 DEF vars, CarriesGame
<1>2. ASSUME NEW seed \in Seed, Start(seed) PROVE TypeInv'
<2>1. [seed |-> seed, log |-> <<>>, finished |-> FALSE] \in Game
  BY DEF Game
<2> QED BY <1>2, <2>1 DEF Start, CarriesGame
<1>3. ASSUME NEW r \in Req, NEW dirs \in Batch, MoveRead(r, dirs) PROVE TypeInv'
<2>1. dirs \in Seq(Dir)
  BY DEF Batch
<2> DEFINE log == Accept(game.seed, game.log, dirs)
           q == [pc |-> "append", game |-> game, log |-> log]
<2>2. log \in Seq(Dir) /\ game \in Game
  BY <1>3, <2>1, AcceptType DEF MoveRead, Game
<2>3. q \in ApiRequest /\ q.pc = "append"
  BY <2>2 DEF ApiRequest
<2>4. req' = [req EXCEPT ![r] = q] /\ UNCHANGED <<game, credits, row, pops, scored>>
  BY <1>3 DEF MoveRead, Begin
<2> HIDE DEF q
<2> QED BY <2>3, <2>4, RequestsTyped
<1>4. ASSUME NEW r \in Req, MoveAppend(r) PROVE TypeInv'
<2>1. game' \in Game \cup {NoGame}
  BY <1>4 DEF MoveAppend, Appendable, Game, ApiRequest
<2>2. req' = [req EXCEPT ![r] = Idle] /\ UNCHANGED <<credits, row, pops, scored>>
  BY <1>4 DEF MoveAppend, Return
<2> QED BY <2>1, <2>2, IdleIsRequest, RequestsTyped
<1>5. ASSUME NEW r \in Req, UndoConsume(r) PROVE TypeInv'
<2> DEFINE q == [pc |-> "pop", game |-> NoGame, log |-> <<>>]
<2>1. q \in ApiRequest /\ q.pc = "pop"
  BY DEF ApiRequest
<2>2. /\ req' = [req EXCEPT ![r] = q] /\ UNCHANGED <<game, row, pops, scored>>
      /\ credits' \in Nat
  BY <1>5 DEF UndoConsume, HasCredit, Begin
<2> HIDE DEF q
<2> QED BY <2>1, <2>2, RequestsTyped
<1>6. ASSUME NEW r \in Req, UndoPop(r) PROVE TypeInv'
<2>1. CASE Poppable
<3>1. game' \in Game
<4>1. game \in Game /\ game.log # <<>>
  BY <2>1 DEF Poppable
<4>2. Front(game.log) \in Seq(Dir)
  BY <4>1 DEF Front, Game
<4> QED BY <1>6, <2>1, <4>1, <4>2 DEF UndoPop, Game
<3>2. /\ req' = [req EXCEPT ![r] = Idle] /\ UNCHANGED <<credits, row, scored>>
      /\ pops' \in Nat
  BY <1>6, <2>1 DEF UndoPop, Return
<3> QED BY <3>1, <3>2, IdleIsRequest, RequestsTyped
<2>2. CASE ~Poppable
<3>1. req[r] \in ApiRequest
  OBVIOUS
<3> DEFINE q == [req[r] EXCEPT !.pc = "refund"]
<3>2. q \in ApiRequest /\ q.pc = "refund"
  BY <3>1 DEF ApiRequest
<3>3. req' = [req EXCEPT ![r] = q] /\ UNCHANGED <<game, pops, credits, row, scored>>
  BY <1>6, <2>2 DEF UndoPop, Continue
<3> HIDE DEF q
<3> QED BY <3>2, <3>3, RequestsTyped
<2> QED BY <2>1, <2>2
<1>7. ASSUME NEW r \in Req, UndoRefund(r) PROVE TypeInv'
<2>1. /\ req' = [req EXCEPT ![r] = Idle] /\ UNCHANGED <<game, row, pops, scored>>
      /\ credits' \in Nat
  BY <1>7 DEF UndoRefund, Return
<2> QED BY <2>1, IdleIsRequest, RequestsTyped
<1>8. ASSUME NEW r \in Req, SubmitRead(r) PROVE TypeInv'
<2> DEFINE q == [pc |-> "finish", game |-> game, log |-> <<>>]
<2>1. q \in ApiRequest /\ q.game \in Game
  BY <1>8 DEF SubmitRead, ApiRequest
<2>2. req' = [req EXCEPT ![r] = q] /\ UNCHANGED <<game, credits, row, pops, scored>>
  BY <1>8 DEF SubmitRead, Begin
<2> HIDE DEF q
<2> QED BY <2>1, <2>2, RequestsTyped
<1>9. ASSUME NEW r \in Req, SubmitFinish(r) PROVE TypeInv'
<2>1. game' \in Game \cup {NoGame}
  BY <1>9 DEF SubmitFinish, Game
<2>2. req[r] \in ApiRequest /\ req[r].game \in Game
  BY <1>9 DEF SubmitFinish, At, CarriesGame
<2> DEFINE q == [req[r] EXCEPT !.pc = "upsert"]
<2>3. q \in ApiRequest /\ q.game \in Game
  BY <2>2 DEF ApiRequest
<2>4. req' = [req EXCEPT ![r] = q] /\ UNCHANGED <<credits, row, pops, scored>>
  BY <1>9 DEF SubmitFinish, Continue
<2> HIDE DEF q
<2> QED BY <2>1, <2>3, <2>4, RequestsTyped
<1>10. ASSUME NEW r \in Req, SubmitUpsert(r) PROVE TypeInv'
<2> DEFINE g == req[r].game
           s == Score(g.seed, g.log)
           new == [score |-> s, finalScore |-> s, seed |-> g.seed, log |-> g.log]
<2>1. g \in Game
  BY <1>10 DEF SubmitUpsert, At, CarriesGame
<2>2. s \in Nat
  BY DEF Score, ScoresAreNumbers
<2>3. new \in ScoreRow
  BY <2>1, <2>2 DEF ScoreRow, Game
<2>4. /\ row' = IF row = NoGame THEN new ELSE Upserted(row, new)
      /\ scored' = scored \cup {s}
      /\ req' = [req EXCEPT ![r] = Idle]
      /\ UNCHANGED <<game, credits, pops>>
  BY <1>10 DEF SubmitUpsert, Return
<2> HIDE DEF g, s, new
<2>5. row' \in ScoreRow
  BY <2>3, <2>4 DEF Upserted, BestScore, ScoreRow
<2> QED BY <2>2, <2>4, <2>5, IdleIsRequest, RequestsTyped
<1>11. ASSUME NEW r \in Req, RequestDies(r) PROVE TypeInv'
<2>1. req' = [req EXCEPT ![r] = Idle] /\ UNCHANGED <<game, credits, row, pops, scored>>
  BY <1>11 DEF RequestDies, Return
<2> QED BY <2>1, IdleIsRequest, RequestsTyped
<1>12. CASE LoseGame
  BY <1>12 DEF LoseGame, CarriesGame
<1> QED
  BY <1>1, <1>2, <1>3, <1>4, <1>5, <1>6, <1>7, <1>8, <1>9, <1>10, <1>11, <1>12 DEF Next

(* Every variable holds what the code can put there: in particular what a  *)
(* batch and an undo leave of a log is a log, and a submit never writes a  *)
(* row from a game that was not there (handlers of index.ts).              *)
THEOREM TypeCorrect ==
  ASSUME ScoresAreNumbers
  PROVE  Spec => []TypeOK
<1>1. TypeInv /\ [Next]_vars => TypeInv'
  BY TypeNext
<1>2. TypeInv => TypeOK
  BY DEF TypeInv
<1> QED BY <1>1, <1>2, TypeInit, PTL DEF Spec
==============================================================================
