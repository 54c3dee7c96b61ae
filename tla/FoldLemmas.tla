------------------------------ MODULE FoldLemmas ------------------------------
(***************************************************************************)
(* What the proofs need to know of a fold over a sequence, and of a sum    *)
(* over a set (below).  FoldLeft of the community modules is a function it *)
(* on the sets of indices, of which only the initial segments 1 .. k       *)
(* matter: it[1 .. k] is what the fold has made of the first k elements.   *)
(* The lemmas say that such a function exists and that its initial         *)
(* segments are the fold's steps.  The step is a function F on a set T of  *)
(* accumulators and on the indices.                                        *)
(***************************************************************************)
EXTENDS Integers, Sequences, SequencesExt, FiniteSetTheorems, WellFoundedInduction, TLAPS

(* Induction over the naturals for a set, where the library's own theorem  *)
(* is about an operator.                                                   *)
LEMMA SetInduction ==
  ASSUME NEW S, 0 \in S, \A n \in Nat : n \in S => n + 1 \in S
  PROVE  Nat \subseteq S
<1> DEFINE T == Nat \ S
<1> SUFFICES ASSUME T # {} PROVE FALSE
  OBVIOUS
<1>1. PICK x \in T : \A y \in T : ~ (<<y, x>> \in OpToRel(<, Nat))
  BY WFMin, NatLessThanWellFounded
<1>2. x \in Nat /\ x # 0
  OBVIOUS
<1>3. x - 1 \in Nat /\ x - 1 < x
  BY <1>2
<1>4. <<x - 1, x>> \in OpToRel(<, Nat)
  BY <1>2, <1>3 DEF OpToRel
<1>5. x - 1 \in S
  BY <1>1, <1>3, <1>4
<1> QED BY <1>2, <1>3, <1>5

(* A fold goes through a set of indices from its largest one down.         *)
LEMMA MaxIs ==
  ASSUME NEW n \in Nat, NEW s \in SUBSET (1 .. n), n \in s
  PROVE  Max(s) = n
<1>1. \A y \in s : n >= y
  OBVIOUS
<1>2. \A x \in s : (\A y \in s : x >= y) => x = n
  BY <1>1
<1> QED BY <1>1, <1>2 DEF Max

(* The greatest element of a set of indices is one of them.                *)
LEMMA MaxIn ==
  ASSUME NEW n \in Nat, NEW s \in SUBSET (1 .. n), s # {}
  PROVE  Max(s) \in s
<1> DEFINE S == {k \in Nat : \A t \in SUBSET (1 .. k) : t # {} => Max(t) \in t}
<1>1. 0 \in S
<2>1. 1 .. 0 = {}
  OBVIOUS
<2> QED BY <2>1
<1>2. ASSUME NEW k \in Nat, k \in S PROVE k + 1 \in S
<2> SUFFICES ASSUME NEW t \in SUBSET (1 .. k + 1), t # {} PROVE Max(t) \in t
  OBVIOUS
<2>1. CASE k + 1 \in t
  BY <2>1, MaxIs
<2>2. CASE k + 1 \notin t
<3>1. t \in SUBSET (1 .. k)
  BY <2>2
<3> QED BY <3>1, <1>2
<2> QED BY <2>1, <2>2
<1>3. Nat \subseteq S
<2> HIDE DEF S
<2> QED BY <1>1, <1>2, SetInduction
<1> QED BY <1>3

FoldStep(F, base, it, s) == IF s = {} THEN base ELSE F[<<it[s \ {Max(s)}], Max(s)>>]

FoldsBy(T, F, base, m, it) ==
  /\ it \in [SUBSET (1 .. m) -> T]
  /\ \A s \in SUBSET (1 .. m) : it[s] = FoldStep(F, base, it, s)

(* The function a fold is defined by exists.                               *)
LEMMA FoldExists ==
  ASSUME NEW T, NEW base \in T, NEW m \in Nat, NEW F \in [T \X (1 .. m) -> T]
  PROVE  \E it : FoldsBy(T, F, base, m, it)
<1> DEFINE Made(k, it) == FoldsBy(T, F, base, k, it)
           S == {k \in Nat : k <= m => \E it : Made(k, it)}
<1>1. 0 \in S
<2> DEFINE it == [s \in SUBSET (1 .. 0) |-> base]
<2>1. \A s \in SUBSET (1 .. 0) : s = {}
  OBVIOUS
<2>2. Made(0, it)
  BY <2>1 DEF FoldStep, FoldsBy
<2> QED BY <2>2
<1>2. ASSUME NEW k \in Nat, k \in S PROVE k + 1 \in S
<2> SUFFICES ASSUME k + 1 <= m PROVE \E it : Made(k + 1, it)
  OBVIOUS
<2>1. PICK it : Made(k, it)
<3>1. k <= m
  OBVIOUS
<3> HIDE DEF Made
<3> QED BY <1>2, <3>1
<2> DEFINE jt == [s \in SUBSET (1 .. k + 1) |->
                    IF k + 1 \in s THEN F[<<it[s \ {k + 1}], k + 1>>] ELSE it[s]]
<2>2. ASSUME NEW s \in SUBSET (1 .. k + 1)
      PROVE  jt[s] \in T /\ jt[s] = FoldStep(F, base, jt, s)
<3>1. CASE k + 1 \in s
<4>1. s \ {k + 1} \in SUBSET (1 .. k) /\ k + 1 \notin s \ {k + 1}
  OBVIOUS
<4>2. jt[s \ {k + 1}] = it[s \ {k + 1}] /\ it[s \ {k + 1}] \in T
  BY <4>1, <2>1 DEF FoldsBy
<4>3. Max(s) = k + 1 /\ s # {}
  BY <3>1, MaxIs
<4>4. k + 1 \in 1 .. m
  OBVIOUS
<4>5. jt[s] = F[<<it[s \ {k + 1}], k + 1>>]
  BY <3>1
<4>6. F[<<it[s \ {k + 1}], k + 1>>] \in T
  BY <4>2, <4>4
<4> HIDE DEF jt
<4> QED BY <4>2, <4>3, <4>5, <4>6 DEF FoldStep
<3>2. CASE k + 1 \notin s
<4>1. s \in SUBSET (1 .. k) /\ jt[s] = it[s]
  BY <3>2
<4>2. s \ {Max(s)} \in SUBSET (1 .. k) /\ k + 1 \notin s \ {Max(s)}
  BY <3>2, <4>1
<4>3. jt[s \ {Max(s)}] = it[s \ {Max(s)}]
  BY <4>2
<4> HIDE DEF jt
<4> QED BY <2>1, <4>1, <4>3 DEF FoldStep, FoldsBy
<3> QED BY <3>1, <3>2
<2>3. Made(k + 1, jt)
  BY <2>2 DEF FoldsBy
<2> QED BY <2>3
<1>3. Nat \subseteq S
<2> HIDE DEF S
<2> QED BY <1>1, <1>2, SetInduction
<1>4. \E it : Made(m, it)
<2>1. m \in S
<3> HIDE DEF S
<3> QED BY <1>3
<2> HIDE DEF Made
<2> QED BY <2>1
<1> QED BY <1>4

(* The steps of a fold: what it makes of the first k elements is the step  *)
(* F from what it made of the first k - 1.                                 *)
Stepping(T, F, n) == F \in [T \X (1 .. n) -> T]

Folding(T, F, base, it, n) ==
  /\ it[{}] = base
  /\ \A k \in 1 .. n : it[1 .. k - 1] \in T => it[1 .. k] = F[<<it[1 .. k - 1], k>>]

(* An initial segment without its last index is the one before.            *)
LEMMA SegmentStep ==
  ASSUME NEW k \in Nat, k # 0
  PROVE  (1 .. k) \ {Max(1 .. k)} = 1 .. k - 1 /\ Max(1 .. k) = k /\ 1 .. k # {}
<1>1. Max(1 .. k) = k
  BY MaxIs
<1>2. k \in 1 .. k /\ k - 1 \in Nat
  OBVIOUS
<1>3. \A i : i \in (1 .. k) \ {k} <=> i \in 1 .. k - 1
  OBVIOUS
<1>4. (1 .. k) \ {k} = 1 .. k - 1
  BY <1>3, Zenon
<1> QED BY <1>1, <1>2, <1>4

(* A fold stays within its accumulators.                                   *)
LEMMA FoldingType ==
  ASSUME NEW T, NEW base \in T, NEW n \in Nat, NEW F, Stepping(T, F, n),
         NEW it, Folding(T, F, base, it, n)
  PROVE  \A k \in 0 .. n : it[1 .. k] \in T
<1> DEFINE S == {k \in Nat : k <= n => it[1 .. k] \in T}
<1>1. 0 \in S
<2>1. 1 .. 0 = {}
  OBVIOUS
<2> QED BY <2>1 DEF Folding
<1>2. ASSUME NEW k \in Nat, k \in S PROVE k + 1 \in S
<2> SUFFICES ASSUME k + 1 <= n PROVE it[1 .. k + 1] \in T
  OBVIOUS
<2>1. it[1 .. k] \in T /\ k + 1 \in 1 .. n /\ (k + 1) - 1 = k
  BY <1>2
<2>2. it[1 .. k + 1] = F[<<it[1 .. k], k + 1>>]
  BY <2>1 DEF Folding
<2> QED BY <2>1, <2>2 DEF Stepping
<1>3. Nat \subseteq S
<2> HIDE DEF S
<2> QED BY <1>1, <1>2, SetInduction
<1> QED BY <1>3

(* A fold over one more element is one more step.                          *)
LEMMA FoldingAppend ==
  ASSUME NEW T, NEW base \in T, NEW n \in Nat, NEW m, m = n + 1,
         NEW F, Stepping(T, F, m), NEW it, NEW jt,
         Folding(T, F, base, it, n), Folding(T, F, base, jt, m)
  PROVE  it[1 .. n] \in T /\ jt[1 .. m] = F[<<it[1 .. n], m>>]
<1> DEFINE S == {k \in Nat : k <= n => it[1 .. k] = jt[1 .. k]}
<1>1. 0 \in S
<2>1. 1 .. 0 = {}
  OBVIOUS
<2> QED BY <2>1 DEF Folding
<1>2. \A k \in 0 .. n + 1 : jt[1 .. k] \in T
<2>1. n + 1 \in Nat
  OBVIOUS
<2> QED BY <2>1, FoldingType
<1>3. ASSUME NEW k \in Nat, k \in S PROVE k + 1 \in S
<2> SUFFICES ASSUME k + 1 <= n PROVE it[1 .. k + 1] = jt[1 .. k + 1]
  OBVIOUS
<2>1. it[1 .. k] = jt[1 .. k] /\ k + 1 \in 1 .. n /\ k + 1 \in 1 .. n + 1 /\ (k + 1) - 1 = k
  BY <1>3
<2>2. jt[1 .. k] \in T
  BY <1>2
<2>3. it[1 .. k + 1] = F[<<it[1 .. k], k + 1>>]
  BY <2>1, <2>2 DEF Folding
<2>4. jt[1 .. k + 1] = F[<<jt[1 .. k], k + 1>>]
  BY <2>1, <2>2 DEF Folding
<2> QED BY <2>1, <2>3, <2>4
<1>4. Nat \subseteq S
<2> HIDE DEF S
<2> QED BY <1>1, <1>3, SetInduction
<1>5. it[1 .. n] = jt[1 .. n] /\ n + 1 \in 1 .. n + 1 /\ (n + 1) - 1 = n
  BY <1>4
<1>6. it[1 .. n] \in T
<2>1. n \in 0 .. n + 1
  OBVIOUS
<2> QED BY <1>2, <1>5, <2>1
<1>7. jt[1 .. n] \in T => jt[1 .. n + 1] = F[<<jt[1 .. n], n + 1>>]
  BY <1>5 DEF Folding
<1> QED BY <1>5, <1>6, <1>7, Zenon

(* The accumulators of a fold, one after the other.                        *)
LEMMA FoldingTrace ==
  ASSUME NEW T, NEW base \in T, NEW n \in Nat, NEW F, Stepping(T, F, n),
         NEW it, Folding(T, F, base, it, n)
  PROVE  \E h \in [0 .. n -> T] :
           /\ h[0] = base /\ h[n] = it[1 .. n]
           /\ \A k \in 1 .. n : h[k] = F[<<h[k - 1], k>>]
<1> DEFINE h == [k \in 0 .. n |-> it[1 .. k]]
<1>1. \A k \in 0 .. n : it[1 .. k] \in T
  BY FoldingType
<1>2. h \in [0 .. n -> T]
  BY <1>1
<1>3. h[0] = base
<2>1. 1 .. 0 = {} /\ 0 \in 0 .. n
  OBVIOUS
<2> QED BY <2>1 DEF Folding
<1>4. h[n] = it[1 .. n]
  OBVIOUS
<1>5. ASSUME NEW k \in 1 .. n PROVE h[k] = F[<<h[k - 1], k>>]
<2>1. k \in 0 .. n /\ k - 1 \in 0 .. n
  OBVIOUS
<2>2. h[k] = it[1 .. k] /\ h[k - 1] = it[1 .. k - 1]
  BY <2>1
<2> QED BY <1>1, <2>1, <2>2 DEF Folding
<1> HIDE DEF h
<1> QED BY <1>2, <1>3, <1>4, <1>5

(* What each step of a fold keeps holds of its result.                     *)
LEMMA UpTo ==
  ASSUME NEW n \in Nat, NEW S, 0 \in S,
         \A k \in 1 .. n : k - 1 \in S => k \in S
  PROVE  n \in S
<1> DEFINE U == {k \in Nat : k <= n => k \in S}
<1>1. 0 \in U
  OBVIOUS
<1>2. ASSUME NEW k \in Nat, k \in U PROVE k + 1 \in U
<2> SUFFICES ASSUME k + 1 <= n PROVE k + 1 \in S
  OBVIOUS
<2>1. k \in S /\ k + 1 \in 1 .. n /\ (k + 1) - 1 = k
  BY <1>2
<2> QED BY <2>1
<1>3. Nat \subseteq U
<2> HIDE DEF U
<2> QED BY <1>1, <1>2, SetInduction
<1> QED BY <1>3

-----------------------------------------------------------------------------
(***************************************************************************)
(* Sums over a finite set.  SumFunction takes the elements in an order it  *)
(* chooses; the lemmas say that the order does not matter.                 *)
(***************************************************************************)
SumStep(f, it, s) ==
  IF s = {} THEN 0 ELSE f[CHOOSE x \in s : TRUE] + it[s \ {CHOOSE x \in s : TRUE}]

SumsBy(D, f, it) == it = [s \in SUBSET D |-> SumStep(f, it, s)]

(* A function that sums every subset exists, in the order SumFunction      *)
(* takes.                                                                  *)
LEMMA SumExists ==
  ASSUME NEW D, IsFiniteSet(D), NEW f \in [D -> Nat]
  PROVE  \E it \in [SUBSET D -> Nat] : SumsBy(D, f, it)
<1> DEFINE Level(n, it) == /\ it \in [SUBSET D -> Nat]
                           /\ \A s \in SUBSET D : Cardinality(s) <= n => it[s] = SumStep(f, it, s)
           S == {n \in Nat : \E it : Level(n, it)}
<1>1. ASSUME NEW s \in SUBSET D
      PROVE  /\ IsFiniteSet(s) /\ Cardinality(s) \in Nat
             /\ Cardinality(s) <= Cardinality(D) /\ Cardinality(D) \in Nat
             /\ s # {} => /\ (CHOOSE x \in s : TRUE) \in s
                          /\ f[CHOOSE x \in s : TRUE] \in Nat
                          /\ s \ {CHOOSE x \in s : TRUE} \in SUBSET D
                          /\ Cardinality(s \ {CHOOSE x \in s : TRUE}) = Cardinality(s) - 1
<2>1. IsFiniteSet(s) /\ Cardinality(s) <= Cardinality(D)
  BY FS_Subset
<2>2. Cardinality(s) \in Nat /\ Cardinality(D) \in Nat
  BY <2>1, FS_CardinalityType
<2>3. ASSUME s # {}, NEW x \in s
      PROVE  f[x] \in Nat /\ s \ {x} \in SUBSET D /\ Cardinality(s \ {x}) = Cardinality(s) - 1
  BY <2>1, FS_RemoveElement
<2> QED BY <2>1, <2>2, <2>3
<1>2. 0 \in S
<2> DEFINE it == [s \in SUBSET D |-> 0]
<2>1. ASSUME NEW s \in SUBSET D, Cardinality(s) <= 0 PROVE it[s] = SumStep(f, it, s)
<3>1. s = {}
  BY <1>1, <2>1, FS_EmptySet
<3> QED BY <3>1 DEF SumStep
<2>2. it \in [SUBSET D -> Nat]
  OBVIOUS
<2>3. Level(0, it)
<3> HIDE DEF it
<3> QED BY <2>1, <2>2
<2> HIDE DEF Level, it
<2> QED BY <2>3
<1>3. ASSUME NEW n \in Nat, n \in S PROVE n + 1 \in S
<2>1. PICK it : Level(n, it)
  BY <1>3
<2> DEFINE jt == [s \in SUBSET D |-> SumStep(f, it, s)]
<2>2. ASSUME NEW s \in SUBSET D PROVE SumStep(f, it, s) \in Nat
  BY <1>1, <2>1 DEF SumStep
<2>3. jt \in [SUBSET D -> Nat]
  BY <2>2
<2>4. ASSUME NEW s \in SUBSET D, Cardinality(s) <= n + 1 PROVE jt[s] = SumStep(f, jt, s)
<3>1. CASE s = {}
  BY <3>1 DEF SumStep
<3>2. CASE s # {}
<4> DEFINE x == CHOOSE x \in s : TRUE
           r == s \ {x}
<4>1. r \in SUBSET D /\ Cardinality(r) = Cardinality(s) - 1 /\ Cardinality(s) \in Nat
  BY <1>1, <3>2
<4> HIDE DEF x, r
<4>2. Cardinality(r) <= n
  BY <2>4, <4>1
<4>3. it[r] = SumStep(f, it, r)
  BY <2>1, <4>1, <4>2
<4>4. jt[r] = it[r]
  BY <4>1, <4>3
<4>5. jt[s] = f[x] + it[r]
  BY <3>2 DEF SumStep, x, r
<4> HIDE DEF jt
<4>6. SumStep(f, jt, s) = f[x] + jt[r]
  BY <3>2 DEF SumStep, x, r
<4> QED BY <4>4, <4>5, <4>6
<3> QED BY <3>1, <3>2
<2>5. Level(n + 1, jt)
<3> HIDE DEF jt
<3> QED BY <2>3, <2>4
<2> HIDE DEF Level, jt
<2> QED BY <2>5
<1>4. Nat \subseteq S
<2> HIDE DEF S
<2> QED BY <1>2, <1>3, SetInduction
<1>5. Cardinality(D) \in Nat
  BY FS_CardinalityType
<1>6. PICK it : Level(Cardinality(D), it)
<2>1. Cardinality(D) \in S
<3> HIDE DEF S
<3> QED BY <1>4, <1>5
<2> HIDE DEF Level
<2> QED BY <2>1
<1>7. \A s \in SUBSET D : it[s] = SumStep(f, it, s)
  BY <1>1, <1>6
<1>8. it = [s \in SUBSET D |-> it[s]]
  BY <1>6
<1>9. SumsBy(D, f, it)
  BY <1>7, <1>8 DEF SumsBy
<1> QED BY <1>6, <1>9

(* it[s] is the sum of f over s, whichever element is added last.          *)
Sums(D, f, it) ==
  /\ it \in [SUBSET D -> Nat]
  /\ it[{}] = 0
  /\ \A s \in SUBSET D : \A x \in s : it[s] = f[x] + it[s \ {x}]

(* SumFunction is a sum whose last term may be any.                        *)
LEMMA SumOf ==
  ASSUME NEW D, IsFiniteSet(D), NEW f \in [D -> Nat]
  PROVE  \E it : Sums(D, f, it) /\ it[D] = SumFunction(f)
<1>1. PICK jt \in [SUBSET D -> Nat] : SumsBy(D, f, jt)
  BY SumExists
<1> DEFINE it == CHOOSE i : SumsBy(D, f, i)
<1>2. SumsBy(D, f, it)
  BY <1>1
<1>3. SumFunction(f) = it[D]
<2>1. DOMAIN f = D
  OBVIOUS
<2> QED BY <2>1 DEF SumFunction, SumFunctionOnSet, FoldFunctionOnSet, MapThenFoldSet, SumsBy, SumStep
<1> HIDE DEF it
<1>4. \A s \in SUBSET D : it[s] = SumStep(f, it, s)
  BY <1>2 DEF SumsBy
<1> DEFINE Level(n) == \A s \in SUBSET D : Cardinality(s) <= n =>
                         /\ it[s] \in Nat
                         /\ \A x \in s : it[s] = f[x] + it[s \ {x}]
           S == {n \in Nat : Level(n)}
<1>5. ASSUME NEW s \in SUBSET D
      PROVE  /\ IsFiniteSet(s) /\ Cardinality(s) \in Nat
             /\ Cardinality(s) <= Cardinality(D) /\ Cardinality(D) \in Nat
             /\ \A x \in s : /\ f[x] \in Nat /\ s \ {x} \in SUBSET D
                             /\ Cardinality(s \ {x}) = Cardinality(s) - 1
<2>1. IsFiniteSet(s) /\ Cardinality(s) <= Cardinality(D)
  BY FS_Subset
<2>2. Cardinality(s) \in Nat /\ Cardinality(D) \in Nat
  BY <2>1, FS_CardinalityType
<2>3. ASSUME NEW x \in s
      PROVE  f[x] \in Nat /\ s \ {x} \in SUBSET D /\ Cardinality(s \ {x}) = Cardinality(s) - 1
  BY <2>1, FS_RemoveElement
<2> QED BY <2>1, <2>2, <2>3
<1>6. 0 \in S
<2>1. ASSUME NEW s \in SUBSET D, Cardinality(s) <= 0
      PROVE  it[s] \in Nat /\ \A x \in s : it[s] = f[x] + it[s \ {x}]
<3>1. s = {}
  BY <1>5, <2>1, FS_EmptySet
<3> QED BY <3>1, <1>4 DEF SumStep
<2> QED BY <2>1
<1>7. ASSUME NEW n \in Nat, n \in S PROVE n + 1 \in S
<2>1. ASSUME NEW s \in SUBSET D, Cardinality(s) <= n + 1, NEW x \in s
      PROVE  it[s] \in Nat /\ it[s] = f[x] + it[s \ {x}]
<3> DEFINE y == CHOOSE z \in s : TRUE
           r == s \ {y}
           q == s \ {x}
           p == r \ {x}
<3>1. y \in s /\ f[y] \in Nat /\ f[x] \in Nat
  BY <1>5, <2>1
<3>2. it[s] = f[y] + it[r]
  BY <1>4, <2>1 DEF SumStep
<3> HIDE DEF y
<3>3. /\ r \in SUBSET D /\ Cardinality(r) <= n
      /\ q \in SUBSET D /\ Cardinality(q) <= n
  BY <1>5, <2>1, <3>1
<3>4. it[r] \in Nat
  BY <1>7, <3>3
<3>5. CASE x = y
  BY <3>1, <3>2, <3>4, <3>5
<3>6. CASE x # y
<4>1. x \in r /\ y \in q /\ p = q \ {y}
  BY <2>1, <3>1, <3>6
<4>2. it[r] = f[x] + it[p]
  BY <1>7, <3>3, <4>1
<4>3. it[q] = f[y] + it[p]
  BY <1>7, <3>3, <4>1
<4>4. p \in SUBSET D /\ Cardinality(p) <= n
<5>1. Cardinality(p) = Cardinality(r) - 1 /\ Cardinality(r) \in Nat
  BY <1>5, <3>3, <4>1
<5> QED BY <3>3, <5>1
<4>5. it[p] \in Nat
  BY <1>7, <4>4
<4> HIDE DEF p, q, r
<4>6. it[s] = f[x] + it[q] /\ it[s] \in Nat
  BY <3>1, <3>2, <4>2, <4>3, <4>5
<4> QED BY <4>6 DEF q
<3> QED BY <3>5, <3>6
<2>2. ASSUME NEW s \in SUBSET D, s = {} PROVE it[s] \in Nat
  BY <1>4, <2>2 DEF SumStep
<2>3. Level(n + 1)
  BY <2>1, <2>2
<2> QED BY <2>3
<1>8. Nat \subseteq S
<2> HIDE DEF S
<2> QED BY <1>6, <1>7, SetInduction
<1>9. Level(Cardinality(D))
<2>1. Cardinality(D) \in S
<3>1. Cardinality(D) \in Nat
  BY FS_CardinalityType
<3> HIDE DEF S
<3> QED BY <1>8, <3>1
<2> HIDE DEF Level
<2> QED BY <2>1
<1>10. \A s \in SUBSET D : it[s] \in Nat /\ \A x \in s : it[s] = f[x] + it[s \ {x}]
  BY <1>5, <1>9
<1>11. it \in [SUBSET D -> Nat]
<2>1. it = [s \in SUBSET D |-> SumStep(f, it, s)]
  BY <1>2 DEF SumsBy
<2>2. \A s \in SUBSET D : SumStep(f, it, s) \in Nat
  BY <1>4, <1>10
<2> DEFINE jj == [s \in SUBSET D |-> SumStep(f, it, s)]
<2>3. jj \in [SUBSET D -> Nat]
  BY <2>2
<2> QED BY <2>1, <2>3
<1>12. it[{}] = 0
<2>1. {} \in SUBSET D
  OBVIOUS
<2> QED BY <1>4, <2>1 DEF SumStep
<1>13. Sums(D, f, it)
  BY <1>10, <1>11, <1>12 DEF Sums
<1> QED BY <1>3, <1>13

(* A sum of numbers is a number.                                           *)
LEMMA SumType ==
  ASSUME NEW D, IsFiniteSet(D), NEW f \in [D -> Nat]
  PROVE  SumFunction(f) \in Nat
<1>1. PICK it : Sums(D, f, it) /\ it[D] = SumFunction(f)
  BY SumOf
<1>2. it[D] \in Nat
  BY <1>1 DEF Sums
<1> QED BY <1>1, <1>2

(* The partial sums of a sequence of numbers.                              *)
Partial(f, n, h) == /\ h \in [0 .. n -> Nat] /\ h[0] = 0
                    /\ \A k \in 1 .. n : h[k] = h[k - 1] + f[k]

(* A sum over 1 .. n, term by term.                                        *)
LEMMA SumTrace ==
  ASSUME NEW n \in Nat, NEW f \in [1 .. n -> Nat]
  PROVE  \E h : Partial(f, n, h) /\ h[n] = SumFunction(f)
<1>1. IsFiniteSet(1 .. n)
  BY FS_Interval
<1>2. PICK it : Sums(1 .. n, f, it) /\ it[1 .. n] = SumFunction(f)
  BY <1>1, SumOf
<1> DEFINE h == [k \in 0 .. n |-> it[1 .. k]]
<1>3. ASSUME NEW k \in 0 .. n PROVE h[k] \in Nat
  BY <1>2 DEF Sums
<1>4. h \in [0 .. n -> Nat]
  BY <1>3
<1>5. h[0] = 0
<2>1. 1 .. 0 = {} /\ 0 \in 0 .. n
  OBVIOUS
<2> QED BY <1>2, <2>1 DEF Sums
<1>6. ASSUME NEW k \in 1 .. n PROVE h[k] = h[k - 1] + f[k]
<2>1. k - 1 \in 0 .. n /\ k \in 0 .. n /\ 1 .. k \in SUBSET (1 .. n) /\ k \in 1 .. k
  OBVIOUS
<2>2. (1 .. k) \ {k} = 1 .. k - 1
<3>1. \A i : i \in (1 .. k) \ {k} <=> i \in 1 .. k - 1
  OBVIOUS
<3> QED BY <3>1, Zenon
<2>3. it[1 .. k] = f[k] + it[(1 .. k) \ {k}]
  BY <1>2, <2>1 DEF Sums
<2>4. h[k] = it[1 .. k] /\ h[k - 1] = it[1 .. k - 1]
  BY <2>1
<2>5. h[k] \in Nat /\ h[k - 1] \in Nat /\ f[k] \in Nat
  BY <1>3, <2>1
<2>6. it[1 .. k] = f[k] + it[1 .. k - 1]
  BY <2>2, <2>3
<2> HIDE DEF h
<2> QED BY <2>4, <2>5, <2>6
<1>7. h[n] = SumFunction(f)
  BY <1>2
<1> HIDE DEF h
<1> QED BY <1>4, <1>5, <1>6, <1>7 DEF Partial

(* Functions that begin alike have the same sums.                          *)
LEMMA PartialsAgree ==
  ASSUME NEW n \in Nat, NEW m \in 0 .. n, NEW f, NEW g, NEW h, NEW y,
         Partial(f, n, h), Partial(g, m, y), \A k \in 1 .. m : g[k] = f[k]
  PROVE  h[m] = y[m]
<1> DEFINE S == {k \in 0 .. m : h[k] = y[k]}
<1>1. 0 \in S
  BY DEF Partial
<1>2. ASSUME NEW k \in 1 .. m, k - 1 \in S PROVE k \in S
<2>1. h[k - 1] = y[k - 1] /\ k \in 0 .. m /\ k \in 1 .. n
  BY <1>2
<2>2. h[k] = h[k - 1] + f[k] /\ y[k] = y[k - 1] + g[k]
  BY <2>1 DEF Partial
<2>3. h[k] = y[k]
  BY <2>1, <2>2
<2> QED BY <2>1, <2>3
<1>3. m \in S
<2> HIDE DEF S
<2> QED BY <1>1, <1>2, UpTo
<1> QED BY <1>3

(* Zeroes at the end add nothing.                                          *)
LEMMA SumPadded ==
  ASSUME NEW n \in Nat, NEW m \in 0 .. n, NEW f \in [1 .. n -> Nat], NEW g \in [1 .. m -> Nat],
         \A k \in 1 .. m : g[k] = f[k], \A k \in m + 1 .. n : f[k] = 0
  PROVE  SumFunction(f) = SumFunction(g)
<1>1. PICK h : Partial(f, n, h) /\ h[n] = SumFunction(f)
  BY SumTrace
<1>2. PICK y : Partial(g, m, y) /\ y[m] = SumFunction(g)
  BY SumTrace
<1>3. h[m] = y[m]
  BY <1>1, <1>2, PartialsAgree
<1> DEFINE S == {k \in 0 .. n - m : h[m + k] = h[m]}
<1>4. 0 \in S
  BY <1>1 DEF Partial
<1>5. ASSUME NEW k \in 1 .. n - m, k - 1 \in S PROVE k \in S
<2>1. m + k \in m + 1 .. n /\ m + k \in 1 .. n /\ (m + k) - 1 = m + (k - 1) /\ k \in 0 .. n - m
  OBVIOUS
<2>2. h[m + k] = h[(m + k) - 1] + f[m + k] /\ f[m + k] = 0 /\ h[m] \in Nat
  BY <1>1, <2>1 DEF Partial
<2>3. h[(m + k) - 1] = h[m]
  BY <1>5, <2>1
<2> QED BY <2>1, <2>2, <2>3
<1>6. n - m \in S
<2> HIDE DEF S
<2> QED BY <1>4, <1>5, UpTo
<1>7. m + (n - m) = n
  OBVIOUS
<1> QED BY <1>1, <1>2, <1>3, <1>6, <1>7

(* The last term of a sum.                                                 *)
LEMMA SumLast ==
  ASSUME NEW n \in Nat, NEW f \in [1 .. n + 1 -> Nat], NEW g \in [1 .. n -> Nat],
         \A k \in 1 .. n : g[k] = f[k]
  PROVE  SumFunction(f) = SumFunction(g) + f[n + 1] /\ SumFunction(g) \in Nat
<1>0. n + 1 \in Nat /\ n \in 0 .. n + 1 /\ n + 1 \in 1 .. n + 1 /\ (n + 1) - 1 = n
  OBVIOUS
<1>1. PICK h : Partial(f, n + 1, h) /\ h[n + 1] = SumFunction(f)
  BY <1>0, SumTrace
<1>2. PICK y : Partial(g, n, y) /\ y[n] = SumFunction(g)
  BY SumTrace
<1>3. h[n] = y[n]
  BY <1>0, <1>1, <1>2, PartialsAgree
<1>4. h[n + 1] = h[n] + f[n + 1]
  BY <1>0, <1>1 DEF Partial
<1>5. y[n] \in Nat
  BY <1>2 DEF Partial
<1> QED BY <1>1, <1>2, <1>3, <1>4, <1>5

(* A sum of zeroes.                                                        *)
LEMMA ZeroSum ==
  ASSUME NEW n \in Nat, NEW f \in [1 .. n -> Nat], \A k \in 1 .. n : f[k] = 0
  PROVE  SumFunction(f) = 0
<1> DEFINE g == [k \in 1 .. 0 |-> 0]
           m == 0
<1>1. m \in 0 .. n /\ m \in Nat /\ g \in [1 .. m -> Nat] /\ \A k \in 1 .. m : g[k] = f[k]
  OBVIOUS
<1>2. \A k \in m + 1 .. n : f[k] = 0
  OBVIOUS
<1> HIDE DEF g, m
<1>3. SumFunction(f) = SumFunction(g)
  BY <1>1, <1>2, SumPadded
<1>4. PICK h : Partial(g, m, h) /\ h[m] = SumFunction(g)
  BY <1>1, SumTrace
<1>5. h[0] = 0
  BY <1>4 DEF Partial
<1> QED BY <1>3, <1>4, <1>5 DEF m

(* What holds term by term holds of the sums.                              *)
LEMMA SumAdds ==
  ASSUME NEW n \in Nat, NEW f \in [1 .. n -> Nat], NEW g \in [1 .. n -> Nat],
         NEW d \in [1 .. n -> Nat], \A k \in 1 .. n : f[k] = g[k] + d[k]
  PROVE  SumFunction(f) = SumFunction(g) + SumFunction(d)
<1>1. PICK x : Partial(f, n, x) /\ x[n] = SumFunction(f)
  BY SumTrace
<1>2. PICK y : Partial(g, n, y) /\ y[n] = SumFunction(g)
  BY SumTrace
<1>3. PICK z : Partial(d, n, z) /\ z[n] = SumFunction(d)
  BY SumTrace
<1> DEFINE S == {k \in 0 .. n : x[k] = y[k] + z[k]}
<1>4. 0 \in S
  BY <1>1, <1>2, <1>3 DEF Partial
<1>5. ASSUME NEW k \in 1 .. n, k - 1 \in S PROVE k \in S
<2>1. k - 1 \in 0 .. n /\ k \in 0 .. n
  OBVIOUS
<2>2. /\ x[k] = x[k - 1] + f[k] /\ y[k] = y[k - 1] + g[k] /\ z[k] = z[k - 1] + d[k]
      /\ x[k - 1] \in Nat /\ y[k - 1] \in Nat /\ z[k - 1] \in Nat
      /\ f[k] \in Nat /\ g[k] \in Nat /\ d[k] \in Nat
  BY <1>1, <1>2, <1>3, <2>1 DEF Partial
<2>3. x[k - 1] = y[k - 1] + z[k - 1] /\ f[k] = g[k] + d[k]
  BY <1>5
<2>4. x[k] = y[k] + z[k]
<3> DEFINE y0 == y[k - 1]
           z0 == z[k - 1]
           gk == g[k]
           dk == d[k]
<3>1. /\ x[k] = (y0 + z0) + (gk + dk) /\ y[k] = y0 + gk /\ z[k] = z0 + dk
      /\ y0 \in Nat /\ z0 \in Nat /\ gk \in Nat /\ dk \in Nat
  BY <2>2, <2>3
<3> HIDE DEF y0, z0, gk, dk
<3>2. (y0 + z0) + (gk + dk) = (y0 + gk) + (z0 + dk)
  BY <3>1
<3> QED BY <3>1, <3>2
<2> QED BY <2>1, <2>4
<1>6. n \in S
<2> HIDE DEF S
<2> QED BY <1>4, <1>5, UpTo
<1> QED BY <1>1, <1>2, <1>3, <1>6

RowAdds(g, it, S, n, c) ==
  it[S \cup {c[i] : i \in 1 .. n}] = it[S] + SumFunction([i \in 1 .. n |-> g[c[i]]])

(* A sum over a set and a row of elements outside it.                      *)
LEMMA SumRow ==
  ASSUME NEW D, NEW g \in [D -> Nat], NEW it, Sums(D, g, it), NEW S \in SUBSET D,
         NEW n \in Nat, NEW c \in [1 .. n -> D],
         \A i, j \in 1 .. n : c[i] = c[j] => i = j, \A i \in 1 .. n : c[i] \notin S
  PROVE  RowAdds(g, it, S, n, c)
<1> DEFINE f == [i \in 1 .. n |-> g[c[i]]]
           R(k) == S \cup {c[i] : i \in 1 .. k}
<1>1. f \in [1 .. n -> Nat] /\ \A i \in 1 .. n : f[i] = g[c[i]]
  OBVIOUS
<1> HIDE DEF f
<1>2. PICK h : Partial(f, n, h) /\ h[n] = SumFunction(f)
  BY <1>1, SumTrace
<1> DEFINE Q == {k \in 0 .. n : it[R(k)] = it[S] + h[k]}
<1>3. 0 \in Q
<2>1. R(0) = S
  OBVIOUS
<2>2. it[S] \in Nat
  BY DEF Sums
<2>3. h[0] = 0
  BY <1>2 DEF Partial
<2> HIDE DEF R
<2> QED BY <2>1, <2>2, <2>3
<1>4. ASSUME NEW k \in 1 .. n, k - 1 \in Q PROVE k \in Q
<2>1. R(k) \in SUBSET D /\ c[k] \in R(k)
  OBVIOUS
<2>2. R(k) \ {c[k]} = R(k - 1)
<3>1. \A i \in 1 .. k - 1 : i \in 1 .. n /\ i # k
  OBVIOUS
<3>2. \A i \in 1 .. k : i = k \/ i \in 1 .. k - 1
  OBVIOUS
<3>3. \A i \in 1 .. k - 1 : i \in 1 .. k
  OBVIOUS
<3>4. \A i \in 1 .. k - 1 : c[i] # c[k]
  BY <3>1
<3>5. c[k] \notin S
  OBVIOUS
<3>6. \A x : x \in R(k) \ {c[k]} <=> x \in R(k - 1)
  BY <3>2, <3>3, <3>4, <3>5
<3> HIDE DEF R
<3> QED BY <3>6
<2>3. it[R(k)] = g[c[k]] + it[R(k) \ {c[k]}]
<3> HIDE DEF R
<3> QED BY <2>1 DEF Sums
<2>4. h[k] = h[k - 1] + f[k] /\ h[k - 1] \in Nat /\ f[k] = g[c[k]] /\ f[k] \in Nat
  BY <1>1, <1>2 DEF Partial
<2>5. it[S] \in Nat
  BY DEF Sums
<2>6. it[R(k - 1)] = it[S] + h[k - 1]
  BY <1>4
<2> HIDE DEF R
<2>7. it[R(k)] = f[k] + (it[S] + h[k - 1])
  BY <2>2, <2>3, <2>4, <2>6
<2>8. it[R(k)] = it[S] + h[k]
<3> DEFINE x == it[S]
           y == h[k - 1]
           z == f[k]
<3>1. x \in Nat /\ y \in Nat /\ z \in Nat /\ it[R(k)] = z + (x + y) /\ h[k] = y + z
  BY <2>4, <2>5, <2>7
<3> HIDE DEF x, y, z
<3>2. it[R(k)] = x + h[k]
  BY <3>1
<3> QED BY <3>2 DEF x
<2> QED BY <2>8
<1>5. n \in Q
<2> HIDE DEF Q
<2> QED BY <1>3, <1>4, UpTo
<1>6. it[R(n)] = it[S] + SumFunction(f)
  BY <1>2, <1>5
<1> QED BY <1>6 DEF f, RowAdds

(* Boards that differ in one cell.                                         *)
LEMMA SumChanges ==
  ASSUME NEW D, IsFiniteSet(D), NEW f \in [D -> Nat], NEW g \in [D -> Nat],
         NEW x \in D, \A y \in D : y # x => f[y] = g[y]
  PROVE  SumFunction(f) + g[x] = SumFunction(g) + f[x]
<1>1. PICK it : Sums(D, f, it) /\ it[D] = SumFunction(f)
  BY SumOf
<1>2. PICK jt : Sums(D, g, jt) /\ jt[D] = SumFunction(g)
  BY SumOf
<1> DEFINE Level(n) == \A s \in SUBSET D : x \notin s /\ Cardinality(s) = n => it[s] = jt[s]
           S == {n \in Nat : Level(n)}
<1>3. 0 \in S
<2> SUFFICES ASSUME NEW s \in SUBSET D, Cardinality(s) = 0 PROVE it[s] = jt[s]
  OBVIOUS
<2>1. s = {}
  BY FS_Subset, FS_EmptySet
<2> QED BY <1>1, <1>2, <2>1 DEF Sums
<1>4. ASSUME NEW n \in Nat, n \in S PROVE n + 1 \in S
<2> SUFFICES ASSUME NEW s \in SUBSET D, x \notin s, Cardinality(s) = n + 1 PROVE it[s] = jt[s]
  OBVIOUS
<2>1. IsFiniteSet(s)
  BY FS_Subset
<2>2. s # {}
  BY <2>1, FS_EmptySet
<2>3. PICK y \in s : TRUE
  BY <2>2
<2> DEFINE r == s \ {y}
<2>4. r \in SUBSET D /\ x \notin r /\ Cardinality(r) = n
<3>1. Cardinality(s \ {y}) = Cardinality(s) - 1
  BY <2>1, <2>3, FS_RemoveElement
<3> QED BY <3>1
<2>5. it[s] = f[y] + it[r] /\ jt[s] = g[y] + jt[r]
  BY <1>1, <1>2, <2>3 DEF Sums
<2> HIDE DEF r
<2>6. it[r] = jt[r]
  BY <1>4, <2>4
<2>7. f[y] = g[y]
  BY <2>3
<2> QED BY <2>5, <2>6, <2>7
<1>5. Nat \subseteq S
<2> HIDE DEF S
<2> QED BY <1>3, <1>4, SetInduction
<1> DEFINE r == D \ {x}
<1>6. r \in SUBSET D /\ x \notin r /\ Cardinality(r) \in Nat
<2>1. IsFiniteSet(r)
  BY FS_RemoveElement
<2> QED BY <2>1, FS_CardinalityType
<1>7. it[D] = f[x] + it[r] /\ jt[D] = g[x] + jt[r] /\ it[r] \in Nat /\ jt[r] \in Nat
  BY <1>1, <1>2 DEF Sums
<1> HIDE DEF r
<1>8. it[r] = jt[r]
<2>1. Level(Cardinality(r))
  BY <1>5, <1>6
<2> QED BY <1>6, <2>1
<1>9. f[x] \in Nat /\ g[x] \in Nat
  OBVIOUS
<1> QED BY <1>1, <1>2, <1>7, <1>8, <1>9
==============================================================================
