--------------------------- MODULE DocumentsProofs ---------------------------
(***************************************************************************)
(* Documents proved for all contents, index definitions and bounds: the    *)
(* indexes hold the documents and nothing else, a unique index has one     *)
(* owner for each key, and Open gives back what was saved.                 *)
(*                                                                         *)
(* The argument is about the rows of an index. While the store is open     *)
(* they cover the documents (Holds); on file the last flush says what was  *)
(* saved (FileSays), and what it does not say yet is known to be missing   *)
(* there: dirty, or in the queue of deletions (Pending).                   *)
(*                                                                         *)
(* The lemmas about one index come first: the order of its keys, the lists *)
(* that keep it, and what adding and taking out the keys of a document,    *)
(* serializing and reading an index do to the rows it holds.               *)
(***************************************************************************)
EXTENDS Documents, SequenceTheorems, FiniteSetTheorems, WellFoundedInduction, TLAPS

-----------------------------------------------------------------------------
(* Counting up to a number *)

LEMMA LeastExists ==
    ASSUME NEW S \in SUBSET Nat, S # {}
    PROVE  \E m \in S : \A k \in S : m <= k
<1> DEFINE R == OpToRel(<, Nat)
<1>1. PICK m \in S : \A k \in S : <<k, m>> \notin R
  <2>1. IsWellFoundedOn(R, Nat)
    BY NatLessThanWellFounded
  <2>. QED BY <2>1, WFMin, Zenon
<1>2. \A k \in S : ~ (k < m)
  BY <1>1 DEF OpToRel
<1>. QED BY <1>2

\* What holds at 0 and goes from each number to the next holds up to L.
LEMMA AllTheWay ==
    ASSUME NEW L \in Nat, NEW T, 0 \in T,
           \A n \in 0..L : n # 0 /\ n - 1 \in T => n \in T
    PROVE  0..L \subseteq T
<1> DEFINE Fails == {n \in 0..L : n \notin T}
<1>1. SUFFICES ASSUME Fails # {} PROVE FALSE
  OBVIOUS
<1>2. PICK n \in Fails : \A k \in Fails : n <= k
  <2>. Fails \in SUBSET Nat OBVIOUS
  <2>. HIDE DEF Fails
  <2>. QED BY <1>1, LeastExists
<1>3. n \in 0..L /\ n \notin T
  OBVIOUS
<1>4. n # 0
  BY <1>3
<1>5. n - 1 \in 0..L
  BY <1>3, <1>4
<1>6. n - 1 \notin Fails
  BY <1>2, <1>3, <1>5
<1>7. n - 1 \in T
  BY <1>5, <1>6
<1>. QED BY <1>3, <1>4, <1>7

\* A function that is defined by what it is at 0 and how it goes on exists.
Steps(step, L, A) == step \in [1..L -> [A -> A]]

Goes(f, L, A, base, step) ==
    /\ f \in [0..L -> A] /\ f[0] = base
    /\ \A n \in 1..L : f[n] = step[n][f[n - 1]]

LEMMA Run ==
    ASSUME NEW L \in Nat, NEW A, NEW base \in A, NEW step, Steps(step, L, A)
    PROVE  \E f : Goes(f, L, A, base, step)
<1>0. step \in [1..L -> [A -> A]]
  BY DEF Steps
<1> DEFINE Runs(f, n) == /\ f \in [0..n -> A]
                         /\ f[0] = base
                         /\ \A i \in 1..n : f[i] = step[i][f[i - 1]]
           T == {n \in 0..L : \E f : Runs(f, n)}
<1>1. 0 \in T
  <2> DEFINE f == [i \in 0..0 |-> base]
  <2>1. Runs(f, 0)
    OBVIOUS
  <2>. HIDE DEF Runs, f
  <2>. QED BY <2>1
<1>2. ASSUME NEW n \in 0..L, n # 0, n - 1 \in T PROVE n \in T
  <2>1. PICK f : Runs(f, n - 1)
    BY <1>2
  <2> DEFINE g == [i \in 0..n |-> IF i = n THEN step[n][f[n - 1]] ELSE f[i]]
  <2>2. f[n - 1] \in A /\ n \in 1..L
    BY <2>1, <1>2
  <2>3. step[n][f[n - 1]] \in A
    BY <1>0, <2>2
  <2>4. g \in [0..n -> A]
    BY <2>1, <2>3
  <2>5. g[0] = base
    BY <2>1, <1>2
  <2>6. \A i \in 1..n : g[i] = step[i][g[i - 1]]
    BY <1>0, <2>1, <2>2
  <2>7. Runs(g, n)
    BY <2>4, <2>5, <2>6
  <2>. HIDE DEF Runs, g
  <2>. QED BY <2>7
<1>3. L \in T
  <2>. HIDE DEF T
  <2>1. 0..L \subseteq T
    BY <1>1, <1>2, AllTheWay
  <2>. QED BY <2>1
<1>4. PICK f : Runs(f, L)
  BY <1>3
<1>. QED BY <1>4 DEF Goes

LEMMA Goings ==
    ASSUME NEW f, NEW L, NEW A, NEW base, NEW step, Goes(f, L, A, base, step)
    PROVE  f \in [0..L -> A] /\ f[0] = base /\ \A n \in 1..L : f[n] = step[n][f[n - 1]]
BY DEF Goes

-----------------------------------------------------------------------------
(* The order of the keys *)

KeysOf(fs) == [1..Len(fs) -> Scalar]

\* How KeyLess compares two values at the first place they differ.
EncodedLess(a, b) ==
    Letter(a) < Letter(b) \/ (a.t = b.t /\ a # b /\ a.v[1] < b.v[1])

LEMMA ScalarParts ==
    ASSUME NEW a \in Scalar
    PROVE  /\ a.t \in {"nil", "num", "str", "bool"}
           /\ a.t = "nil" <=> a = Nil
           /\ a.t # "nil" => a.v[1] \in Int
BY DEF Scalar, Nil

LEMMA SameScalar ==
    ASSUME NEW a \in Scalar, NEW b \in Scalar, a.t = b.t, a.t # "nil" => a.v[1] = b.v[1]
    PROVE  a = b
<1>1. CASE a.t = "nil"
  BY <1>1, ScalarParts
<1>2. CASE a.t # "nil"
  <2> DEFINE R == [t : {"num", "str", "bool"}, v : [1..1 -> Int]]
  <2>1. a \in R /\ b \in R
    BY <1>2, ScalarParts DEF Scalar
  <2>2. a.v \in [1..1 -> Int] /\ b.v \in [1..1 -> Int] /\ a.v[1] = b.v[1]
    BY <1>2, <2>1
  <2>3. a.v = b.v
    BY <2>2
  <2>. QED BY <2>1, <2>3
<1>. QED BY <1>1, <1>2

LEMMA LetterIs ==
    ASSUME NEW a \in Scalar
    PROVE  /\ Letter(a) \in Nat
           /\ Letter(a) = IF a.t = "bool" THEN 1 ELSE IF a.t = "num" THEN 3
                          ELSE IF a.t = "str" THEN 4 ELSE 5
BY ScalarParts DEF Letter

LEMMA EncodedOrder ==
    ASSUME NEW a \in Scalar, NEW b \in Scalar, NEW c \in Scalar
    PROVE  /\ ~EncodedLess(a, a)
           /\ EncodedLess(a, b) /\ EncodedLess(b, c) => EncodedLess(a, c)
           /\ a # b => EncodedLess(a, b) \/ EncodedLess(b, a)
<1> DEFINE la == Letter(a)
           lb == Letter(b)
           lc == Letter(c)
<1>1. la \in Nat /\ lb \in Nat /\ lc \in Nat
  BY LetterIs
<1>2. (la = lb <=> a.t = b.t) /\ (lb = lc <=> b.t = c.t) /\ (la = lc <=> a.t = c.t)
  BY LetterIs, ScalarParts
<1>. HIDE DEF la, lb, lc
<1>3. /\ a.t # "nil" => a.v[1] \in Int
      /\ b.t # "nil" => b.v[1] \in Int
      /\ c.t # "nil" => c.v[1] \in Int
      /\ a.t = "nil" /\ b.t = "nil" => a = b
      /\ b.t = "nil" /\ c.t = "nil" => b = c
  BY ScalarParts
<1>4. a.t = b.t /\ (a.t # "nil" => a.v[1] = b.v[1]) => a = b
  BY SameScalar
<1>5. ~EncodedLess(a, a)
  BY <1>1 DEF EncodedLess, la
<1>6. EncodedLess(a, b) <=> la < lb \/ (a.t = b.t /\ a # b /\ a.v[1] < b.v[1])
  BY DEF EncodedLess, la, lb
<1>7. EncodedLess(b, a) <=> lb < la \/ (a.t = b.t /\ a # b /\ b.v[1] < a.v[1])
  BY DEF EncodedLess, la, lb
<1>8. EncodedLess(b, c) <=> lb < lc \/ (b.t = c.t /\ b # c /\ b.v[1] < c.v[1])
  BY DEF EncodedLess, lc, lb
<1>9. EncodedLess(a, c) <=> la < lc \/ (a.t = c.t /\ a # c /\ a.v[1] < c.v[1])
  BY DEF EncodedLess, la, lc
<1>10. a # b => EncodedLess(a, b) \/ EncodedLess(b, a)
  BY <1>1, <1>2, <1>3, <1>4, <1>6, <1>7
<1>11. EncodedLess(a, b) /\ EncodedLess(b, c) => EncodedLess(a, c)
  BY <1>1, <1>2, <1>3, <1>6, <1>8, <1>9
<1>. QED BY <1>5, <1>10, <1>11

\* The first place where two keys differ.
LEMMA FirstDifference ==
    ASSUME NEW n \in Nat, NEW a \in [1..n -> Scalar], NEW b \in [1..n -> Scalar], a # b
    PROVE  \E i \in 1..n : a[i] # b[i] /\ \A j \in 1..i - 1 : a[j] = b[j]
<1> DEFINE D == {i \in 1..n : a[i] # b[i]}
<1>1. D # {} /\ D \in SUBSET Nat
  OBVIOUS
<1>2. PICK i \in D : \A k \in D : i <= k
  <2>. HIDE DEF D
  <2>. QED BY <1>1, LeastExists
<1>. QED BY <1>2

LEMMA KeyLessAt ==
    ASSUME NEW n \in Nat, NEW a \in [1..n -> Scalar], NEW b \in [1..n -> Scalar]
    PROVE  KeyLess(a, b) <=> \E i \in 1..n : /\ \A j \in 1..i - 1 : a[j] = b[j]
                                             /\ EncodedLess(a[i], b[i])
BY DEF KeyLess, EncodedLess

LEMMA KeyOrder ==
    ASSUME NEW n \in Nat, NEW a \in [1..n -> Scalar], NEW b \in [1..n -> Scalar],
           NEW c \in [1..n -> Scalar]
    PROVE  /\ ~KeyLess(a, a)
           /\ KeyLess(a, b) /\ KeyLess(b, c) => KeyLess(a, c)
           /\ a # b => KeyLess(a, b) \/ KeyLess(b, a)
<1>1. ~KeyLess(a, a)
  <2>1. \A i \in 1..n : ~EncodedLess(a[i], a[i])
    BY EncodedOrder
  <2>. QED BY <2>1, KeyLessAt
<1>2. ASSUME KeyLess(a, b), KeyLess(b, c) PROVE KeyLess(a, c)
  <2>1. PICK i \in 1..n : (\A j \in 1..i - 1 : a[j] = b[j]) /\ EncodedLess(a[i], b[i])
    BY <1>2, KeyLessAt
  <2>2. PICK k \in 1..n : (\A j \in 1..k - 1 : b[j] = c[j]) /\ EncodedLess(b[k], c[k])
    BY <1>2, KeyLessAt
  <2>3. CASE i < k
    <3>1. b[i] = c[i] /\ \A j \in 1..i - 1 : a[j] = c[j]
      BY <2>1, <2>2, <2>3
    <3>. QED BY <2>1, <3>1, KeyLessAt
  <2>4. CASE k < i
    <3>1. a[k] = b[k] /\ \A j \in 1..k - 1 : a[j] = c[j]
      BY <2>1, <2>2, <2>4
    <3>. QED BY <2>2, <3>1, KeyLessAt
  <2>5. CASE i = k
    <3>1. \A j \in 1..i - 1 : a[j] = c[j]
      BY <2>1, <2>2, <2>5
    <3>2. a[i] \in Scalar /\ b[i] \in Scalar /\ c[i] \in Scalar
      OBVIOUS
    <3>3. EncodedLess(a[i], c[i])
      BY <2>1, <2>2, <2>5, <3>2, EncodedOrder
    <3>. QED BY <3>1, <3>3, KeyLessAt
  <2>. QED BY <2>3, <2>4, <2>5
<1>3. ASSUME a # b PROVE KeyLess(a, b) \/ KeyLess(b, a)
  <2>1. PICK i \in 1..n : a[i] # b[i] /\ \A j \in 1..i - 1 : a[j] = b[j]
    BY <1>3, FirstDifference
  <2>2. a[i] \in Scalar /\ b[i] \in Scalar
    OBVIOUS
  <2>3. EncodedLess(a[i], b[i]) \/ EncodedLess(b[i], a[i])
    BY <2>1, <2>2, EncodedOrder
  <2>. QED BY <2>1, <2>3, KeyLessAt
<1>. QED BY <1>1, <1>2, <1>3

LEMMA RankIs ==
    ASSUME NEW a \in Scalar
    PROVE  TypeRank(a) = IF a.t = "nil" THEN 0 ELSE IF a.t = "num" THEN 1
                         ELSE IF a.t = "str" THEN 2 ELSE 3
BY ScalarParts DEF TypeRank

LEMMA ValueOrder ==
    ASSUME NEW a \in Scalar, NEW b \in Scalar
    PROVE  /\ CompareOrdered(a, b) \in Int
           /\ CompareOrdered(a, b) = 0 <=> a = b
           /\ CompareOrdered(a, b) < 0 <=>
                 TypeRank(a) < TypeRank(b) \/ (a.t = b.t /\ a.t # "nil" /\ a.v[1] < b.v[1])
<1>1. /\ a.t \in {"nil", "num", "str", "bool"} /\ b.t \in {"nil", "num", "str", "bool"}
      /\ a.t # "nil" => a.v[1] \in Int
      /\ b.t # "nil" => b.v[1] \in Int
  BY ScalarParts
<1>2. a.t = b.t /\ (a.t # "nil" => a.v[1] = b.v[1]) => a = b
  BY SameScalar
<1>3. CASE a.t # b.t
  <2>1. /\ TypeRank(a) # TypeRank(b) /\ TypeRank(a) \in Int /\ TypeRank(b) \in Int
        /\ a # b
    BY <1>1, <1>3, RankIs
  <2>2. CompareOrdered(a, b) = IF TypeRank(a) < TypeRank(b) THEN -1 ELSE 1
    BY <2>1, Zenon DEF CompareOrdered
  <2>. HIDE DEF TypeRank
  <2>3. TypeRank(a) < TypeRank(b) \/ ~(TypeRank(a) < TypeRank(b))
    OBVIOUS
  <2>. QED BY <1>3, <2>1, <2>2
<1>4. CASE a.t = b.t /\ a.t = "nil"
  <2>1. a = b /\ a = Nil
    BY <1>4, ScalarParts
  <2>2. TypeRank(a) = 0
    BY <1>4, RankIs
  <2>3. CompareOrdered(a, b) = 0
    BY <2>1, <2>2 DEF CompareOrdered
  <2>. QED BY <1>4, <2>1, <2>2, <2>3
<1>5. CASE a.t = b.t /\ a.t \in {"num", "str"}
  <2>1. TypeRank(a) = TypeRank(b) /\ TypeRank(a) \in {1, 2}
    BY <1>5, RankIs
  <2>2. CompareOrdered(a, b) = CompareValues(a, b)
    BY <2>1 DEF CompareOrdered
  <2>3. CompareValues(a, b) = IF a.v[1] < b.v[1] THEN -1 ELSE IF a.v[1] > b.v[1] THEN 1 ELSE 0
    BY <1>5 DEF CompareValues
  <2>. QED BY <1>1, <1>2, <1>5, <2>1, <2>2, <2>3
<1>6. CASE a.t = b.t /\ a.t = "bool"
  <2>1. TypeRank(a) = TypeRank(b) /\ TypeRank(a) = 3
    BY <1>6, RankIs
  <2>2. CompareOrdered(a, b) = a.v[1] - b.v[1]
    BY <2>1 DEF CompareOrdered
  <2>. QED BY <1>1, <1>2, <1>6, <2>1, <2>2
<1>. QED BY <1>1, <1>3, <1>4, <1>5, <1>6

\* The order of the keys of an index (index.go:114-119) is a strict order in which
\* any two keys compare, whatever types their values have.
THEOREM OrdOrder ==
    ASSUME NEW fs, Len(fs) \in Nat \ {0}, NEW a \in KeysOf(fs), NEW b \in KeysOf(fs),
           NEW c \in KeysOf(fs)
    PROVE  /\ ~OrdLess(a, a)
           /\ OrdLess(a, b) /\ OrdLess(b, c) => OrdLess(a, c)
           /\ a # b => OrdLess(a, b) \/ OrdLess(b, a)
<1> DEFINE n == Len(fs)
<1>0. /\ n \in Nat \ {0} /\ a \in [1..n -> Scalar] /\ b \in [1..n -> Scalar]
      /\ c \in [1..n -> Scalar]
  BY DEF KeysOf
<1>. HIDE DEF n
<1>1. a[1] \in Scalar /\ b[1] \in Scalar /\ c[1] \in Scalar
  BY <1>0
<1> DEFINE Low(x, y) == TypeRank(x) < TypeRank(y)
                        \/ (x.t = y.t /\ x.t # "nil" /\ x.v[1] < y.v[1])
<1>2. /\ OrdLess(a, b) <=> Low(a[1], b[1]) \/ (a[1] = b[1] /\ KeyLess(a, b))
      /\ OrdLess(b, a) <=> Low(b[1], a[1]) \/ (a[1] = b[1] /\ KeyLess(b, a))
      /\ OrdLess(b, c) <=> Low(b[1], c[1]) \/ (b[1] = c[1] /\ KeyLess(b, c))
      /\ OrdLess(a, c) <=> Low(a[1], c[1]) \/ (a[1] = c[1] /\ KeyLess(a, c))
      /\ OrdLess(a, a) <=> Low(a[1], a[1]) \/ KeyLess(a, a)
  BY <1>1, ValueOrder, Zenon DEF OrdLess
<1>3. ASSUME NEW x \in Scalar, NEW y \in Scalar, NEW z \in Scalar
      PROVE  /\ ~Low(x, x)
             /\ Low(x, y) /\ Low(y, z) => Low(x, z)
             /\ x # y => Low(x, y) \/ Low(y, x)
  <2>1. /\ x.t \in {"nil", "num", "str", "bool"} /\ y.t \in {"nil", "num", "str", "bool"}
        /\ z.t \in {"nil", "num", "str", "bool"}
        /\ x.t # "nil" => x.v[1] \in Int
        /\ y.t # "nil" => y.v[1] \in Int
        /\ z.t # "nil" => z.v[1] \in Int
    BY ScalarParts
  <2>2. x.t = y.t /\ (x.t # "nil" => x.v[1] = y.v[1]) => x = y
    BY SameScalar
  <2>3. /\ TypeRank(x) \in Nat /\ TypeRank(y) \in Nat /\ TypeRank(z) \in Nat
        /\ TypeRank(x) = TypeRank(y) <=> x.t = y.t
        /\ TypeRank(z) = TypeRank(y) <=> z.t = y.t
    BY <2>1, RankIs
  <2>. HIDE DEF TypeRank
  <2>. QED BY <2>1, <2>2, <2>3
<1>. HIDE DEF Low
<1>4. ~OrdLess(a, a)
  BY <1>0, <1>1, <1>2, <1>3, KeyOrder
<1>5. OrdLess(a, b) /\ OrdLess(b, c) => OrdLess(a, c)
  <2>1. KeyLess(a, b) /\ KeyLess(b, c) => KeyLess(a, c)
    BY <1>0, KeyOrder
  <2>2. Low(a[1], b[1]) /\ Low(b[1], c[1]) => Low(a[1], c[1])
    BY <1>1, <1>3
  <2>. QED BY <1>2, <2>1, <2>2, Zenon
<1>6. a # b => OrdLess(a, b) \/ OrdLess(b, a)
  <2>1. a # b => KeyLess(a, b) \/ KeyLess(b, a)
    BY <1>0, KeyOrder
  <2>2. a[1] # b[1] => Low(a[1], b[1]) \/ Low(b[1], a[1])
    BY <1>1, <1>3
  <2>. QED BY <1>2, <2>1, <2>2
<1>. QED BY <1>4, <1>5, <1>6

-----------------------------------------------------------------------------
(* Lists that are kept in order *)

Distinct(s) == \A i, j \in DOMAIN s : s[i] = s[j] => i = j

InOrder(s) == \A i, j \in DOMAIN s : i < j => OrdLess(s[i], s[j])

\* r is s with x put in at place i; r is s without what is at place i.
Inserted(r, s, i, x) ==
    /\ Len(r) = Len(s) + 1
    /\ \A j \in 1..Len(s) + 1 : r[j] = IF j < i THEN s[j] ELSE IF j = i THEN x ELSE s[j - 1]

TakenOut(r, s, i) ==
    /\ Len(r) = Len(s) - 1
    /\ \A j \in 1..Len(s) - 1 : r[j] = IF j < i THEN s[j] ELSE s[j + 1]

LEMMA TwoLists ==
    ASSUME NEW K, NEW s \in Seq(K), NEW t \in Seq(K)
    PROVE  /\ s \o t \in Seq(K) /\ Len(s \o t) = Len(s) + Len(t)
           /\ \A i \in 1..(Len(s) + Len(t)) :
                 (s \o t)[i] = IF i <= Len(s) THEN s[i] ELSE t[i - Len(s)]
BY ConcatProperties

LEMMA PartOfList ==
    ASSUME NEW K, NEW s \in Seq(K), NEW a \in Nat, NEW b \in Nat, a >= 1, b <= Len(s), a <= b + 1
    PROVE  /\ SubSeq(s, a, b) \in Seq(K) /\ Len(SubSeq(s, a, b)) = b - a + 1
           /\ \A i \in 1..(b - a + 1) : SubSeq(s, a, b)[i] = s[a + i - 1]
OBVIOUS

LEMMA InsertedAt ==
    ASSUME NEW K, NEW s \in Seq(K), NEW x \in K, NEW i \in 1..Len(s) + 1
    PROVE  InsertAt(s, i, x) \in Seq(K) /\ Inserted(InsertAt(s, i, x), s, i, x)
<1> DEFINE L == Len(s)
           u == SubSeq(s, 1, i - 1)
           v == SubSeq(s, i, L)
           ux == u \o <<x>>
           r == ux \o v
<1>1. L \in Nat /\ i \in 1..L + 1
  OBVIOUS
<1>2. u \in Seq(K) /\ Len(u) = i - 1 /\ \A j \in 1..i - 1 : u[j] = s[j]
  BY <1>1, PartOfList
<1>3. v \in Seq(K) /\ Len(v) = L - i + 1 /\ \A j \in 1..(L - i + 1) : v[j] = s[i + j - 1]
  BY <1>1, PartOfList
<1>. HIDE DEF u, v
<1>4. <<x>> \in Seq(K) /\ Len(<<x>>) = 1 /\ <<x>>[1] = x
  OBVIOUS
<1>5. /\ ux \in Seq(K) /\ Len(ux) = i
      /\ \A j \in 1..i : ux[j] = IF j <= i - 1 THEN s[j] ELSE x
  <2> DEFINE y == <<x>>
  <2>1. y \in Seq(K) /\ Len(y) = 1 /\ y[1] = x
    OBVIOUS
  <2>. HIDE DEF y
  <2>2. /\ u \o y \in Seq(K) /\ Len(u \o y) = Len(u) + Len(y)
        /\ \A j \in 1..(Len(u) + Len(y)) : (u \o y)[j] = IF j <= Len(u) THEN u[j] ELSE y[j - Len(u)]
    BY <1>2, <2>1, TwoLists
  <2>3. /\ u \o y \in Seq(K) /\ Len(u \o y) = i
        /\ \A j \in 1..i : (u \o y)[j] = IF j <= i - 1 THEN s[j] ELSE x
    BY <1>1, <1>2, <2>1, <2>2
  <2>. QED BY <2>3 DEF y
<1>. HIDE DEF ux
<1>6. /\ r \in Seq(K) /\ Len(r) = i + (L - i + 1)
      /\ \A j \in 1..(i + (L - i + 1)) : r[j] = IF j <= i THEN ux[j] ELSE v[j - i]
  <2>1. /\ r \in Seq(K) /\ Len(r) = Len(ux) + Len(v)
        /\ \A j \in 1..(Len(ux) + Len(v)) : r[j] = IF j <= Len(ux) THEN ux[j] ELSE v[j - Len(ux)]
    BY <1>3, <1>5, TwoLists
  <2>. QED BY <1>3, <1>5, <2>1
<1>7. i + (L - i + 1) = L + 1
  BY <1>1
<1>. HIDE DEF r
<1>8. \A j \in 1..L + 1 : r[j] = IF j < i THEN s[j] ELSE IF j = i THEN x ELSE s[j - 1]
  <2>1. TAKE j \in 1..L + 1
  <2>2. r[j] = IF j <= i THEN ux[j] ELSE v[j - i]
    BY <1>6, <1>7
  <2>3. CASE j <= i
    <3>1. j \in 1..i
      BY <1>1, <2>3
    <3>2. ux[j] = IF j <= i - 1 THEN s[j] ELSE x
      BY <1>5, <3>1
    <3>. QED BY <1>1, <2>2, <2>3, <3>2
  <2>4. CASE ~(j <= i)
    <3>1. j - i \in 1..(L - i + 1) /\ i + (j - i) - 1 = j - 1
      BY <1>1, <2>4
    <3>2. v[j - i] = s[i + (j - i) - 1]
      BY <1>3, <3>1
    <3>. QED BY <1>1, <2>2, <2>4, <3>1, <3>2
  <2>. QED BY <2>3, <2>4
<1>9. InsertAt(s, i, x) = r
  BY Zenon DEF InsertAt, r, ux, u, v, L
<1>. HIDE DEF L
<1>10. r \in Seq(K) /\ Len(r) = L + 1
  BY <1>6, <1>7
<1>. QED BY <1>8, <1>9, <1>10, Zenon DEF Inserted, L

LEMMA TakenOutAt ==
    ASSUME NEW K, NEW s \in Seq(K), NEW i \in 1..Len(s)
    PROVE  RemoveAt(s, i) \in Seq(K) /\ TakenOut(RemoveAt(s, i), s, i)
<1> DEFINE L == Len(s)
           u == SubSeq(s, 1, i - 1)
           v == SubSeq(s, i + 1, L)
           r == u \o v
<1>1. L \in Nat /\ i \in 1..L
  OBVIOUS
<1>2. u \in Seq(K) /\ Len(u) = i - 1 /\ \A j \in 1..i - 1 : u[j] = s[j]
  BY <1>1, PartOfList
<1>3. v \in Seq(K) /\ Len(v) = L - i /\ \A j \in 1..(L - i) : v[j] = s[i + j]
  BY <1>1, PartOfList
<1>. HIDE DEF u, v
<1>4. /\ r \in Seq(K) /\ Len(r) = L - 1
      /\ \A j \in 1..L - 1 : r[j] = IF j <= i - 1 THEN u[j] ELSE v[j - (i - 1)]
  <2>1. /\ r \in Seq(K) /\ Len(r) = Len(u) + Len(v)
        /\ \A j \in 1..(Len(u) + Len(v)) : r[j] = IF j <= Len(u) THEN u[j] ELSE v[j - Len(u)]
    BY <1>2, <1>3, TwoLists
  <2>2. Len(u) + Len(v) = L - 1
    BY <1>1, <1>2, <1>3
  <2>. QED BY <1>2, <2>1, <2>2
<1>. HIDE DEF r
<1>5. \A j \in 1..L - 1 : r[j] = IF j < i THEN s[j] ELSE s[j + 1]
  <2>1. TAKE j \in 1..L - 1
  <2>2. CASE j < i
    <3>1. j \in 1..i - 1
      BY <1>1, <2>2
    <3>. QED BY <1>2, <1>4, <2>2, <3>1
  <2>3. CASE ~(j < i)
    <3>1. j - (i - 1) \in 1..(L - i) /\ i + (j - (i - 1)) = j + 1 /\ ~(j <= i - 1)
      BY <1>1, <2>3
    <3>. QED BY <1>3, <1>4, <2>3, <3>1
  <2>. QED BY <2>2, <2>3
<1>6. RemoveAt(s, i) = r
  BY Zenon DEF RemoveAt, r, u, v, L
<1>. HIDE DEF L
<1>. QED BY <1>4, <1>5, <1>6, Zenon DEF TakenOut, L

LEMMA InsertedSet ==
    ASSUME NEW K, NEW s \in Seq(K), NEW x \in K, NEW i \in 1..Len(s) + 1, NEW r \in Seq(K),
           Inserted(r, s, i, x)
    PROVE  ToSet(r) = ToSet(s) \union {x}
<1> DEFINE L == Len(s)
<1>1. L \in Nat /\ Len(r) = L + 1 /\ DOMAIN s = 1..L /\ DOMAIN r = 1..L + 1 /\ i \in 1..L + 1
  BY DEF Inserted
<1>2. \A j \in 1..L + 1 : r[j] = IF j < i THEN s[j] ELSE IF j = i THEN x ELSE s[j - 1]
  BY DEF Inserted
<1>. HIDE DEF L
<1>3. ASSUME NEW j \in 1..L PROVE s[j] \in ToSet(r)
  <2>1. CASE j < i
    <3>1. j \in 1..L + 1 /\ r[j] = s[j]
      BY <1>1, <1>2, <2>1
    <3>. QED BY <1>1, <3>1 DEF ToSet
  <2>2. CASE ~(j < i)
    <3>1. j + 1 \in 1..L + 1 /\ ~(j + 1 < i) /\ j + 1 # i /\ j + 1 - 1 = j
      BY <1>1, <2>2
    <3>2. r[j + 1] = s[j]
      BY <1>2, <3>1
    <3>. QED BY <1>1, <3>1, <3>2 DEF ToSet
  <2>. QED BY <2>1, <2>2
<1>4. x \in ToSet(r)
  <2>1. r[i] = x
    BY <1>1, <1>2
  <2>. QED BY <1>1, <2>1 DEF ToSet
<1>5. ASSUME NEW j \in 1..L + 1 PROVE r[j] \in ToSet(s) \union {x}
  <2>1. r[j] = IF j < i THEN s[j] ELSE IF j = i THEN x ELSE s[j - 1]
    BY <1>2
  <2>2. j < i => j \in 1..L
    BY <1>1
  <2>3. ~(j < i) /\ j # i => j - 1 \in 1..L
    BY <1>1
  <2>. QED BY <1>1, <2>1, <2>2, <2>3 DEF ToSet
<1>6. ToSet(s) \subseteq ToSet(r)
  BY <1>1, <1>3 DEF ToSet
<1>7. ToSet(r) \subseteq ToSet(s) \union {x}
  BY <1>1, <1>5 DEF ToSet
<1>. QED BY <1>4, <1>6, <1>7

LEMMA InsertedDistinct ==
    ASSUME NEW K, NEW s \in Seq(K), NEW x \in K, NEW i \in 1..Len(s) + 1, NEW r \in Seq(K),
           Inserted(r, s, i, x), Distinct(s), x \notin ToSet(s)
    PROVE  Distinct(r)
<1> DEFINE L == Len(s)
<1>1. L \in Nat /\ DOMAIN s = 1..L /\ DOMAIN r = 1..L + 1 /\ i \in 1..L + 1
  BY DEF Inserted
<1>2. \A j \in 1..L + 1 : r[j] = IF j < i THEN s[j] ELSE IF j = i THEN x ELSE s[j - 1]
  BY DEF Inserted
<1>3. \A j \in 1..L : s[j] # x
  BY <1>1 DEF ToSet
<1>4. \A j, k \in 1..L : s[j] = s[k] => j = k
  BY <1>1 DEF Distinct
<1>. HIDE DEF L
<1> DEFINE from(j) == IF j < i THEN j ELSE j - 1
<1>5. ASSUME NEW j \in 1..L + 1, j # i PROVE from(j) \in 1..L /\ r[j] = s[from(j)]
  BY <1>1, <1>2, <1>5
<1>6. r[i] = x
  BY <1>1, <1>2
<1>7. ASSUME NEW j \in 1..L + 1, NEW k \in 1..L + 1, r[j] = r[k] PROVE j = k
  <2>1. CASE j = i \/ k = i
    BY <2>1, <1>3, <1>5, <1>6, <1>7
  <2>2. CASE j # i /\ k # i
    <3>1. from(j) = from(k)
      <4>. HIDE DEF from
      <4>. QED BY <2>2, <1>4, <1>5, <1>7
    <3>. QED BY <1>1, <2>2, <3>1
  <2>. QED BY <2>1, <2>2
<1>. QED BY <1>1, <1>7 DEF Distinct

LEMMA InsertedInOrder ==
    ASSUME NEW fs, Len(fs) \in Nat \ {0}, NEW s \in Seq(KeysOf(fs)), NEW x \in KeysOf(fs),
           NEW i \in 1..Len(s) + 1, NEW r \in Seq(KeysOf(fs)), Inserted(r, s, i, x), InOrder(s),
           \A j \in 1..Len(s) : IF j < i THEN OrdLess(s[j], x) ELSE OrdLess(x, s[j])
    PROVE  InOrder(r)
<1> DEFINE L == Len(s)
<1>1. L \in Nat /\ DOMAIN s = 1..L /\ DOMAIN r = 1..L + 1 /\ i \in 1..L + 1
  BY DEF Inserted
<1>2. \A j \in 1..L + 1 : r[j] = IF j < i THEN s[j] ELSE IF j = i THEN x ELSE s[j - 1]
  BY DEF Inserted
<1>3. \A j, k \in 1..L : j < k => OrdLess(s[j], s[k])
  BY <1>1 DEF InOrder
<1>4. \A j \in 1..L : IF j < i THEN OrdLess(s[j], x) ELSE OrdLess(x, s[j])
  OBVIOUS
<1>. HIDE DEF L
<1>5. ASSUME NEW j \in 1..L + 1, NEW k \in 1..L + 1, j < k PROVE OrdLess(r[j], r[k])
  <2>1. CASE k < i
    <3>1. j \in 1..L /\ k \in 1..L /\ j < i
      BY <1>1, <1>5, <2>1
    <3>. QED BY <1>2, <1>3, <1>5, <2>1, <3>1
  <2>2. CASE k = i
    <3>1. j \in 1..L /\ j < i
      BY <1>1, <1>5, <2>2
    <3>. QED BY <1>2, <1>4, <2>2, <3>1
  <2>3. CASE k > i /\ j < i
    <3>1. j \in 1..L /\ k - 1 \in 1..L /\ j < k - 1 /\ ~(k < i) /\ k # i
      BY <1>1, <1>5, <2>3
    <3>. QED BY <1>2, <1>3, <2>3, <3>1
  <2>4. CASE k > i /\ j = i
    <3>1. k - 1 \in 1..L /\ ~(k - 1 < i) /\ ~(k < i) /\ k # i /\ ~(j < i)
      BY <1>1, <1>5, <2>4
    <3>. QED BY <1>2, <1>4, <2>4, <3>1
  <2>5. CASE k > i /\ j > i
    <3>1. j - 1 \in 1..L /\ k - 1 \in 1..L /\ j - 1 < k - 1 /\ ~(k < i) /\ k # i /\ ~(j < i) /\ j # i
      BY <1>1, <1>5, <2>5
    <3>. QED BY <1>2, <1>3, <2>5, <3>1
  <2>. QED BY <1>1, <2>1, <2>2, <2>3, <2>4, <2>5
<1>. QED BY <1>1, <1>5 DEF InOrder

LEMMA TakenOutKeeps ==
    ASSUME NEW K, NEW s \in Seq(K), NEW i \in 1..Len(s), NEW r \in Seq(K), TakenOut(r, s, i)
    PROVE  /\ Distinct(s) => Distinct(r) /\ ToSet(r) = ToSet(s) \ {s[i]}
           /\ InOrder(s) => InOrder(r)
<1> DEFINE L == Len(s)
           from(j) == IF j < i THEN j ELSE j + 1
<1>1. L \in Nat /\ DOMAIN s = 1..L /\ DOMAIN r = 1..L - 1 /\ i \in 1..L
  BY DEF TakenOut
<1>2. \A j \in 1..L - 1 : from(j) \in 1..L /\ r[j] = s[from(j)] /\ from(j) # i
  BY <1>1 DEF TakenOut
<1>3. \A j, k \in 1..L - 1 : j < k => from(j) < from(k)
  BY <1>1
<1>4. \A j \in 1..L : j # i => \E k \in 1..L - 1 : from(k) = j
  <2>1. TAKE j \in 1..L
  <2>2. HAVE j # i
  <2>3. CASE j < i
    <3>1. j \in 1..L - 1 /\ from(j) = j
      BY <1>1, <2>3
    <3>. HIDE DEF from
    <3>. QED BY <3>1
  <2>4. CASE j > i
    <3>1. j - 1 \in 1..L - 1 /\ from(j - 1) = j
      BY <1>1, <2>4
    <3>. HIDE DEF from
    <3>. QED BY <3>1
  <2>. QED BY <1>1, <2>2, <2>3, <2>4
<1>5. \A j, k \in 1..L - 1 : from(j) = from(k) => j = k
  BY <1>1
<1>. HIDE DEF L, from
<1>6. ASSUME Distinct(s) PROVE Distinct(r) /\ ToSet(r) = ToSet(s) \ {s[i]}
  <2>1. Distinct(r)
    BY <1>1, <1>2, <1>5, <1>6 DEF Distinct
  <2>2. \A j \in 1..L : j # i => s[j] # s[i]
    BY <1>1, <1>6 DEF Distinct
  <2>3. ToSet(r) \subseteq ToSet(s) \ {s[i]}
    BY <1>1, <1>2, <2>2 DEF ToSet
  <2>4. ASSUME NEW y \in ToSet(s), y # s[i] PROVE y \in ToSet(r)
    <3>1. PICK j \in 1..L : y = s[j]
      BY <1>1 DEF ToSet
    <3>2. PICK k \in 1..L - 1 : from(k) = j
      BY <1>4, <2>4, <3>1
    <3>3. y = r[k]
      BY <1>2, <3>1, <3>2
    <3>. QED BY <1>1, <3>3 DEF ToSet
  <2>. QED BY <2>1, <2>3, <2>4
<1>7. ASSUME InOrder(s) PROVE InOrder(r)
  BY <1>1, <1>2, <1>3, <1>7 DEF InOrder
<1>. QED BY <1>6, <1>7

LEMMA OrderedDistinct ==
    ASSUME NEW fs, Len(fs) \in Nat \ {0}, NEW s \in Seq(KeysOf(fs)), InOrder(s)
    PROVE  Distinct(s)
<1>1. ASSUME NEW i \in DOMAIN s, NEW j \in DOMAIN s, s[i] = s[j], i # j PROVE FALSE
  <2>1. i \in Nat /\ j \in Nat /\ s[i] \in KeysOf(fs)
    OBVIOUS
  <2>2. OrdLess(s[i], s[i])
    <3>1. i < j \/ j < i
      BY <1>1, <2>1
    <3>. QED BY <1>1, <3>1 DEF InOrder
  <2>3. ~OrdLess(s[i], s[i])
    BY <2>1, OrdOrder
  <2>. QED BY <2>2, <2>3
<1>. QED BY <1>1 DEF Distinct

LEMMA SearchFinds ==
    ASSUME NEW K, NEW s \in Seq(K), NEW places \in SUBSET (1..Len(s))
    PROVE  /\ Search(s, places) \in 1..Len(s) + 1
           /\ \A j \in 1..Len(s) : j < Search(s, places) => j \notin places
           /\ Search(s, places) \in places \union {Len(s) + 1}
<1> DEFINE L == Len(s)
           S == places \union {L + 1}
           m == Search(s, places)
<1>0. L \in Nat /\ places \in SUBSET (1..L)
  OBVIOUS
<1>1. S \in SUBSET Nat /\ S # {} /\ S \subseteq 1..L + 1 /\ L \in Nat
  <2>. HIDE DEF L
  <2>. QED BY <1>0
<1>2. m = Min(S)
  BY DEF Search
<1>3. \E x \in S : \A y \in S : x <= y
  <2>. HIDE DEF S
  <2>. QED BY <1>1, LeastExists
<1>4. m \in S /\ \A y \in S : m <= y
  <2>. HIDE DEF S, m
  <2>. QED BY <1>2, <1>3 DEF Min
<1>5. \A j \in 1..L : j < m => j \notin places
  <2>. HIDE DEF m, L
  <2>. QED BY <1>1, <1>4
<1>. QED BY <1>1, <1>4, <1>5

LEMMA GreatestOf ==
    ASSUME NEW L \in Nat, NEW P \in SUBSET (1..L)
    PROVE  /\ Max({0} \union P) \in {0} \union P
           /\ \A y \in P : y <= Max({0} \union P)
<1> DEFINE S == {0} \union P
           B == {b \in 0..L : L - b \in S}
<1>1. L \in B /\ B \in SUBSET Nat
  OBVIOUS
<1>2. PICK b \in B : \A c \in B : b <= c
  <2>. HIDE DEF B
  <2>. QED BY <1>1, LeastExists
<1>3. L - b \in S
  OBVIOUS
<1>4. ASSUME NEW y \in S PROVE L - b >= y
  <2>1. y \in 0..L /\ L - y \in 0..L /\ L - (L - y) = y
    OBVIOUS
  <2>2. L - y \in B
    BY <2>1
  <2>3. b <= L - y /\ b \in 0..L
    BY <1>2, <2>2
  <2>. QED BY <2>1, <2>3
<1>. HIDE DEF S, B
<1>5. \E x \in S : \A y \in S : x >= y
  BY <1>3, <1>4
<1>6. Max(S) \in S /\ \A y \in S : Max(S) >= y
  BY <1>5 DEF Max
<1>7. S \subseteq Int
  BY DEF S
<1>8. \A y \in S : y <= Max(S)
  BY <1>6, <1>7
<1>. QED BY <1>6, <1>8 DEF S

-----------------------------------------------------------------------------
(* Insertion sort *)

\* One step of the sort puts x somewhere.
Spliced(s, p, x) == SubSeq(s, 1, p) \o <<x>> \o SubSeq(s, p + 1, Len(s))

LEMMA SplicedIn ==
    ASSUME NEW K, NEW s \in Seq(K), NEW x \in K, NEW p \in 0..Len(s)
    PROVE  Spliced(s, p, x) \in Seq(K) /\ Inserted(Spliced(s, p, x), s, p + 1, x)
<1>1. p + 1 \in 1..Len(s) + 1 /\ p \in Nat /\ Len(s) \in Nat
  OBVIOUS
<1>2. InsertAt(s, p + 1, x) = Spliced(s, p, x)
  <2> DEFINE q == p + 1
  <2>1. q - 1 = p
    BY <1>1
  <2>. HIDE DEF q
  <2>2. InsertAt(s, q, x) = SubSeq(s, 1, p) \o <<x>> \o SubSeq(s, q, Len(s))
    BY <2>1, Zenon DEF InsertAt
  <2>. QED BY <2>2 DEF q, Spliced
<1>. QED BY <1>1, <1>2, InsertedAt

\* The elements that have been sorted after so many steps.
FirstOf(s, m) == {s[j] : j \in 1..m}

LEMMA FirstOfNext ==
    ASSUME NEW K, NEW s \in Seq(K), NEW m \in 0..Len(s), m # 0
    PROVE  /\ FirstOf(s, m) = FirstOf(s, m - 1) \union {s[m]} /\ s[m] \in K
           /\ Distinct(s) => s[m] \notin FirstOf(s, m - 1)
<1>1. m \in 1..Len(s) /\ 1..m = (1..m - 1) \union {m} /\ Len(s) \in Nat /\ DOMAIN s = 1..Len(s)
  OBVIOUS
<1>2. FirstOf(s, m) = FirstOf(s, m - 1) \union {s[m]}
  BY <1>1 DEF FirstOf
<1>3. ASSUME Distinct(s), s[m] \in FirstOf(s, m - 1) PROVE FALSE
  <2>1. PICK j \in 1..m - 1 : s[m] = s[j]
    BY <1>3 DEF FirstOf
  <2>2. j \in DOMAIN s /\ m \in DOMAIN s /\ j # m
    BY <1>1, <2>1
  <2>. QED BY <1>3, <2>1, <2>2 DEF Distinct
<1>. QED BY <1>1, <1>2, <1>3

LEMMA FirstOfAll ==
    ASSUME NEW K, NEW s \in Seq(K)
    PROVE  FirstOf(s, Len(s)) = ToSet(s) /\ FirstOf(s, 0) = {}
BY DEF FirstOf, ToSet

\* ensureOrd (index.go:122-128) leaves the keys what they were, and in order.
THEOREM SortedKeys ==
    ASSUME NEW fs, Len(fs) \in Nat \ {0}, NEW s \in Seq(KeysOf(fs))
    PROVE  /\ StableSort(s, OrdLess) \in Seq(KeysOf(fs))
           /\ ToSet(StableSort(s, OrdLess)) = ToSet(s)
           /\ Distinct(s) => InOrder(StableSort(s, OrdLess))
<1> DEFINE K == KeysOf(fs)
           L == Len(s)
           A == Seq(K)
           Put(t, x) == InsertStable(t, x, OrdLess)
<1>1. L \in Nat /\ \A i \in 1..L : s[i] \in K
  OBVIOUS
<1>2. ASSUME NEW t \in A, NEW x \in K
      PROVE  /\ Put(t, x) \in A /\ ToSet(Put(t, x)) = ToSet(t) \union {x}
             /\ InOrder(t) /\ x \notin ToSet(t) => InOrder(Put(t, x))
  <2> DEFINE P == {j \in DOMAIN t : ~OrdLess(x, t[j])}
             p == Max({0} \union P)
             r == Spliced(t, p, x)
  <2>1. P \in SUBSET (1..Len(t)) /\ Len(t) \in Nat
    OBVIOUS
  <2>2. /\ r \in Seq(K) /\ Inserted(r, t, p + 1, x) /\ p + 1 \in 1..Len(t) + 1
        /\ p \in {0} \union P /\ \A y \in P : y <= p
    <3>. HIDE DEF P, p
    <3>1. p \in {0} \union P /\ \A y \in P : y <= p
      BY <2>1, GreatestOf DEF p
    <3>2. p \in 0..Len(t) /\ p + 1 \in 1..Len(t) + 1
      BY <2>1, <3>1
    <3>3. t \in Seq(K) /\ x \in K
      OBVIOUS
    <3>. HIDE DEF r, A, L, Put, K
    <3>. QED BY <3>1, <3>2, <3>3, SplicedIn DEF r
  <2>3. Put(t, x) = r
    BY Zenon DEF InsertStable, Spliced
  <2>4. ASSUME InOrder(t), x \notin ToSet(t) PROVE InOrder(r)
    <3>1. \A j \in 1..Len(t) : IF j < p + 1 THEN OrdLess(t[j], x) ELSE OrdLess(x, t[j])
      <4>1. TAKE j \in 1..Len(t)
      <4>2. t[j] \in K /\ t[j] # x /\ j \in DOMAIN t
        BY <2>4 DEF ToSet
      <4>3. CASE j < p + 1
        <5>1. p \in P /\ p \in DOMAIN t /\ t[p] \in K /\ ~OrdLess(x, t[p]) /\ t[p] # x
          <6>1. p \in P
            <7>. HIDE DEF P, p
            <7>. QED BY <2>1, <2>2, <4>3
          <6>2. t[p] # x
            BY <2>4, <6>1 DEF ToSet
          <6>. HIDE DEF p
          <6>. QED BY <6>1, <6>2
        <5>. HIDE DEF P, p
        <5>2. OrdLess(t[p], x)
          BY <5>1, OrdOrder
        <5>3. j = p \/ OrdLess(t[j], t[p])
          <6>1. j < p \/ j = p
            BY <2>1, <4>3, <5>1
          <6>. QED BY <2>4, <4>2, <5>1, <6>1 DEF InOrder
        <5>4. OrdLess(t[j], x)
          BY <4>2, <5>1, <5>2, <5>3, OrdOrder
        <5>. QED BY <4>3, <5>4
      <4>4. CASE ~(j < p + 1)
        <5>1. j \notin P
          <6>. HIDE DEF P, p
          <6>. QED BY <2>1, <2>2, <4>4
        <5>2. OrdLess(x, t[j])
          BY <4>2, <5>1
        <5>. QED BY <4>4, <5>2
      <4>. QED BY <4>3, <4>4
    <3>. HIDE DEF p, r
    <3>. QED BY <2>2, <2>4, <3>1, InsertedInOrder
  <2>5. ToSet(r) = ToSet(t) \union {x}
    <3> DEFINE q == p + 1
    <3>1. r \in Seq(K) /\ Inserted(r, t, q, x) /\ q \in 1..Len(t) + 1 /\ t \in Seq(K)
      BY <2>2
    <3>2. x \in K
      OBVIOUS
    <3>. HIDE DEF q, r, A, L, Put, p, K
    <3>. QED BY <3>1, <3>2, InsertedSet
  <2>. HIDE DEF p, r, Put
  <2>. QED BY <2>2, <2>3, <2>4, <2>5
<1> DEFINE f == CHOOSE f : f = [m \in 0..L |-> IF m = 0 THEN <<>> ELSE Put(f[m - 1], s[m])]
<1>3. /\ f \in [0..L -> A] /\ f[0] = <<>>
      /\ \A m \in 0..L : m # 0 => f[m] = Put(f[m - 1], s[m])
  <2> DEFINE step == [i \in 1..L |-> [t \in A |-> Put(t, s[i])]]
             none == <<>>
  <2>. HIDE DEF Put
  <2>1. Steps(step, L, A) /\ none \in A
    <3>. HIDE DEF K
    <3>1. none \in A
      OBVIOUS
    <3>. HIDE DEF A, L, none
    <3>. QED BY <1>1, <1>2, <3>1 DEF Steps
  <2>2. PICK g : Goes(g, L, A, none, step)
    <3>. HIDE DEF A, L, none, step
    <3>. QED BY <1>1, <2>1, Run
  <2>3. g \in [0..L -> A] /\ g[0] = <<>> /\ \A m \in 1..L : g[m] = Put(g[m - 1], s[m])
    <3>. HIDE DEF A, L
    <3>1. \A m \in 1..L : m - 1 \in 0..L
      BY <1>1
    <3>2. g \in [0..L -> A] /\ g[0] = none /\ \A m \in 1..L : g[m] = step[m][g[m - 1]]
      <4>. HIDE DEF step, none
      <4>. QED BY <2>2, Goings
    <3>. HIDE DEF none
    <3>3. ASSUME NEW m \in 1..L PROVE g[m] = Put(g[m - 1], s[m])
      <4>1. g[m - 1] \in A
        BY <3>1, <3>2
      <4>. QED BY <3>2, <4>1
    <3>. QED BY <3>2, <3>3 DEF none
  <2>. HIDE DEF A, L
  <2>4. \A m \in 0..L : m # 0 => m \in 1..L
    BY <1>1
  <2>5. g = [m \in 0..L |-> IF m = 0 THEN <<>> ELSE Put(g[m - 1], s[m])]
    BY <2>3, <2>4
  <2>6. f = [m \in 0..L |-> IF m = 0 THEN <<>> ELSE Put(f[m - 1], s[m])]
    BY <2>5, Zenon
  <2>. HIDE DEF f
  <2>7. 0 \in 0..L
    BY <1>1
  <2>8. f[0] = <<>> /\ \A m \in 0..L : m # 0 => f[m] = Put(f[m - 1], s[m])
    BY <2>6, <2>7
  <2> DEFINE T == {m \in 0..L : f[m] \in A}
  <2>9. 0 \in T
    BY <2>1, <2>7, <2>8
  <2>10. ASSUME NEW m \in 0..L, m # 0, m - 1 \in T PROVE m \in T
    BY <1>1, <1>2, <2>4, <2>8, <2>10
  <2>11. 0..L \subseteq T
    <3>. HIDE DEF T
    <3>. QED BY <1>1, <2>9, <2>10, AllTheWay
  <2>. QED BY <2>6, <2>8, <2>11
<1>4. StableSort(s, OrdLess) = f[L]
  BY Zenon DEF StableSort, f, L, Put
<1>. HIDE DEF f, Put
<1> DEFINE T == {m \in 0..L : /\ ToSet(f[m]) = FirstOf(s, m)
                              /\ Distinct(s) => InOrder(f[m])}
<1>5. 0 \in T
  <2>1. f[0] = <<>>
    BY <1>1, <1>3
  <2>2. ToSet(f[0]) = {} /\ InOrder(f[0])
    BY <2>1 DEF ToSet, InOrder
  <2>3. FirstOf(s, 0) = {} /\ 0 \in 0..L
    BY <1>1, FirstOfAll
  <2>. HIDE DEF L
  <2>. QED BY <2>2, <2>3
<1>6. ASSUME NEW m \in 0..L, m # 0, m - 1 \in T PROVE m \in T
  <2>1. /\ FirstOf(s, m) = FirstOf(s, m - 1) \union {s[m]} /\ s[m] \in K
        /\ Distinct(s) => s[m] \notin FirstOf(s, m - 1)
    BY <1>6, FirstOfNext
  <2>2. f[m - 1] \in A /\ f[m] = Put(f[m - 1], s[m])
    BY <1>1, <1>3, <1>6
  <2>3. ToSet(f[m - 1]) = FirstOf(s, m - 1) /\ (Distinct(s) => InOrder(f[m - 1]))
    BY <1>6
  <2>4. /\ ToSet(f[m]) = ToSet(f[m - 1]) \union {s[m]}
        /\ InOrder(f[m - 1]) /\ s[m] \notin ToSet(f[m - 1]) => InOrder(f[m])
    BY <1>2, <2>1, <2>2
  <2>. QED BY <2>1, <2>3, <2>4
<1>7. L \in T
  <2>. HIDE DEF T
  <2>1. 0..L \subseteq T
    BY <1>1, <1>5, <1>6, AllTheWay
  <2>. QED BY <1>1, <2>1
<1>8. FirstOf(s, L) = ToSet(s)
  BY FirstOfAll
<1>. QED BY <1>1, <1>3, <1>4, <1>7, <1>8

-----------------------------------------------------------------------------
(* Finite sets as lists *)

\* s lists the elements of S, each once.
Lists(s, S) == s \in Seq(S) /\ ToSet(s) = S /\ Distinct(s)

LEMMA SeqOfFunction ==
    ASSUME NEW S, NEW n \in Nat, NEW f \in [1..n -> S]
    PROVE  f \in Seq(S) /\ Len(f) = n /\ DOMAIN f = 1..n
OBVIOUS

LEMMA SetToSeqLists ==
    ASSUME NEW S, IsFiniteSet(S)
    PROVE  Lists(SetToSeq(S), S)
<1> DEFINE n == Cardinality(S)
           s == SetToSeq(S)
<1>1. n \in Nat /\ ExistsBijection(1..n, S)
  BY FS_CardinalityType
<1>. HIDE DEF n
<1>2. PICK f : f \in Bijection(1..n, S)
  BY <1>1 DEF ExistsBijection
<1>3. f \in [1..n -> S] /\ IsInjective(f)
  BY <1>2 DEF Bijection, Injection
<1>4. s \in [1..n -> S] /\ IsInjective(s)
  BY <1>3, Zenon DEF SetToSeq, n
<1>. HIDE DEF s
<1>5. s \in Seq(S) /\ DOMAIN s = 1..n
  BY <1>1, <1>4, SeqOfFunction
<1>6. s \in Injection(1..n, S)
  BY <1>4 DEF Injection
<1>7. IsFiniteSet(1..n) /\ Cardinality(1..n) = n
  BY <1>1, FS_Interval
<1>8. s \in Surjection(1..n, S)
  BY <1>6, <1>7, FS_Injection DEF n
<1>9. ToSet(s) = S
  BY <1>4, <1>5, <1>8 DEF Surjection, ToSet
<1>10. Distinct(s)
  BY <1>4, <1>5 DEF IsInjective, Distinct
<1>. QED BY <1>5, <1>9, <1>10 DEF Lists, s

LEMMA SetAscLists ==
    ASSUME NEW S \in SUBSET Nat, IsFiniteSet(S)
    PROVE  Lists(SetAsc(S), S) /\ Len(SetAsc(S)) = Cardinality(S)
<1> DEFINE n == Cardinality(S)
           below(i) == {j \in S : j < i}
           rank == [i \in S |-> Cardinality(below(i)) + 1]
           s == SetAsc(S)
<1>1. n \in Nat /\ IsFiniteSet(1..n) /\ Cardinality(1..n) = n
  <2>1. n \in Nat
    BY FS_CardinalityType
  <2>. HIDE DEF n
  <2>. QED BY <2>1, FS_Interval
<1>2. ASSUME NEW i \in S
      PROVE  IsFiniteSet(below(i)) /\ Cardinality(below(i)) \in 0..n - 1
  <2>1. IsFiniteSet(S \ {i}) /\ Cardinality(S \ {i}) = n - 1
    BY FS_RemoveElement
  <2>2. below(i) \in SUBSET (S \ {i})
    OBVIOUS
  <2>. HIDE DEF below
  <2>3. IsFiniteSet(below(i)) /\ Cardinality(below(i)) <= n - 1
    BY <2>1, <2>2, FS_Subset
  <2>4. Cardinality(below(i)) \in Nat
    BY <2>3, FS_CardinalityType
  <2>. HIDE DEF n
  <2>. QED BY <1>1, <2>3, <2>4
<1>3. ASSUME NEW i \in S, NEW j \in S, i < j
      PROVE  Cardinality(below(i)) < Cardinality(below(j))
  <2>1. Cardinality(below(i) \union {i}) = Cardinality(below(i)) + 1
    <3>1. i \notin below(i)
      OBVIOUS
    <3>. HIDE DEF below
    <3>. QED BY <1>2, <3>1, FS_AddElement
  <2>2. below(i) \union {i} \in SUBSET below(j)
    <3>1. \A k \in S : k < i => k < j
      BY <1>3
    <3>. QED BY <1>3, <3>1
  <2>. HIDE DEF below
  <2>3. Cardinality(below(i) \union {i}) <= Cardinality(below(j))
    BY <1>2, <2>2, FS_Subset
  <2>4. Cardinality(below(i)) \in Nat /\ Cardinality(below(j)) \in Nat
    BY <1>2, FS_CardinalityType
  <2>. QED BY <2>1, <2>3, <2>4
<1>4. rank \in Injection(S, 1..n)
  <2>. HIDE DEF below, n
  <2>1. \A i \in S : Cardinality(below(i)) + 1 \in 1..n
    BY <1>1, <1>2
  <2>2. rank \in [S -> 1..n]
    BY <2>1
  <2>3. ASSUME NEW i \in S, NEW j \in S, rank[i] = rank[j] PROVE i = j
    <3>1. Cardinality(below(i)) = Cardinality(below(j))
      BY <1>1, <1>2, <2>3
    <3>2. Cardinality(below(i)) \in Int
      BY <1>1, <1>2
    <3>3. ~(i < j) /\ ~(j < i)
      BY <1>3, <3>1, <3>2
    <3>. QED BY <3>3
  <2>. HIDE DEF rank
  <2>. QED BY <2>2, <2>3 DEF Injection, IsInjective
<1>5. rank \in Surjection(S, 1..n)
  <2>. HIDE DEF rank
  <2>1. Cardinality(S) = Cardinality(1..n)
    BY <1>1
  <2>. HIDE DEF n
  <2>. QED BY <1>1, <1>4, <2>1, FS_Injection
<1>6. ASSUME NEW m \in 1..n PROVE \E i \in S : Cardinality(below(i)) = m - 1
  <2>1. PICK i \in S : rank[i] = m
    <3>. HIDE DEF rank, n
    <3>. QED BY <1>5 DEF Surjection
  <2>. HIDE DEF below
  <2>. QED BY <1>2, <2>1
<1>7. s = [m \in 1..n |-> CHOOSE i \in S : Cardinality(below(i)) = m - 1]
  BY Zenon DEF SetAsc
<1>. HIDE DEF s
<1>8. ASSUME NEW m \in 1..n PROVE s[m] \in S /\ Cardinality(below(s[m])) = m - 1
  <2>. HIDE DEF below, n
  <2>. QED BY <1>6, <1>7
<1>9. s \in Seq(S) /\ DOMAIN s = 1..n /\ Len(s) = n
  <2>. HIDE DEF below, n
  <2>1. s \in [1..n -> S]
    BY <1>7, <1>8
  <2>. QED BY <1>1, <2>1, SeqOfFunction
<1>10. Distinct(s)
  <2>. HIDE DEF below, n
  <2>1. ASSUME NEW m \in 1..n, NEW k \in 1..n, s[m] = s[k] PROVE m = k
    <3>1. m - 1 = k - 1
      BY <1>8, <2>1
    <3>. QED BY <1>1, <3>1
  <2>. QED BY <1>9, <2>1 DEF Distinct
<1>11. ASSUME NEW i \in S PROVE i \in ToSet(s)
  <2> DEFINE m == rank[i]
  <2>1. m \in 1..n /\ Cardinality(below(i)) = m - 1
    <3>. HIDE DEF below, n
    <3>. QED BY <1>1, <1>2
  <2>. HIDE DEF m, rank
  <2>2. s[m] \in S /\ Cardinality(below(s[m])) = Cardinality(below(i))
    BY <1>8, <2>1
  <2>3. ~(s[m] < i) /\ ~(i < s[m])
    <3>1. Cardinality(below(i)) \in Int
      <4>. HIDE DEF below, n
      <4>. QED BY <1>1, <1>2
    <3>. HIDE DEF below
    <3>2. ASSUME s[m] < i PROVE FALSE
      <4>1. Cardinality(below(s[m])) < Cardinality(below(i))
        BY <1>3, <2>2, <3>2
      <4>. QED BY <2>2, <3>1, <4>1
    <3>3. ASSUME i < s[m] PROVE FALSE
      <4>1. Cardinality(below(i)) < Cardinality(below(s[m]))
        BY <1>3, <2>2, <3>3
      <4>. QED BY <2>2, <3>1, <4>1
    <3>. QED BY <3>2, <3>3
  <2>4. s[m] = i
    <3>1. s[m] \in Nat /\ i \in Nat
      BY <2>2
    <3>. QED BY <2>3, <3>1
  <2>. HIDE DEF n
  <2>. QED BY <1>9, <2>1, <2>4 DEF ToSet
<1>12. ToSet(s) = S
  BY <1>8, <1>9, <1>11 DEF ToSet
<1>. QED BY <1>9, <1>10, <1>12 DEF Lists, s

\* There are only so many tuples over a finite set.
LEMMA FiniteTuples ==
    ASSUME NEW B, IsFiniteSet(B), NEW L \in Nat
    PROVE  IsFiniteSet([1..L -> B])
<1> DEFINE T == {n \in 0..L : IsFiniteSet([1..n -> B])}
<1>1. 0 \in T
  <2>1. [1..0 -> B] = {[i \in 1..0 |-> 0]}
    <3>1. \A f \in [1..0 -> B] : f = [i \in 1..0 |-> 0]
      OBVIOUS
    <3>2. [i \in 1..0 |-> 0] \in [1..0 -> B]
      OBVIOUS
    <3>. QED BY <3>1, <3>2
  <2>2. IsFiniteSet([1..0 -> B])
    BY <2>1, FS_Singleton
  <2>. QED BY <2>2
<1>2. ASSUME NEW n \in 0..L, n # 0, n - 1 \in T PROVE n \in T
  <2> DEFINE X == [1..n - 1 -> B] \X B
             Y == [1..n -> B]
             f == [p \in X |-> [i \in 1..n |-> IF i = n THEN p[2] ELSE p[1][i]]]
  <2>1. IsFiniteSet([1..n - 1 -> B])
    BY <1>2
  <2>2. IsFiniteSet(X)
    BY <2>1, FS_Product
  <2>3. f \in [X -> Y]
    <3>1. ASSUME NEW p \in X PROVE [i \in 1..n |-> IF i = n THEN p[2] ELSE p[1][i]] \in Y
      OBVIOUS
    <3>. HIDE DEF X, Y
    <3>. QED BY <3>1
  <2>4. ASSUME NEW y \in Y PROVE \E p \in X : f[p] = y
    <3> DEFINE g == [i \in 1..n - 1 |-> y[i]]
               p == <<g, y[n]>>
    <3>1. g \in [1..n - 1 -> B] /\ y[n] \in B
      BY <1>2
    <3>2. p \in X
      BY <3>1
    <3>3. f[p] = [i \in 1..n |-> IF i = n THEN p[2] ELSE p[1][i]]
      BY <3>2
    <3>4. \A i \in 1..n : (IF i = n THEN p[2] ELSE p[1][i]) = y[i]
      BY <1>2
    <3>5. f[p] = [i \in 1..n |-> y[i]]
      BY <3>3, <3>4
    <3>6. f[p] = y
      BY <3>5
    <3>. HIDE DEF f, X, p
    <3>. QED BY <3>2, <3>6
  <2>5. f \in Surjection(X, Y)
    <3>. HIDE DEF f, X, Y
    <3>. QED BY <2>3, <2>4 DEF Surjection
  <2>6. IsFiniteSet(Y)
    <3>. HIDE DEF f, X, Y
    <3>. QED BY <2>2, <2>5, FS_Surjection
  <2>. QED BY <2>6
<1>3. 0..L \subseteq T
  <2>. HIDE DEF T
  <2>. QED BY <1>1, <1>2, AllTheWay
<1>4. L \in T
  <2>. HIDE DEF T
  <2>. QED BY <1>3
<1>. QED BY <1>4

-----------------------------------------------------------------------------
(* The keys of a document *)

LEMMA FieldsAre ==
    ASSUME NEW fs \in Seq(STRING) \ {<<>>}
    PROVE  Len(fs) \in Nat \ {0} /\ DOMAIN fs = 1..Len(fs)
OBVIOUS

LEMMA NumIsScalar ==
    ASSUME NEW v \in Seq(Int), NEW i \in DOMAIN v
    PROVE  Num(v[i]) \in Scalar
<1> DEFINE n == v[i]
<1>1. n \in Int
  OBVIOUS
<1>. HIDE DEF n
<1>2. <<n>> \in [1..1 -> Int]
  BY <1>1
<1>3. Num(n) \in Scalar
  BY <1>2 DEF Num, Scalar
<1>. QED BY <1>3 DEF n

LEMMA LookedUp ==
    ASSUME NEW d \in Contents, NEW f
    PROVE  Lookup(d, f) \in Scalar \union [t : {"arr"}, v : Seq(Int)]
<1> DEFINE x == d[f]
           V == Scalar \union [t : {"arr"}, v : Seq(Int)]
<1>1. Nil \in V
  BY DEF Scalar
<1>2. CASE f \notin DOMAIN d \/ x = Missing
  <2>1. LookupMulti(d, f) = <<>>
    BY <1>2 DEF LookupMulti
  <2>. HIDE DEF V
  <2>. QED BY <1>1, <2>1 DEF Lookup, V
<1>3. CASE f \in DOMAIN d /\ x # Missing
  <2>1. x \in Value
    BY <1>3, ContentsAssumption
  <2>2. x \in V \/ x \in [t : {"many"}, v : Seq(Int)]
    BY <1>3, <2>1 DEF Value
  <2>3. CASE x.t = "many"
    <3>1. x \in [t : {"many"}, v : Seq(Int)]
      BY <2>2, <2>3, ScalarParts
    <3>2. x.v \in Seq(Int)
      BY <3>1
    <3>3. LookupMulti(d, f) = Elements(x)
      BY <1>3, <2>3 DEF LookupMulti
    <3>4. CASE x.v = <<>>
      <4>1. DOMAIN x.v = {}
        BY <3>4
      <4>2. Elements(x) = <<>>
        <5>1. Elements(x) = [i \in {} |-> Num(x.v[i])]
          BY <4>1 DEF Elements
        <5>. QED BY <5>1
      <4>. HIDE DEF V, x
      <4>. QED BY <1>1, <3>3, <4>2 DEF Lookup, V
    <3>5. CASE x.v # <<>>
      <4> DEFINE s == x.v
                 e == Elements(x)
      <4>1. s \in Seq(Int) /\ s # <<>>
        BY <3>2, <3>5
      <4>2. e = [i \in DOMAIN s |-> Num(s[i])]
        BY DEF Elements
      <4>. HIDE DEF s, e, x
      <4>3. 1 \in DOMAIN s
        BY <4>1
      <4>4. e # <<>> /\ e[1] = Num(s[1])
        BY <4>2, <4>3
      <4>5. Num(s[1]) \in Scalar
        BY <4>1, <4>3, NumIsScalar
      <4>6. Head(e) = e[1]
        <5>1. \A i \in DOMAIN s : Num(s[i]) \in Scalar
          BY <4>1, NumIsScalar
        <5>2. DOMAIN s = 1..Len(s) /\ Len(s) \in Nat
          BY <4>1
        <5>3. e \in [1..Len(s) -> Scalar]
          BY <4>2, <5>1, <5>2
        <5>4. e \in Seq(Scalar)
          BY <5>2, <5>3, SeqOfFunction
        <5>. QED BY <5>4
      <4>7. Lookup(d, f) = Num(s[1])
        BY <3>3, <4>4, <4>6, Zenon DEF Lookup, e
      <4>. QED BY <4>5, <4>7
    <3>. QED BY <3>4, <3>5
  <2>4. CASE x.t # "many"
    <3>1. LookupMulti(d, f) = <<x>>
      BY <1>3, <2>4 DEF LookupMulti
    <3>2. x \in V
      BY <2>2, <2>4
    <3>. HIDE DEF V, x
    <3>3. <<x>> # <<>> /\ Head(<<x>>) = x
      OBVIOUS
    <3>4. Lookup(d, f) = x
      BY <3>1, <3>3 DEF Lookup
    <3>. QED BY <3>2, <3>4 DEF V
  <2>. QED BY <2>3, <2>4
<1>. QED BY <1>2, <1>3

\* Whatever a field holds, its keys are scalars, and they are finitely many.
LEMMA ExpandedKeys ==
    ASSUME NEW x \in Scalar \union [t : {"arr"}, v : Seq(Int)]
    PROVE  Expanded(x) \in SUBSET Scalar /\ IsFiniteSet(Expanded(x))
<1>1. CASE x.t # "arr"
  <2>1. x \in Scalar /\ Expanded(x) = {x}
    BY <1>1 DEF Expanded
  <2>. QED BY <2>1, FS_Singleton
<1>2. CASE x.t = "arr"
  <2>1. x.v \in Seq(Int)
    BY <1>2, ScalarParts
  <2>2. CASE x.v = <<>>
    <3>1. Expanded(x) = {Nil}
      BY <1>2, <2>2 DEF Expanded
    <3>. QED BY <3>1, FS_Singleton DEF Scalar
  <2>3. CASE x.v # <<>>
    <3> DEFINE s == x.v
               E == Expanded(x)
               f == [i \in DOMAIN s |-> Num(s[i])]
    <3>1. E = {Num(s[i]) : i \in DOMAIN s}
      BY <1>2, <2>3 DEF Expanded
    <3>2. s \in Seq(Int)
      BY <2>1
    <3>. HIDE DEF s, E
    <3>3. \A i \in DOMAIN s : Num(s[i]) \in Scalar
      BY <3>2, NumIsScalar
    <3>4. f \in Surjection(DOMAIN s, E)
      BY <3>1 DEF Surjection
    <3>5. IsFiniteSet(DOMAIN s)
      <4>1. DOMAIN s = 1..Len(s) /\ Len(s) \in Nat
        BY <3>2
      <4>. QED BY <4>1, FS_Interval
    <3>6. IsFiniteSet(E)
      <4>. HIDE DEF f
      <4>. QED BY <3>4, <3>5, FS_Surjection
    <3>. QED BY <3>1, <3>3, <3>6 DEF E
  <2>. QED BY <2>2, <2>3
<1>. QED BY <1>1, <1>2

LEMMA DocumentKeys ==
    ASSUME NEW d \in Contents, NEW fs \in Seq(STRING) \ {<<>>}
    PROVE  RowsOf(d, fs) \in SUBSET KeysOf(fs) /\ IsFiniteSet(RowsOf(d, fs))
<1> DEFINE L == Len(fs)
           e == [i \in 1..L |-> Expanded(Lookup(d, fs[i]))]
           X == {e[i] : i \in 1..L}
           B == UNION X
<1>1. L \in Nat /\ DOMAIN fs = 1..L
  BY FieldsAre
<1>2. RowsOf(d, fs) = {k \in [1..L -> B] : \A i \in 1..L : k[i] \in e[i]}
  <2>1. UNION {Expanded(Lookup(d, fs[i])) : i \in DOMAIN fs} = B
    BY <1>1
  <2>2. RowsOf(d, fs) = {k \in [DOMAIN fs -> B] : \A i \in DOMAIN fs : k[i] \in Expanded(Lookup(d, fs[i]))}
    BY <2>1 DEF RowsOf
  <2>. HIDE DEF L, B
  <2>. QED BY <1>1, <2>2
<1>3. ASSUME NEW i \in 1..L PROVE e[i] \in SUBSET Scalar /\ IsFiniteSet(e[i])
  <2>1. Lookup(d, fs[i]) \in Scalar \union [t : {"arr"}, v : Seq(Int)]
    BY LookedUp
  <2>2. e[i] = Expanded(Lookup(d, fs[i]))
    OBVIOUS
  <2>. HIDE DEF e
  <2>. QED BY <2>1, <2>2, ExpandedKeys
<1>. HIDE DEF L
<1>4. IsFiniteSet(X)
  <2> DEFINE g == [i \in 1..L |-> e[i]]
  <2>. HIDE DEF e
  <2>1. g \in Surjection(1..L, X)
    BY DEF Surjection
  <2>2. IsFiniteSet(1..L)
    BY <1>1, FS_Interval
  <2>. HIDE DEF g, X
  <2>. QED BY <2>1, <2>2, FS_Surjection
<1>. HIDE DEF e
<1>5. IsFiniteSet(B) /\ B \in SUBSET Scalar
  <2>1. \A Y \in X : IsFiniteSet(Y) /\ Y \in SUBSET Scalar
    BY <1>3
  <2>. HIDE DEF X
  <2>. QED BY <1>4, <2>1, FS_UNION
<1>. HIDE DEF X
<1>6. IsFiniteSet([1..L -> B])
  <2>. HIDE DEF B
  <2>. QED BY <1>1, <1>5, FiniteTuples
<1>7. RowsOf(d, fs) \in SUBSET [1..L -> B]
  BY <1>2
<1>8. RowsOf(d, fs) \in SUBSET KeysOf(fs)
  <2>. HIDE DEF B
  <2>. QED BY <1>5, <1>7 DEF KeysOf, L
<1>9. IsFiniteSet(RowsOf(d, fs))
  <2>. HIDE DEF B
  <2>. QED BY <1>6, <1>7, FS_Subset
<1>. QED BY <1>8, <1>9

-----------------------------------------------------------------------------
(* What an index is, whatever was done to it *)

Row(fs) == [key : KeysOf(fs), id : Key]

Ords(fs) == Seq(KeysOf(fs))
Flats(fs) == Seq([key : KeysOf(fs), ids : Seq(Key)])

IxOf(fs, u) ==
    [fields : {fs}, unique : {u}, rows : SUBSET Row(fs), ord : Ords(fs),
     sorted : BOOLEAN, matrix : Flats(fs)]

\* Its keys are there once, sorted when they are said to be.
Ranked(ix) == Distinct(ix.ord) /\ (ix.sorted => InOrder(ix.ord))

KeysIn(rows) == {r.key : r \in rows}


LEMMA IxParts ==
    ASSUME NEW fs, NEW u, NEW ix \in IxOf(fs, u)
    PROVE  /\ ix.fields = fs /\ ix.unique = u /\ ix.rows \in SUBSET Row(fs)
           /\ ix.ord \in Seq(KeysOf(fs)) /\ ix.sorted \in BOOLEAN
           /\ ix.matrix \in Flats(fs)
BY DEF IxOf, Ords

LEMMA IxRows ==
    ASSUME NEW fs, NEW u, NEW ix \in IxOf(fs, u)
    PROVE  ix.fields = fs /\ ix.unique = u /\ ix.rows \in SUBSET Row(fs)
BY DEF IxOf

\* The flat view of an index.
FlatOf(ix) == [i \in DOMAIN ix.ord |-> [key |-> ix.ord[i], ids |-> SetAsc(IdsOf(ix, ix.ord[i]))]]

LEMMA CoherentParts ==
    ASSUME NEW ix
    PROVE  Coherent(ix) <=>
              /\ Ranked(ix) /\ ToSet(ix.ord) = KeysIn(ix.rows)
              /\ ix.matrix # <<>> => ix.sorted /\ ix.matrix = FlatOf(ix)
BY DEF Coherent, Ranked, Distinct, InOrder, KeysIn, FlatOf

LEMMA CoherentFlat ==
    ASSUME NEW ix, Ranked(ix), ToSet(ix.ord) = KeysIn(ix.rows), ix.sorted, ix.matrix = FlatOf(ix)
    PROVE  Coherent(ix)
BY CoherentParts

LEMMA CoherentKeys ==
    ASSUME NEW ix, Coherent(ix)
    PROVE  /\ Ranked(ix) /\ ToSet(ix.ord) = KeysIn(ix.rows)
           /\ ix.matrix # <<>> => ix.sorted
BY CoherentParts

LEMMA CoherentPlain ==
    ASSUME NEW ix, Ranked(ix), ToSet(ix.ord) = KeysIn(ix.rows), ix.matrix = <<>>
    PROVE  Coherent(ix)
BY CoherentParts

LEMMA WithOrd ==
    ASSUME NEW fs, NEW u, NEW ix \in IxOf(fs, u), NEW o \in Ords(fs)
    PROVE  /\ [ix EXCEPT !.ord = o] \in IxOf(fs, u)
           /\ [ix EXCEPT !.ord = o].ord = o
           /\ [ix EXCEPT !.ord = o].rows = ix.rows
           /\ [ix EXCEPT !.ord = o].sorted = ix.sorted
           /\ [ix EXCEPT !.ord = o].matrix = ix.matrix
BY DEF IxOf

WithRows(ix, R) == [ix EXCEPT !.matrix = <<>>, !.rows = R]

LEMMA RowsReplaced ==
    ASSUME NEW fs, NEW u, NEW ix \in IxOf(fs, u), NEW R \in SUBSET Row(fs)
    PROVE  /\ WithRows(ix, R) \in IxOf(fs, u)
           /\ WithRows(ix, R).ord = ix.ord
           /\ WithRows(ix, R).rows = R
           /\ WithRows(ix, R).sorted = ix.sorted
           /\ WithRows(ix, R).matrix = <<>>
<1> DEFINE none == <<>>
<1>1. none \in Flats(fs)
  BY DEF Flats
<1>. HIDE DEF none
<1>. QED BY <1>1 DEF IxOf, WithRows, none

LEMMA NoIds ==
    ASSUME NEW ix, NEW k
    PROVE  IdsOf(ix, k) = {} <=> k \notin KeysIn(ix.rows)
BY DEF IdsOf, KeysIn

LEMMA OnlyId ==
    ASSUME NEW ix, NEW k, NEW id
    PROVE  IdsOf(ix, k) \subseteq {id} <=> \A r \in ix.rows : r.key = k => r.id = id
BY DEF IdsOf

LEMMA RowIs ==
    ASSUME NEW fs, NEW r \in Row(fs)
    PROVE  r.key \in KeysOf(fs) /\ r.id \in Key /\ r = [key |-> r.key, id |-> r.id]
BY DEF Row

-----------------------------------------------------------------------------
(* One key *)

LEMMA Appended ==
    ASSUME NEW K, NEW s \in Seq(K), NEW x \in K
    PROVE  /\ Append(s, x) \in Seq(K) /\ ToSet(Append(s, x)) = ToSet(s) \union {x}
           /\ Distinct(s) /\ x \notin ToSet(s) => Distinct(Append(s, x))
<1> DEFINE L == Len(s)
           r == Append(s, x)
<1>1. L \in Nat /\ DOMAIN s = 1..L /\ r \in Seq(K) /\ Len(r) = L + 1
  OBVIOUS
<1>2. DOMAIN r = (1..L) \union {L + 1} /\ r[L + 1] = x /\ \A i \in 1..L : r[i] = s[i]
  OBVIOUS
<1>. HIDE DEF L, r
<1>3. ToSet(r) = ToSet(s) \union {x}
  BY <1>1, <1>2 DEF ToSet
<1>4. ASSUME Distinct(s), x \notin ToSet(s) PROVE Distinct(r)
  <2>1. \A i \in 1..L : s[i] # x
    BY <1>1, <1>4 DEF ToSet
  <2>. QED BY <1>1, <1>2, <1>4, <2>1 DEF Distinct
<1>. QED BY <1>1, <1>3, <1>4 DEF r

LEMMA OrdAdded ==
    ASSUME NEW fs, Len(fs) \in Nat \ {0}, NEW u, NEW ix \in IxOf(fs, u), Ranked(ix),
           NEW k \in KeysOf(fs), k \notin ToSet(ix.ord)
    PROVE  /\ OrdAdd(ix, k) \in IxOf(fs, u) /\ Ranked(OrdAdd(ix, k))
           /\ ToSet(OrdAdd(ix, k).ord) = ToSet(ix.ord) \union {k}
           /\ OrdAdd(ix, k).rows = ix.rows
<1> DEFINE s == ix.ord
           K == KeysOf(fs)
           places == {i \in DOMAIN s : ~OrdLess(s[i], k)}
           place == Search(s, places)
           o == IF ix.sorted THEN InsertAt(s, place, k) ELSE Append(s, k)
<1>1. s \in Seq(K) /\ ix.sorted \in BOOLEAN /\ k \in K
  BY IxParts
<1>2. OrdAdd(ix, k) = [ix EXCEPT !.ord = o]
  BY DEF OrdAdd
<1>3. Distinct(s) /\ (ix.sorted => InOrder(s)) /\ k \notin ToSet(s)
  BY DEF Ranked
<1>4. /\ o \in Seq(K) /\ Distinct(o) /\ ToSet(o) = ToSet(s) \union {k}
      /\ ix.sorted => InOrder(o)
  <2>1. CASE ~ix.sorted
    <3>1. o = Append(s, k)
      BY <2>1
    <3>. HIDE DEF s, o, K
    <3>. QED BY <1>1, <1>3, <2>1, <3>1, Appended
  <2>2. CASE ix.sorted
    <3> DEFINE L == Len(s)
    <3>1. o = InsertAt(s, place, k) /\ InOrder(s)
      BY <1>3, <2>2
    <3>2. L \in Nat /\ DOMAIN s = 1..L /\ places \in SUBSET (1..L)
      BY <1>1
    <3>3. /\ place \in 1..L + 1 /\ place \in places \union {L + 1}
          /\ \A j \in 1..L : j < place => j \notin places
      <4>. HIDE DEF s, K, places
      <4>. QED BY <1>1, <3>2, SearchFinds
    <3>4. \A j \in 1..L : IF j < place THEN OrdLess(s[j], k) ELSE OrdLess(k, s[j])
      <4>. HIDE DEF place
      <4>1. TAKE j \in 1..L
      <4>2. s[j] \in K /\ s[j] # k
        BY <1>1, <1>3, <3>2 DEF ToSet
      <4>3. CASE j < place
        BY <3>2, <3>3, <4>3
      <4>4. CASE ~(j < place)
        <5>1. place \in places /\ place \in 1..L /\ (place = j \/ place < j)
          <6>. HIDE DEF places, s
          <6>. QED BY <3>2, <3>3, <4>4
        <5>2. s[place] \in K /\ s[place] # k /\ ~OrdLess(s[place], k)
          BY <1>1, <1>3, <3>2, <5>1 DEF ToSet
        <5>. HIDE DEF places
        <5>3. OrdLess(k, s[place])
          <6>. HIDE DEF s
          <6>. QED BY <1>1, <5>2, OrdOrder
        <5>4. place = j \/ OrdLess(s[place], s[j])
          BY <3>1, <3>2, <5>1 DEF InOrder
        <5>5. OrdLess(k, s[j])
          <6>. HIDE DEF s
          <6>. QED BY <1>1, <4>2, <5>2, <5>3, <5>4, OrdOrder
        <5>. QED BY <4>4, <5>5
      <4>. QED BY <4>3, <4>4
    <3>5. o \in Seq(K) /\ Inserted(o, s, place, k)
      <4>. HIDE DEF s, K, place, o
      <4>. QED BY <1>1, <3>1, <3>3, InsertedAt
    <3>6. ToSet(o) = ToSet(s) \union {k} /\ Distinct(o)
      <4>. HIDE DEF s, K, place, o
      <4>. QED BY <1>1, <1>3, <3>3, <3>5, InsertedSet, InsertedDistinct
    <3>7. InOrder(o)
      <4>. HIDE DEF s, place, o
      <4>. QED BY <1>1, <3>1, <3>3, <3>4, <3>5, InsertedInOrder
    <3>. HIDE DEF s, o, K
    <3>. QED BY <3>5, <3>6, <3>7
  <2>. QED BY <2>1, <2>2
<1>. HIDE DEF o
<1>5. /\ OrdAdd(ix, k) \in IxOf(fs, u) /\ OrdAdd(ix, k).ord = o
      /\ OrdAdd(ix, k).rows = ix.rows /\ OrdAdd(ix, k).sorted = ix.sorted
  <2>. HIDE DEF s
  <2>1. o \in Ords(fs)
    BY <1>4 DEF Ords
  <2>. QED BY <1>2, <2>1, WithOrd
<1>. QED BY <1>4, <1>5 DEF Ranked

LEMMA OrdRemoved ==
    ASSUME NEW fs, Len(fs) \in Nat \ {0}, NEW u, NEW ix \in IxOf(fs, u), Ranked(ix),
           NEW k \in KeysOf(fs), k \in ToSet(ix.ord)
    PROVE  /\ OrdRemove(ix, k) \in IxOf(fs, u) /\ Ranked(OrdRemove(ix, k))
           /\ ToSet(OrdRemove(ix, k).ord) = ToSet(ix.ord) \ {k}
           /\ OrdRemove(ix, k).rows = ix.rows /\ OrdRemove(ix, k).matrix = ix.matrix
<1> DEFINE s == ix.ord
           K == KeysOf(fs)
           places == {i \in DOMAIN s : s[i] = k}
           place == Search(s, places)
           L == Len(s)
           o == RemoveAt(s, place)
<1>1. s \in Seq(K) /\ Distinct(s) /\ (ix.sorted => InOrder(s)) /\ k \in ToSet(s)
  BY IxParts DEF Ranked
<1>2. L \in Nat /\ DOMAIN s = 1..L /\ places \in SUBSET (1..L)
  BY <1>1
<1>3. /\ place \in 1..L + 1 /\ place \in places \union {L + 1}
      /\ \A j \in 1..L : j < place => j \notin places
  <2>. HIDE DEF s, K, places
  <2>. QED BY <1>1, <1>2, SearchFinds
<1>4. PICK i \in 1..L : i \in places
  BY <1>1, <1>2 DEF ToSet
<1>5. place \in places /\ place \in 1..L
  <2>. HIDE DEF places, place, s
  <2>. QED BY <1>2, <1>3, <1>4
<1>6. s[place] = k
  <2>. HIDE DEF place
  <2>. QED BY <1>5
<1>7. OrdRemove(ix, k) = [ix EXCEPT !.ord = o]
  <2>1. ~(place > Len(ix.ord))
    <3>. HIDE DEF place
    <3>. QED BY <1>2, <1>5
  <2>. QED BY <2>1 DEF OrdRemove
<1>8. o \in Seq(K) /\ TakenOut(o, s, place)
  <2>. HIDE DEF s, K, place
  <2>. QED BY <1>1, <1>5, TakenOutAt
<1>9. Distinct(o) /\ ToSet(o) = ToSet(s) \ {k} /\ (ix.sorted => InOrder(o))
  <2>. HIDE DEF s, K, place, o
  <2>. QED BY <1>1, <1>5, <1>6, <1>8, TakenOutKeeps
<1>. HIDE DEF o
<1>10. /\ OrdRemove(ix, k) \in IxOf(fs, u) /\ OrdRemove(ix, k).ord = o
       /\ OrdRemove(ix, k).rows = ix.rows /\ OrdRemove(ix, k).sorted = ix.sorted
       /\ OrdRemove(ix, k).matrix = ix.matrix
  <2>. HIDE DEF s
  <2>1. o \in Ords(fs)
    BY <1>8 DEF Ords
  <2>. QED BY <1>7, <2>1, WithOrd
<1>. QED BY <1>9, <1>10 DEF Ranked

LEMMA AddKeyKeeps ==
    ASSUME NEW fs, Len(fs) \in Nat \ {0}, NEW u, NEW ix \in IxOf(fs, u), Coherent(ix),
           NEW k \in KeysOf(fs), NEW id \in Key, u => \A r \in ix.rows : r.key = k => r.id = id
    PROVE  /\ AddKey(ix, k, id) \in IxOf(fs, u) /\ Coherent(AddKey(ix, k, id))
           /\ AddKey(ix, k, id).rows = ix.rows \union {[key |-> k, id |-> id]}
<1> DEFINE new == [key |-> k, id |-> id]
           known == IF IdsOf(ix, k) = {} THEN OrdAdd(ix, k) ELSE ix
           R == {r \in ix.rows : ~(ix.unique /\ r.key = k)} \union {new}
           a == AddKey(ix, k, id)
<1>1. /\ Ranked(ix) /\ ToSet(ix.ord) = KeysIn(ix.rows)
      /\ ix.unique = u /\ ix.rows \in SUBSET Row(fs)
  <2>1. Ranked(ix) /\ ToSet(ix.ord) = KeysIn(ix.rows)
    BY CoherentKeys
  <2>2. ix.unique = u /\ ix.rows \in SUBSET Row(fs)
    BY IxRows
  <2>. QED BY <2>1, <2>2
<1>2. new \in Row(fs) /\ new.key = k
  BY DEF Row
<1>3. /\ known \in IxOf(fs, u) /\ Ranked(known) /\ known.rows = ix.rows
      /\ ToSet(known.ord) = ToSet(ix.ord) \union {k}
  <2>1. CASE IdsOf(ix, k) = {}
    <3>1. k \notin ToSet(ix.ord)
      BY <1>1, <2>1, NoIds
    <3>. QED BY <1>1, <2>1, <3>1, OrdAdded
  <2>2. CASE IdsOf(ix, k) # {}
    <3>1. k \in ToSet(ix.ord)
      BY <1>1, <2>2, NoIds
    <3>. QED BY <1>1, <2>2, <3>1
  <2>. QED BY <2>1, <2>2
<1>4. a = WithRows(known, R)
  BY DEF AddKey, WithRows
<1>5. R = ix.rows \union {new}
  <2>. HIDE DEF new
  <2>1. \A r \in ix.rows : u /\ r.key = k => r = new
    BY <1>1, RowIs DEF new
  <2>. QED BY <1>1, <2>1
<1>6. KeysIn(R) = KeysIn(ix.rows) \union {k} /\ R \in SUBSET Row(fs)
  <2>. HIDE DEF new, R
  <2>. QED BY <1>1, <1>2, <1>5 DEF KeysIn
<1>. HIDE DEF known, R
<1>7. /\ a \in IxOf(fs, u) /\ a.ord = known.ord /\ a.rows = R /\ a.sorted = known.sorted
      /\ a.matrix = <<>>
  <2>. HIDE DEF a
  <2>. QED BY <1>3, <1>4, <1>6, RowsReplaced
<1>8. Ranked(a) /\ ToSet(a.ord) = KeysIn(a.rows)
  <2>. HIDE DEF a
  <2>. QED BY <1>1, <1>3, <1>6, <1>7 DEF Ranked
<1>9. Coherent(a)
  <2>. HIDE DEF a
  <2>. QED BY <1>7, <1>8, CoherentPlain
<1>. QED BY <1>5, <1>7, <1>9

LEMMA RemoveKeyKeeps ==
    ASSUME NEW fs, Len(fs) \in Nat \ {0}, NEW u, NEW ix \in IxOf(fs, u), Coherent(ix),
           NEW k \in KeysOf(fs), NEW id \in Key
    PROVE  /\ RemoveKey(ix, k, id) \in IxOf(fs, u) /\ Coherent(RemoveKey(ix, k, id))
           /\ RemoveKey(ix, k, id).rows = ix.rows \ {[key |-> k, id |-> id]}
<1> DEFINE old == [key |-> k, id |-> id]
           R == ix.rows \ {old}
           left == WithRows(ix, R)
           a == RemoveKey(ix, k, id)
<1>1. /\ Ranked(ix) /\ ToSet(ix.ord) = KeysIn(ix.rows)
      /\ ix.unique = u /\ ix.rows \in SUBSET Row(fs)
  <2>1. Ranked(ix) /\ ToSet(ix.ord) = KeysIn(ix.rows)
    BY CoherentKeys
  <2>2. ix.unique = u /\ ix.rows \in SUBSET Row(fs)
    BY IxRows
  <2>. QED BY <2>1, <2>2
<1>2. R \in SUBSET Row(fs) /\ old.key = k
  BY <1>1
<1>. HIDE DEF old
<1>3. /\ left \in IxOf(fs, u) /\ left.ord = ix.ord /\ left.rows = R
      /\ left.sorted = ix.sorted /\ left.matrix = <<>>
  <2>. HIDE DEF R
  <2>. QED BY <1>2, RowsReplaced
<1>4. Ranked(left)
  <2>. HIDE DEF left
  <2>. QED BY <1>1, <1>3 DEF Ranked
<1>5. a = IF IdsOf(ix, k) # {} /\ IdsOf(left, k) = {} THEN OrdRemove(left, k) ELSE left
  BY DEF RemoveKey, WithRows, old
<1>. HIDE DEF left, a
<1>6. CASE IdsOf(ix, k) # {} /\ IdsOf(left, k) = {}
  <2>1. k \in ToSet(left.ord)
    BY <1>1, <1>3, <1>6, NoIds
  <2>2. /\ a \in IxOf(fs, u) /\ Ranked(a) /\ a.rows = R /\ a.matrix = <<>>
        /\ ToSet(a.ord) = ToSet(left.ord) \ {k}
    BY <1>3, <1>4, <1>5, <1>6, <2>1, OrdRemoved
  <2>3. k \notin KeysIn(R)
    BY <1>3, <1>6, NoIds
  <2>4. KeysIn(R) = KeysIn(ix.rows) \ {k}
    BY <1>2, <2>3 DEF KeysIn
  <2>5. Coherent(a)
    <3>. HIDE DEF R
    <3>. QED BY <1>1, <1>3, <2>2, <2>4, CoherentPlain
  <2>. QED BY <2>2, <2>5 DEF old, a
<1>7. CASE ~(IdsOf(ix, k) # {} /\ IdsOf(left, k) = {})
  <2>1. a = left
    BY <1>5, <1>7
  <2>2. KeysIn(R) = KeysIn(ix.rows)
    <3>1. CASE IdsOf(ix, k) = {}
      <4>1. k \notin KeysIn(ix.rows)
        BY <3>1, NoIds
      <4>. QED BY <1>2, <4>1 DEF KeysIn
    <3>2. CASE IdsOf(left, k) # {}
      <4>1. k \in KeysIn(R)
        BY <1>3, <3>2, NoIds
      <4>. QED BY <1>2, <4>1 DEF KeysIn
    <3>. QED BY <1>7, <3>1, <3>2
  <2>3. Coherent(a)
    <3>. HIDE DEF R
    <3>. QED BY <1>1, <1>3, <1>4, <2>1, <2>2, CoherentPlain
  <2>. QED BY <1>3, <2>1, <2>3 DEF old, a
<1>. QED BY <1>6, <1>7

-----------------------------------------------------------------------------
(* The keys of a document, one after the other *)

\* The rows of the keys S of a document.
RowsBy(S, id) == {[key |-> k, id |-> id] : k \in S}

LEMMA AddKeysKeeps ==
    ASSUME NEW fs, Len(fs) \in Nat \ {0}, NEW u, NEW ix \in IxOf(fs, u), Coherent(ix),
           NEW ks \in Seq(KeysOf(fs)), NEW id \in Key,
           u => \A r \in ix.rows : r.key \in ToSet(ks) => r.id = id
    PROVE  /\ AddKeys(ix, ks, id) \in IxOf(fs, u) /\ Coherent(AddKeys(ix, ks, id))
           /\ AddKeys(ix, ks, id).rows = ix.rows \union RowsBy(ToSet(ks), id)
<1> DEFINE L == Len(ks)
           A == {x \in IxOf(fs, u) : Coherent(x) /\ (u => \A r \in x.rows : r.key \in ToSet(ks) => r.id = id)}
           f == CHOOSE f : f = [m \in 0..L |-> IF m = 0 THEN ix ELSE AddKey(f[m - 1], ks[m], id)]
<1>1. L \in Nat /\ DOMAIN ks = 1..L /\ (\A m \in 1..L : ks[m] \in KeysOf(fs) /\ ks[m] \in ToSet(ks))
  BY DEF ToSet
<1>. HIDE DEF L
<1>2. ASSUME NEW x \in A, NEW m \in 1..L
      PROVE  AddKey(x, ks[m], id) \in A /\ AddKey(x, ks[m], id).rows = x.rows \union {[key |-> ks[m], id |-> id]}
  <2> DEFINE y == AddKey(x, ks[m], id)
             k == ks[m]
  <2>1. /\ x \in IxOf(fs, u) /\ Coherent(x) /\ k \in KeysOf(fs)
        /\ u => \A r \in x.rows : r.key \in ToSet(ks) => r.id = id
        /\ u => \A r \in x.rows : r.key = k => r.id = id
    BY <1>1
  <2>2. y \in IxOf(fs, u) /\ Coherent(y) /\ y.rows = x.rows \union {[key |-> k, id |-> id]}
    <3>. HIDE DEF k, A
    <3>. QED BY <2>1, AddKeyKeeps DEF k
  <2>. HIDE DEF y
  <2>3. u => \A r \in y.rows : r.key \in ToSet(ks) => r.id = id
    BY <2>1, <2>2
  <2>. QED BY <2>2, <2>3 DEF y
<1>3. ix \in A
  OBVIOUS
<1>. HIDE DEF A
<1>4. /\ f[0] = ix /\ \A m \in 0..L : f[m] \in A
      /\ \A m \in 0..L : m # 0 => f[m] = AddKey(f[m - 1], ks[m], id)
  <2> DEFINE step == [m \in 1..L |-> [x \in A |-> AddKey(x, ks[m], id)]]
  <2>1. Steps(step, L, A)
    BY <1>2 DEF Steps
  <2>2. PICK g : Goes(g, L, A, ix, step)
    <3>. HIDE DEF step
    <3>. QED BY <1>1, <1>3, <2>1, Run
  <2>3. g \in [0..L -> A] /\ g[0] = ix /\ \A m \in 1..L : g[m] = step[m][g[m - 1]]
    <3>. HIDE DEF step
    <3>. QED BY <2>2, Goings
  <2>4. \A m \in 1..L : m - 1 \in 0..L
    BY <1>1
  <2>5. ASSUME NEW m \in 1..L PROVE g[m] = AddKey(g[m - 1], ks[m], id)
    <3>1. g[m - 1] \in A
      BY <2>3, <2>4
    <3>. QED BY <2>3, <3>1
  <2>. HIDE DEF step
  <2>6. (\A m \in 0..L : m # 0 => m \in 1..L) /\ 0 \in 0..L
    BY <1>1
  <2>7. g = [m \in 0..L |-> IF m = 0 THEN ix ELSE AddKey(g[m - 1], ks[m], id)]
    BY <2>3, <2>5, <2>6
  <2>8. f = [m \in 0..L |-> IF m = 0 THEN ix ELSE AddKey(f[m - 1], ks[m], id)]
    BY <2>7, Zenon
  <2>. HIDE DEF f
  <2>9. f[0] = ix /\ \A m \in 0..L : m # 0 => f[m] = AddKey(f[m - 1], ks[m], id)
    BY <2>6, <2>8
  <2> DEFINE T == {m \in 0..L : f[m] \in A}
  <2>10. 0 \in T
    BY <1>3, <2>6, <2>9
  <2>11. ASSUME NEW m \in 0..L, m # 0, m - 1 \in T PROVE m \in T
    BY <1>2, <2>6, <2>9, <2>11
  <2>12. 0..L \subseteq T
    <3>. HIDE DEF T
    <3>. QED BY <1>1, <2>10, <2>11, AllTheWay
  <2>. QED BY <2>9, <2>12
<1>5. AddKeys(ix, ks, id) = f[L]
  BY Zenon DEF AddKeys, f, L
<1>. HIDE DEF f
<1> DEFINE T == {m \in 0..L : f[m].rows = ix.rows \union RowsBy(FirstOf(ks, m), id)}
<1>6. 0 \in T
  <2>1. FirstOf(ks, 0) = {} /\ 0 \in 0..L
    BY <1>1, FirstOfAll
  <2>2. RowsBy({}, id) = {}
    BY DEF RowsBy
  <2>. QED BY <1>4, <2>1, <2>2
<1>7. ASSUME NEW m \in 0..L, m # 0, m - 1 \in T PROVE m \in T
  <2>1. m \in 1..L /\ m - 1 \in 0..L
    BY <1>1, <1>7
  <2>2. f[m].rows = f[m - 1].rows \union {[key |-> ks[m], id |-> id]}
    BY <1>2, <1>4, <1>7, <2>1
  <2>3. FirstOf(ks, m) = FirstOf(ks, m - 1) \union {ks[m]}
    BY <1>7, FirstOfNext DEF L
  <2>4. RowsBy(FirstOf(ks, m), id) = RowsBy(FirstOf(ks, m - 1), id) \union {[key |-> ks[m], id |-> id]}
    BY <2>3 DEF RowsBy
  <2>5. f[m - 1].rows = ix.rows \union RowsBy(FirstOf(ks, m - 1), id)
    BY <1>7
  <2>. QED BY <2>2, <2>4, <2>5
<1>8. L \in T
  <2>1. 0..L \subseteq T
    <3>. HIDE DEF T
    <3>. QED BY <1>1, <1>6, <1>7, AllTheWay
  <2>. QED BY <1>1, <2>1
<1>9. FirstOf(ks, L) = ToSet(ks)
  BY FirstOfAll DEF L
<1>10. f[L] \in A
  BY <1>1, <1>4
<1>. QED BY <1>5, <1>8, <1>9, <1>10 DEF A

LEMMA RemoveKeysKeeps ==
    ASSUME NEW fs, Len(fs) \in Nat \ {0}, NEW u, NEW ix \in IxOf(fs, u), Coherent(ix),
           NEW ks \in Seq(KeysOf(fs)), NEW id \in Key
    PROVE  /\ RemoveKeys(ix, ks, id) \in IxOf(fs, u) /\ Coherent(RemoveKeys(ix, ks, id))
           /\ RemoveKeys(ix, ks, id).rows = ix.rows \ RowsBy(ToSet(ks), id)
<1> DEFINE L == Len(ks)
           A == {x \in IxOf(fs, u) : Coherent(x)}
           f == CHOOSE f : f = [m \in 0..L |-> IF m = 0 THEN ix ELSE RemoveKey(f[m - 1], ks[m], id)]
<1>1. L \in Nat /\ DOMAIN ks = 1..L /\ (\A m \in 1..L : ks[m] \in KeysOf(fs) /\ ks[m] \in ToSet(ks))
  BY DEF ToSet
<1>. HIDE DEF L
<1>2. ASSUME NEW x \in A, NEW m \in 1..L
      PROVE  RemoveKey(x, ks[m], id) \in A /\ RemoveKey(x, ks[m], id).rows = x.rows \ {[key |-> ks[m], id |-> id]}
  <2> DEFINE k == ks[m]
  <2>1. x \in IxOf(fs, u) /\ Coherent(x) /\ k \in KeysOf(fs)
    BY <1>1
  <2>2. /\ RemoveKey(x, k, id) \in IxOf(fs, u) /\ Coherent(RemoveKey(x, k, id))
        /\ RemoveKey(x, k, id).rows = x.rows \ {[key |-> k, id |-> id]}
    <3>. HIDE DEF k, A
    <3>. QED BY <2>1, RemoveKeyKeeps
  <2>. QED BY <2>2
<1>3. ix \in A
  OBVIOUS
<1>. HIDE DEF A
<1>4. /\ f[0] = ix /\ \A m \in 0..L : f[m] \in A
      /\ \A m \in 0..L : m # 0 => f[m] = RemoveKey(f[m - 1], ks[m], id)
  <2> DEFINE step == [m \in 1..L |-> [x \in A |-> RemoveKey(x, ks[m], id)]]
  <2>1. Steps(step, L, A)
    BY <1>2 DEF Steps
  <2>2. PICK g : Goes(g, L, A, ix, step)
    <3>. HIDE DEF step
    <3>. QED BY <1>1, <1>3, <2>1, Run
  <2>3. g \in [0..L -> A] /\ g[0] = ix /\ \A m \in 1..L : g[m] = step[m][g[m - 1]]
    <3>. HIDE DEF step
    <3>. QED BY <2>2, Goings
  <2>4. \A m \in 1..L : m - 1 \in 0..L
    BY <1>1
  <2>5. ASSUME NEW m \in 1..L PROVE g[m] = RemoveKey(g[m - 1], ks[m], id)
    <3>1. g[m - 1] \in A
      BY <2>3, <2>4
    <3>. QED BY <2>3, <3>1
  <2>. HIDE DEF step
  <2>6. (\A m \in 0..L : m # 0 => m \in 1..L) /\ 0 \in 0..L
    BY <1>1
  <2>7. g = [m \in 0..L |-> IF m = 0 THEN ix ELSE RemoveKey(g[m - 1], ks[m], id)]
    BY <2>3, <2>5, <2>6
  <2>8. f = [m \in 0..L |-> IF m = 0 THEN ix ELSE RemoveKey(f[m - 1], ks[m], id)]
    BY <2>7, Zenon
  <2>. HIDE DEF f
  <2>9. f[0] = ix /\ \A m \in 0..L : m # 0 => f[m] = RemoveKey(f[m - 1], ks[m], id)
    BY <2>6, <2>8
  <2> DEFINE T == {m \in 0..L : f[m] \in A}
  <2>10. 0 \in T
    BY <1>3, <2>6, <2>9
  <2>11. ASSUME NEW m \in 0..L, m # 0, m - 1 \in T PROVE m \in T
    BY <1>2, <2>6, <2>9, <2>11
  <2>12. 0..L \subseteq T
    <3>. HIDE DEF T
    <3>. QED BY <1>1, <2>10, <2>11, AllTheWay
  <2>. QED BY <2>9, <2>12
<1>5. RemoveKeys(ix, ks, id) = f[L]
  BY Zenon DEF RemoveKeys, f, L
<1>. HIDE DEF f
<1> DEFINE T == {m \in 0..L : f[m].rows = ix.rows \ RowsBy(FirstOf(ks, m), id)}
<1>6. 0 \in T
  <2>1. FirstOf(ks, 0) = {} /\ 0 \in 0..L
    BY <1>1, FirstOfAll
  <2>2. RowsBy({}, id) = {}
    BY DEF RowsBy
  <2>. QED BY <1>4, <2>1, <2>2
<1>7. ASSUME NEW m \in 0..L, m # 0, m - 1 \in T PROVE m \in T
  <2>1. m \in 1..L /\ m - 1 \in 0..L
    BY <1>1, <1>7
  <2>2. f[m].rows = f[m - 1].rows \ {[key |-> ks[m], id |-> id]}
    BY <1>2, <1>4, <1>7, <2>1
  <2>3. FirstOf(ks, m) = FirstOf(ks, m - 1) \union {ks[m]}
    BY <1>7, FirstOfNext DEF L
  <2>4. RowsBy(FirstOf(ks, m), id) = RowsBy(FirstOf(ks, m - 1), id) \union {[key |-> ks[m], id |-> id]}
    BY <2>3 DEF RowsBy
  <2>5. f[m - 1].rows = ix.rows \ RowsBy(FirstOf(ks, m - 1), id)
    BY <1>7
  <2>. QED BY <2>2, <2>4, <2>5
<1>8. L \in T
  <2>1. 0..L \subseteq T
    <3>. HIDE DEF T
    <3>. QED BY <1>1, <1>6, <1>7, AllTheWay
  <2>. QED BY <1>1, <2>1
<1>9. FirstOf(ks, L) = ToSet(ks)
  BY FirstOfAll DEF L
<1>10. f[L] \in A
  BY <1>1, <1>4
<1>. QED BY <1>5, <1>8, <1>9, <1>10 DEF A

-----------------------------------------------------------------------------
(* A document in and out of an index *)

LEMMA ConflictsAre ==
    ASSUME NEW fs, NEW u, NEW ix \in IxOf(fs, u), NEW d, NEW id
    PROVE  Conflicts(ix, d, id) <=> u /\ \E r \in ix.rows : r.key \in RowsOf(d, fs) /\ r.id # id
<1>1. ix.fields = fs /\ ix.unique = u
  BY IxRows
<1>2. \A k : IdsOf(ix, k) \subseteq {id} <=> \A r \in ix.rows : r.key = k => r.id = id
  BY OnlyId
<1>. QED BY <1>1, <1>2 DEF Conflicts

LEMMA KeysAsList ==
    ASSUME NEW d \in Contents, NEW fs \in Seq(STRING) \ {<<>>}
    PROVE  SetToSeq(RowsOf(d, fs)) \in Seq(KeysOf(fs)) /\ ToSet(SetToSeq(RowsOf(d, fs))) = RowsOf(d, fs)
<1> DEFINE S == RowsOf(d, fs)
           K == KeysOf(fs)
           s == SetToSeq(S)
<1>1. S \in SUBSET K /\ IsFiniteSet(S)
  BY DocumentKeys
<1>. HIDE DEF S, K
<1>2. s \in Seq(S) /\ ToSet(s) = S
  BY <1>1, SetToSeqLists DEF Lists
<1>. HIDE DEF s
<1>3. s \in Seq(K)
  BY <1>1, <1>2
<1>. QED BY <1>2, <1>3 DEF s, S, K

\* AddDoc (index.go:133-167) adds the keys of the document or, if one of them is
\* another document's in a unique index, nothing; rows, keys and flat view go on
\* agreeing.
THEOREM AddDocKeeps ==
    ASSUME NEW fs \in Seq(STRING) \ {<<>>}, NEW u, NEW ix \in IxOf(fs, u), Coherent(ix),
           NEW d \in Contents, NEW id \in Key
    PROVE  /\ AddDoc(ix, d, id) \in IxOf(fs, u) /\ Coherent(AddDoc(ix, d, id))
           /\ Conflicts(ix, d, id) => AddDoc(ix, d, id).rows = ix.rows
           /\ ~Conflicts(ix, d, id) =>
                 AddDoc(ix, d, id).rows = ix.rows \union RowsBy(RowsOf(d, fs), id)
<1>1. CASE Conflicts(ix, d, id)
  BY <1>1 DEF AddDoc
<1>2. CASE ~Conflicts(ix, d, id)
  <2> DEFINE ks == SetToSeq(RowsOf(d, fs))
  <2>1. ks \in Seq(KeysOf(fs)) /\ ToSet(ks) = RowsOf(d, fs)
    BY KeysAsList
  <2>2. AddDoc(ix, d, id) = AddKeys(ix, ks, id)
    BY <1>2, IxRows DEF AddDoc
  <2>3. Len(fs) \in Nat \ {0}
    BY FieldsAre
  <2>. HIDE DEF ks
  <2>4. u => \A r \in ix.rows : r.key \in ToSet(ks) => r.id = id
    <3>1. ~(u /\ \E r \in ix.rows : r.key \in RowsOf(d, fs) /\ r.id # id)
      BY <1>2, ConflictsAre
    <3>. QED BY <2>1, <3>1
  <2>5. /\ AddKeys(ix, ks, id) \in IxOf(fs, u) /\ Coherent(AddKeys(ix, ks, id))
        /\ AddKeys(ix, ks, id).rows = ix.rows \union RowsBy(ToSet(ks), id)
    BY <2>1, <2>3, <2>4, AddKeysKeeps
  <2>. QED BY <1>2, <2>1, <2>2, <2>5
<1>. QED BY <1>1, <1>2

\* RemoveDoc (index.go:204-219) takes out the rows of the document and no others;
\* rows, keys and flat view go on agreeing.
THEOREM RemoveDocKeeps ==
    ASSUME NEW fs \in Seq(STRING) \ {<<>>}, NEW u, NEW ix \in IxOf(fs, u), Coherent(ix),
           NEW d \in Contents, NEW id \in Key
    PROVE  /\ RemoveDoc(ix, d, id) \in IxOf(fs, u) /\ Coherent(RemoveDoc(ix, d, id))
           /\ RemoveDoc(ix, d, id).rows = ix.rows \ RowsBy(RowsOf(d, fs), id)
<1> DEFINE ks == SetToSeq(RowsOf(d, fs))
<1>1. ks \in Seq(KeysOf(fs)) /\ ToSet(ks) = RowsOf(d, fs)
  BY KeysAsList
<1>2. RemoveDoc(ix, d, id) = RemoveKeys(ix, ks, id)
  BY IxRows DEF RemoveDoc
<1>3. Len(fs) \in Nat \ {0}
  BY FieldsAre
<1>. HIDE DEF ks
<1>4. /\ RemoveKeys(ix, ks, id) \in IxOf(fs, u) /\ Coherent(RemoveKeys(ix, ks, id))
      /\ RemoveKeys(ix, ks, id).rows = ix.rows \ RowsBy(ToSet(ks), id)
  BY <1>1, <1>3, RemoveKeysKeeps
<1>. QED BY <1>1, <1>2, <1>4

LEMMA NewIndexIs ==
    ASSUME NEW fs, NEW u
    PROVE  /\ NewIndex(fs, u) \in IxOf(fs, u) /\ Coherent(NewIndex(fs, u))
           /\ NewIndex(fs, u).rows = {}
<1> DEFINE none == <<>>
           ix == NewIndex(fs, u)
<1>1. none \in Ords(fs) /\ none \in Flats(fs) /\ DOMAIN none = {}
  BY DEF Ords, Flats
<1>2. /\ ix.ord = none /\ ix.matrix = none /\ ix.rows = {} /\ ix.sorted = FALSE
  BY DEF NewIndex
<1>3. ix \in IxOf(fs, u)
  <2>. HIDE DEF none
  <2>1. ix = [fields |-> fs, unique |-> u, rows |-> {}, ord |-> none, sorted |-> FALSE, matrix |-> none]
    BY DEF NewIndex, none
  <2>. QED BY <1>1, <2>1 DEF IxOf
<1>. HIDE DEF ix
<1>4. Ranked(ix) /\ ToSet(ix.ord) = KeysIn(ix.rows)
  <2>1. Distinct(none)
    BY <1>1 DEF Distinct
  <2>2. ToSet(none) = {}
    BY <1>1 DEF ToSet
  <2>3. KeysIn({}) = {}
    BY DEF KeysIn
  <2>. HIDE DEF none
  <2>. QED BY <1>2, <2>1, <2>2, <2>3 DEF Ranked
<1>5. Coherent(ix)
  BY <1>2, <1>4, CoherentPlain
<1>. QED BY <1>2, <1>3, <1>5 DEF ix

-----------------------------------------------------------------------------
(* Sorting, serializing and reading an index *)

WithOrder(ix, o) == [ix EXCEPT !.ord = o, !.sorted = TRUE]

LEMMA OrderReplaced ==
    ASSUME NEW fs, NEW u, NEW ix \in IxOf(fs, u), NEW o \in Ords(fs)
    PROVE  /\ WithOrder(ix, o) \in IxOf(fs, u)
           /\ WithOrder(ix, o).ord = o
           /\ WithOrder(ix, o).rows = ix.rows
           /\ WithOrder(ix, o).sorted
           /\ WithOrder(ix, o).matrix = ix.matrix
BY DEF IxOf, WithOrder

LEMMA EnsureOrdKeeps ==
    ASSUME NEW fs, Len(fs) \in Nat \ {0}, NEW u, NEW ix \in IxOf(fs, u), Coherent(ix)
    PROVE  /\ EnsureOrd(ix) \in IxOf(fs, u) /\ Coherent(EnsureOrd(ix))
           /\ EnsureOrd(ix).rows = ix.rows /\ EnsureOrd(ix).sorted
<1>1. CASE ix.sorted
  BY <1>1 DEF EnsureOrd
<1>2. CASE ~ix.sorted
  <2> DEFINE o == StableSort(ix.ord, OrdLess)
             r == WithOrder(ix, o)
  <2>1. Ranked(ix) /\ ToSet(ix.ord) = KeysIn(ix.rows) /\ (ix.matrix # <<>> => ix.sorted)
    BY CoherentKeys
  <2>2. ix.ord \in Seq(KeysOf(fs)) /\ Distinct(ix.ord)
    BY <2>1, IxParts DEF Ranked
  <2>3. o \in Seq(KeysOf(fs)) /\ ToSet(o) = ToSet(ix.ord) /\ InOrder(o)
    BY <2>2, SortedKeys
  <2>4. EnsureOrd(ix) = r
    BY <1>2 DEF EnsureOrd, WithOrder
  <2>. HIDE DEF o
  <2>5. /\ r \in IxOf(fs, u) /\ r.ord = o /\ r.rows = ix.rows /\ r.sorted
        /\ r.matrix = ix.matrix
    <3>1. o \in Ords(fs)
      BY <2>3 DEF Ords
    <3>. QED BY <3>1, OrderReplaced
  <2>. HIDE DEF r
  <2>6. Distinct(o)
    <3>1. o \in Seq(KeysOf(fs)) /\ Len(fs) \in Nat \ {0} /\ InOrder(o)
      BY <2>3
    <3>. QED BY <3>1, OrderedDistinct
  <2>7. Ranked(r) /\ ToSet(r.ord) = KeysIn(r.rows)
    BY <2>1, <2>3, <2>5, <2>6 DEF Ranked
  <2>8. r.matrix = <<>>
    BY <1>2, <2>1, <2>5
  <2>9. Coherent(r)
    BY <2>7, <2>8, CoherentPlain
  <2>. QED BY <2>4, <2>5, <2>9
<1>. QED BY <1>1, <1>2

LEMMA IdsListed ==
    ASSUME NEW fs, NEW u, NEW ix \in IxOf(fs, u), NEW k
    PROVE  SetAsc(IdsOf(ix, k)) \in Seq(Key) /\ ToSet(SetAsc(IdsOf(ix, k))) = IdsOf(ix, k)
<1> DEFINE S == IdsOf(ix, k)
           s == SetAsc(S)
<1>1. N \in Nat /\ Key = 1..N
  BY DocumentsAssumption DEF Key
<1>2. S \in SUBSET Key
  BY IxRows, RowIs DEF IdsOf
<1>3. IsFiniteSet(Key) /\ Key \in SUBSET Nat
  BY <1>1, FS_Interval
<1>. HIDE DEF S
<1>4. IsFiniteSet(S) /\ S \in SUBSET Nat
  BY <1>2, <1>3, FS_Subset
<1>5. s \in Seq(S) /\ ToSet(s) = S
  BY <1>4, SetAscLists DEF Lists
<1>. HIDE DEF s
<1>6. s \in Seq(Key)
  BY <1>2, <1>5
<1>. QED BY <1>5, <1>6 DEF s, S

LEMMA FlatTyped ==
    ASSUME NEW fs, NEW u, NEW ix \in IxOf(fs, u)
    PROVE  FlatOf(ix) \in Flats(fs) /\ DOMAIN FlatOf(ix) = DOMAIN ix.ord
<1> DEFINE s == ix.ord
           M == [key : KeysOf(fs), ids : Seq(Key)]
           L == Len(s)
           m == FlatOf(ix)
<1>1. s \in Seq(KeysOf(fs))
  BY IxParts
<1>2. L \in Nat /\ DOMAIN s = 1..L /\ \A i \in 1..L : s[i] \in KeysOf(fs)
  BY <1>1
<1>3. m = [i \in 1..L |-> [key |-> s[i], ids |-> SetAsc(IdsOf(ix, s[i]))]]
  BY <1>2 DEF FlatOf
<1>. HIDE DEF s, L, m
<1>4. \A i \in 1..L : SetAsc(IdsOf(ix, s[i])) \in Seq(Key)
  BY IdsListed
<1>5. m \in [1..L -> M]
  BY <1>2, <1>3, <1>4
<1>. HIDE DEF M
<1>6. m \in Seq(M) /\ DOMAIN m = 1..L
  BY <1>2, <1>5, SeqOfFunction
<1>. QED BY <1>2, <1>6 DEF m, M, s, Flats

WithFlat(ix, m) == [ix EXCEPT !.matrix = m]

LEMMA FlatReplaced ==
    ASSUME NEW fs, NEW u, NEW ix \in IxOf(fs, u),
           NEW m \in Flats(fs)
    PROVE  /\ WithFlat(ix, m) \in IxOf(fs, u)
           /\ WithFlat(ix, m).ord = ix.ord
           /\ WithFlat(ix, m).rows = ix.rows
           /\ WithFlat(ix, m).sorted = ix.sorted
           /\ WithFlat(ix, m).matrix = m
BY DEF IxOf, WithFlat

LEMMA SameFlat ==
    ASSUME NEW a, NEW b, a.rows = b.rows, a.ord = b.ord
    PROVE  FlatOf(a) = FlatOf(b)
BY DEF FlatOf, IdsOf

LEMMA SerializedKeeps ==
    ASSUME NEW fs, Len(fs) \in Nat \ {0}, NEW u, NEW ix \in IxOf(fs, u), Coherent(ix)
    PROVE  /\ Serialized(ix) \in IxOf(fs, u) /\ Coherent(Serialized(ix))
           /\ Serialized(ix).rows = ix.rows /\ Serialized(ix).sorted
           /\ Serialized(ix).matrix = FlatOf(Serialized(ix))
<1> DEFINE s == EnsureOrd(ix)
           r == Serialized(ix)
           m == FlatOf(s)
<1>1. s \in IxOf(fs, u) /\ Coherent(s) /\ s.rows = ix.rows /\ s.sorted
  BY EnsureOrdKeeps
<1>2. r = WithFlat(s, m)
  BY DEF Serialized, FlatOf, WithFlat
<1>. HIDE DEF s, r
<1>3. m \in Flats(fs)
  BY <1>1, FlatTyped
<1>. HIDE DEF m
<1>4. /\ r \in IxOf(fs, u) /\ r.ord = s.ord /\ r.rows = s.rows /\ r.sorted = s.sorted
      /\ r.matrix = m
  <2>1. s \in IxOf(fs, u)
    BY <1>1
  <2>. QED BY <1>2, <1>3, <2>1, FlatReplaced
<1>5. Ranked(s) /\ ToSet(s.ord) = KeysIn(s.rows)
  BY <1>1, CoherentKeys
<1>6. Ranked(r) /\ ToSet(r.ord) = KeysIn(r.rows)
  BY <1>4, <1>5 DEF Ranked
<1>7. FlatOf(r) = m
  BY <1>4, SameFlat DEF m
<1>8. Coherent(r)
  BY <1>1, <1>4, <1>6, <1>7, CoherentFlat
<1>. QED BY <1>1, <1>4, <1>7, <1>8 DEF r

\* The index that is built from what is on file of one.
Loaded(p) == LoadRows(NewIndex(p.fields, p.unique), p)

ReadIn(ix, R, o, m) == [ix EXCEPT !.rows = R, !.ord = o, !.sorted = TRUE, !.matrix = m]

RowsIn(m) == UNION {{[key |-> r.key, id |-> r.ids[j]] : j \in DOMAIN r.ids} : r \in ToSet(m)}

LEMMA AllReplaced ==
    ASSUME NEW fs, NEW u, NEW ix \in IxOf(fs, u), NEW R \in SUBSET Row(fs),
           NEW o \in Ords(fs), NEW m \in Flats(fs)
    PROVE  /\ ReadIn(ix, R, o, m) \in IxOf(fs, u)
           /\ ReadIn(ix, R, o, m).ord = o
           /\ ReadIn(ix, R, o, m).rows = R
           /\ ReadIn(ix, R, o, m).sorted
           /\ ReadIn(ix, R, o, m).matrix = m
BY DEF IxOf, ReadIn

LEMMA FlatAt ==
    ASSUME NEW ix, NEW i \in DOMAIN ix.ord
    PROVE  /\ FlatOf(ix)[i].key = ix.ord[i]
           /\ FlatOf(ix)[i].ids = SetAsc(IdsOf(ix, ix.ord[i]))
BY DEF FlatOf

LEMMA RowsInFlat ==
    ASSUME NEW fs, NEW u, NEW ix \in IxOf(fs, u), Coherent(ix)
    PROVE  RowsIn(FlatOf(ix)) = ix.rows
<1> DEFINE m == FlatOf(ix)
           s == ix.ord
<1>1. DOMAIN m = DOMAIN s /\ \A i \in DOMAIN s : m[i].key = s[i] /\ ToSet(m[i].ids) = IdsOf(ix, s[i])
  BY FlatTyped, FlatAt, IdsListed
<1>2. ToSet(s) = KeysIn(ix.rows) /\ ix.rows \in SUBSET Row(fs)
  <2>1. ToSet(s) = KeysIn(ix.rows)
    BY CoherentKeys
  <2>. QED BY <2>1, IxRows
<1>. HIDE DEF m, s
<1>3. \A x : x \in RowsIn(m) <=> \E i \in DOMAIN m : \E j \in DOMAIN m[i].ids :
                                    x = [key |-> m[i].key, id |-> m[i].ids[j]]
  BY DEF RowsIn, ToSet
<1>4. \A x : x \in RowsIn(m) <=> \E i \in DOMAIN s : \E id \in IdsOf(ix, s[i]) :
                                    x = [key |-> s[i], id |-> id]
  <2>1. ASSUME NEW i \in DOMAIN s, NEW x
        PROVE  (\E j \in DOMAIN m[i].ids : x = [key |-> m[i].key, id |-> m[i].ids[j]])
                 <=> \E id \in IdsOf(ix, s[i]) : x = [key |-> s[i], id |-> id]
    <3>1. m[i].key = s[i] /\ {m[i].ids[j] : j \in DOMAIN m[i].ids} = IdsOf(ix, s[i])
      BY <1>1 DEF ToSet
    <3>. QED BY <3>1
  <2>. QED BY <1>1, <1>3, <2>1
<1>5. ASSUME NEW x \in RowsIn(m) PROVE x \in ix.rows
  <2>1. PICK i \in DOMAIN s : \E id \in IdsOf(ix, s[i]) : x = [key |-> s[i], id |-> id]
    BY <1>4
  <2>2. PICK id \in IdsOf(ix, s[i]) : x = [key |-> s[i], id |-> id]
    BY <2>1
  <2>3. PICK r \in ix.rows : r.key = s[i] /\ r.id = id
    BY <2>2 DEF IdsOf
  <2>4. r = [key |-> r.key, id |-> r.id]
    BY <1>2, RowIs
  <2>. QED BY <2>2, <2>3, <2>4
<1>6. ASSUME NEW r \in ix.rows PROVE r \in RowsIn(m)
  <2>1. r = [key |-> r.key, id |-> r.id]
    BY <1>2, RowIs
  <2>2. PICK i \in DOMAIN s : s[i] = r.key
    BY <1>2 DEF ToSet, KeysIn
  <2>3. r.id \in IdsOf(ix, s[i])
    BY <2>2 DEF IdsOf
  <2>. QED BY <1>4, <2>1, <2>2, <2>3
<1>. QED BY <1>5, <1>6 DEF m

\* The index that loadRows builds from what serializing left of one has its rows,
\* sorted, with a flat view that agrees (index.go:589-644, 702-809).
THEOREM LoadedPayload ==
    ASSUME NEW fs, Len(fs) \in Nat \ {0}, NEW u, NEW ix \in IxOf(fs, u), Coherent(ix)
    PROVE  /\ Loaded(Payload(ix)) \in IxOf(fs, u) /\ Coherent(Loaded(Payload(ix)))
           /\ Loaded(Payload(ix)).rows = ix.rows
           /\ Payload(ix).fields = fs /\ Payload(ix).unique = u
<1> DEFINE s == Serialized(ix)
           p == Payload(ix)
           blank == NewIndex(fs, u)
           R == RowsIn(p.csr)
           o == [i \in DOMAIN p.csr |-> p.csr[i].key]
           r == Loaded(p)
<1>1. s \in IxOf(fs, u) /\ Coherent(s) /\ s.rows = ix.rows /\ s.matrix = FlatOf(s)
  BY SerializedKeeps
<1>2. p.fields = fs /\ p.unique = u /\ p.csr = FlatOf(s)
  BY <1>1, IxRows DEF Payload
<1>3. r = ReadIn(blank, R, o, p.csr)
  BY <1>2 DEF Loaded, LoadRows, ReadIn, RowsIn
<1>4. blank \in IxOf(fs, u)
  BY NewIndexIs
<1>. HIDE DEF blank
<1>5. o = s.ord
  <2>. HIDE DEF s, p
  <2>1. DOMAIN p.csr = DOMAIN s.ord /\ \A i \in DOMAIN s.ord : p.csr[i].key = s.ord[i]
    BY <1>1, <1>2, FlatTyped, FlatAt
  <2>2. s.ord = [i \in DOMAIN s.ord |-> s.ord[i]]
    <3> DEFINE t == s.ord
    <3>1. t \in Seq(KeysOf(fs))
      BY <1>1, IxParts
    <3>. HIDE DEF t
    <3>2. t = [i \in DOMAIN t |-> t[i]]
      BY <3>1
    <3>. QED BY <3>2 DEF t
  <2>. QED BY <2>1, <2>2
<1>6. R = s.rows
  <2>. HIDE DEF s, p
  <2>. QED BY <1>1, <1>2, RowsInFlat
<1>. HIDE DEF R, o, r, s, p
<1>7. R \in SUBSET Row(fs) /\ o \in Ords(fs) /\ p.csr \in Flats(fs)
  <2>1. R \in SUBSET Row(fs)
    BY <1>1, <1>6, IxRows
  <2>2. o \in Ords(fs)
    BY <1>1, <1>5, IxParts DEF Ords
  <2>3. p.csr \in Flats(fs)
    BY <1>1, <1>2, FlatTyped
  <2>. QED BY <2>1, <2>2, <2>3
<1>8. r \in IxOf(fs, u) /\ r.ord = o /\ r.rows = R /\ r.sorted /\ r.matrix = p.csr
  BY <1>3, <1>4, <1>7, AllReplaced
<1>9. Ranked(r) /\ ToSet(r.ord) = KeysIn(r.rows)
  <2>1. Distinct(s.ord) /\ ToSet(s.ord) = KeysIn(s.rows)
    BY <1>1, CoherentKeys DEF Ranked
  <2>2. InOrder(s.ord)
    <3>1. s.sorted
      BY SerializedKeeps DEF s
    <3>. QED BY <1>1, <3>1, CoherentKeys DEF Ranked
  <2>. QED BY <1>5, <1>6, <1>8, <2>1, <2>2 DEF Ranked
<1>10. r.matrix = FlatOf(r)
  <2>1. FlatOf(r) = FlatOf(s)
    BY <1>5, <1>6, <1>8, SameFlat
  <2>. QED BY <1>2, <1>8, <2>1
<1>11. Coherent(r)
  BY <1>8, <1>9, <1>10, CoherentFlat
<1>. QED BY <1>1, <1>2, <1>6, <1>8, <1>11 DEF r, p

-----------------------------------------------------------------------------
(* Documents and their indexes *)


\* An index of those that can be asked for, whatever was done to it.
Ixs == UNION {IxOf(def.fields, def.unique) : def \in IndexDefs}
FineIxs == {ix \in Ixs : Coherent(ix)}

\* What is on file of an index.
OnFileOf(fs, u) == [fields : {fs}, unique : {u}, csr : Flats(fs)]
FinePayloads ==
    {p \in UNION {OnFileOf(def.fields, def.unique) : def \in IndexDefs} : Loaded(p) \in FineIxs}

Version == [id : Key, doc : Contents]

Collections == UNION {[S -> Contents] : S \in SUBSET Key}

\* What one flush leaves.
Batches ==
    {b \in [dels : SUBSET Key, docs : Seq(Version), suspect : BOOLEAN, exists : BOOLEAN,
            idx : Seq(FinePayloads)] :
        (b.idx # <<>> => b.exists) /\ IsInjective(Defs(b.idx))}

Drops == [pc : {"idle", "delete"}, todo : SUBSET Key]

Late == "dropped_late" \in exposed

OneOwner(R) == \A r, s \in R : r.key = s.key => r.id = s.id

\* Rows hold the documents ds: all their keys; of a unique index no key of two
\* of them; and, when it has been fed nothing else (pure), no other key.
RowsHold(R, ds, fs, u, pure) ==
    /\ RowsOfAll(ds, DOMAIN ds, fs) \subseteq R
    /\ u => OneOwner(R)
    /\ pure => R \subseteq RowsOfAll(ds, DOMAIN ds, fs)

Holds(ix, ds, pure) == RowsHold(ix.rows, ds, ix.fields, ix.unique, pure)

\* The file says what was saved.
FileSays ==
    /\ NewestOf(Live) = saved.docs
    /\ saved.exists = Meta.exists /\ saved.defs = Defs(Meta.idx)
    /\ saved.docs # Empty => saved.exists
    /\ \A n \in DOMAIN Meta.idx : Holds(Loaded(Meta.idx[n]), saved.docs, Clean)

\* What the file does not say yet is known to be missing there.
Pending ==
    /\ dels \intersect DOMAIN docs \subseteq dirty
    /\ \A i \in DOMAIN docs \ dirty : i \in DOMAIN saved.docs /\ saved.docs[i] = docs[i]
    /\ DOMAIN saved.docs \ DOMAIN docs \subseteq dels

Typed ==
    /\ docs \in Collections /\ saved.docs \in Collections
    /\ ixs \in Seq(FineIxs) /\ log \in Seq(Batches) /\ drop \in Drops
    /\ ~up => docs = Empty /\ ixs = <<>> /\ dirty = {} /\ dels = {}
    /\ ~up \/ ~rewrite => log # <<>>

\* The inductive invariant.
DocInv ==
    /\ TypeOK
    /\ Typed
    /\ up /\ ~Late => \A n \in DOMAIN ixs : Holds(ixs[n], docs, Clean)
    /\ log # <<>> /\ ~Late => FileSays /\ (up => Pending)

-----------------------------------------------------------------------------
(* Collections *)

LEMMA CollectionParts ==
    ASSUME NEW ds \in Collections
    PROVE  /\ DOMAIN ds \in SUBSET Key /\ \A i \in DOMAIN ds : ds[i] \in Contents
           /\ ds = [i \in DOMAIN ds |-> ds[i]]
BY DEF Collections

LEMMA CollectionIs ==
    ASSUME NEW S \in SUBSET Key, NEW ds \in [S -> Contents]
    PROVE  ds \in Collections /\ DOMAIN ds = S
BY DEF Collections

LEMMA SameCollection ==
    ASSUME NEW a \in Collections, NEW b \in Collections, DOMAIN a = DOMAIN b,
           \A i \in DOMAIN a : a[i] = b[i]
    PROVE  a = b
<1>1. a = [i \in DOMAIN a |-> a[i]] /\ b = [i \in DOMAIN b |-> b[i]]
  BY CollectionParts
<1>. QED BY <1>1

LEMMA EmptyIs ==
    /\ Empty \in Collections /\ DOMAIN Empty = {}
    /\ \A ds \in Collections : DOMAIN ds = {} => ds = Empty
<1>1. DOMAIN Empty = {} /\ Empty \in [{} -> Contents]
  BY DEF Empty
<1>2. Empty \in Collections
  BY <1>1, CollectionIs
<1>3. ASSUME NEW ds \in Collections, DOMAIN ds = {} PROVE ds = Empty
  BY <1>1, <1>2, <1>3, SameCollection
<1>. QED BY <1>1, <1>2, <1>3

LEMMA WithIs ==
    ASSUME NEW ds \in Collections, NEW i \in Key, NEW c \in Contents
    PROVE  /\ With(ds, i, c) \in Collections
           /\ DOMAIN With(ds, i, c) = DOMAIN ds \union {i}
           /\ With(ds, i, c)[i] = c
           /\ \A k \in DOMAIN ds : k # i => With(ds, i, c)[k] = ds[k]
<1> DEFINE w == With(ds, i, c)
           S == DOMAIN ds \union {i}
<1>1. S \in SUBSET Key /\ \A k \in DOMAIN ds : ds[k] \in Contents
  BY CollectionParts
<1>2. w = [k \in S |-> IF k = i THEN c ELSE ds[k]]
  BY DEF With
<1>. HIDE DEF w
<1>3. w \in [S -> Contents]
  BY <1>1, <1>2
<1>4. w \in Collections /\ DOMAIN w = S
  <2>. HIDE DEF S
  <2>. QED BY <1>1, <1>3, CollectionIs
<1>5. w[i] = c /\ \A k \in DOMAIN ds : k # i => w[k] = ds[k]
  BY <1>2
<1>. QED BY <1>4, <1>5 DEF w

LEMMA LessIs ==
    ASSUME NEW ds \in Collections, NEW i
    PROVE  /\ Less(ds, i) \in Collections /\ DOMAIN Less(ds, i) = DOMAIN ds \ {i}
           /\ \A k \in DOMAIN ds : k # i => Less(ds, i)[k] = ds[k]
<1> DEFINE w == Less(ds, i)
           S == DOMAIN ds \ {i}
<1>1. S \in SUBSET Key /\ \A k \in DOMAIN ds : ds[k] \in Contents
  BY CollectionParts
<1>2. w = [k \in S |-> ds[k]]
  BY DEF Less
<1>. HIDE DEF w
<1>3. w \in [S -> Contents]
  BY <1>1, <1>2
<1>4. w \in Collections /\ DOMAIN w = S
  <2>. HIDE DEF S
  <2>. QED BY <1>1, <1>3, CollectionIs
<1>. QED BY <1>2, <1>4 DEF w

LEMMA WithLess ==
    ASSUME NEW ds \in Collections, NEW i \in DOMAIN ds, NEW c \in Contents
    PROVE  With(Less(ds, i), i, c) = With(ds, i, c) /\ i \in Key
<1> DEFINE less == Less(ds, i)
           a == With(less, i, c)
           b == With(ds, i, c)
<1>1. i \in Key
  BY CollectionParts
<1>2. less \in Collections /\ DOMAIN less = DOMAIN ds \ {i} /\ \A k \in DOMAIN ds : k # i => less[k] = ds[k]
  BY LessIs
<1>. HIDE DEF less
<1>3. /\ a \in Collections /\ DOMAIN a = DOMAIN less \union {i} /\ a[i] = c
      /\ \A k \in DOMAIN less : k # i => a[k] = less[k]
  BY <1>1, <1>2, WithIs
<1>4. /\ b \in Collections /\ DOMAIN b = DOMAIN ds \union {i} /\ b[i] = c
      /\ \A k \in DOMAIN ds : k # i => b[k] = ds[k]
  BY <1>1, WithIs
<1>. HIDE DEF a, b
<1>5. a = b
  BY <1>2, <1>3, <1>4, SameCollection
<1>. QED BY <1>1, <1>5 DEF a, b, less

-----------------------------------------------------------------------------
(* The rows of collections *)

\* The rows of document d under the _id i.
Mine(d, fs, i) == RowsBy(RowsOf(d, fs), i)

LEMMA MineIs ==
    ASSUME NEW d, NEW fs, NEW i, NEW x
    PROVE  x \in Mine(d, fs, i) <=> \E k \in RowsOf(d, fs) : x = [key |-> k, id |-> i]
BY DEF Mine, RowsBy

LEMMA MineHas ==
    ASSUME NEW d, NEW fs, NEW i, NEW x \in Mine(d, fs, i)
    PROVE  x.id = i /\ x.key \in RowsOf(d, fs)
<1>1. PICK k \in RowsOf(d, fs) : x = [key |-> k, id |-> i]
  BY MineIs
<1>. QED BY <1>1

LEMMA AllRows ==
    ASSUME NEW ds, NEW S, NEW fs, NEW x
    PROVE  x \in RowsOfAll(ds, S, fs) <=> \E i \in S : x \in Mine(ds[i], fs, i)
BY DEF RowsOfAll, Mine, RowsBy

\* Two collections that agree on S have the same rows there.
LEMMA SameRows ==
    ASSUME NEW a, NEW b, NEW S, NEW fs, \A i \in S : a[i] = b[i]
    PROVE  RowsOfAll(a, S, fs) = RowsOfAll(b, S, fs)
BY DEF RowsOfAll

LEMMA RowsWith ==
    ASSUME NEW ds \in Collections, NEW i \in Key, NEW c \in Contents, i \notin DOMAIN ds, NEW fs
    PROVE  RowsOfAll(With(ds, i, c), DOMAIN With(ds, i, c), fs)
             = RowsOfAll(ds, DOMAIN ds, fs) \union Mine(c, fs, i)
<1> DEFINE w == With(ds, i, c)
           A == RowsOfAll(w, DOMAIN w, fs)
           B == RowsOfAll(ds, DOMAIN ds, fs)
<1>1. DOMAIN w = DOMAIN ds \union {i} /\ w[i] = c /\ \A k \in DOMAIN ds : w[k] = ds[k]
  <2>1. /\ DOMAIN w = DOMAIN ds \union {i} /\ w[i] = c
        /\ \A k \in DOMAIN ds : k # i => w[k] = ds[k]
    BY WithIs
  <2>. HIDE DEF w
  <2>. QED BY <2>1
<1>. HIDE DEF w
<1>2. \A x : x \in A <=> \E k \in DOMAIN w : x \in Mine(w[k], fs, k)
  BY AllRows
<1>3. \A x : x \in B <=> \E k \in DOMAIN ds : x \in Mine(ds[k], fs, k)
  BY AllRows
<1>. HIDE DEF A, B
<1>4. \A x : x \in A <=> x \in B \/ x \in Mine(c, fs, i)
  BY <1>1, <1>2, <1>3
<1>5. A = B \union Mine(c, fs, i)
  BY <1>4
<1>. QED BY <1>5 DEF A, B, w

\* Taking i out takes its rows out, and no other document has one of them.
LEMMA RowsLess ==
    ASSUME NEW ds \in Collections, NEW i, NEW fs
    PROVE  /\ RowsOfAll(Less(ds, i), DOMAIN Less(ds, i), fs) \subseteq RowsOfAll(ds, DOMAIN ds, fs)
           /\ i \in DOMAIN ds =>
                 RowsOfAll(Less(ds, i), DOMAIN Less(ds, i), fs)
                   = RowsOfAll(ds, DOMAIN ds, fs) \ Mine(ds[i], fs, i)
<1> DEFINE w == Less(ds, i)
           A == RowsOfAll(w, DOMAIN w, fs)
           B == RowsOfAll(ds, DOMAIN ds, fs)
<1>1. DOMAIN w = DOMAIN ds \ {i} /\ \A k \in DOMAIN ds : k # i => w[k] = ds[k]
  BY LessIs
<1>. HIDE DEF w
<1>2. \A x : x \in A <=> \E k \in DOMAIN w : x \in Mine(w[k], fs, k)
  BY AllRows
<1>3. \A x : x \in B <=> \E k \in DOMAIN ds : x \in Mine(ds[k], fs, k)
  BY AllRows
<1>. HIDE DEF A, B
<1>4. \A x : x \in A <=> \E k \in DOMAIN ds \ {i} : x \in Mine(ds[k], fs, k)
  BY <1>1, <1>2
<1>5. A \subseteq B
  BY <1>3, <1>4
<1>6. ASSUME i \in DOMAIN ds PROVE A = B \ Mine(ds[i], fs, i)
  <2>1. \A x, k : x \in Mine(ds[k], fs, k) => x.id = k
    BY MineHas
  <2>2. \A x : x \in A <=> x \in B /\ x \notin Mine(ds[i], fs, i)
    BY <1>3, <1>4, <1>6, <2>1
  <2>. QED BY <2>2
<1>. QED BY <1>5, <1>6 DEF A, B, w

-----------------------------------------------------------------------------
(* What adding and taking out rows makes of rows that hold a collection *)

LEMMA HoldAdd ==
    ASSUME NEW R, NEW ds \in Collections, NEW i \in Key, i \notin DOMAIN ds, NEW c \in Contents,
           NEW fs, NEW u, NEW pure, RowsHold(R, ds, fs, u, pure),
           u => \A r \in R : r.key \in RowsOf(c, fs) => r.id = i
    PROVE  RowsHold(R \union Mine(c, fs, i), With(ds, i, c), fs, u, pure)
<1> DEFINE M == Mine(c, fs, i)
           A == RowsOfAll(With(ds, i, c), DOMAIN With(ds, i, c), fs)
           B == RowsOfAll(ds, DOMAIN ds, fs)
<1>1. A = B \union M
  BY RowsWith
<1>2. B \subseteq R /\ (pure => R \subseteq B) /\ (u => OneOwner(R))
  BY DEF RowsHold
<1>3. ASSUME u PROVE OneOwner(R \union M)
  <2>1. \A x \in M : x.id = i /\ x.key \in RowsOf(c, fs)
    BY MineHas
  <2>. HIDE DEF M
  <2>. QED BY <1>2, <1>3, <2>1 DEF OneOwner
<1>. HIDE DEF M, A, B
<1>4. A \subseteq R \union M /\ (pure => R \union M \subseteq A)
  BY <1>1, <1>2
<1>. QED BY <1>3, <1>4 DEF RowsHold, A, M

LEMMA HoldTakenOut ==
    ASSUME NEW R, NEW ds \in Collections, NEW i, i \notin DOMAIN ds, NEW c,
           NEW fs, NEW u, NEW pure, RowsHold(R, ds, fs, u, pure)
    PROVE  RowsHold(R \ Mine(c, fs, i), ds, fs, u, pure)
<1> DEFINE M == Mine(c, fs, i)
           B == RowsOfAll(ds, DOMAIN ds, fs)
<1>1. \A x \in B : x \notin M
  <2>1. \A x \in B : \E k \in DOMAIN ds : x \in Mine(ds[k], fs, k)
    BY AllRows
  <2>2. \A x, k : x \in Mine(ds[k], fs, k) => x.id = k
    BY MineHas
  <2>3. \A x \in M : x.id = i
    BY MineHas
  <2>. HIDE DEF M, B
  <2>. QED BY <2>1, <2>2, <2>3
<1>2. B \subseteq R /\ (pure => R \subseteq B) /\ (u => OneOwner(R))
  BY DEF RowsHold
<1>. HIDE DEF M, B
<1>3. u => OneOwner(R \ M)
  BY <1>2 DEF OneOwner
<1>4. B \subseteq R \ M /\ (pure => R \ M \subseteq B)
  BY <1>1, <1>2
<1>. QED BY <1>3, <1>4 DEF RowsHold, B, M

LEMMA HoldLess ==
    ASSUME NEW R, NEW ds \in Collections, NEW i \in DOMAIN ds,
           NEW fs, NEW u, NEW pure, RowsHold(R, ds, fs, u, pure)
    PROVE  RowsHold(R \ Mine(ds[i], fs, i), Less(ds, i), fs, u, pure)
<1> DEFINE M == Mine(ds[i], fs, i)
           A == RowsOfAll(Less(ds, i), DOMAIN Less(ds, i), fs)
           B == RowsOfAll(ds, DOMAIN ds, fs)
<1>1. A = B \ M
  BY RowsLess
<1>2. B \subseteq R /\ (pure => R \subseteq B) /\ (u => OneOwner(R))
  BY DEF RowsHold
<1>. HIDE DEF M, A, B
<1>3. u => OneOwner(R \ M)
  BY <1>2 DEF OneOwner
<1>4. A \subseteq R \ M /\ (pure => R \ M \subseteq A)
  BY <1>1, <1>2
<1>. QED BY <1>3, <1>4 DEF RowsHold, A, M

\* A key of a document is no other document's in a unique index that holds it.
LEMMA HeldIsOwned ==
    ASSUME NEW R, NEW ds \in Collections, NEW i \in DOMAIN ds, NEW fs, NEW u, NEW pure,
           RowsHold(R, ds, fs, u, pure), u, NEW r \in R, r.key \in RowsOf(ds[i], fs)
    PROVE  r.id = i
<1> DEFINE x == [key |-> r.key, id |-> i]
<1>1. x \in Mine(ds[i], fs, i)
  BY MineIs
<1>2. x \in RowsOfAll(ds, DOMAIN ds, fs)
  <2>. HIDE DEF x
  <2>. QED BY <1>1, AllRows
<1>3. x \in R /\ OneOwner(R)
  <2>. HIDE DEF x
  <2>. QED BY <1>2 DEF RowsHold
<1>4. x.key = r.key /\ x.id = i
  OBVIOUS
<1>. HIDE DEF x
<1>. QED BY <1>3, <1>4 DEF OneOwner

\* The rows of a document are put back after those of its successor, too, went.
LEMMA HoldBack ==
    ASSUME NEW R, NEW ds \in Collections, NEW i \in DOMAIN ds, NEW c,
           NEW fs, NEW u, NEW pure, RowsHold(R, ds, fs, u, pure)
    PROVE  RowsHold(((R \ Mine(ds[i], fs, i)) \ Mine(c, fs, i)) \union Mine(ds[i], fs, i),
                    ds, fs, u, pure)
<1> DEFINE M == Mine(ds[i], fs, i)
           O == Mine(c, fs, i)
           B == RowsOfAll(ds, DOMAIN ds, fs)
           Q == ((R \ M) \ O) \union M
<1>1. B \subseteq R /\ (pure => R \subseteq B) /\ (u => OneOwner(R))
  BY DEF RowsHold
<1>2. M \subseteq B
  <2>1. \A x : x \in M => x \in B
    BY AllRows
  <2>. QED BY <2>1
<1>3. \A x \in B : x \in O => x \in M
  <2>1. \A x \in B : \E k \in DOMAIN ds : x \in Mine(ds[k], fs, k)
    BY AllRows
  <2>2. \A x, k : x \in Mine(ds[k], fs, k) => x.id = k
    BY MineHas
  <2>3. \A x \in O : x.id = i
    BY MineHas
  <2>. HIDE DEF O, B
  <2>. QED BY <2>1, <2>2, <2>3
<1>. HIDE DEF M, O, B
<1>4. Q \subseteq R
  BY <1>1, <1>2
<1>5. B \subseteq Q
  BY <1>1, <1>3
<1>6. u => OneOwner(Q)
  <2>. HIDE DEF Q
  <2>. QED BY <1>1, <1>4 DEF OneOwner
<1>7. pure => Q \subseteq B
  BY <1>1, <1>4
<1>. QED BY <1>5, <1>6, <1>7 DEF RowsHold, B, Q, M, O

-----------------------------------------------------------------------------
(* The indexes of a collection *)

LEMMA DefIs ==
    ASSUME NEW def \in IndexDefs
    PROVE  /\ def.fields \in Seq(STRING) \ {<<>>} /\ Len(def.fields) \in Nat \ {0}
           /\ def = [fields |-> def.fields, unique |-> def.unique]
<1> DEFINE S == Seq(STRING) \ {<<>>}
<1>1. def \in [fields : S, unique : BOOLEAN]
  BY ContentsAssumption
<1>. HIDE DEF S
<1>2. def.fields \in S /\ def = [fields |-> def.fields, unique |-> def.unique]
  BY <1>1
<1>3. def.fields \in Seq(STRING) \ {<<>>}
  BY <1>2 DEF S
<1>. QED BY <1>2, <1>3, FieldsAre

LEMMA FineParts ==
    ASSUME NEW ix \in FineIxs
    PROVE  /\ DefOf(ix) \in IndexDefs /\ ix \in IxOf(ix.fields, ix.unique) /\ Coherent(ix)
           /\ ix.fields \in Seq(STRING) \ {<<>>} /\ Len(ix.fields) \in Nat \ {0}
<1>1. PICK def \in IndexDefs : ix \in IxOf(def.fields, def.unique)
  BY DEF FineIxs, Ixs
<1>2. ix.fields = def.fields /\ ix.unique = def.unique
  BY <1>1, IxRows
<1>3. Coherent(ix)
  BY DEF FineIxs
<1>4. DefOf(ix) = def
  BY <1>2, DefIs DEF DefOf
<1>5. def.fields \in Seq(STRING) \ {<<>>} /\ Len(def.fields) \in Nat \ {0}
  BY DefIs
<1>6. ix.fields \in Seq(STRING) \ {<<>>} /\ Len(ix.fields) \in Nat \ {0}
  BY <1>2, <1>5, Zenon
<1>7. ix \in IxOf(ix.fields, ix.unique)
  BY <1>1, <1>2, Zenon
<1>. QED BY <1>3, <1>4, <1>6, <1>7

LEMMA FineIs ==
    ASSUME NEW fs, NEW u, NEW def \in IndexDefs, def.fields = fs, def.unique = u,
           NEW ix \in IxOf(fs, u), Coherent(ix)
    PROVE  ix \in FineIxs /\ DefOf(ix) = def /\ ix.fields = fs /\ ix.unique = u
<1>1. ix.fields = fs /\ ix.unique = u
  BY IxRows
<1>2. DefOf(ix) = def
  BY <1>1, DefIs DEF DefOf
<1>3. ix \in FineIxs
  BY DEF FineIxs, Ixs
<1>. QED BY <1>1, <1>2, <1>3

LEMMA DefParts ==
    ASSUME NEW ix
    PROVE  DefOf(ix).fields = ix.fields /\ DefOf(ix).unique = ix.unique
BY DEF DefOf

\* What an operation that keeps an index of its definition makes of a fine one.
LEMMA FineStays ==
    ASSUME NEW ix \in FineIxs, NEW r \in IxOf(ix.fields, ix.unique), Coherent(r)
    PROVE  r \in FineIxs /\ DefOf(r) = DefOf(ix) /\ r.fields = ix.fields /\ r.unique = ix.unique
BY FineParts, FineIs, DefParts

LEMMA AddDocFine ==
    ASSUME NEW ix \in FineIxs, NEW d \in Contents, NEW i \in Key
    PROVE  /\ AddDoc(ix, d, i) \in FineIxs /\ DefOf(AddDoc(ix, d, i)) = DefOf(ix)
           /\ AddDoc(ix, d, i).fields = ix.fields /\ AddDoc(ix, d, i).unique = ix.unique
           /\ Conflicts(ix, d, i) => AddDoc(ix, d, i).rows = ix.rows
           /\ ~Conflicts(ix, d, i) =>
                 AddDoc(ix, d, i).rows = ix.rows \union Mine(d, ix.fields, i)
<1> DEFINE fs == ix.fields
           u == ix.unique
           r == AddDoc(ix, d, i)
<1>1. ix \in IxOf(fs, u) /\ Coherent(ix) /\ fs \in Seq(STRING) \ {<<>>}
  BY FineParts
<1>. HIDE DEF fs, u
<1>2. /\ r \in IxOf(fs, u) /\ Coherent(r)
      /\ Conflicts(ix, d, i) => r.rows = ix.rows
      /\ ~Conflicts(ix, d, i) => r.rows = ix.rows \union Mine(d, fs, i)
  <2>1. /\ r \in IxOf(fs, u) /\ Coherent(r)
        /\ Conflicts(ix, d, i) => r.rows = ix.rows
        /\ ~Conflicts(ix, d, i) => r.rows = ix.rows \union RowsBy(RowsOf(d, fs), i)
    BY <1>1, AddDocKeeps
  <2>. HIDE DEF r
  <2>. QED BY <2>1 DEF Mine
<1>. HIDE DEF r
<1>3. r \in FineIxs /\ DefOf(r) = DefOf(ix) /\ r.fields = fs /\ r.unique = u
  BY <1>2, FineStays DEF fs, u
<1>. QED BY <1>2, <1>3 DEF fs, u, r

LEMMA RemoveDocFine ==
    ASSUME NEW ix \in FineIxs, NEW d \in Contents, NEW i \in Key
    PROVE  /\ RemoveDoc(ix, d, i) \in FineIxs /\ DefOf(RemoveDoc(ix, d, i)) = DefOf(ix)
           /\ RemoveDoc(ix, d, i).fields = ix.fields /\ RemoveDoc(ix, d, i).unique = ix.unique
           /\ RemoveDoc(ix, d, i).rows = ix.rows \ Mine(d, ix.fields, i)
<1> DEFINE fs == ix.fields
           u == ix.unique
           r == RemoveDoc(ix, d, i)
<1>1. ix \in IxOf(fs, u) /\ Coherent(ix) /\ fs \in Seq(STRING) \ {<<>>}
  BY FineParts
<1>. HIDE DEF fs, u
<1>2. r \in IxOf(fs, u) /\ Coherent(r) /\ r.rows = ix.rows \ Mine(d, fs, i)
  BY <1>1, RemoveDocKeeps DEF Mine
<1>. HIDE DEF r
<1>3. r \in FineIxs /\ DefOf(r) = DefOf(ix) /\ r.fields = fs /\ r.unique = u
  BY <1>2, FineStays DEF fs, u
<1>. QED BY <1>2, <1>3 DEF fs, u, r

LEMMA EnsureOrdFine ==
    ASSUME NEW ix \in FineIxs
    PROVE  /\ EnsureOrd(ix) \in FineIxs /\ DefOf(EnsureOrd(ix)) = DefOf(ix)
           /\ EnsureOrd(ix).fields = ix.fields /\ EnsureOrd(ix).unique = ix.unique
           /\ EnsureOrd(ix).rows = ix.rows
<1> DEFINE fs == ix.fields
           u == ix.unique
           r == EnsureOrd(ix)
<1>1. ix \in IxOf(fs, u) /\ Coherent(ix) /\ Len(fs) \in Nat \ {0}
  BY FineParts
<1>. HIDE DEF fs, u
<1>2. r \in IxOf(fs, u) /\ Coherent(r) /\ r.rows = ix.rows
  BY <1>1, EnsureOrdKeeps
<1>. HIDE DEF r
<1>3. r \in FineIxs /\ DefOf(r) = DefOf(ix) /\ r.fields = fs /\ r.unique = u
  BY <1>2, FineStays DEF fs, u
<1>. QED BY <1>2, <1>3 DEF fs, u, r

LEMMA SerializedFine ==
    ASSUME NEW ix \in FineIxs
    PROVE  /\ Serialized(ix) \in FineIxs /\ DefOf(Serialized(ix)) = DefOf(ix)
           /\ Serialized(ix).fields = ix.fields /\ Serialized(ix).unique = ix.unique
           /\ Serialized(ix).rows = ix.rows
<1> DEFINE fs == ix.fields
           u == ix.unique
           r == Serialized(ix)
<1>1. ix \in IxOf(fs, u) /\ Coherent(ix) /\ Len(fs) \in Nat \ {0}
  BY FineParts
<1>. HIDE DEF fs, u
<1>2. r \in IxOf(fs, u) /\ Coherent(r) /\ r.rows = ix.rows
  BY <1>1, SerializedKeeps
<1>. HIDE DEF r
<1>3. r \in FineIxs /\ DefOf(r) = DefOf(ix) /\ r.fields = fs /\ r.unique = u
  BY <1>2, FineStays DEF fs, u
<1>. QED BY <1>2, <1>3 DEF fs, u, r

LEMMA PayloadFine ==
    ASSUME NEW ix \in FineIxs
    PROVE  /\ Payload(ix) \in FinePayloads /\ DefOf(Payload(ix)) = DefOf(ix)
           /\ Loaded(Payload(ix)).rows = ix.rows
<1> DEFINE fs == ix.fields
           u == ix.unique
           p == Payload(ix)
           r == Loaded(p)
           s == Serialized(ix)
<1>1. ix \in IxOf(fs, u) /\ Coherent(ix) /\ Len(fs) \in Nat \ {0} /\ DefOf(ix) \in IndexDefs
  BY FineParts
<1>. HIDE DEF fs, u
<1>2. r \in IxOf(fs, u) /\ Coherent(r) /\ r.rows = ix.rows /\ p.fields = fs /\ p.unique = u
  BY <1>1, LoadedPayload
<1>3. s \in IxOf(fs, u)
  BY <1>1, SerializedKeeps
<1>4. s.matrix \in Flats(fs)
  <2>. HIDE DEF s
  <2>. QED BY <1>3, IxParts
<1>5. p = [fields |-> fs, unique |-> u, csr |-> s.matrix]
  BY DEF Payload, fs, u
<1>. HIDE DEF r, s
<1>6. p \in OnFileOf(fs, u)
  BY <1>4, <1>5 DEF OnFileOf
<1>. HIDE DEF p
<1>7. r \in FineIxs
  BY <1>2, FineStays DEF fs, u
<1>8. DefOf(ix).fields = fs /\ DefOf(ix).unique = u
  BY DefParts DEF fs, u
<1>9. p \in FinePayloads
  BY <1>1, <1>6, <1>7, <1>8 DEF FinePayloads, r
<1>10. DefOf(p) = DefOf(ix)
  BY <1>2 DEF DefOf, fs, u
<1>. QED BY <1>2, <1>9, <1>10 DEF r, p

LEMMA LoadedFine ==
    ASSUME NEW p \in FinePayloads
    PROVE  /\ DefOf(p) \in IndexDefs /\ Loaded(p) \in FineIxs /\ DefOf(Loaded(p)) = DefOf(p)
           /\ Loaded(p).fields = p.fields /\ Loaded(p).unique = p.unique
<1>1. PICK def \in IndexDefs : p \in OnFileOf(def.fields, def.unique)
  BY DEF FinePayloads
<1>2. p.fields = def.fields /\ p.unique = def.unique
  BY <1>1 DEF OnFileOf
<1>3. DefOf(p) = def
  BY <1>2, DefIs DEF DefOf
<1>4. Loaded(p) \in FineIxs
  BY DEF FinePayloads
<1>5. Loaded(p).fields = p.fields /\ Loaded(p).unique = p.unique
  <2> DEFINE b == NewIndex(p.fields, p.unique)
  <2>1. b.fields = p.fields /\ b.unique = p.unique
    BY DEF NewIndex
  <2>2. LoadRows(b, p).fields = b.fields /\ LoadRows(b, p).unique = b.unique
    BY DEF LoadRows, NewIndex
  <2>. HIDE DEF b
  <2>. QED BY <2>1, <2>2 DEF Loaded, b
<1>6. DefOf(Loaded(p)) = DefOf(p)
  BY <1>5 DEF DefOf
<1>. QED BY <1>3, <1>4, <1>5, <1>6

LEMMA BlankFine ==
    ASSUME NEW def \in IndexDefs
    PROVE  /\ NewIndex(def.fields, def.unique) \in FineIxs
           /\ DefOf(NewIndex(def.fields, def.unique)) = def
           /\ NewIndex(def.fields, def.unique).fields = def.fields
           /\ NewIndex(def.fields, def.unique).unique = def.unique
           /\ NewIndex(def.fields, def.unique).rows = {}
<1> DEFINE fs == def.fields
           u == def.unique
           r == NewIndex(fs, u)
<1>1. r \in IxOf(fs, u) /\ Coherent(r) /\ r.rows = {}
  BY NewIndexIs
<1>2. def.fields = fs /\ def.unique = u
  OBVIOUS
<1>. HIDE DEF r, fs, u
<1>3. r \in FineIxs /\ DefOf(r) = def /\ r.fields = fs /\ r.unique = u
  BY <1>1, <1>2, FineIs
<1>. QED BY <1>1, <1>3 DEF r, fs, u

LEMMA ConflictsHere ==
    ASSUME NEW ix \in FineIxs, NEW d, NEW i
    PROVE  Conflicts(ix, d, i) <=>
              ix.unique /\ \E r \in ix.rows : r.key \in RowsOf(d, ix.fields) /\ r.id # i
<1> DEFINE fs == ix.fields
           u == ix.unique
<1>1. ix \in IxOf(fs, u)
  BY FineParts
<1>. HIDE DEF fs, u
<1>2. Conflicts(ix, d, i) <=> u /\ \E r \in ix.rows : r.key \in RowsOf(d, fs) /\ r.id # i
  BY <1>1, ConflictsAre
<1>. QED BY <1>2 DEF fs, u

-----------------------------------------------------------------------------
(* One mutation in one index *)

LEMMA InsertHolds ==
    ASSUME NEW ix \in FineIxs, NEW ds \in Collections, NEW i \in Key, i \notin DOMAIN ds,
           NEW c \in Contents, NEW pure, Holds(ix, ds, pure)
    PROVE  /\ ~Conflicts(ix, c, i) => Holds(AddDoc(ix, c, i), With(ds, i, c), pure)
           /\ Holds(RemoveDoc(AddDoc(ix, c, i), c, i), ds, pure)
<1> DEFINE a == AddDoc(ix, c, i)
           b == RemoveDoc(a, c, i)
           M == Mine(c, ix.fields, i)
           R == ix.rows
<1>1. /\ a \in FineIxs /\ a.fields = ix.fields /\ a.unique = ix.unique
      /\ Conflicts(ix, c, i) => a.rows = R
      /\ ~Conflicts(ix, c, i) => a.rows = R \union M
  BY AddDocFine
<1>. HIDE DEF a
<1>2. b.fields = ix.fields /\ b.unique = ix.unique /\ b.rows = R \ M
  <2>1. b.fields = a.fields /\ b.unique = a.unique /\ b.rows = a.rows \ Mine(c, a.fields, i)
    BY <1>1, RemoveDocFine
  <2>. HIDE DEF b, M, R
  <2>2. Mine(c, a.fields, i) = M
    BY <1>1 DEF M
  <2>. QED BY <1>1, <2>1, <2>2
<1>. HIDE DEF b
<1>3. RowsHold(R, ds, ix.fields, ix.unique, pure)
  BY DEF Holds
<1>4. Holds(b, ds, pure)
  <2>1. RowsHold(R \ M, ds, ix.fields, ix.unique, pure)
    <3>. HIDE DEF R
    <3>. QED BY <1>3, HoldTakenOut
  <2>. HIDE DEF M, R
  <2>. QED BY <1>2, <2>1 DEF Holds
<1>5. ASSUME ~Conflicts(ix, c, i) PROVE Holds(a, With(ds, i, c), pure)
  <2>1. ix.unique => \A r \in R : r.key \in RowsOf(c, ix.fields) => r.id = i
    <3>1. ~(ix.unique /\ \E r \in ix.rows : r.key \in RowsOf(c, ix.fields) /\ r.id # i)
      BY <1>5, ConflictsHere
    <3>. QED BY <3>1
  <2>2. RowsHold(R \union M, With(ds, i, c), ix.fields, ix.unique, pure)
    <3>. HIDE DEF R
    <3>. QED BY <1>3, <2>1, HoldAdd
  <2>. HIDE DEF M, R
  <2>. QED BY <1>1, <1>5, <2>2 DEF Holds
<1>. QED BY <1>4, <1>5 DEF a, b

LEMMA DeleteHolds ==
    ASSUME NEW ix \in FineIxs, NEW ds \in Collections, NEW i \in DOMAIN ds, NEW pure,
           Holds(ix, ds, pure)
    PROVE  Holds(RemoveDoc(ix, ds[i], i), Less(ds, i), pure)
<1> DEFINE b == RemoveDoc(ix, ds[i], i)
           M == Mine(ds[i], ix.fields, i)
           R == ix.rows
<1>1. i \in Key /\ ds[i] \in Contents
  BY CollectionParts
<1>2. b.fields = ix.fields /\ b.unique = ix.unique /\ b.rows = R \ M
  BY <1>1, RemoveDocFine
<1>. HIDE DEF b
<1>3. RowsHold(R, ds, ix.fields, ix.unique, pure)
  BY DEF Holds
<1>4. RowsHold(R \ M, Less(ds, i), ix.fields, ix.unique, pure)
  <2>. HIDE DEF R
  <2>. QED BY <1>3, HoldLess
<1>5. Holds(b, Less(ds, i), pure)
  <2>. HIDE DEF M, R
  <2>. QED BY <1>2, <1>4 DEF Holds
<1>. QED BY <1>5 DEF b

LEMMA ChangeHolds ==
    ASSUME NEW ix \in FineIxs, NEW ds \in Collections, NEW i \in DOMAIN ds, NEW c \in Contents,
           NEW pure, Holds(ix, ds, pure), NEW w, w = RemoveDoc(ix, ds[i], i)
    PROVE  /\ ~Conflicts(w, c, i) => Holds(AddDoc(w, c, i), With(ds, i, c), pure)
           /\ Holds(AddDoc(RemoveDoc(AddDoc(w, c, i), c, i), ds[i], i), ds, pure)
<1> DEFINE d == ds[i]
           less == Less(ds, i)
           a == AddDoc(w, c, i)
           b == RemoveDoc(a, c, i)
           z == AddDoc(b, d, i)
           fs == ix.fields
           M == Mine(d, fs, i)
           O == Mine(c, fs, i)
           R == ix.rows
<1>1. i \in Key /\ d \in Contents
  BY CollectionParts
<1>2. w \in FineIxs /\ w.fields = fs /\ w.unique = ix.unique /\ w.rows = R \ M
  BY <1>1, RemoveDocFine
<1>3. less \in Collections /\ i \notin DOMAIN less
  BY LessIs
<1>4. Holds(w, less, pure)
  BY DeleteHolds
<1>5. ASSUME ~Conflicts(w, c, i) PROVE Holds(a, With(ds, i, c), pure)
  <2>1. With(less, i, c) = With(ds, i, c)
    BY WithLess
  <2>. HIDE DEF less
  <2>2. Holds(a, With(less, i, c), pure)
    BY <1>1, <1>2, <1>3, <1>4, <1>5, InsertHolds
  <2>. HIDE DEF a
  <2>. QED BY <2>1, <2>2
<1>6. /\ a \in FineIxs /\ a.fields = fs /\ a.unique = ix.unique
      /\ a.rows = R \ M \/ a.rows = (R \ M) \union O
  <2>1. /\ a \in FineIxs /\ a.fields = w.fields /\ a.unique = w.unique
        /\ a.rows = w.rows \/ a.rows = w.rows \union Mine(c, w.fields, i)
    BY <1>1, <1>2, AddDocFine
  <2>. HIDE DEF a, M, R, fs
  <2>. QED BY <1>2, <2>1
<1>. HIDE DEF a
<1>7. b \in FineIxs /\ b.fields = fs /\ b.unique = ix.unique /\ b.rows = (R \ M) \ O
  <2>1. b \in FineIxs /\ b.fields = a.fields /\ b.unique = a.unique /\ b.rows = a.rows \ Mine(c, a.fields, i)
    BY <1>1, <1>6, RemoveDocFine
  <2>2. Mine(c, a.fields, i) = O
    <3>. HIDE DEF fs
    <3>. QED BY <1>6
  <2>. HIDE DEF b, M, R, O, fs
  <2>. QED BY <1>6, <2>1, <2>2
<1>. HIDE DEF b
<1>8. RowsHold(R, ds, fs, ix.unique, pure)
  BY DEF Holds
<1>9. ~Conflicts(b, d, i)
  <2>1. b.rows \subseteq R
    <3>. HIDE DEF R, M, O
    <3>. QED BY <1>7
  <2>2. ASSUME b.unique, NEW r \in b.rows, r.key \in RowsOf(d, b.fields) PROVE r.id = i
    <3>1. r \in R /\ ix.unique /\ r.key \in RowsOf(d, fs)
      <4>. HIDE DEF R, M, O, fs, d
      <4>. QED BY <1>7, <2>1, <2>2
    <3>2. r.key \in RowsOf(ds[i], fs)
      BY <3>1
    <3> DEFINE u == ix.unique
    <3>3. RowsHold(R, ds, fs, u, pure) /\ u
      BY <1>8, <3>1
    <3>. HIDE DEF R, fs, d, u
    <3>. QED BY <3>1, <3>2, <3>3, HeldIsOwned
  <2>. HIDE DEF R, M, O, fs, d
  <2>. QED BY <1>7, <2>2, ConflictsHere
<1>10. /\ z.fields = fs /\ z.unique = ix.unique /\ z.rows = ((R \ M) \ O) \union M
  <2>1. z.fields = b.fields /\ z.unique = b.unique /\ z.rows = b.rows \union Mine(d, b.fields, i)
    <3>. HIDE DEF d
    <3>. QED BY <1>1, <1>7, <1>9, AddDocFine
  <2>2. Mine(d, b.fields, i) = M
    <3>. HIDE DEF fs, d
    <3>. QED BY <1>7
  <2>. HIDE DEF z, M, R, O, fs, d
  <2>. QED BY <1>7, <2>1, <2>2
<1>11. RowsHold(((R \ M) \ O) \union M, ds, fs, ix.unique, pure)
  <2>. HIDE DEF R, fs
  <2>. QED BY <1>8, HoldBack
<1>12. Holds(z, ds, pure)
  <2>. HIDE DEF z, M, R, O, fs, d
  <2>. QED BY <1>10, <1>11 DEF Holds
<1>. QED BY <1>5, <1>12 DEF a, b

-----------------------------------------------------------------------------
(* One mutation in all the indexes *)

\* t is what an operation that keeps the definitions has made of the indexes s.
Kept(s, t) ==
    /\ t \in Seq(FineIxs) /\ DOMAIN t = DOMAIN s
    /\ \A n \in DOMAIN s : DefOf(t[n]) = DefOf(s[n])

Held(s, ds, pure) == \A n \in DOMAIN s : Holds(s[n], ds, pure)

LEMMA KeptDefs ==
    ASSUME NEW s, NEW t, Kept(s, t)
    PROVE  t \in Seq(FineIxs) /\ DOMAIN t = DOMAIN s /\ Defs(t) = Defs(s)
BY DEF Kept, Defs, DefOf

LEMMA Mapped ==
    ASSUME NEW s \in Seq(FineIxs), NEW t \in [DOMAIN s -> FineIxs],
           \A n \in DOMAIN s : DefOf(t[n]) = DefOf(s[n])
    PROVE  Kept(s, t)
<1>1. DOMAIN s = 1..Len(s) /\ Len(s) \in Nat
  OBVIOUS
<1>2. t \in Seq(FineIxs) /\ DOMAIN t = DOMAIN s
  BY <1>1, SeqOfFunction
<1>. QED BY <1>2 DEF Kept

LEMMA IxAt ==
    ASSUME NEW s \in Seq(FineIxs), NEW n \in DOMAIN s
    PROVE  s[n] \in FineIxs
OBVIOUS

\* applyIndexes of a new document (store.go:204-229): all the indexes hold it or,
\* if one refuses it, all hold what they held. Definitions stay.
THEOREM AppliedInsert ==
    ASSUME NEW s \in Seq(FineIxs), NEW i \in Key, NEW c \in Contents
    PROVE  /\ Kept(s, ApplyIndexes(s, NoOld, c, i).ixs)
           /\ \A ds \in Collections, pure \in BOOLEAN : i \notin DOMAIN ds /\ Held(s, ds, pure) =>
                 IF ApplyIndexes(s, NoOld, c, i).ok
                 THEN Held(ApplyIndexes(s, NoOld, c, i).ixs, With(ds, i, c), pure)
                 ELSE Held(ApplyIndexes(s, NoOld, c, i).ixs, ds, pure)
<1> DEFINE D == DOMAIN s
           in == [n \in D |-> AddDoc(s[n], c, i)]
           back == [n \in D |-> RemoveDoc(in[n], c, i)]
           refused == \E n \in D : Conflicts(s[n], c, i)
           r == ApplyIndexes(s, NoOld, c, i)
<1>1. \A n \in D : s[n] \in FineIxs
  BY IxAt
<1>2. r = IF refused THEN [ok |-> FALSE, ixs |-> back] ELSE [ok |-> TRUE, ixs |-> in]
  <2>1. Without(s, NoOld, i) = [n \in D |-> s[n]]
    BY DEF Without
  <2>2. \A n \in D : Without(s, NoOld, i)[n] = s[n]
    BY <2>1
  <2>3. [n \in D |-> AddDoc(Without(s, NoOld, i)[n], c, i)] = in
    BY <2>2
  <2>4. (\E n \in D : Conflicts(Without(s, NoOld, i)[n], c, i)) <=> refused
    BY <2>2
  <2>5. Restored(in, NoOld, c, i) = back
    BY DEF Restored
  <2>. HIDE DEF in, back, refused
  <2>. QED BY <2>3, <2>4, <2>5 DEF ApplyIndexes
<1>3. Kept(s, in)
  <2>1. \A n \in D : in[n] \in FineIxs /\ DefOf(in[n]) = DefOf(s[n])
    BY <1>1, AddDocFine
  <2>2. in \in [D -> FineIxs]
    BY <2>1
  <2>. HIDE DEF in
  <2>. QED BY <2>1, <2>2, Mapped
<1>4. Kept(s, back)
  <2>1. \A n \in D : in[n] \in FineIxs /\ DefOf(in[n]) = DefOf(s[n])
    BY <1>1, AddDocFine
  <2>. HIDE DEF in
  <2>2. \A n \in D : back[n] \in FineIxs /\ DefOf(back[n]) = DefOf(s[n])
    BY <2>1, RemoveDocFine
  <2>3. back \in [D -> FineIxs]
    BY <2>2
  <2>. HIDE DEF back
  <2>. QED BY <2>2, <2>3, Mapped
<1>5. ASSUME NEW ds \in Collections, NEW pure \in BOOLEAN, i \notin DOMAIN ds, Held(s, ds, pure)
      PROVE  /\ ~refused => Held(in, With(ds, i, c), pure)
             /\ Held(back, ds, pure)
  <2>1. ASSUME NEW n \in D
        PROVE  /\ ~Conflicts(s[n], c, i) => Holds(AddDoc(s[n], c, i), With(ds, i, c), pure)
               /\ Holds(RemoveDoc(AddDoc(s[n], c, i), c, i), ds, pure)
    <3> DEFINE x == s[n]
    <3>1. x \in FineIxs /\ Holds(x, ds, pure)
      BY <1>1, <1>5 DEF Held
    <3>. HIDE DEF x
    <3>2. /\ ~Conflicts(x, c, i) => Holds(AddDoc(x, c, i), With(ds, i, c), pure)
          /\ Holds(RemoveDoc(AddDoc(x, c, i), c, i), ds, pure)
      BY <1>5, <3>1, InsertHolds
    <3>. QED BY <3>2 DEF x
  <2>. QED BY <2>1 DEF Held
<1>. HIDE DEF in, back, refused
<1>6. CASE refused
  <2>1. r.ok = FALSE /\ r.ixs = back
    BY <1>2, <1>6
  <2>. HIDE DEF r
  <2>. QED BY <1>4, <1>5, <2>1 DEF r
<1>7. CASE ~refused
  <2>1. r.ok = TRUE /\ r.ixs = in
    BY <1>2, <1>7
  <2>. HIDE DEF r
  <2>. QED BY <1>3, <1>5, <1>7, <2>1 DEF r
<1>. QED BY <1>6, <1>7

\* applyIndexes of a changed document (store.go:204-229): all the indexes hold the
\* new document or, if one refuses it, the old one again.
THEOREM AppliedChange ==
    ASSUME NEW s \in Seq(FineIxs), NEW ds \in Collections, NEW i \in DOMAIN ds, NEW c \in Contents
    PROVE  /\ Kept(s, ApplyIndexes(s, ds[i], c, i).ixs)
           /\ \A pure \in BOOLEAN : Held(s, ds, pure) =>
                 IF ApplyIndexes(s, ds[i], c, i).ok
                 THEN Held(ApplyIndexes(s, ds[i], c, i).ixs, With(ds, i, c), pure)
                 ELSE Held(ApplyIndexes(s, ds[i], c, i).ixs, ds, pure)
<1> DEFINE D == DOMAIN s
           old == ds[i]
           out == [n \in D |-> RemoveDoc(s[n], old, i)]
           in == [n \in D |-> AddDoc(out[n], c, i)]
           back == [n \in D |-> AddDoc(RemoveDoc(in[n], c, i), old, i)]
           refused == \E n \in D : Conflicts(out[n], c, i)
           r == ApplyIndexes(s, old, c, i)
<1>1. \A n \in D : s[n] \in FineIxs
  BY IxAt
<1>2. old # NoOld /\ old \in Contents /\ i \in Key
  BY CollectionParts, ContentsAssumption
<1>. HIDE DEF old
<1>3. r = IF refused THEN [ok |-> FALSE, ixs |-> back] ELSE [ok |-> TRUE, ixs |-> in]
  <2>1. Without(s, old, i) = out
    BY <1>2 DEF Without
  <2>2. Restored(in, old, c, i) = back
    BY <1>2 DEF Restored
  <2>3. [n \in D |-> AddDoc(Without(s, old, i)[n], c, i)] = in
    BY <2>1
  <2>4. (\E n \in D : Conflicts(Without(s, old, i)[n], c, i)) <=> refused
    BY <2>1
  <2>. HIDE DEF in, back, refused, out
  <2>. QED BY <2>2, <2>3, <2>4 DEF ApplyIndexes
<1>4. \A n \in D : out[n] = RemoveDoc(s[n], old, i) /\ out[n] \in FineIxs /\ DefOf(out[n]) = DefOf(s[n])
  BY <1>1, <1>2, RemoveDocFine
<1>. HIDE DEF out
<1>5. \A n \in D : in[n] = AddDoc(out[n], c, i) /\ in[n] \in FineIxs /\ DefOf(in[n]) = DefOf(s[n])
  BY <1>2, <1>4, AddDocFine
<1>6. Kept(s, in)
  <2>1. in \in [D -> FineIxs]
    BY <1>5
  <2>. HIDE DEF in
  <2>. QED BY <1>5, <2>1, Mapped
<1>. HIDE DEF in
<1>7. /\ \A n \in D : back[n] = AddDoc(RemoveDoc(in[n], c, i), old, i)
      /\ \A n \in D : back[n] \in FineIxs /\ DefOf(back[n]) = DefOf(s[n])
  <2>1. ASSUME NEW n \in D PROVE back[n] \in FineIxs /\ DefOf(back[n]) = DefOf(s[n])
    <3> DEFINE x == RemoveDoc(in[n], c, i)
    <3>1. x \in FineIxs /\ DefOf(x) = DefOf(s[n])
      BY <1>2, <1>5, RemoveDocFine
    <3>2. back[n] = AddDoc(x, old, i)
      OBVIOUS
    <3>. HIDE DEF x, back
    <3>. QED BY <1>2, <3>1, <3>2, AddDocFine
  <2>. QED BY <2>1
<1>8. Kept(s, back)
  <2>1. back \in [D -> FineIxs]
    BY <1>7
  <2>. HIDE DEF back
  <2>. QED BY <1>7, <2>1, Mapped
<1>. HIDE DEF back
<1>9. ASSUME NEW pure \in BOOLEAN, Held(s, ds, pure)
      PROVE  /\ ~refused => Held(in, With(ds, i, c), pure)
             /\ Held(back, ds, pure)
  <2>1. ASSUME NEW n \in D
        PROVE  /\ ~Conflicts(out[n], c, i) => Holds(in[n], With(ds, i, c), pure)
               /\ Holds(back[n], ds, pure)
    <3> DEFINE x == s[n]
               w == out[n]
    <3>1. x \in FineIxs /\ Holds(x, ds, pure) /\ w = RemoveDoc(x, ds[i], i)
      BY <1>1, <1>4, <1>9 DEF Held, old
    <3>2. in[n] = AddDoc(w, c, i) /\ back[n] = AddDoc(RemoveDoc(AddDoc(w, c, i), c, i), ds[i], i)
      BY <1>5, <1>7 DEF old
    <3>. HIDE DEF x, w
    <3>3. /\ ~Conflicts(w, c, i) => Holds(AddDoc(w, c, i), With(ds, i, c), pure)
          /\ Holds(AddDoc(RemoveDoc(AddDoc(w, c, i), c, i), ds[i], i), ds, pure)
      BY <3>1, ChangeHolds
    <3>. QED BY <3>2, <3>3 DEF w
  <2>2. DOMAIN in = D /\ DOMAIN back = D
    BY <1>6, <1>8 DEF Kept
  <2>. QED BY <2>1, <2>2 DEF Held
<1>. HIDE DEF refused
<1>10. CASE refused
  <2>1. r.ok = FALSE /\ r.ixs = back
    BY <1>3, <1>10
  <2>. HIDE DEF r
  <2>. QED BY <1>8, <1>9, <2>1 DEF r, old
<1>11. CASE ~refused
  <2>1. r.ok = TRUE /\ r.ixs = in
    BY <1>3, <1>11
  <2>. HIDE DEF r
  <2>. QED BY <1>6, <1>9, <1>11, <2>1 DEF r, old
<1>. QED BY <1>10, <1>11

LEMMA AllTakenOut ==
    ASSUME NEW s \in Seq(FineIxs), NEW ds \in Collections, NEW i \in DOMAIN ds
    PROVE  /\ Kept(s, [n \in DOMAIN s |-> RemoveDoc(s[n], ds[i], i)])
           /\ \A pure \in BOOLEAN : Held(s, ds, pure) =>
                 Held([n \in DOMAIN s |-> RemoveDoc(s[n], ds[i], i)], Less(ds, i), pure)
<1> DEFINE D == DOMAIN s
           old == ds[i]
           out == [n \in D |-> RemoveDoc(s[n], old, i)]
<1>1. \A n \in D : s[n] \in FineIxs
  BY IxAt
<1>2. old \in Contents /\ i \in Key
  BY CollectionParts
<1>. HIDE DEF old
<1>3. \A n \in D : out[n] = RemoveDoc(s[n], old, i) /\ out[n] \in FineIxs /\ DefOf(out[n]) = DefOf(s[n])
  BY <1>1, <1>2, RemoveDocFine
<1>4. Kept(s, out)
  <2>1. out \in [D -> FineIxs]
    BY <1>3
  <2>. HIDE DEF out
  <2>. QED BY <1>3, <2>1, Mapped
<1>5. ASSUME NEW pure \in BOOLEAN, Held(s, ds, pure) PROVE Held(out, Less(ds, i), pure)
  <2>1. ASSUME NEW n \in D PROVE Holds(RemoveDoc(s[n], ds[i], i), Less(ds, i), pure)
    <3> DEFINE x == s[n]
    <3>1. x \in FineIxs /\ Holds(x, ds, pure)
      BY <1>1, <1>5 DEF Held
    <3>. HIDE DEF x
    <3>2. Holds(RemoveDoc(x, ds[i], i), Less(ds, i), pure)
      BY <3>1, DeleteHolds
    <3>. QED BY <3>2 DEF x
  <2>. QED BY <1>3, <2>1 DEF Held, old
<1>6. \A pure \in BOOLEAN : Held(s, ds, pure) => Held(out, Less(ds, i), pure)
  <2>. HIDE DEF out
  <2>. QED BY <1>5
<1>. HIDE DEF out
<1>7. Kept(s, out) /\ \A pure \in BOOLEAN : Held(s, ds, pure) => Held(out, Less(ds, i), pure)
  BY <1>4, <1>6
<1>. QED BY <1>7 DEF out, old

\* An index with the same rows holds the same.
LEMMA SameHolds ==
    ASSUME NEW a, NEW b, a.rows = b.rows, a.fields = b.fields, a.unique = b.unique,
           NEW ds, NEW pure, Holds(a, ds, pure)
    PROVE  Holds(b, ds, pure)
BY DEF Holds

\* An index is sorted for a search.
LEMMA SortedHolds ==
    ASSUME NEW s \in Seq(FineIxs), NEW n \in DOMAIN s
    PROVE  /\ Kept(s, [s EXCEPT ![n] = EnsureOrd(@)])
           /\ \A ds, pure : Held(s, ds, pure) => Held([s EXCEPT ![n] = EnsureOrd(@)], ds, pure)
<1> DEFINE t == [s EXCEPT ![n] = EnsureOrd(@)]
           x == s[n]
           y == EnsureOrd(x)
<1>1. \A m \in DOMAIN s : s[m] \in FineIxs
  BY IxAt
<1>2. y \in FineIxs /\ DefOf(y) = DefOf(x) /\ y.fields = x.fields /\ y.unique = x.unique /\ y.rows = x.rows
  <2>. HIDE DEF x
  <2>1. x \in FineIxs
    BY <1>1 DEF x
  <2>. QED BY <2>1, EnsureOrdFine
<1>3. DOMAIN t = DOMAIN s /\ t[n] = y /\ \A m \in DOMAIN s : m # n => t[m] = s[m]
  OBVIOUS
<1>4. t = [m \in DOMAIN s |-> t[m]]
  OBVIOUS
<1>. HIDE DEF t, y
<1>5. t \in [DOMAIN s -> FineIxs] /\ \A m \in DOMAIN s : DefOf(t[m]) = DefOf(s[m])
  BY <1>1, <1>2, <1>3, <1>4
<1>6. Kept(s, t)
  BY <1>5, Mapped
<1>7. ASSUME NEW ds, NEW pure, Held(s, ds, pure) PROVE Held(t, ds, pure)
  <2>1. ASSUME NEW m \in DOMAIN s PROVE Holds(t[m], ds, pure)
    <3>1. Holds(s[m], ds, pure)
      BY <1>7 DEF Held
    <3>2. CASE m = n
      <4>1. Holds(x, ds, pure)
        BY <3>1, <3>2
      <4>. HIDE DEF x
      <4>2. Holds(y, ds, pure)
        BY <1>2, <4>1, SameHolds
      <4>. QED BY <1>3, <3>2, <4>2
    <3>3. CASE m # n
      BY <1>3, <3>1, <3>3
    <3>. QED BY <3>2, <3>3
  <2>. QED BY <1>3, <2>1 DEF Held
<1>. QED BY <1>6, <1>7 DEF t

\* A flush leaves the indexes as they are, sorted and with their flat views.
LEMMA AllSerialized ==
    ASSUME NEW s \in Seq(FineIxs)
    PROVE  /\ Kept(s, [n \in DOMAIN s |-> Serialized(s[n])])
           /\ \A ds, pure : Held(s, ds, pure) => Held([n \in DOMAIN s |-> Serialized(s[n])], ds, pure)
<1> DEFINE t == [n \in DOMAIN s |-> Serialized(s[n])]
<1>1. \A m \in DOMAIN s : s[m] \in FineIxs
  BY IxAt
<1>2. /\ DOMAIN t = DOMAIN s
      /\ \A m \in DOMAIN s : /\ t[m] \in FineIxs /\ DefOf(t[m]) = DefOf(s[m])
                             /\ t[m].fields = s[m].fields /\ t[m].unique = s[m].unique
                             /\ t[m].rows = s[m].rows
  BY <1>1, SerializedFine
<1>3. t \in [DOMAIN s -> FineIxs]
  BY <1>2
<1>. HIDE DEF t
<1>4. Kept(s, t)
  BY <1>2, <1>3, Mapped
<1>5. ASSUME NEW ds, NEW pure, Held(s, ds, pure) PROVE Held(t, ds, pure)
  <2>1. ASSUME NEW m \in DOMAIN s PROVE Holds(t[m], ds, pure)
    <3> DEFINE x == s[m]
               y == t[m]
    <3>1. Holds(x, ds, pure) /\ y.fields = x.fields /\ y.unique = x.unique /\ y.rows = x.rows
      BY <1>2, <1>5 DEF Held
    <3>. HIDE DEF x, y
    <3>2. Holds(y, ds, pure)
      BY <3>1, SameHolds
    <3>. QED BY <3>2 DEF y
  <2>. QED BY <1>2, <2>1 DEF Held
<1>. QED BY <1>4, <1>5 DEF t

-----------------------------------------------------------------------------
(* Lists one behind the other *)

LEMMA LastExists ==
    ASSUME NEW L \in Nat, NEW P \in SUBSET (1..L), P # {}
    PROVE  \E n \in P : \A m \in P : m <= n
<1> DEFINE x == Max({0} \union P)
<1>1. x \in {0} \union P /\ \A y \in P : y <= x
  BY GreatestOf
<1>. HIDE DEF x
<1>2. x # 0
  <2>1. PICK y \in P : TRUE
    OBVIOUS
  <2>2. y \in 1..L /\ y <= x
    BY <1>1, <2>1
  <2>. QED BY <2>2
<1>. QED BY <1>1, <1>2

\* The first m of a list.
Begun(s, m) == SubSeq(s, 1, m)

LEMMA FirstParts ==
    ASSUME NEW S, NEW s \in Seq(S)
    PROVE  /\ Begun(s, 0) = <<>> /\ Begun(s, Len(s)) = s
           /\ \A m \in 0..Len(s) : Begun(s, m) \in Seq(S)
           /\ \A m \in 1..Len(s) : Begun(s, m) = Append(Begun(s, m - 1), s[m]) /\ s[m] \in S
<1>1. Begun(s, 0) = <<>> /\ Begun(s, Len(s)) = s
  BY DEF Begun
<1>2. \A m \in 0..Len(s) : Begun(s, m) \in Seq(S)
  BY DEF Begun
<1>3. ASSUME NEW m \in 1..Len(s) PROVE Begun(s, m) = Append(Begun(s, m - 1), s[m]) /\ s[m] \in S
  BY DEF Begun
<1>. QED BY <1>1, <1>2, <1>3

LEMMA JoinedRuns ==
    ASSUME NEW S, NEW ss \in Seq(Seq(S))
    PROVE  \E f : /\ f \in [0..Len(ss) -> Seq(S)] /\ f[0] = <<>>
                  /\ \A m \in 1..Len(ss) : f[m] = f[m - 1] \o ss[m]
                  /\ Joined(ss) = f[Len(ss)]
<1> DEFINE L == Len(ss)
           A == Seq(S)
           f == CHOOSE f : f = [m \in 0..L |-> IF m = 0 THEN <<>> ELSE f[m - 1] \o ss[m]]
           step == [m \in 1..L |-> [t \in A |-> t \o ss[m]]]
           none == <<>>
<1>1. L \in Nat /\ none \in A /\ \A m \in 1..L : ss[m] \in A
  OBVIOUS
<1>2. Steps(step, L, A)
  <2>1. \A m \in 1..L : \A t \in A : t \o ss[m] \in A
    <3>. HIDE DEF L
    <3>. QED BY <1>1
  <2>. HIDE DEF A, L
  <2>. QED BY <2>1 DEF Steps
<1>3. PICK g : Goes(g, L, A, none, step)
  <2>. HIDE DEF A, L, none, step
  <2>. QED BY <1>1, <1>2, Run
<1>4. g \in [0..L -> A] /\ g[0] = <<>> /\ \A m \in 1..L : g[m] = g[m - 1] \o ss[m]
  <2>. HIDE DEF A, L
  <2>1. \A m \in 1..L : m - 1 \in 0..L
    BY <1>1
  <2>2. g \in [0..L -> A] /\ g[0] = none /\ \A m \in 1..L : g[m] = step[m][g[m - 1]]
    <3>. HIDE DEF step, none
    <3>. QED BY <1>3, Goings
  <2>. HIDE DEF none
  <2>3. ASSUME NEW m \in 1..L PROVE g[m] = g[m - 1] \o ss[m]
    <3>1. g[m - 1] \in A
      BY <2>1, <2>2
    <3>. QED BY <2>2, <3>1
  <2>. QED BY <2>2, <2>3 DEF none
<1>. HIDE DEF A, L
<1>5. \A m \in 0..L : m # 0 => m \in 1..L
  BY <1>1
<1>6. g = [m \in 0..L |-> IF m = 0 THEN <<>> ELSE g[m - 1] \o ss[m]]
  BY <1>4, <1>5
<1>7. f = [m \in 0..L |-> IF m = 0 THEN <<>> ELSE f[m - 1] \o ss[m]]
  BY <1>6, Zenon
<1>8. Joined(ss) = f[L]
  BY Zenon DEF Joined, f, L
<1>. HIDE DEF f
<1>9. 0 \in 0..L /\ \A m \in 1..L : m \in 0..L /\ m # 0
  BY <1>1
<1>10. f[0] = <<>> /\ \A m \in 1..L : f[m] = f[m - 1] \o ss[m]
  BY <1>7, <1>9
<1> DEFINE T == {m \in 0..L : f[m] = g[m]}
<1>11. 0 \in T
  BY <1>4, <1>9, <1>10
<1>12. ASSUME NEW m \in 0..L, m # 0, m - 1 \in T PROVE m \in T
  BY <1>4, <1>5, <1>10, <1>12
<1>13. 0..L \subseteq T
  <2>. HIDE DEF T
  <2>. QED BY <1>1, <1>11, <1>12, AllTheWay
<1>14. f \in [0..L -> A]
  BY <1>4, <1>7, <1>13
<1>. QED BY <1>8, <1>10, <1>14 DEF L, A

LEMMA JoinedNone ==
    Joined(<<>>) = <<>>
<1>1. <<>> \in Seq(Seq({})) /\ Len(<<>>) = 0
  OBVIOUS
<1>. QED BY <1>1, JoinedRuns

LEMMA JoinedAppend ==
    ASSUME NEW S, NEW ss \in Seq(Seq(S)), NEW t \in Seq(S)
    PROVE  /\ Joined(ss) \in Seq(S)
           /\ Joined(Append(ss, t)) = Joined(ss) \o t
<1> DEFINE L == Len(ss)
           A == Seq(S)
           rr == Append(ss, t)
<1>1. /\ L \in Nat /\ rr \in Seq(A) /\ Len(rr) = L + 1 /\ rr[L + 1] = t
      /\ \A m \in 1..L : rr[m] = ss[m] /\ ss[m] \in A
  <2> DEFINE B == A
  <2>1. ss \in Seq(B) /\ t \in B
    OBVIOUS
  <2>. HIDE DEF B
  <2>2. L \in Nat /\ rr \in Seq(B) /\ Len(rr) = L + 1 /\ rr[L + 1] = t
    BY <2>1
  <2>3. \A m \in 1..L : rr[m] = ss[m] /\ ss[m] \in B
    BY <2>1
  <2>. QED BY <2>2, <2>3 DEF B
<1>2. PICK f : /\ f \in [0..L -> A] /\ f[0] = <<>>
               /\ \A m \in 1..L : f[m] = f[m - 1] \o ss[m]
               /\ Joined(ss) = f[L]
  BY JoinedRuns
<1>3. PICK g : /\ g \in [0..L + 1 -> A] /\ g[0] = <<>>
               /\ \A m \in 1..L + 1 : g[m] = g[m - 1] \o rr[m]
               /\ Joined(rr) = g[L + 1]
  <2>. HIDE DEF rr, L
  <2>1. rr \in Seq(Seq(S))
    BY <1>1
  <2>2. \E g : /\ g \in [0..Len(rr) -> Seq(S)] /\ g[0] = <<>>
               /\ \A m \in 1..Len(rr) : g[m] = g[m - 1] \o rr[m]
               /\ Joined(rr) = g[Len(rr)]
    BY <2>1, JoinedRuns
  <2>. QED BY <1>1, <2>2
<1>. HIDE DEF L, rr, A
<1> DEFINE T == {m \in 0..L : f[m] = g[m]}
<1>4. 0 \in T
  BY <1>1, <1>2, <1>3
<1>5. ASSUME NEW m \in 0..L, m # 0, m - 1 \in T PROVE m \in T
  <2>1. m \in 1..L /\ m \in 1..L + 1
    BY <1>1, <1>5
  <2>. QED BY <1>1, <1>2, <1>3, <1>5, <2>1
<1>6. 0..L \subseteq T
  <2>. HIDE DEF T
  <2>. QED BY <1>1, <1>4, <1>5, AllTheWay
<1>7. f[L] = g[L] /\ L \in 0..L /\ L + 1 \in 1..L + 1 /\ (L + 1) - 1 = L
  BY <1>1, <1>6
<1>8. Joined(rr) = f[L] \o t
  <2>1. g[L + 1] = g[(L + 1) - 1] \o rr[L + 1]
    BY <1>3, <1>7
  <2>. QED BY <1>1, <1>3, <1>7, <2>1
<1>. QED BY <1>2, <1>7, <1>8 DEF rr, A

-----------------------------------------------------------------------------
(* The newest of several versions *)

LEMMA NewestIs ==
    ASSUME NEW s \in Seq(Version)
    PROVE  /\ DOMAIN NewestOf(s) = {s[n].id : n \in DOMAIN s}
           /\ \A n \in DOMAIN s : s[n] \in Version /\ s[n].id \in Key /\ s[n].doc \in Contents
           /\ \A n \in DOMAIN s : (\A m \in DOMAIN s : s[m].id = s[n].id => m <= n) =>
                 NewestOf(s)[s[n].id] = s[n].doc
<1> DEFINE at(i) == {n \in DOMAIN s : s[n].id = i}
           ids == {s[n].id : n \in DOMAIN s}
           r == NewestOf(s)
<1>1. r = [i \in ids |-> s[CHOOSE n \in at(i) : \A m \in at(i) : m <= n].doc]
  BY DEF NewestOf
<1>2. \A n \in DOMAIN s : s[n] \in Version
  OBVIOUS
<1>3. \A n \in DOMAIN s : s[n].id \in Key /\ s[n].doc \in Contents
  BY <1>2 DEF Version
<1>4. DOMAIN s = 1..Len(s) /\ Len(s) \in Nat
  OBVIOUS
<1>5. ASSUME NEW n \in DOMAIN s, \A m \in DOMAIN s : s[m].id = s[n].id => m <= n
      PROVE  r[s[n].id] = s[n].doc
  <2> DEFINE i == s[n].id
             k == CHOOSE k \in at(i) : \A m \in at(i) : m <= k
  <2>1. n \in at(i) /\ \A m \in at(i) : m <= n
    BY <1>5
  <2>2. k \in at(i) /\ \A m \in at(i) : m <= k
    <3>. HIDE DEF at
    <3>. QED BY <2>1
  <2>3. n \in 1..Len(s) /\ k \in 1..Len(s) /\ k <= n /\ n <= k
    <3>1. k \in DOMAIN s
      BY <2>2
    <3>. HIDE DEF at, k
    <3>. QED BY <1>4, <2>1, <2>2, <3>1
  <2>4. k = n
    <3>. HIDE DEF k
    <3>. QED BY <1>4, <2>3
  <2>5. i \in ids
    OBVIOUS
  <2>6. r[i] = s[k].doc
    <3>. HIDE DEF r, i, ids, at
    <3>. QED BY <1>1, <2>5 DEF k
  <2>. QED BY <2>4, <2>6
<1>6. DOMAIN r = ids
  <2>. HIDE DEF r, ids
  <2>. QED BY <1>1
<1>. HIDE DEF r
<1>. QED BY <1>2, <1>3, <1>5, <1>6 DEF r

LEMMA HasNewest ==
    ASSUME NEW s \in Seq(Version), NEW i
    PROVE  i \in DOMAIN NewestOf(s) <=> \E n \in DOMAIN s : s[n].id = i
<1>1. DOMAIN NewestOf(s) = {s[n].id : n \in DOMAIN s}
  BY NewestIs
<1>. QED BY <1>1

LEMMA LastOne ==
    ASSUME NEW s \in Seq(Version), NEW i \in DOMAIN NewestOf(s)
    PROVE  \E n \in DOMAIN s : /\ s[n].id = i /\ NewestOf(s)[i] = s[n].doc
                               /\ \A m \in DOMAIN s : s[m].id = i => m <= n
<1> DEFINE at == {n \in DOMAIN s : s[n].id = i}
<1>1. DOMAIN s = 1..Len(s) /\ Len(s) \in Nat
  OBVIOUS
<1>2. at # {} /\ at \in SUBSET (1..Len(s))
  <2>1. PICK n \in DOMAIN s : s[n].id = i
    BY HasNewest
  <2>2. n \in at
    BY <2>1
  <2>. QED BY <1>1, <2>2
<1>3. PICK n \in at : \A m \in at : m <= n
  <2>. HIDE DEF at
  <2>. QED BY <1>1, <1>2, LastExists
<1>4. n \in DOMAIN s /\ s[n].id = i /\ \A m \in DOMAIN s : s[m].id = i => m <= n
  BY <1>3
<1>5. NewestOf(s)[i] = s[n].doc
  BY <1>4, NewestIs
<1>. QED BY <1>4, <1>5

LEMMA NewestTyped ==
    ASSUME NEW s \in Seq(Version)
    PROVE  NewestOf(s) \in Collections
<1> DEFINE r == NewestOf(s)
           S == DOMAIN r
<1>1. S \in SUBSET Key
  <2>1. \A i \in S : \E n \in DOMAIN s : s[n].id = i
    BY HasNewest
  <2>2. \A n \in DOMAIN s : s[n].id \in Key
    BY NewestIs
  <2>. HIDE DEF S
  <2>. QED BY <2>1, <2>2
<1>2. \A i \in S : r[i] \in Contents
  <2>1. \A n \in DOMAIN s : s[n].doc \in Contents
    BY NewestIs
  <2>. HIDE DEF r
  <2>2. \A i \in S : \E n \in DOMAIN s : r[i] = s[n].doc
    BY LastOne DEF r
  <2>. QED BY <2>1, <2>2
<1>3. r = [i \in S |-> r[i]]
  BY DEF NewestOf
<1>. HIDE DEF r, S
<1>4. r \in [S -> Contents]
  BY <1>2, <1>3
<1>. QED BY <1>1, <1>4, CollectionIs DEF r

LEMMA NewestOfJoined ==
    ASSUME NEW s \in Seq(Version), NEW t \in Seq(Version)
    PROVE  /\ DOMAIN NewestOf(s \o t) = DOMAIN NewestOf(s) \union DOMAIN NewestOf(t)
           /\ \A i \in DOMAIN NewestOf(t) : NewestOf(s \o t)[i] = NewestOf(t)[i]
           /\ \A i \in DOMAIN NewestOf(s) : i \notin DOMAIN NewestOf(t) =>
                 NewestOf(s \o t)[i] = NewestOf(s)[i]
<1> DEFINE r == s \o t
           L == Len(s)
           K == Len(t)
<1>1. /\ L \in Nat /\ K \in Nat /\ DOMAIN s = 1..L /\ DOMAIN t = 1..K
      /\ r \in Seq(Version) /\ DOMAIN r = 1..L + K
  OBVIOUS
<1>2. \A n \in 1..L : r[n] = s[n]
  OBVIOUS
<1>3. \A n \in L + 1..L + K : r[n] = t[n - L]
  OBVIOUS
<1>7. \A n \in 1..K : r[L + n] = t[n]
  OBVIOUS
<1>. HIDE DEF r, L, K
<1>4. \A n \in 1..L + K : n \in 1..L \/ (n \in L + 1..L + K /\ n - L \in 1..K)
  BY <1>1
<1>5. \A n \in 1..K : L + n \in L + 1..L + K /\ L + n - L = n /\ L + n \in 1..L + K
  BY <1>1
<1>6. \A n \in 1..L : n \in 1..L + K
  BY <1>1
<1>8. DOMAIN NewestOf(r) = DOMAIN NewestOf(s) \union DOMAIN NewestOf(t)
  <2>1. \A i : i \in DOMAIN NewestOf(r) <=> \E n \in 1..L + K : r[n].id = i
    BY <1>1, HasNewest
  <2>2. \A i : i \in DOMAIN NewestOf(s) <=> \E n \in 1..L : s[n].id = i
    BY <1>1, HasNewest
  <2>3. \A i : i \in DOMAIN NewestOf(t) <=> \E n \in 1..K : t[n].id = i
    BY <1>1, HasNewest
  <2>4. \A i : i \in DOMAIN NewestOf(r) => i \in DOMAIN NewestOf(s) \/ i \in DOMAIN NewestOf(t)
    BY <1>2, <1>3, <1>4, <2>1, <2>2, <2>3
  <2>5. \A i : i \in DOMAIN NewestOf(s) => i \in DOMAIN NewestOf(r)
    BY <1>2, <1>6, <2>1, <2>2
  <2>6. \A i : i \in DOMAIN NewestOf(t) => i \in DOMAIN NewestOf(r)
    BY <1>5, <1>7, <2>1, <2>3
  <2>. QED BY <2>4, <2>5, <2>6
<1>9. ASSUME NEW i \in DOMAIN NewestOf(t) PROVE NewestOf(r)[i] = NewestOf(t)[i]
  <2>1. PICK n \in DOMAIN t : /\ t[n].id = i /\ NewestOf(t)[i] = t[n].doc
                              /\ \A m \in DOMAIN t : t[m].id = i => m <= n
    BY LastOne
  <2>2. n \in 1..K /\ L + n \in 1..L + K /\ r[L + n] = t[n]
    BY <1>1, <1>5, <1>7, <2>1
  <2>3. ASSUME NEW m \in 1..L + K, r[m].id = i PROVE m <= L + n
    <3>1. CASE m \in 1..L
      BY <1>1, <2>2, <3>1
    <3>2. CASE m \in L + 1..L + K /\ m - L \in 1..K
      <4>1. t[m - L].id = i
        BY <1>3, <2>3, <3>2
      <4>2. m - L <= n
        BY <1>1, <2>1, <3>2, <4>1
      <4>. QED BY <1>1, <2>2, <4>2
    <3>. QED BY <1>4, <3>1, <3>2
  <2>4. NewestOf(r)[r[L + n].id] = r[L + n].doc
    BY <1>1, <2>1, <2>2, <2>3, NewestIs
  <2>. QED BY <2>1, <2>2, <2>4
<1>10. ASSUME NEW i \in DOMAIN NewestOf(s), i \notin DOMAIN NewestOf(t)
       PROVE  NewestOf(r)[i] = NewestOf(s)[i]
  <2>1. PICK n \in DOMAIN s : /\ s[n].id = i /\ NewestOf(s)[i] = s[n].doc
                              /\ \A m \in DOMAIN s : s[m].id = i => m <= n
    BY LastOne
  <2>2. n \in 1..L /\ n \in 1..L + K /\ r[n] = s[n]
    BY <1>1, <1>2, <1>6, <2>1
  <2>3. ASSUME NEW m \in 1..L + K, r[m].id = i PROVE m <= n
    <3>1. CASE m \in 1..L
      BY <1>1, <1>2, <2>1, <2>3, <3>1
    <3>2. CASE m \in L + 1..L + K /\ m - L \in 1..K
      <4>1. t[m - L].id = i
        BY <1>3, <2>3, <3>2
      <4>. QED BY <1>1, <1>10, <3>2, <4>1, HasNewest
    <3>. QED BY <1>4, <3>1, <3>2
  <2>4. NewestOf(r)[r[n].id] = r[n].doc
    BY <1>1, <2>1, <2>2, <2>3, NewestIs
  <2>. QED BY <2>1, <2>2, <2>4
<1>. QED BY <1>8, <1>9, <1>10 DEF r

-----------------------------------------------------------------------------
(* The file *)

VersionsOf(lg) == Joined([n \in DOMAIN lg |-> lg[n].docs])
PayloadsOf(lg) == Joined([n \in DOMAIN lg |-> lg[n].idx])

DeletedIn(lg, i) ==
    \E n \in DOMAIN lg :
        /\ i \in lg[n].dels
        /\ \A m \in n..Len(lg) : \A j \in DOMAIN lg[m].docs : lg[m].docs[j].id # i

Gone(lg) == {i \in Key : DeletedIn(lg, i)}

\* The versions of the documents that are not in gone.
Spared(all, gone) == Joined([n \in DOMAIN all |-> IF all[n].id \in gone THEN <<>> ELSE <<all[n]>>])

LiveOf(lg) ==
    LET all == VersionsOf(lg)
    IN  Joined([n \in DOMAIN all |-> IF DeletedIn(lg, all[n].id) THEN <<>> ELSE <<all[n]>>])

LEMMA OnFileIs ==
    /\ Versions = VersionsOf(log) /\ Versions' = VersionsOf(log')
    /\ Live = LiveOf(log) /\ Live' = LiveOf(log')
    /\ Payloads = PayloadsOf(log) /\ Payloads' = PayloadsOf(log')
    /\ Meta = log[Len(log)] /\ Meta' = log'[Len(log')]
<1>1. Versions = VersionsOf(log) /\ Versions' = VersionsOf(log')
  BY DEF Versions, VersionsOf
<1>2. Live = LiveOf(log)
  BY Zenon DEF Live, LiveOf, Versions, VersionsOf, Deleted, DeletedIn
<1>3. Live' = LiveOf(log')
  BY Zenon DEF Live, LiveOf, Versions, VersionsOf, Deleted, DeletedIn
<1>4. Payloads = PayloadsOf(log) /\ Payloads' = PayloadsOf(log')
  BY DEF Payloads, PayloadsOf
<1>5. Meta = log[Len(log)] /\ Meta' = log'[Len(log')]
  BY DEF Meta
<1>. QED BY <1>1, <1>2, <1>3, <1>4, <1>5

LEMMA BatchParts ==
    ASSUME NEW b \in Batches
    PROVE  /\ b.dels \in SUBSET Key /\ b.docs \in Seq(Version) /\ b.idx \in Seq(FinePayloads)
           /\ b.exists \in BOOLEAN
           /\ b.idx # <<>> => b.exists
           /\ IsInjective(Defs(b.idx))
BY DEF Batches

LEMMA Batched ==
    ASSUME NEW b, NEW D \in SUBSET Key, NEW vs \in Seq(Version), NEW s \in BOOLEAN, NEW e \in BOOLEAN,
           NEW idx \in Seq(FinePayloads), idx # <<>> => e, IsInjective(Defs(idx)),
           b = [dels |-> D, docs |-> vs, suspect |-> s, exists |-> e, idx |-> idx]
    PROVE  b \in Batches
BY DEF Batches

LEMMA VersionsAppend ==
    ASSUME NEW lg \in Seq(Batches), NEW b \in Batches
    PROVE  /\ VersionsOf(lg) \in Seq(Version)
           /\ VersionsOf(Append(lg, b)) = VersionsOf(lg) \o b.docs
<1> DEFINE D == [n \in DOMAIN lg |-> lg[n].docs]
           l2 == Append(lg, b)
           E == [n \in DOMAIN l2 |-> l2[n].docs]
           A == Seq(Version)
           L == Len(lg)
<1>1. /\ L \in Nat /\ DOMAIN lg = 1..L /\ DOMAIN l2 = 1..L + 1 /\ l2[L + 1] = b
      /\ \A n \in 1..L : l2[n] = lg[n] /\ lg[n] \in Batches
  OBVIOUS
<1>2. b.docs \in A /\ \A n \in 1..L : lg[n].docs \in A
  BY <1>1, BatchParts
<1>. HIDE DEF l2, A, L
<1>3. D \in Seq(A)
  <2>1. D \in [1..L -> A]
    BY <1>1, <1>2
  <2>. HIDE DEF D
  <2>. QED BY <1>1, <2>1, SeqOfFunction
<1>4. E = Append(D, b.docs)
  <2> DEFINE F == Append(D, b.docs)
  <2>1. DOMAIN D = 1..L /\ Len(D) = L /\ \A n \in 1..L : D[n] = lg[n].docs
    <3>1. DOMAIN D = 1..L /\ \A n \in 1..L : D[n] = lg[n].docs
      BY <1>1
    <3>. HIDE DEF D
    <3>. QED BY <1>1, <1>3, <3>1
  <2>. HIDE DEF D
  <2>2. DOMAIN F = 1..L + 1 /\ F[L + 1] = b.docs /\ \A n \in 1..L : F[n] = D[n]
    BY <1>1, <1>2, <1>3, <2>1
  <2>3. F = [n \in 1..L + 1 |-> F[n]]
    BY <1>1, <1>2, <1>3, <2>2
  <2>. HIDE DEF F
  <2>4. \A n \in 1..L + 1 : n \in 1..L \/ n = L + 1
    BY <1>1
  <2>5. \A n \in 1..L + 1 : F[n] = l2[n].docs
    BY <1>1, <2>1, <2>2, <2>4
  <2>. QED BY <1>1, <2>3, <2>5 DEF F
<1>5. Joined(E) = Joined(D) \o b.docs /\ Joined(D) \in A
  <2>. HIDE DEF D, E
  <2>. QED BY <1>2, <1>3, <1>4, JoinedAppend DEF A
<1>. QED BY <1>5 DEF VersionsOf, l2, A

LEMMA PayloadsAppend ==
    ASSUME NEW lg \in Seq(Batches), NEW b \in Batches
    PROVE  /\ PayloadsOf(lg) \in Seq(FinePayloads)
           /\ PayloadsOf(Append(lg, b)) = PayloadsOf(lg) \o b.idx
<1> DEFINE D == [n \in DOMAIN lg |-> lg[n].idx]
           l2 == Append(lg, b)
           E == [n \in DOMAIN l2 |-> l2[n].idx]
           A == Seq(FinePayloads)
           L == Len(lg)
<1>1. /\ L \in Nat /\ DOMAIN lg = 1..L /\ DOMAIN l2 = 1..L + 1 /\ l2[L + 1] = b
      /\ \A n \in 1..L : l2[n] = lg[n] /\ lg[n] \in Batches
  OBVIOUS
<1>2. b.idx \in A /\ \A n \in 1..L : lg[n].idx \in A
  BY <1>1, BatchParts
<1>. HIDE DEF l2, A, L
<1>3. D \in Seq(A)
  <2>1. D \in [1..L -> A]
    BY <1>1, <1>2
  <2>. HIDE DEF D
  <2>. QED BY <1>1, <2>1, SeqOfFunction
<1>4. E = Append(D, b.idx)
  <2> DEFINE F == Append(D, b.idx)
  <2>1. DOMAIN D = 1..L /\ Len(D) = L /\ \A n \in 1..L : D[n] = lg[n].idx
    <3>1. DOMAIN D = 1..L /\ \A n \in 1..L : D[n] = lg[n].idx
      BY <1>1
    <3>. HIDE DEF D
    <3>. QED BY <1>1, <1>3, <3>1
  <2>. HIDE DEF D
  <2>2. DOMAIN F = 1..L + 1 /\ F[L + 1] = b.idx /\ \A n \in 1..L : F[n] = D[n]
    BY <1>1, <1>2, <1>3, <2>1
  <2>3. F = [n \in 1..L + 1 |-> F[n]]
    BY <1>1, <1>2, <1>3, <2>2
  <2>. HIDE DEF F
  <2>4. \A n \in 1..L + 1 : n \in 1..L \/ n = L + 1
    BY <1>1
  <2>5. \A n \in 1..L + 1 : F[n] = l2[n].idx
    BY <1>1, <2>1, <2>2, <2>4
  <2>. QED BY <1>1, <2>3, <2>5 DEF F
<1>5. Joined(E) = Joined(D) \o b.idx /\ Joined(D) \in A
  <2>. HIDE DEF D, E
  <2>. QED BY <1>2, <1>3, <1>4, JoinedAppend DEF A
<1>. QED BY <1>5 DEF PayloadsOf, l2, A

LEMMA DeletedAppend ==
    ASSUME NEW lg \in Seq(Batches), NEW b \in Batches, NEW i
    PROVE  DeletedIn(Append(lg, b), i) <=>
              /\ \A j \in DOMAIN b.docs : b.docs[j].id # i
              /\ DeletedIn(lg, i) \/ i \in b.dels
<1> DEFINE l2 == Append(lg, b)
           L == Len(lg)
           none(x) == \A j \in DOMAIN x.docs : x.docs[j].id # i
<1>1. /\ L \in Nat /\ DOMAIN lg = 1..L /\ DOMAIN l2 = 1..L + 1 /\ l2[L + 1] = b
      /\ Len(l2) = L + 1 /\ \A n \in 1..L : l2[n] = lg[n]
  OBVIOUS
<1>. HIDE DEF l2, L
<1>2. DeletedIn(l2, i) <=> \E n \in 1..L + 1 : i \in l2[n].dels /\ \A m \in n..L + 1 : none(l2[m])
  BY <1>1 DEF DeletedIn
<1>3. DeletedIn(lg, i) <=> \E n \in 1..L : i \in lg[n].dels /\ \A m \in n..L : none(lg[m])
  BY <1>1 DEF DeletedIn, L
<1>. HIDE DEF none
<1>4. ASSUME DeletedIn(l2, i) PROVE none(b) /\ (DeletedIn(lg, i) \/ i \in b.dels)
  <2>1. PICK n \in 1..L + 1 : i \in l2[n].dels /\ \A m \in n..L + 1 : none(l2[m])
    BY <1>2, <1>4
  <2>2. L + 1 \in n..L + 1
    BY <1>1
  <2>3. none(b)
    BY <1>1, <2>1, <2>2
  <2>4. CASE n = L + 1
    BY <1>1, <2>1, <2>3, <2>4
  <2>5. CASE n # L + 1
    <3>1. n \in 1..L /\ \A m \in n..L : m \in 1..L /\ m \in n..L + 1
      BY <1>1, <2>5
    <3>2. i \in lg[n].dels /\ \A m \in n..L : none(lg[m])
      BY <1>1, <2>1, <3>1
    <3>. QED BY <1>3, <2>3, <3>1, <3>2
  <2>. QED BY <2>4, <2>5
<1>5. ASSUME none(b), i \in b.dels PROVE DeletedIn(l2, i)
  <2>1. L + 1 \in 1..L + 1 /\ \A m \in L + 1..L + 1 : m = L + 1
    BY <1>1
  <2>2. i \in l2[L + 1].dels /\ \A m \in L + 1..L + 1 : none(l2[m])
    BY <1>1, <1>5, <2>1
  <2>. QED BY <1>2, <2>1, <2>2
<1>6. ASSUME none(b), DeletedIn(lg, i) PROVE DeletedIn(l2, i)
  <2>1. PICK n \in 1..L : i \in lg[n].dels /\ \A m \in n..L : none(lg[m])
    BY <1>3, <1>6
  <2>2. n \in 1..L + 1 /\ \A m \in n..L + 1 : m = L + 1 \/ (m \in n..L /\ m \in 1..L)
    BY <1>1
  <2>3. i \in l2[n].dels /\ \A m \in n..L + 1 : none(l2[m])
    BY <1>1, <1>6, <2>1, <2>2
  <2>. QED BY <1>2, <2>2, <2>3
<1>. QED BY <1>4, <1>5, <1>6 DEF none, l2

-----------------------------------------------------------------------------
(* What the file gives back *)

\* a gives back what b does, but nothing of the documents in gone.
Sparing(a, b, gone) ==
    /\ \A i : i \in DOMAIN NewestOf(a) <=> i \in DOMAIN NewestOf(b) /\ i \notin gone
    /\ \A i \in DOMAIN NewestOf(a) : NewestOf(a)[i] = NewestOf(b)[i]

LEMMA NewestOfOne ==
    ASSUME NEW v \in Version
    PROVE  /\ <<v>> \in Seq(Version) /\ \A i : i \in DOMAIN NewestOf(<<v>>) <=> i = v.id
           /\ NewestOf(<<v>>)[v.id] = v.doc
<1> DEFINE s == <<v>>
<1>1. s \in Seq(Version) /\ DOMAIN s = 1..1 /\ s[1] = v /\ 1 \in DOMAIN s /\ \A n \in DOMAIN s : n = 1
  OBVIOUS
<1>. HIDE DEF s
<1>2. \A i : i \in DOMAIN NewestOf(s) <=> i = v.id
  BY <1>1, HasNewest
<1>3. NewestOf(s)[v.id] = v.doc
  <2>1. \A m \in DOMAIN s : s[m].id = s[1].id => m <= 1
    BY <1>1
  <2>. QED BY <1>1, <2>1, NewestIs
<1>. QED BY <1>1, <1>2, <1>3 DEF s

LEMMA SparingNext ==
    ASSUME NEW a \in Seq(Version), NEW b \in Seq(Version), NEW v \in Version, NEW gone,
           Sparing(a, b, gone)
    PROVE  /\ v.id \in gone => Sparing(a \o <<>>, Append(b, v), gone)
           /\ v.id \notin gone => Sparing(a \o <<v>>, Append(b, v), gone)
<1> DEFINE s == <<v>>
           x == a \o s
           y == b \o s
<1>1. Append(b, v) = b \o s /\ a \o <<>> = a
  OBVIOUS
<1>2. s \in Seq(Version) /\ (\A i : i \in DOMAIN NewestOf(s) <=> i = v.id) /\ NewestOf(s)[v.id] = v.doc
  BY NewestOfOne
<1>. HIDE DEF s
<1>3. /\ DOMAIN NewestOf(x) = DOMAIN NewestOf(a) \union DOMAIN NewestOf(s)
      /\ \A i \in DOMAIN NewestOf(s) : NewestOf(x)[i] = NewestOf(s)[i]
      /\ \A i \in DOMAIN NewestOf(a) : i \notin DOMAIN NewestOf(s) =>
            NewestOf(x)[i] = NewestOf(a)[i]
  BY <1>2, NewestOfJoined
<1>4. /\ DOMAIN NewestOf(y) = DOMAIN NewestOf(b) \union DOMAIN NewestOf(s)
      /\ \A i \in DOMAIN NewestOf(s) : NewestOf(y)[i] = NewestOf(s)[i]
      /\ \A i \in DOMAIN NewestOf(b) : i \notin DOMAIN NewestOf(s) =>
            NewestOf(y)[i] = NewestOf(b)[i]
  BY <1>2, NewestOfJoined
<1>. HIDE DEF x, y
<1>5. /\ \A i : i \in DOMAIN NewestOf(a) <=> i \in DOMAIN NewestOf(b) /\ i \notin gone
      /\ \A i \in DOMAIN NewestOf(a) : NewestOf(a)[i] = NewestOf(b)[i]
  BY DEF Sparing
<1>6. ASSUME v.id \in gone PROVE Sparing(a, y, gone)
  <2>1. \A i : i \in DOMAIN NewestOf(a) <=> i \in DOMAIN NewestOf(y) /\ i \notin gone
    BY <1>2, <1>4, <1>5, <1>6
  <2>2. \A i \in DOMAIN NewestOf(a) : NewestOf(a)[i] = NewestOf(y)[i]
    BY <1>2, <1>4, <1>5, <1>6
  <2>. QED BY <2>1, <2>2 DEF Sparing
<1>7. ASSUME v.id \notin gone PROVE Sparing(x, y, gone)
  <2>1. \A i : i \in DOMAIN NewestOf(x) <=> i \in DOMAIN NewestOf(y) /\ i \notin gone
    BY <1>2, <1>3, <1>4, <1>5, <1>7
  <2>2. \A i \in DOMAIN NewestOf(x) : NewestOf(x)[i] = NewestOf(y)[i]
    BY <1>2, <1>3, <1>4, <1>5, <1>7
  <2>. QED BY <2>1, <2>2 DEF Sparing
<1>. QED BY <1>1, <1>6, <1>7 DEF x, y, s

LEMMA SparedIs ==
    ASSUME NEW all \in Seq(Version), NEW gone
    PROVE  Spared(all, gone) \in Seq(Version) /\ Sparing(Spared(all, gone), all, gone)
<1> DEFINE L == Len(all)
           ss == [n \in DOMAIN all |-> IF all[n].id \in gone THEN <<>> ELSE <<all[n]>>]
           A == Seq(Version)
<1>1. /\ L \in Nat /\ DOMAIN all = 1..L /\ \A n \in 1..L : all[n] \in Version
  OBVIOUS
<1>2. /\ ss \in Seq(A) /\ Len(ss) = L
      /\ \A n \in 1..L : /\ all[n].id \in gone => ss[n] = <<>>
                         /\ all[n].id \notin gone => ss[n] = <<all[n]>>
  <2>1. \A n \in 1..L : <<all[n]>> \in A /\ <<>> \in A
    BY <1>1
  <2>. HIDE DEF A, L
  <2>2. ss \in [1..L -> A]
    BY <1>1, <2>1
  <2>3. \A n \in 1..L : /\ all[n].id \in gone => ss[n] = <<>>
                        /\ all[n].id \notin gone => ss[n] = <<all[n]>>
    BY <1>1
  <2>. HIDE DEF ss
  <2>4. ss \in Seq(A) /\ Len(ss) = L
    BY <1>1, <2>2, SeqOfFunction
  <2>. QED BY <2>3, <2>4
<1>3. PICK f : /\ f \in [0..L -> A] /\ f[0] = <<>>
               /\ \A m \in 1..L : f[m] = f[m - 1] \o ss[m]
               /\ Joined(ss) = f[L]
  <2>. HIDE DEF ss, L
  <2>1. \E f : /\ f \in [0..Len(ss) -> Seq(Version)] /\ f[0] = <<>>
               /\ \A m \in 1..Len(ss) : f[m] = f[m - 1] \o ss[m]
               /\ Joined(ss) = f[Len(ss)]
    BY <1>2, JoinedRuns
  <2>. QED BY <1>2, <2>1
<1>4. /\ Begun(all, 0) = <<>> /\ Begun(all, L) = all
      /\ \A m \in 0..L : Begun(all, m) \in A
      /\ \A m \in 1..L : Begun(all, m) = Append(Begun(all, m - 1), all[m])
  BY FirstParts
<1>. HIDE DEF ss, L
<1> DEFINE T == {m \in 0..L : Sparing(f[m], Begun(all, m), gone)}
<1>5. 0 \in T
  <2>1. Sparing(<<>>, <<>>, gone)
    <3>1. <<>> \in Seq(Version) /\ \A n : n \notin DOMAIN <<>>
      OBVIOUS
    <3>2. \A i : i \notin DOMAIN NewestOf(<<>>)
      BY <3>1, HasNewest
    <3>. QED BY <3>2 DEF Sparing
  <2>. QED BY <1>1, <1>3, <1>4, <2>1
<1>6. ASSUME NEW m \in 0..L, m # 0, m - 1 \in T PROVE m \in T
  <2> DEFINE a == f[m - 1]
             b == Begun(all, m - 1)
             v == all[m]
  <2>1. m \in 1..L /\ m - 1 \in 0..L
    BY <1>1, <1>6
  <2>2. a \in A /\ b \in A /\ v \in Version /\ Sparing(a, b, gone)
    BY <1>1, <1>3, <1>4, <1>6, <2>1
  <2>3. f[m] = a \o ss[m] /\ Begun(all, m) = Append(b, v)
    BY <1>3, <1>4, <2>1
  <2>4. (v.id \in gone => ss[m] = <<>>) /\ (v.id \notin gone => ss[m] = <<v>>)
    BY <1>2, <2>1
  <2>. HIDE DEF a, b, v
  <2>5. Sparing(f[m], Begun(all, m), gone)
    BY <2>2, <2>3, <2>4, SparingNext
  <2>. QED BY <2>5
<1>7. L \in T
  <2>. HIDE DEF T
  <2>1. 0..L \subseteq T
    BY <1>1, <1>5, <1>6, AllTheWay
  <2>. QED BY <1>1, <2>1
<1>8. Sparing(f[L], all, gone) /\ f[L] \in A
  BY <1>1, <1>3, <1>4, <1>7
<1>9. Spared(all, gone) = Joined(ss)
  BY DEF Spared, ss
<1>. QED BY <1>3, <1>8, <1>9

LEMMA LiveIs ==
    ASSUME NEW lg \in Seq(Batches)
    PROVE  /\ VersionsOf(lg) \in Seq(Version) /\ LiveOf(lg) \in Seq(Version)
           /\ Sparing(LiveOf(lg), VersionsOf(lg), Gone(lg))
<1> DEFINE all == VersionsOf(lg)
<1>1. all \in Seq(Version)
  <2>1. CASE lg = <<>>
    <3>1. [n \in DOMAIN lg |-> lg[n].docs] = <<>>
      BY <2>1
    <3>2. all = <<>>
      BY <3>1, JoinedNone DEF VersionsOf
    <3>. QED BY <3>2
  <2>2. CASE lg # <<>>
    <3>1. lg[1] \in Batches
      BY <2>2
    <3>. QED BY <3>1, VersionsAppend
  <2>. QED BY <2>1, <2>2
<1>2. LiveOf(lg) = Spared(all, Gone(lg))
  <2>1. \A n \in DOMAIN all : DeletedIn(lg, all[n].id) <=> all[n].id \in Gone(lg)
    BY <1>1, NewestIs DEF Gone
  <2>. HIDE DEF all
  <2>2. [n \in DOMAIN all |-> IF DeletedIn(lg, all[n].id) THEN <<>> ELSE <<all[n]>>]
          = [n \in DOMAIN all |-> IF all[n].id \in Gone(lg) THEN <<>> ELSE <<all[n]>>]
    BY <2>1
  <2>. QED BY <2>2 DEF LiveOf, Spared, all
<1>. HIDE DEF all
<1>3. LiveOf(lg) \in Seq(Version) /\ Sparing(LiveOf(lg), all, Gone(lg))
  BY <1>1, <1>2, SparedIs
<1>. QED BY <1>1, <1>3 DEF all

\* What a flush of the documents new and the deletions gone makes of old.
Updated(now, old, new, gone) ==
    /\ \A i : i \in DOMAIN now <=> i \in DOMAIN new \/ (i \in DOMAIN old /\ i \notin gone)
    /\ \A i \in DOMAIN new : now[i] = new[i]
    /\ \A i \in DOMAIN old : i \notin DOMAIN new /\ i \notin gone => now[i] = old[i]

\* What a file says of each document after one more flush: what that flush wrote
\* of it; or, if it deleted it, nothing; or what the file said before
\* (filev2.go:362-420, 1026-1039).
THEOREM AppendedSays ==
    ASSUME NEW lg \in Seq(Batches), NEW b \in Batches
    PROVE  Updated(NewestOf(LiveOf(Append(lg, b))), NewestOf(LiveOf(lg)), NewestOf(b.docs), b.dels)
<1> DEFINE l2 == Append(lg, b)
           old == NewestOf(LiveOf(lg))
           now == NewestOf(LiveOf(l2))
           new == NewestOf(b.docs)
           was == NewestOf(VersionsOf(lg))
           both == NewestOf(VersionsOf(l2))
<1>1. l2 \in Seq(Batches) /\ b.docs \in Seq(Version)
  BY BatchParts
<1>2. VersionsOf(lg) \in Seq(Version) /\ VersionsOf(l2) = VersionsOf(lg) \o b.docs
  BY VersionsAppend
<1>3. \A i \in DOMAIN was \union DOMAIN new : i \in Key
  <2>1. was \in Collections /\ new \in Collections
    BY <1>1, <1>2, NewestTyped
  <2>2. DOMAIN was \in SUBSET Key /\ DOMAIN new \in SUBSET Key
    <3>. HIDE DEF was, new
    <3>. QED BY <2>1, CollectionParts
  <2>. QED BY <2>2
<1>4. \A i \in Key : i \in Gone(l2) <=> i \notin DOMAIN new /\ (i \in Gone(lg) \/ i \in b.dels)
  <2>1. \A i : DeletedIn(l2, i) <=> /\ \A j \in DOMAIN b.docs : b.docs[j].id # i
                                    /\ DeletedIn(lg, i) \/ i \in b.dels
    BY DeletedAppend
  <2>2. \A i : i \in DOMAIN new <=> \E j \in DOMAIN b.docs : b.docs[j].id = i
    BY <1>1, HasNewest
  <2>3. \A i \in Key : (i \in Gone(l2) <=> DeletedIn(l2, i)) /\ (i \in Gone(lg) <=> DeletedIn(lg, i))
    BY DEF Gone
  <2>. HIDE DEF l2, new
  <2>. QED BY <2>1, <2>2, <2>3
<1>5. /\ \A i : i \in DOMAIN old <=> i \in DOMAIN was /\ i \notin Gone(lg)
      /\ \A i \in DOMAIN old : old[i] = was[i]
  <2>1. Sparing(LiveOf(lg), VersionsOf(lg), Gone(lg))
    BY LiveIs
  <2>. QED BY <2>1 DEF Sparing
<1>6. /\ \A i : i \in DOMAIN now <=> i \in DOMAIN both /\ i \notin Gone(l2)
      /\ \A i \in DOMAIN now : now[i] = both[i]
  <2>. HIDE DEF l2
  <2>1. Sparing(LiveOf(l2), VersionsOf(l2), Gone(l2))
    BY <1>1, LiveIs
  <2>. QED BY <2>1 DEF Sparing
<1>7. /\ DOMAIN both = DOMAIN was \union DOMAIN new
      /\ \A i \in DOMAIN new : both[i] = new[i]
      /\ \A i \in DOMAIN was : i \notin DOMAIN new => both[i] = was[i]
  <2> DEFINE v == VersionsOf(lg)
             x == NewestOf(v \o b.docs)
  <2>1. both = x
    BY <1>2
  <2>2. /\ DOMAIN x = DOMAIN NewestOf(v) \union DOMAIN new
        /\ \A i \in DOMAIN new : x[i] = new[i]
        /\ \A i \in DOMAIN NewestOf(v) : i \notin DOMAIN new => x[i] = NewestOf(v)[i]
    <3>. HIDE DEF v
    <3>1. v \in Seq(Version)
      BY <1>2 DEF v
    <3>. QED BY <1>1, <3>1, NewestOfJoined
  <2>. HIDE DEF x, both, new
  <2>. QED BY <2>1, <2>2
<1>. HIDE DEF l2, old, now, new, was, both
<1>8. \A i : i \in DOMAIN now <=> i \in DOMAIN new \/ (i \in DOMAIN old /\ i \notin b.dels)
  BY <1>3, <1>4, <1>5, <1>6, <1>7
<1>9. \A i \in DOMAIN new : now[i] = new[i]
  BY <1>6, <1>7, <1>8
<1>10. \A i \in DOMAIN old : i \notin DOMAIN new /\ i \notin b.dels => now[i] = old[i]
  BY <1>5, <1>6, <1>7, <1>8
<1>11. Updated(now, old, new, b.dels)
  BY <1>8, <1>9, <1>10 DEF Updated
<1>. QED BY <1>11 DEF l2, old, now, new

LEMMA FirstSays ==
    ASSUME NEW b \in Batches
    PROVE  /\ <<b>> \in Seq(Batches) /\ Len(<<b>>) = 1 /\ <<b>>[1] = b /\ <<b>> # <<>>
           /\ NewestOf(LiveOf(<<b>>)) = NewestOf(b.docs)
<1> DEFINE old == NewestOf(LiveOf(<<>>))
           now == NewestOf(LiveOf(<<b>>))
           new == NewestOf(b.docs)
<1>1. Append(<<>>, b) = <<b>> /\ <<>> \in Seq(Batches) /\ <<b>> \in Seq(Batches)
  OBVIOUS
<1>2. LiveOf(<<>>) = <<>>
  <2>1. [n \in DOMAIN <<>> |-> <<>>[n].docs] = <<>>
    OBVIOUS
  <2>2. VersionsOf(<<>>) = <<>>
    BY <2>1, JoinedNone DEF VersionsOf
  <2> DEFINE all == VersionsOf(<<>>)
  <2>3. [n \in DOMAIN all |-> IF DeletedIn(<<>>, all[n].id) THEN <<>> ELSE <<all[n]>>] = <<>>
    BY <2>2
  <2>. QED BY <2>3, JoinedNone DEF LiveOf
<1>3. \A i : i \notin DOMAIN old
  <2>1. <<>> \in Seq(Version) /\ \A n : n \notin DOMAIN <<>>
    OBVIOUS
  <2>. QED BY <1>2, <2>1, HasNewest
<1>4. /\ \A i : i \in DOMAIN now <=> i \in DOMAIN new \/ (i \in DOMAIN old /\ i \notin b.dels)
      /\ \A i \in DOMAIN new : now[i] = new[i]
  <2>1. Updated(NewestOf(LiveOf(Append(<<>>, b))), old, new, b.dels)
    BY <1>1, AppendedSays
  <2>2. Updated(now, old, new, b.dels)
    BY <1>1, <2>1
  <2>. HIDE DEF now, old, new
  <2>. QED BY <2>2 DEF Updated
<1>5. now \in Collections /\ new \in Collections
  BY <1>1, LiveIs, NewestTyped, BatchParts
<1>. HIDE DEF old, now, new
<1>6. DOMAIN now = DOMAIN new
  BY <1>3, <1>4
<1>7. now = new
  BY <1>4, <1>5, <1>6, SameCollection
<1>. QED BY <1>1, <1>7 DEF now, new

-----------------------------------------------------------------------------
(* Documents listed *)

LEMMA ListedIs ==
    ASSUME NEW ds \in Collections, NEW S \in SUBSET DOMAIN ds
    PROVE  /\ Listed(ds, S) \in Seq(Version)
           /\ \A n \in DOMAIN Listed(ds, S) :
                 Listed(ds, S)[n].id \in S /\ Listed(ds, S)[n].doc = ds[Listed(ds, S)[n].id]
           /\ \A i \in S : \E n \in DOMAIN Listed(ds, S) : Listed(ds, S)[n].id = i
<1> DEFINE vs == Listed(ds, S)
           ids == SetAsc(S)
           L == Cardinality(S)
<1>1. S \in SUBSET Nat /\ S \in SUBSET Key /\ IsFiniteSet(S)
  <2>1. S \in SUBSET Key /\ Key \in SUBSET Nat
    BY CollectionParts DEF Key
  <2>2. IsFiniteSet(Key)
    BY DocumentsAssumption, FS_Interval DEF Key
  <2>. QED BY <2>1, <2>2, FS_Subset
<1>2. ids \in Seq(S) /\ ToSet(ids) = S /\ Len(ids) = L
  BY <1>1, SetAscLists DEF Lists
<1>. HIDE DEF ids
<1>3. DOMAIN ids = 1..L /\ L \in Nat /\ \A n \in 1..L : ids[n] \in S
  BY <1>2
<1>4. \A i \in S : \E n \in 1..L : ids[n] = i
  BY <1>2, <1>3 DEF ToSet
<1>. HIDE DEF L
<1>5. vs = [n \in 1..L |-> [id |-> ids[n], doc |-> ds[ids[n]]]]
  BY DEF Listed, ids, L
<1>6. \A n \in 1..L : /\ vs[n] = [id |-> ids[n], doc |-> ds[ids[n]]]
                      /\ vs[n].id = ids[n] /\ vs[n].doc = ds[ids[n]]
  BY <1>5
<1>7. vs \in [1..L -> Version]
  <2>1. \A n \in 1..L : ids[n] \in Key /\ ds[ids[n]] \in Contents
    BY <1>1, <1>3, CollectionParts
  <2>. HIDE DEF vs
  <2>. QED BY <1>5, <1>6, <2>1 DEF Version
<1>. HIDE DEF vs
<1>8. vs \in Seq(Version) /\ DOMAIN vs = 1..L
  BY <1>3, <1>7, SeqOfFunction
<1>. QED BY <1>3, <1>4, <1>6, <1>8 DEF vs

LEMMA ListedSays ==
    ASSUME NEW ds \in Collections, NEW S \in SUBSET DOMAIN ds
    PROVE  /\ \A i : i \in DOMAIN NewestOf(Listed(ds, S)) <=> i \in S
           /\ \A i \in S : NewestOf(Listed(ds, S))[i] = ds[i]
<1> DEFINE vs == Listed(ds, S)
<1>1. /\ vs \in Seq(Version)
      /\ \A n \in DOMAIN vs : vs[n].id \in S /\ vs[n].doc = ds[vs[n].id]
      /\ \A i \in S : \E n \in DOMAIN vs : vs[n].id = i
  BY ListedIs
<1>. HIDE DEF vs
<1>2. \A i : i \in DOMAIN NewestOf(vs) <=> i \in S
  BY <1>1, HasNewest
<1>3. ASSUME NEW i \in S PROVE NewestOf(vs)[i] = ds[i]
  <2>1. i \in DOMAIN NewestOf(vs)
    BY <1>2
  <2>2. PICK n \in DOMAIN vs : vs[n].id = i /\ NewestOf(vs)[i] = vs[n].doc
    BY <1>1, <2>1, LastOne
  <2>. QED BY <1>1, <2>2
<1>. QED BY <1>2, <1>3 DEF vs

LEMMA AllListed ==
    ASSUME NEW ds \in Collections
    PROVE  NewestOf(Listed(ds, DOMAIN ds)) = ds
<1> DEFINE S == DOMAIN ds
           r == NewestOf(Listed(ds, S))
<1>1. (\A i : i \in DOMAIN r <=> i \in S) /\ \A i \in S : r[i] = ds[i]
  BY ListedSays
<1>2. r \in Collections
  BY ListedIs, NewestTyped
<1>. HIDE DEF r
<1>3. DOMAIN r = S
  BY <1>1
<1>4. r = ds
  BY <1>1, <1>2, <1>3, SameCollection
<1>. QED BY <1>4 DEF r

-----------------------------------------------------------------------------
(* The last payload of an index *)

LastWith(all, def) ==
    LET at == {k \in DOMAIN all : DefOf(all[k]) = def}
    IN  all[CHOOSE k \in at : \A m \in at : m <= k]

LEMMA LastOfJoined ==
    ASSUME NEW q \in Seq(FinePayloads), NEW p \in Seq(FinePayloads), IsInjective(Defs(p)),
           NEW n \in DOMAIN p, NEW all, all = q \o p
    PROVE  LastWith(all, DefOf(p[n])) = p[n]
<1> DEFINE at == {k \in DOMAIN all : DefOf(all[k]) = DefOf(p[n])}
           K == Len(q)
           L == Len(p)
           x == K + n
           y == CHOOSE k \in at : \A m \in at : m <= k
<1>1. /\ K \in Nat /\ L \in Nat /\ DOMAIN p = 1..L /\ DOMAIN all = 1..K + L
      /\ \A k \in 1..L : all[K + k] = p[k]
  OBVIOUS
<1>2. n \in 1..L /\ x \in 1..K + L /\ all[x] = p[n]
  BY <1>1
<1>3. \A k \in 1..L : DefOf(p[k]) = DefOf(p[n]) => k = n
  <2>1. \A k \in 1..L : Defs(p)[k] = DefOf(p[k])
    BY <1>1 DEF Defs, DefOf
  <2>2. DOMAIN Defs(p) = 1..L
    BY <1>1 DEF Defs
  <2>3. \A a, b \in 1..L : Defs(p)[a] = Defs(p)[b] => a = b
    BY <2>2 DEF IsInjective
  <2>. HIDE DEF L
  <2>. QED BY <1>2, <2>1, <2>3
<1>4. \A m \in at : m <= x
  <2>1. TAKE m \in at
  <2>2. m \in 1..K + L /\ DefOf(all[m]) = DefOf(p[n])
    BY <1>1
  <2>. HIDE DEF at, K, L, x, y
  <2>3. CASE m \in 1..K
    BY <1>1, <1>2, <2>3 DEF x
  <2>4. CASE m \notin 1..K
    <3>1. m - K \in 1..L /\ K + (m - K) = m
      BY <1>1, <2>2, <2>4
    <3>2. all[m] = p[m - K]
      BY <1>1, <3>1
    <3>3. m - K = n
      BY <1>3, <2>2, <3>1, <3>2
    <3>. QED BY <1>1, <1>2, <3>1, <3>3 DEF x
  <2>. QED BY <2>3, <2>4
<1>5. x \in at
  BY <1>1, <1>2
<1>6. y \in at /\ \A m \in at : m <= y
  <2>. HIDE DEF at, x
  <2>. QED BY <1>4, <1>5
<1>7. y \in 1..K + L
  <2>. HIDE DEF y
  <2>. QED BY <1>1, <1>6
<1>8. y = x
  <2>. HIDE DEF at, y, x, K, L
  <2>1. y <= x /\ x <= y
    BY <1>4, <1>5, <1>6
  <2>. QED BY <1>1, <1>2, <1>7, <2>1
<1>9. all[y] = p[n]
  <2>. HIDE DEF y, x
  <2>. QED BY <1>2, <1>8
<1>. QED BY <1>9 DEF LastWith, y, at

LEMMA LastPayloadIs ==
    ASSUME log \in Seq(Batches), log # <<>>, NEW n \in DOMAIN Meta.idx
    PROVE  LastPayload(DefOf(Meta.idx[n])) = Meta.idx[n]
<1> DEFINE L == Len(log)
           rest == Begun(log, L - 1)
           b == log[L]
           q == PayloadsOf(rest)
           p == b.idx
           all == Payloads
<1>1. L \in Nat /\ L # 0 /\ L \in 1..L /\ L - 1 \in 0..L /\ b \in Batches
  OBVIOUS
<1>2. rest \in Seq(Batches) /\ log = Append(rest, b)
  <2>1. /\ Begun(log, L) = log /\ \A m \in 0..L : Begun(log, m) \in Seq(Batches)
        /\ \A m \in 1..L : Begun(log, m) = Append(Begun(log, m - 1), log[m])
    BY FirstParts
  <2>. QED BY <1>1, <2>1
<1>. HIDE DEF rest, L
<1>3. q \in Seq(FinePayloads) /\ PayloadsOf(Append(rest, b)) = q \o p
  <2>. HIDE DEF b
  <2>. QED BY <1>1, <1>2, PayloadsAppend
<1>4. p \in Seq(FinePayloads) /\ IsInjective(Defs(p))
  <2>. HIDE DEF b
  <2>. QED BY <1>1, BatchParts
<1>5. Meta.idx = p /\ all = q \o p
  BY <1>2, <1>3, OnFileIs DEF L
<1>. HIDE DEF q, p, all
<1>6. n \in DOMAIN p
  BY <1>5
<1>7. LastWith(all, DefOf(p[n])) = p[n]
  BY <1>3, <1>4, <1>5, <1>6, LastOfJoined
<1>8. LastPayload(DefOf(p[n])) = LastWith(all, DefOf(p[n]))
  BY DEF LastPayload, LastWith, all
<1>. QED BY <1>5, <1>7, <1>8

-----------------------------------------------------------------------------
(* An index built from a list of documents *)

LEMMA VersionAt ==
    ASSUME NEW vs \in Seq(Version)
    PROVE  /\ Len(vs) \in Nat /\ DOMAIN vs = 1..Len(vs)
           /\ \A m \in 1..Len(vs) : vs[m].id \in Key /\ vs[m].doc \in Contents
<1>1. Len(vs) \in Nat /\ DOMAIN vs = 1..Len(vs) /\ \A m \in 1..Len(vs) : vs[m] \in Version
  OBVIOUS
<1>. QED BY <1>1 DEF Version

LEMMA BuildingRuns ==
    ASSUME NEW def \in IndexDefs, NEW vs \in Seq(Version)
    PROVE  /\ Building(def, vs) \in [0..Len(vs) -> FineIxs]
           /\ Building(def, vs)[0] = NewIndex(def.fields, def.unique)
           /\ \A m \in 1..Len(vs) :
                 Building(def, vs)[m] = AddDoc(Building(def, vs)[m - 1], vs[m].doc, vs[m].id)
<1> DEFINE L == Len(vs)
           A == FineIxs
           none == NewIndex(def.fields, def.unique)
           f == CHOOSE f : f = [m \in 0..L |-> IF m = 0 THEN none
                                              ELSE AddDoc(f[m - 1], vs[m].doc, vs[m].id)]
           step == [m \in 1..L |-> [t \in A |-> AddDoc(t, vs[m].doc, vs[m].id)]]
<1>1. L \in Nat /\ none \in A /\ \A m \in 1..L : vs[m].id \in Key /\ vs[m].doc \in Contents
  BY BlankFine, VersionAt
<1>2. Steps(step, L, A)
  <2>1. \A m \in 1..L : \A t \in A : AddDoc(t, vs[m].doc, vs[m].id) \in A
    <3>. HIDE DEF L
    <3>. QED BY <1>1, AddDocFine
  <2>. HIDE DEF A, L
  <2>. QED BY <2>1 DEF Steps
<1>3. PICK g : Goes(g, L, A, none, step)
  <2>. HIDE DEF A, L, none, step
  <2>. QED BY <1>1, <1>2, Run
<1>4. g \in [0..L -> A] /\ g[0] = none /\ \A m \in 1..L : g[m] = AddDoc(g[m - 1], vs[m].doc, vs[m].id)
  <2>. HIDE DEF A, L, none
  <2>1. \A m \in 1..L : m - 1 \in 0..L
    BY <1>1
  <2>2. g \in [0..L -> A] /\ g[0] = none /\ \A m \in 1..L : g[m] = step[m][g[m - 1]]
    <3>. HIDE DEF step
    <3>. QED BY <1>3, Goings
  <2>3. ASSUME NEW m \in 1..L PROVE g[m] = AddDoc(g[m - 1], vs[m].doc, vs[m].id)
    <3>1. g[m - 1] \in A
      BY <2>1, <2>2
    <3>. QED BY <2>2, <3>1
  <2>. QED BY <2>2, <2>3
<1>5. Building(def, vs) = f
  BY Zenon DEF Building, f, L, none
<1>. HIDE DEF A, L, none
<1>6. \A m \in 0..L : m # 0 => m \in 1..L
  BY <1>1
<1>7. g = [m \in 0..L |-> IF m = 0 THEN none ELSE AddDoc(g[m - 1], vs[m].doc, vs[m].id)]
  BY <1>4, <1>6
<1>8. f = [m \in 0..L |-> IF m = 0 THEN none ELSE AddDoc(f[m - 1], vs[m].doc, vs[m].id)]
  BY <1>7, Zenon
<1>. HIDE DEF f
<1>9. 0 \in 0..L /\ \A m \in 1..L : m \in 0..L /\ m # 0
  BY <1>1
<1>10. f[0] = none /\ \A m \in 1..L : f[m] = AddDoc(f[m - 1], vs[m].doc, vs[m].id)
  BY <1>8, <1>9
<1> DEFINE T == {m \in 0..L : f[m] = g[m]}
<1>11. 0 \in T
  BY <1>4, <1>9, <1>10
<1>12. ASSUME NEW m \in 0..L, m # 0, m - 1 \in T PROVE m \in T
  BY <1>4, <1>6, <1>10, <1>12
<1>13. 0..L \subseteq T
  <2>. HIDE DEF T
  <2>. QED BY <1>1, <1>11, <1>12, AllTheWay
<1>14. f \in [0..L -> A]
  BY <1>4, <1>8, <1>13
<1>. QED BY <1>5, <1>10, <1>14 DEF L, A, none

LEMMA OwnersAdd ==
    ASSUME NEW R, OneOwner(R), NEW d, NEW fs, NEW i, \A r \in R : r.key \in RowsOf(d, fs) => r.id = i
    PROVE  OneOwner(R \union Mine(d, fs, i))
<1> DEFINE M == Mine(d, fs, i)
<1>1. \A x \in M : x.id = i /\ x.key \in RowsOf(d, fs)
  BY MineHas
<1>. HIDE DEF M
<1>. QED BY <1>1 DEF OneOwner, M

LEMMA RefusedIs ==
    ASSUME NEW def, NEW vs, NEW i
    PROVE  i \in Refused(def, vs) <=>
              \E n \in DOMAIN vs : /\ Conflicts(Building(def, vs)[n - 1], vs[n].doc, vs[n].id)
                                   /\ vs[n].id = i
BY DEF Refused

\* What an index is built to: a row is one of a document of the list; a document
\* that is not refused has all its rows.
LEMMA BuiltIs ==
    ASSUME NEW def \in IndexDefs, NEW vs \in Seq(Version)
    PROVE  /\ Built(def, vs) \in FineIxs /\ DefOf(Built(def, vs)) = def
           /\ Built(def, vs).fields = def.fields /\ Built(def, vs).unique = def.unique
           /\ def.unique => OneOwner(Built(def, vs).rows)
           /\ \A x \in Built(def, vs).rows :
                 \E n \in DOMAIN vs : x \in Mine(vs[n].doc, def.fields, vs[n].id)
           /\ \A n \in DOMAIN vs : vs[n].id \notin Refused(def, vs) =>
                 Mine(vs[n].doc, def.fields, vs[n].id) \subseteq Built(def, vs).rows
<1> DEFINE L == Len(vs)
           f == Building(def, vs)
           fs == def.fields
           u == def.unique
           M(n) == Mine(vs[n].doc, fs, vs[n].id)
           bad(n) == Conflicts(f[n - 1], vs[n].doc, vs[n].id)
           fine(m) == /\ f[m] \in FineIxs /\ DefOf(f[m]) = def /\ f[m].fields = fs /\ f[m].unique = u
                      /\ u => OneOwner(f[m].rows)
                      /\ \A x \in f[m].rows : \E n \in 1..m : x \in M(n)
                      /\ \A n \in 1..m : ~bad(n) => M(n) \subseteq f[m].rows
           T == {m \in 0..L : fine(m)}
<1>1. L \in Nat /\ DOMAIN vs = 1..L /\ \A m \in 1..L : vs[m].id \in Key /\ vs[m].doc \in Contents
  BY VersionAt
<1>2. /\ f \in [0..L -> FineIxs] /\ f[0] = NewIndex(fs, u)
      /\ \A m \in 1..L : f[m] = AddDoc(f[m - 1], vs[m].doc, vs[m].id)
  BY BuildingRuns
<1>3. 0 \in T
  <2>1. /\ NewIndex(fs, u) \in FineIxs /\ DefOf(NewIndex(fs, u)) = def
        /\ NewIndex(fs, u).fields = fs /\ NewIndex(fs, u).unique = u /\ NewIndex(fs, u).rows = {}
    BY BlankFine
  <2>2. OneOwner({}) /\ \A n : n \notin 1..0
    BY DEF OneOwner
  <2>. HIDE DEF f, fs, u, bad, M
  <2>3. fine(0)
    BY <1>2, <2>1, <2>2
  <2>4. 0 \in 0..L
    BY <1>1
  <2>. HIDE DEF fine
  <2>. QED BY <2>3, <2>4
<1>4. ASSUME NEW m \in 0..L, m # 0, m - 1 \in T PROVE m \in T
  <2> DEFINE w == f[m - 1]
             d == vs[m].doc
             i == vs[m].id
             z == f[m]
  <2>1. m \in 1..L /\ \A n \in 1..m : n \in 1..m - 1 \/ n = m
    BY <1>1, <1>4
  <2>2. \A n \in 1..m - 1 : n \in 1..m
    BY <1>1, <2>1
  <2>3. /\ w \in FineIxs /\ DefOf(w) = def /\ w.fields = fs /\ w.unique = u
        /\ u => OneOwner(w.rows)
        /\ \A x \in w.rows : \E n \in 1..m - 1 : x \in M(n)
        /\ \A n \in 1..m - 1 : ~bad(n) => M(n) \subseteq w.rows
    <3>. HIDE DEF f, fs, u, bad, M
    <3>. QED BY <1>4
  <2>4. z = AddDoc(w, d, i) /\ d \in Contents /\ i \in Key /\ M(m) = Mine(d, fs, i)
    BY <1>1, <1>2, <2>1
  <2>5. bad(m) <=> Conflicts(w, d, i)
    OBVIOUS
  <2>. HIDE DEF f, w, d, i, z, fs, u, M, bad
  <2>6. /\ z \in FineIxs /\ DefOf(z) = def /\ z.fields = fs /\ z.unique = u
        /\ Conflicts(w, d, i) => z.rows = w.rows
        /\ ~Conflicts(w, d, i) => z.rows = w.rows \union M(m)
    <3>1. /\ AddDoc(w, d, i) \in FineIxs /\ DefOf(AddDoc(w, d, i)) = DefOf(w)
          /\ AddDoc(w, d, i).fields = w.fields /\ AddDoc(w, d, i).unique = w.unique
          /\ Conflicts(w, d, i) => AddDoc(w, d, i).rows = w.rows
          /\ ~Conflicts(w, d, i) => AddDoc(w, d, i).rows = w.rows \union Mine(d, w.fields, i)
      BY <2>3, <2>4, AddDocFine
    <3>. QED BY <2>3, <2>4, <3>1
  <2>7. ASSUME u PROVE OneOwner(z.rows)
    <3>1. CASE Conflicts(w, d, i)
      BY <2>3, <2>6, <2>7, <3>1
    <3>2. CASE ~Conflicts(w, d, i)
      <4>1. ~(w.unique /\ \E r \in w.rows : r.key \in RowsOf(d, w.fields) /\ r.id # i)
        BY <2>3, <3>2, ConflictsHere
      <4>2. \A r \in w.rows : r.key \in RowsOf(d, fs) => r.id = i
        BY <2>3, <2>7, <4>1
      <4>3. OneOwner(w.rows \union Mine(d, fs, i))
        BY <2>3, <2>7, <4>2, OwnersAdd
      <4>. QED BY <2>4, <2>6, <3>2, <4>3
    <3>. QED BY <3>1, <3>2
  <2>8. \A x \in z.rows : \E n \in 1..m : x \in M(n)
    <3>1. m \in 1..m
      BY <1>1, <2>1
    <3>. QED BY <2>2, <2>3, <2>6, <3>1
  <2>9. \A n \in 1..m : ~bad(n) => M(n) \subseteq z.rows
    BY <2>1, <2>3, <2>5, <2>6
  <2>10. fine(m)
    BY <2>6, <2>7, <2>8, <2>9 DEF z
  <2>. HIDE DEF fine
  <2>. QED BY <2>10
<1>5. fine(L)
  <2>. HIDE DEF fine
  <2>1. 0..L \subseteq T
    <3>. HIDE DEF T
    <3>. QED BY <1>1, <1>3, <1>4, AllTheWay
  <2>. QED BY <1>1, <2>1
<1>6. \A n \in 1..L : vs[n].id \notin Refused(def, vs) => ~bad(n)
  BY <1>1, RefusedIs
<1>7. Built(def, vs) = f[L]
  BY DEF Built
<1>. HIDE DEF f, bad, L
<1>8. \A n \in 1..L : vs[n].id \notin Refused(def, vs) => M(n) \subseteq f[L].rows
  BY <1>5, <1>6
<1>9. /\ f[L] \in FineIxs /\ DefOf(f[L]) = def /\ f[L].fields = fs /\ f[L].unique = u
      /\ u => OneOwner(f[L].rows)
      /\ \A x \in f[L].rows : \E n \in 1..L : x \in M(n)
  BY <1>5
<1>. HIDE DEF fine
<1>. QED BY <1>1, <1>7, <1>8, <1>9

LEMMA SortedVersions ==
    ASSUME NEW s \in Seq(Version)
    PROVE  StableSort(s, LowerId) \in Seq(Version) /\ ToSet(StableSort(s, LowerId)) = ToSet(s)
<1> DEFINE K == Version
           L == Len(s)
           A == Seq(K)
           Put(t, x) == InsertStable(t, x, LowerId)
<1>1. L \in Nat /\ \A i \in 1..L : s[i] \in K
  OBVIOUS
<1>2. ASSUME NEW t \in A, NEW x \in K
      PROVE  Put(t, x) \in A /\ ToSet(Put(t, x)) = ToSet(t) \union {x}
  <2> DEFINE P == {j \in DOMAIN t : ~LowerId(x, t[j])}
             p == Max({0} \union P)
             r == Spliced(t, p, x)
  <2>1. P \in SUBSET (1..Len(t)) /\ Len(t) \in Nat
    OBVIOUS
  <2>2. /\ r \in Seq(K) /\ Inserted(r, t, p + 1, x) /\ p + 1 \in 1..Len(t) + 1
    <3>. HIDE DEF P, p
    <3>1. p \in {0} \union P
      BY <2>1, GreatestOf DEF p
    <3>2. p \in 0..Len(t) /\ p + 1 \in 1..Len(t) + 1
      BY <2>1, <3>1
    <3>3. t \in Seq(K) /\ x \in K
      OBVIOUS
    <3>. HIDE DEF r, A, L, Put, K
    <3>. QED BY <3>2, <3>3, SplicedIn DEF r
  <2>3. Put(t, x) = r
    BY Zenon DEF InsertStable, Spliced
  <2>4. ToSet(r) = ToSet(t) \union {x}
    <3> DEFINE q == p + 1
    <3>1. r \in Seq(K) /\ Inserted(r, t, q, x) /\ q \in 1..Len(t) + 1 /\ t \in Seq(K)
      BY <2>2
    <3>2. x \in K
      OBVIOUS
    <3>. HIDE DEF q, r, A, L, Put, p, K
    <3>. QED BY <3>1, <3>2, InsertedSet
  <2>. HIDE DEF p, r, Put
  <2>. QED BY <2>2, <2>3, <2>4
<1> DEFINE f == CHOOSE f : f = [m \in 0..L |-> IF m = 0 THEN <<>> ELSE Put(f[m - 1], s[m])]
           step == [i \in 1..L |-> [t \in A |-> Put(t, s[i])]]
           none == <<>>
<1>3. Steps(step, L, A) /\ none \in A
  <2>. HIDE DEF Put, K
  <2>1. none \in A
    OBVIOUS
  <2>. HIDE DEF A, L, none
  <2>. QED BY <1>1, <1>2, <2>1 DEF Steps
<1>4. PICK g : Goes(g, L, A, none, step)
  <2>. HIDE DEF A, L, none, step
  <2>. QED BY <1>1, <1>3, Run
<1>. HIDE DEF Put, A
<1>5. g \in [0..L -> A] /\ g[0] = <<>> /\ \A m \in 1..L : g[m] = Put(g[m - 1], s[m])
  <2>. HIDE DEF L
  <2>1. \A m \in 1..L : m - 1 \in 0..L
    BY <1>1
  <2>2. g \in [0..L -> A] /\ g[0] = none /\ \A m \in 1..L : g[m] = step[m][g[m - 1]]
    <3>. HIDE DEF step, none
    <3>. QED BY <1>4, Goings
  <2>3. ASSUME NEW m \in 1..L PROVE g[m] = Put(g[m - 1], s[m])
    <3>1. g[m - 1] \in A
      BY <2>1, <2>2
    <3>. QED BY <2>2, <3>1
  <2>. QED BY <2>2, <2>3
<1>6. StableSort(s, LowerId) = f[L]
  BY Zenon DEF StableSort, f, L, Put
<1>. HIDE DEF L
<1>7. \A m \in 0..L : m # 0 => m \in 1..L
  BY <1>1
<1>8. g = [m \in 0..L |-> IF m = 0 THEN <<>> ELSE Put(g[m - 1], s[m])]
  BY <1>5, <1>7
<1>9. f = [m \in 0..L |-> IF m = 0 THEN <<>> ELSE Put(f[m - 1], s[m])]
  BY <1>8, Zenon
<1>. HIDE DEF f
<1>10. 0 \in 0..L /\ f[0] = <<>> /\ \A m \in 0..L : m # 0 => f[m] = Put(f[m - 1], s[m])
  <2>1. 0 \in 0..L
    BY <1>1
  <2>. QED BY <1>9, <2>1
<1> DEFINE T == {m \in 0..L : f[m] \in A /\ ToSet(f[m]) = FirstOf(s, m)}
<1>11. 0 \in T
  <2>1. ToSet(<<>>) = {} /\ FirstOf(s, 0) = {}
    BY FirstOfAll DEF ToSet
  <2>. QED BY <1>3, <1>10, <2>1
<1>12. ASSUME NEW m \in 0..L, m # 0, m - 1 \in T PROVE m \in T
  <2>1. FirstOf(s, m) = FirstOf(s, m - 1) \union {s[m]} /\ s[m] \in K
    BY <1>12, FirstOfNext DEF L
  <2>2. f[m - 1] \in A /\ f[m] = Put(f[m - 1], s[m]) /\ ToSet(f[m - 1]) = FirstOf(s, m - 1)
    BY <1>10, <1>12
  <2>3. Put(f[m - 1], s[m]) \in A /\ ToSet(Put(f[m - 1], s[m])) = ToSet(f[m - 1]) \union {s[m]}
    <3>. HIDE DEF K
    <3>. QED BY <1>2, <2>1, <2>2
  <2>. QED BY <2>1, <2>2, <2>3
<1>13. L \in T
  <2>. HIDE DEF T
  <2>1. 0..L \subseteq T
    BY <1>1, <1>11, <1>12, AllTheWay
  <2>. QED BY <1>1, <2>1
<1>14. FirstOf(s, L) = ToSet(s)
  BY FirstOfAll DEF L
<1>. QED BY <1>6, <1>13, <1>14 DEF A

-----------------------------------------------------------------------------
(* What an index that is built from documents holds *)

\* A list of the documents ds: all of them, and versions of them only.
ListOf(vs, ds) ==
    /\ vs \in Seq(Version)
    /\ \A i \in DOMAIN ds : \E n \in DOMAIN vs : vs[n].id = i /\ vs[n].doc = ds[i]

LEMMA BuiltHolds ==
    ASSUME NEW vs, NEW ds \in Collections, ListOf(vs, ds), NEW def \in IndexDefs,
           NEW kept \in Collections, NEW pure \in BOOLEAN,
           \A i \in DOMAIN kept : i \in DOMAIN ds /\ kept[i] = ds[i] /\ i \notin Refused(def, vs),
           pure => \A n \in DOMAIN vs : vs[n].id \in DOMAIN kept /\ vs[n].doc = kept[vs[n].id]
    PROVE  Holds(Built(def, vs), kept, pure)
<1> DEFINE ix == Built(def, vs)
           fs == def.fields
           u == def.unique
           B == RowsOfAll(kept, DOMAIN kept, fs)
<1>1. vs \in Seq(Version) /\ \A i \in DOMAIN ds : \E n \in DOMAIN vs : vs[n].id = i /\ vs[n].doc = ds[i]
  BY DEF ListOf
<1>2. /\ ix.fields = fs /\ ix.unique = u
      /\ u => OneOwner(ix.rows)
      /\ \A x \in ix.rows : \E n \in DOMAIN vs : x \in Mine(vs[n].doc, fs, vs[n].id)
      /\ \A n \in DOMAIN vs : vs[n].id \notin Refused(def, vs) =>
            Mine(vs[n].doc, fs, vs[n].id) \subseteq ix.rows
  BY <1>1, BuiltIs
<1>3. \A x : x \in B <=> \E i \in DOMAIN kept : x \in Mine(kept[i], fs, i)
  BY AllRows
<1>. HIDE DEF ix, B, fs, u
<1>4. B \subseteq ix.rows
  <2>1. ASSUME NEW x \in B PROVE x \in ix.rows
    <3>1. PICK i \in DOMAIN kept : x \in Mine(kept[i], fs, i)
      BY <1>3
    <3>2. i \in DOMAIN ds /\ kept[i] = ds[i] /\ i \notin Refused(def, vs)
      OBVIOUS
    <3>3. PICK n \in DOMAIN vs : vs[n].id = i /\ vs[n].doc = ds[i]
      BY <1>1, <3>2
    <3>. QED BY <1>2, <3>1, <3>2, <3>3
  <2>. QED BY <2>1
<1>5. ASSUME pure PROVE ix.rows \subseteq B
  <2>1. ASSUME NEW x \in ix.rows PROVE x \in B
    <3>1. PICK n \in DOMAIN vs : x \in Mine(vs[n].doc, fs, vs[n].id)
      BY <1>2
    <3>2. vs[n].id \in DOMAIN kept /\ vs[n].doc = kept[vs[n].id]
      BY <1>5
    <3>. QED BY <1>3, <3>1, <3>2
  <2>. QED BY <2>1
<1>6. u => OneOwner(ix.rows)
  BY <1>2
<1>7. ix.fields = fs /\ ix.unique = u
  BY <1>2
<1>8. RowsHold(ix.rows, kept, fs, u, pure)
  BY <1>4, <1>5, <1>6 DEF RowsHold, B
<1>9. Holds(ix, kept, pure)
  BY <1>7, <1>8 DEF Holds
<1>. QED BY <1>9 DEF ix

\* The index of an EnsureIndex that no document refuses.
LEMMA EnsuredHolds ==
    ASSUME NEW ds \in Collections, NEW def \in IndexDefs, NEW pure \in BOOLEAN,
           Refused(def, Listed(ds, DOMAIN ds)) = {}
    PROVE  Holds(Built(def, Listed(ds, DOMAIN ds)), ds, pure)
<1> DEFINE vs == Listed(ds, DOMAIN ds)
<1>1. /\ vs \in Seq(Version)
      /\ \A n \in DOMAIN vs : vs[n].id \in DOMAIN ds /\ vs[n].doc = ds[vs[n].id]
      /\ \A i \in DOMAIN ds : \E n \in DOMAIN vs : vs[n].id = i
  BY ListedIs
<1>2. Refused(def, vs) = {}
  OBVIOUS
<1>. HIDE DEF vs
<1>3. ListOf(vs, ds)
  BY <1>1 DEF ListOf
<1>4. Holds(Built(def, vs), ds, pure)
  BY <1>1, <1>2, <1>3, BuiltHolds
<1>. QED BY <1>4 DEF vs

\* A list in which no _id comes twice.
LEMMA EachOnce ==
    ASSUME NEW vs \in Seq(Version), ~(Len(vs) > Cardinality(DOMAIN NewestOf(vs)))
    PROVE  \A m, n \in DOMAIN vs : vs[m].id = vs[n].id => m = n
<1> DEFINE L == Len(vs)
           S == 1..L
           T == DOMAIN NewestOf(vs)
           f == [n \in S |-> vs[n].id]
<1>1. L \in Nat /\ DOMAIN vs = S
  OBVIOUS
<1>2. IsFiniteSet(S) /\ Cardinality(S) = L
  <2>. HIDE DEF L
  <2>. QED BY <1>1, FS_Interval
<1>3. \A i : i \in T <=> \E n \in S : vs[n].id = i
  BY <1>1, HasNewest
<1>. HIDE DEF S, T, L
<1>4. f \in Surjection(S, T)
  <2>1. f \in [S -> T]
    BY <1>3
  <2>2. \A t \in T : \E n \in S : f[n] = t
    BY <1>3
  <2>. HIDE DEF f
  <2>. QED BY <2>1, <2>2 DEF Surjection
<1>. HIDE DEF f
<1>5. IsFiniteSet(T) /\ Cardinality(T) <= Cardinality(S)
  BY <1>2, <1>4, FS_Surjection
<1>6. Cardinality(T) \in Nat
  BY <1>5, FS_CardinalityType
<1>7. Cardinality(S) = Cardinality(T)
  BY <1>1, <1>2, <1>5, <1>6 DEF L, T
<1>8. f \in Injection(S, T)
  BY <1>2, <1>4, <1>7, FS_SurjSameCardinalityImpliesInj
<1>9. \A m, n \in S : f[m] = f[n] => m = n
  <2>1. f \in [S -> T]
    BY <1>8 DEF Injection
  <2>. QED BY <1>8, <2>1 DEF Injection, IsInjective
<1>10. \A m, n \in S : vs[m].id = vs[n].id => m = n
  BY <1>9 DEF f
<1>. QED BY <1>1, <1>10

\* An index that the eager load builds (file.go:271-301) from every version on
\* file covers the newest one of each document, and holds nothing else where there
\* is one version of each.
THEOREM LoadedAllHolds ==
    ASSUME NEW vs \in Seq(Version), NEW def \in IndexDefs, NEW pure \in BOOLEAN,
           Refused(def, StableSort(vs, LowerId)) = {},
           pure => ~(Len(vs) > Cardinality(DOMAIN NewestOf(vs)))
    PROVE  Holds(Built(def, StableSort(vs, LowerId)), NewestOf(vs), pure)
<1> DEFINE s == StableSort(vs, LowerId)
           ds == NewestOf(vs)
<1>1. s \in Seq(Version) /\ ToSet(s) = ToSet(vs) /\ Refused(def, s) = {}
  BY SortedVersions
<1>. HIDE DEF s
<1>2. /\ \A n \in DOMAIN s : \E m \in DOMAIN vs : s[n] = vs[m]
      /\ \A m \in DOMAIN vs : \E n \in DOMAIN s : s[n] = vs[m]
  BY <1>1 DEF ToSet
<1>3. ds \in Collections
  BY NewestTyped
<1>4. ListOf(s, ds)
  <2>1. ASSUME NEW i \in DOMAIN ds PROVE \E n \in DOMAIN s : s[n].id = i /\ s[n].doc = ds[i]
    <3>1. PICK m \in DOMAIN vs : vs[m].id = i /\ ds[i] = vs[m].doc
      BY LastOne
    <3>2. PICK n \in DOMAIN s : s[n] = vs[m]
      BY <1>2
    <3>. HIDE DEF ds
    <3>. QED BY <3>1, <3>2
  <2>. HIDE DEF ds
  <2>. QED BY <1>1, <2>1 DEF ListOf
<1>5. ASSUME pure, NEW n \in DOMAIN s PROVE s[n].id \in DOMAIN ds /\ s[n].doc = ds[s[n].id]
  <2>1. PICK m \in DOMAIN vs : s[n] = vs[m]
    BY <1>2
  <2>2. vs[m].id \in DOMAIN ds
    BY HasNewest
  <2>3. PICK k \in DOMAIN vs : vs[k].id = vs[m].id /\ ds[vs[m].id] = vs[k].doc
    BY <2>2, LastOne
  <2>4. k = m
    BY <1>5, <2>3, EachOnce
  <2>. HIDE DEF ds
  <2>. QED BY <2>1, <2>2, <2>3, <2>4
<1>. HIDE DEF ds
<1>6. Holds(Built(def, s), ds, pure)
  BY <1>1, <1>3, <1>4, <1>5, BuiltHolds
<1>. QED BY <1>6 DEF s, ds

\* Rows that hold a collection hold what is left of it.
LEMMA HoldShrunk ==
    ASSUME NEW R, NEW ds, NEW kept, NEW fs, NEW u, RowsHold(R, ds, fs, u, FALSE),
           \A i \in DOMAIN kept : i \in DOMAIN ds /\ kept[i] = ds[i]
    PROVE  RowsHold(R, kept, fs, u, FALSE)
<1> DEFINE A == RowsOfAll(kept, DOMAIN kept, fs)
           B == RowsOfAll(ds, DOMAIN ds, fs)
<1>1. \A x : x \in A <=> \E i \in DOMAIN kept : x \in Mine(kept[i], fs, i)
  BY AllRows
<1>2. \A x : x \in B <=> \E i \in DOMAIN ds : x \in Mine(ds[i], fs, i)
  BY AllRows
<1>3. B \subseteq R /\ (u => OneOwner(R))
  BY DEF RowsHold
<1>. HIDE DEF A, B
<1>4. A \subseteq R
  BY <1>1, <1>2, <1>3
<1>. QED BY <1>3, <1>4 DEF RowsHold, A

-----------------------------------------------------------------------------
(* Repair *)

LEMMA OldestTyped ==
    ASSUME NEW s \in Seq(Version)
    PROVE  /\ OldestOf(s) \in Collections
           /\ OldestOf(s) # Empty => s # <<>>
<1> DEFINE at(i) == {n \in DOMAIN s : s[n].id = i}
           S == {s[n].id : n \in DOMAIN s}
           first(i) == CHOOSE n \in at(i) : \A m \in at(i) : n <= m
           r == OldestOf(s)
<1>1. r = [i \in S |-> s[first(i)].doc]
  BY DEF OldestOf
<1>2. /\ Len(s) \in Nat /\ DOMAIN s = 1..Len(s)
      /\ \A n \in DOMAIN s : s[n].id \in Key /\ s[n].doc \in Contents
  BY VersionAt
<1>3. S \in SUBSET Key
  BY <1>2
<1>4. ASSUME NEW i \in S PROVE s[first(i)].doc \in Contents
  <2> DEFINE P == at(i)
  <2>1. P # {} /\ P \in SUBSET Nat /\ P \in SUBSET DOMAIN s
    BY <1>2
  <2>. HIDE DEF at, P
  <2>2. \E n \in P : \A m \in P : n <= m
    BY <2>1, LeastExists
  <2>3. first(i) \in P
    BY <2>2 DEF P
  <2>. HIDE DEF first
  <2>. QED BY <1>2, <2>1, <2>3
<1>5. r \in [S -> Contents]
  <2>. HIDE DEF first, r, S
  <2>. QED BY <1>1, <1>4
<1>6. r \in Collections /\ DOMAIN r = S
  <2>. HIDE DEF r, S
  <2>. QED BY <1>3, <1>5, CollectionIs
<1>7. ASSUME s = <<>> PROVE r = Empty
  <2>1. S = {}
    BY <1>7
  <2>. HIDE DEF r, S
  <2>. QED BY <1>6, <2>1, EmptyIs
<1>. QED BY <1>6, <1>7

LEMMA OneIndexIs ==
    ASSUME NEW ds \in Collections, NEW def \in IndexDefs
    PROVE  /\ OneIndex(ds, def).docs \in Collections
           /\ \A i \in DOMAIN OneIndex(ds, def).docs :
                 i \in DOMAIN ds /\ OneIndex(ds, def).docs[i] = ds[i]
           /\ OneIndex(ds, def).ix \in FineIxs /\ DefOf(OneIndex(ds, def).ix) = def
           /\ Holds(OneIndex(ds, def).ix, OneIndex(ds, def).docs, FALSE)
           /\ OneIndex(ds, def).ix.rows \subseteq RowsOfAll(ds, DOMAIN ds, OneIndex(ds, def).ix.fields)
<1> DEFINE vs == Listed(ds, DOMAIN ds)
           S == DOMAIN ds \ Refused(def, vs)
           kept == [i \in S |-> ds[i]]
           ix == Built(def, vs)
           r == OneIndex(ds, def)
<1>1. r.docs = kept /\ r.ix = ix
  BY DEF OneIndex
<1>2. /\ vs \in Seq(Version)
      /\ \A n \in DOMAIN vs : vs[n].id \in DOMAIN ds /\ vs[n].doc = ds[vs[n].id]
      /\ \A i \in DOMAIN ds : \E n \in DOMAIN vs : vs[n].id = i
  BY ListedIs
<1>. HIDE DEF vs
<1>3. ListOf(vs, ds)
  BY <1>2 DEF ListOf
<1>4. DOMAIN ds \in SUBSET Key /\ \A i \in DOMAIN ds : ds[i] \in Contents
  BY CollectionParts
<1>5. S \in SUBSET Key /\ \A i \in S : i \in DOMAIN ds /\ i \notin Refused(def, vs)
  BY <1>4
<1>. HIDE DEF S
<1>6. kept \in [S -> Contents] /\ \A i \in S : kept[i] = ds[i]
  BY <1>4, <1>5
<1>. HIDE DEF kept
<1>7. kept \in Collections /\ DOMAIN kept = S
  BY <1>5, <1>6, CollectionIs
<1>8. Holds(ix, kept, FALSE)
  BY <1>3, <1>5, <1>6, <1>7, BuiltHolds
<1>9. /\ ix \in FineIxs /\ DefOf(ix) = def /\ ix.fields = def.fields
      /\ \A x \in ix.rows : \E n \in DOMAIN vs : x \in Mine(vs[n].doc, def.fields, vs[n].id)
  BY <1>2, BuiltIs
<1>. HIDE DEF ix
<1>10. ix.rows \subseteq RowsOfAll(ds, DOMAIN ds, ix.fields)
  <2> DEFINE B == RowsOfAll(ds, DOMAIN ds, ix.fields)
  <2>1. \A x : x \in B <=> \E i \in DOMAIN ds : x \in Mine(ds[i], ix.fields, i)
    BY AllRows
  <2>. HIDE DEF B
  <2>2. \A x \in ix.rows : \E n \in DOMAIN vs : x \in Mine(vs[n].doc, ix.fields, vs[n].id)
    BY <1>9
  <2>3. \A x \in ix.rows : x \in B
    BY <1>2, <2>1, <2>2
  <2>. QED BY <2>3 DEF B
<1>. HIDE DEF r
<1>11. /\ r.docs \in Collections
       /\ \A i \in DOMAIN r.docs : i \in DOMAIN ds /\ r.docs[i] = ds[i]
       /\ r.ix \in FineIxs /\ DefOf(r.ix) = def
       /\ Holds(r.ix, r.docs, FALSE)
       /\ r.ix.rows \subseteq RowsOfAll(ds, DOMAIN ds, r.ix.fields)
  BY <1>1, <1>5, <1>6, <1>7, <1>8, <1>9, <1>10
<1>. QED BY <1>11 DEF r

NextIndex(r, def) ==
    [docs |-> OneIndex(r.docs, def).docs, ixs |-> Append(r.ixs, OneIndex(r.docs, def).ix)]

Builds == [docs : Collections, ixs : Seq(FineIxs)]

LEMMA NextIndexIs ==
    ASSUME NEW r \in Builds, NEW def \in IndexDefs
    PROVE  /\ NextIndex(r, def) \in Builds
           /\ NextIndex(r, def).docs = OneIndex(r.docs, def).docs
           /\ NextIndex(r, def).ixs = Append(r.ixs, OneIndex(r.docs, def).ix)
           /\ r.docs \in Collections /\ r.ixs \in Seq(FineIxs)
<1>1. r.docs \in Collections /\ r.ixs \in Seq(FineIxs)
  BY DEF Builds
<1> DEFINE o == OneIndex(r.docs, def)
<1>2. o.docs \in Collections /\ o.ix \in FineIxs
  BY <1>1, OneIndexIs
<1>. HIDE DEF o
<1>3. Append(r.ixs, o.ix) \in Seq(FineIxs)
  BY <1>1, <1>2
<1>4. NextIndex(r, def) = [docs |-> o.docs, ixs |-> Append(r.ixs, o.ix)]
  BY DEF NextIndex, o
<1>5. NextIndex(r, def) \in Builds
  BY <1>2, <1>3, <1>4 DEF Builds
<1>. QED BY <1>1, <1>4, <1>5 DEF o

RebuiltOf(d0, defs) ==
    LET upTo[n \in 0..Len(defs)] ==
            IF n = 0 THEN [docs |-> d0, ixs |-> <<>>]
            ELSE NextIndex(upTo[n - 1], defs[n])
    IN  upTo[Len(defs)]

\* What Repair has built of the documents d0 and the first m definitions.
BuiltUpTo(r, d0, defs, m) ==
    /\ r \in Builds /\ Len(r.ixs) = m
    /\ \A i \in DOMAIN r.docs : i \in DOMAIN d0 /\ r.docs[i] = d0[i]
    /\ \A n \in 1..m : /\ DefOf(r.ixs[n]) = defs[n]
                       /\ Holds(r.ixs[n], r.docs, FALSE)
                       /\ r.ixs[n].rows \subseteq RowsOfAll(d0, DOMAIN d0, r.ixs[n].fields)

LEMMA BuiltNext ==
    ASSUME NEW d0 \in Collections, NEW defs \in Seq(IndexDefs), NEW m \in 1..Len(defs), NEW r,
           BuiltUpTo(r, d0, defs, m - 1)
    PROVE  BuiltUpTo(NextIndex(r, defs[m]), d0, defs, m)
<1> DEFINE def == defs[m]
           o == OneIndex(r.docs, def)
           t == NextIndex(r, def)
<1>1. /\ r \in Builds /\ Len(r.ixs) = m - 1
      /\ \A i \in DOMAIN r.docs : i \in DOMAIN d0 /\ r.docs[i] = d0[i]
      /\ \A n \in 1..m - 1 : /\ DefOf(r.ixs[n]) = defs[n]
                             /\ Holds(r.ixs[n], r.docs, FALSE)
                             /\ r.ixs[n].rows \subseteq RowsOfAll(d0, DOMAIN d0, r.ixs[n].fields)
  BY DEF BuiltUpTo
<1>2. def \in IndexDefs /\ m \in Nat /\ m - 1 \in Nat /\ Len(defs) \in Nat
  OBVIOUS
<1>. HIDE DEF def
<1>3. /\ t \in Builds /\ t.docs = o.docs /\ t.ixs = Append(r.ixs, o.ix)
      /\ r.docs \in Collections /\ r.ixs \in Seq(FineIxs)
  BY <1>1, <1>2, NextIndexIs
<1>4. /\ o.docs \in Collections
      /\ \A i \in DOMAIN o.docs : i \in DOMAIN r.docs /\ o.docs[i] = r.docs[i]
      /\ o.ix \in FineIxs /\ DefOf(o.ix) = def
      /\ Holds(o.ix, o.docs, FALSE)
      /\ o.ix.rows \subseteq RowsOfAll(r.docs, DOMAIN r.docs, o.ix.fields)
  BY <1>2, <1>3, OneIndexIs
<1>. HIDE DEF o, t
<1>5. Len(t.ixs) = m /\ t.ixs[m] = o.ix /\ \A n \in 1..m - 1 : t.ixs[n] = r.ixs[n]
  <2> DEFINE s == r.ixs
             x == o.ix
  <2>1. s \in Seq(FineIxs) /\ x \in FineIxs /\ Len(s) = m - 1
    BY <1>1, <1>3, <1>4
  <2>. HIDE DEF s, x
  <2>2. /\ Len(Append(s, x)) = m /\ Append(s, x)[m] = x
        /\ \A n \in 1..m - 1 : Append(s, x)[n] = s[n]
    BY <1>2, <2>1
  <2>. QED BY <1>3, <2>2 DEF s, x
<1>6. \A i \in DOMAIN t.docs : i \in DOMAIN d0 /\ t.docs[i] = d0[i]
  BY <1>1, <1>3, <1>4
<1>7. ASSUME NEW n \in 1..m
      PROVE  /\ DefOf(t.ixs[n]) = defs[n]
             /\ Holds(t.ixs[n], t.docs, FALSE)
             /\ t.ixs[n].rows \subseteq RowsOfAll(d0, DOMAIN d0, t.ixs[n].fields)
  <2>1. CASE n = m
    <3>1. DefOf(o.ix) = defs[n] /\ Holds(o.ix, t.docs, FALSE)
      BY <1>3, <1>4, <2>1 DEF def
    <3>2. o.ix.rows \subseteq RowsOfAll(d0, DOMAIN d0, o.ix.fields)
      <4> DEFINE A == RowsOfAll(r.docs, DOMAIN r.docs, o.ix.fields)
                 B == RowsOfAll(d0, DOMAIN d0, o.ix.fields)
      <4>1. \A x : x \in A <=> \E i \in DOMAIN r.docs : x \in Mine(r.docs[i], o.ix.fields, i)
        BY AllRows
      <4>2. \A x : x \in B <=> \E i \in DOMAIN d0 : x \in Mine(d0[i], o.ix.fields, i)
        BY AllRows
      <4>3. o.ix.rows \subseteq A
        BY <1>4
      <4>. HIDE DEF A, B
      <4>4. A \subseteq B
        BY <1>1, <4>1, <4>2
      <4>5. o.ix.rows \subseteq B
        BY <4>3, <4>4
      <4>. QED BY <4>5 DEF B
    <3>. QED BY <1>5, <2>1, <3>1, <3>2
  <2>2. CASE n # m
    <3> DEFINE x == r.ixs[n]
    <3>1. n \in 1..m - 1 /\ t.ixs[n] = x
      BY <1>2, <1>5, <2>2
    <3>2. /\ DefOf(x) = defs[n] /\ Holds(x, r.docs, FALSE)
          /\ x.rows \subseteq RowsOfAll(d0, DOMAIN d0, x.fields)
      BY <1>1, <3>1
    <3>. HIDE DEF x
    <3>3. Holds(x, t.docs, FALSE)
      <4>1. RowsHold(x.rows, r.docs, x.fields, x.unique, FALSE)
        BY <3>2 DEF Holds
      <4>2. \A i \in DOMAIN t.docs : i \in DOMAIN r.docs /\ t.docs[i] = r.docs[i]
        BY <1>3, <1>4
      <4>3. RowsHold(x.rows, t.docs, x.fields, x.unique, FALSE)
        BY <4>1, <4>2, HoldShrunk
      <4>. QED BY <4>3 DEF Holds
    <3>. QED BY <3>1, <3>2, <3>3
  <2>. QED BY <2>1, <2>2
<1>8. BuiltUpTo(t, d0, defs, m)
  BY <1>3, <1>5, <1>6, <1>7 DEF BuiltUpTo
<1>. QED BY <1>8 DEF t, def

LEMMA RebuiltOfIs ==
    ASSUME NEW d0 \in Collections, NEW defs \in Seq(IndexDefs)
    PROVE  BuiltUpTo(RebuiltOf(d0, defs), d0, defs, Len(defs))
<1> DEFINE L == Len(defs)
           A == Builds
           none == [docs |-> d0, ixs |-> <<>>]
           f == CHOOSE f : f = [m \in 0..L |-> IF m = 0 THEN none ELSE NextIndex(f[m - 1], defs[m])]
           step == [m \in 1..L |-> [t \in A |-> NextIndex(t, defs[m])]]
<1>1. L \in Nat /\ \A m \in 1..L : defs[m] \in IndexDefs
  OBVIOUS
<1>2. none \in A /\ none.docs = d0 /\ none.ixs = <<>>
  BY DEF Builds
<1>3. Steps(step, L, A)
  <2>1. \A m \in 1..L : \A t \in A : NextIndex(t, defs[m]) \in A
    <3>. HIDE DEF L
    <3>. QED BY <1>1, NextIndexIs
  <2>. HIDE DEF A, L
  <2>. QED BY <2>1 DEF Steps
<1>. HIDE DEF none
<1>4. PICK g : Goes(g, L, A, none, step)
  <2>. HIDE DEF A, L, step
  <2>. QED BY <1>1, <1>2, <1>3, Run
<1>5. g \in [0..L -> A] /\ g[0] = none /\ \A m \in 1..L : g[m] = NextIndex(g[m - 1], defs[m])
  <2>. HIDE DEF A, L
  <2>1. \A m \in 1..L : m - 1 \in 0..L
    BY <1>1
  <2>2. g \in [0..L -> A] /\ g[0] = none /\ \A m \in 1..L : g[m] = step[m][g[m - 1]]
    <3>. HIDE DEF step
    <3>. QED BY <1>4, Goings
  <2>3. ASSUME NEW m \in 1..L PROVE g[m] = NextIndex(g[m - 1], defs[m])
    <3>1. g[m - 1] \in A
      BY <2>1, <2>2
    <3>. QED BY <2>2, <3>1
  <2>. QED BY <2>2, <2>3
<1>6. RebuiltOf(d0, defs) = f[L]
  BY Zenon DEF RebuiltOf, f, L, none
<1>. HIDE DEF A, L
<1>7. \A m \in 0..L : m # 0 => m \in 1..L
  BY <1>1
<1>8. g = [m \in 0..L |-> IF m = 0 THEN none ELSE NextIndex(g[m - 1], defs[m])]
  BY <1>5, <1>7
<1>9. f = [m \in 0..L |-> IF m = 0 THEN none ELSE NextIndex(f[m - 1], defs[m])]
  BY <1>8, Zenon
<1>. HIDE DEF f
<1>10. 0 \in 0..L /\ f[0] = none /\ \A m \in 0..L : m # 0 => f[m] = NextIndex(f[m - 1], defs[m])
  <2>1. 0 \in 0..L
    BY <1>1
  <2>. QED BY <1>9, <2>1
<1> DEFINE T == {m \in 0..L : BuiltUpTo(f[m], d0, defs, m)}
<1>11. 0 \in T
  <2>1. BuiltUpTo(none, d0, defs, 0)
    <3>1. Len(none.ixs) = 0 /\ \A n : n \notin 1..0
      BY <1>2
    <3>. QED BY <1>2, <3>1 DEF BuiltUpTo, A
  <2>. QED BY <1>10, <2>1
<1>12. ASSUME NEW m \in 0..L, m # 0, m - 1 \in T PROVE m \in T
  <2>1. m \in 1..Len(defs) /\ BuiltUpTo(f[m - 1], d0, defs, m - 1) /\ f[m] = NextIndex(f[m - 1], defs[m])
    BY <1>7, <1>10, <1>12 DEF L
  <2>2. BuiltUpTo(NextIndex(f[m - 1], defs[m]), d0, defs, m)
    BY <2>1, BuiltNext
  <2>. QED BY <2>1, <2>2
<1>13. L \in T
  <2>. HIDE DEF T
  <2>1. 0..L \subseteq T
    BY <1>1, <1>11, <1>12, AllTheWay
  <2>. QED BY <1>1, <2>1
<1>. QED BY <1>6, <1>13 DEF L

LEMMA DefsFine ==
    ASSUME NEW idx \in Seq(FinePayloads)
    PROVE  Defs(idx) \in Seq(IndexDefs) /\ Len(Defs(idx)) = Len(idx) /\ DOMAIN Defs(idx) = DOMAIN idx
<1> DEFINE r == Defs(idx)
           L == Len(idx)
<1>1. L \in Nat /\ DOMAIN idx = 1..L /\ \A n \in 1..L : idx[n] \in FinePayloads
  OBVIOUS
<1>2. \A n \in 1..L : DefOf(idx[n]) \in IndexDefs
  BY <1>1, LoadedFine
<1>. HIDE DEF L
<1>3. r = [n \in 1..L |-> DefOf(idx[n])]
  BY <1>1 DEF Defs, DefOf
<1>4. r \in [1..L -> IndexDefs]
  <2>. HIDE DEF r
  <2>. QED BY <1>2, <1>3
<1>. HIDE DEF r
<1>5. r \in Seq(IndexDefs) /\ Len(r) = L /\ DOMAIN r = 1..L
  BY <1>1, <1>4, SeqOfFunction
<1>. QED BY <1>1, <1>5 DEF r, L

LEMMA RepairDefsAre ==
    ASSUME log \in Seq(Batches)
    PROVE  /\ RepairDefs \in Seq(IndexDefs) /\ IsInjective(RepairDefs)
           /\ RepairDefs # <<>> => ListedAt # {}
<1>1. CASE ListedAt = {}
  <2>1. RepairDefs = <<>>
    BY <1>1 DEF RepairDefs
  <2>. QED BY <2>1 DEF IsInjective
<1>2. CASE ListedAt # {}
  <2> DEFINE k == CHOOSE n \in ListedAt : \A m \in ListedAt : m <= n
             idx == log[k].idx
  <2>1. DOMAIN log = 1..Len(log) /\ Len(log) \in Nat
    OBVIOUS
  <2>2. ListedAt \in SUBSET (1..Len(log)) /\ ListedAt \in SUBSET DOMAIN log
    BY <2>1 DEF ListedAt
  <2>3. \E n \in ListedAt : \A m \in ListedAt : m <= n
    BY <1>2, <2>1, <2>2, LastExists
  <2>4. k \in ListedAt
    BY <2>3
  <2>. HIDE DEF k
  <2>5. log[k] \in Batches
    BY <2>1, <2>2, <2>4
  <2>6. idx \in Seq(FinePayloads) /\ IsInjective(Defs(idx))
    BY <2>5, BatchParts
  <2>. HIDE DEF idx
  <2>7. RepairDefs = Defs(idx)
    BY <1>2 DEF RepairDefs, idx, k
  <2>. QED BY <1>2, <2>6, <2>7, DefsFine
<1>. QED BY <1>1, <1>2

LEMMA RebuiltIs ==
    ASSUME log \in Seq(Batches)
    PROVE  BuiltUpTo(Rebuilt, OldestOf(Versions), RepairDefs, Len(RepairDefs))
<1>1. OldestOf(Versions) \in Collections
  <2>1. VersionsOf(log) \in Seq(Version)
    BY LiveIs
  <2>. QED BY <2>1, OldestTyped, OnFileIs
<1>2. RepairDefs \in Seq(IndexDefs)
  BY RepairDefsAre
<1>3. Rebuilt = RebuiltOf(OldestOf(Versions), RepairDefs)
  BY Zenon DEF Rebuilt, RebuiltOf, NextIndex
<1>. QED BY <1>1, <1>2, <1>3, RebuiltOfIs

-----------------------------------------------------------------------------
(* What a flush writes *)

LEMMA PayloadsFine ==
    ASSUME NEW s \in Seq(FineIxs), NEW idx, idx = [n \in DOMAIN s |-> Payload(s[n])]
    PROVE  /\ idx \in Seq(FinePayloads) /\ DOMAIN idx = DOMAIN s /\ Defs(idx) = Defs(s)
           /\ idx # <<>> => s # <<>>
           /\ \A ds, pure : Held(s, ds, pure) => \A n \in DOMAIN idx : Holds(Loaded(idx[n]), ds, pure)
<1> DEFINE L == Len(s)
<1>1. L \in Nat /\ DOMAIN s = 1..L /\ \A n \in 1..L : s[n] \in FineIxs
  OBVIOUS
<1>2. \A n \in 1..L : /\ idx[n] = Payload(s[n]) /\ idx[n] \in FinePayloads
                      /\ DefOf(idx[n]) = DefOf(s[n]) /\ Loaded(idx[n]).rows = s[n].rows
  BY <1>1, PayloadFine
<1>3. idx \in [1..L -> FinePayloads]
  BY <1>1, <1>2
<1>. HIDE DEF L
<1>4. idx \in Seq(FinePayloads) /\ DOMAIN idx = 1..L
  BY <1>1, <1>3, SeqOfFunction
<1>5. Defs(idx) = Defs(s)
  BY <1>1, <1>2, <1>4 DEF Defs, DefOf
<1>6. idx # <<>> => s # <<>>
  <2>1. s = <<>> => idx = <<>>
    OBVIOUS
  <2>. QED BY <2>1
<1>7. ASSUME NEW ds, NEW pure, Held(s, ds, pure), NEW n \in DOMAIN idx
      PROVE  Holds(Loaded(idx[n]), ds, pure)
  <2> DEFINE p == idx[n]
             x == s[n]
             y == Loaded(p)
  <2>1. p \in FinePayloads /\ DefOf(p) = DefOf(x) /\ y.rows = x.rows /\ Holds(x, ds, pure)
    BY <1>1, <1>2, <1>4, <1>7 DEF Held
  <2>. HIDE DEF p, x
  <2>2. y.fields = p.fields /\ y.unique = p.unique
    BY <2>1, LoadedFine
  <2>3. p.fields = x.fields /\ p.unique = x.unique
    <3>1. DefOf(p).fields = p.fields /\ DefOf(p).unique = p.unique
      BY DefParts
    <3>2. DefOf(x).fields = x.fields /\ DefOf(x).unique = x.unique
      BY DefParts
    <3>. QED BY <2>1, <3>1, <3>2
  <2>. HIDE DEF y
  <2>4. Holds(y, ds, pure)
    BY <2>1, <2>2, <2>3, SameHolds
  <2>. QED BY <2>4 DEF y, p
<1>. QED BY <1>1, <1>4, <1>5, <1>6, <1>7

LEMMA DefsTyped ==
    ASSUME NEW s \in Seq(FineIxs)
    PROVE  /\ ToSet(Defs(s)) \subseteq IndexDefs
           /\ DOMAIN Defs(s) = DOMAIN s /\ \A n \in DOMAIN s : Defs(s)[n] = DefOf(s[n])
<1>1. \A n \in DOMAIN s : s[n] \in FineIxs /\ DefOf(s[n]) \in IndexDefs
  BY IxAt, FineParts
<1>2. DOMAIN Defs(s) = DOMAIN s /\ \A n \in DOMAIN s : Defs(s)[n] = DefOf(s[n])
  BY DEF Defs, DefOf
<1>. QED BY <1>1, <1>2 DEF ToSet

LEMMA FewerHolds ==
    ASSUME NEW ix, NEW ds, NEW pure, Holds(ix, ds, pure), NEW less, less => pure
    PROVE  Holds(ix, ds, less)
BY DEF Holds, RowsHold

-----------------------------------------------------------------------------
(* The steps *)

LEMMA FileSaysStays ==
    ASSUME log' = log, saved' = saved, Clean' => Clean, FileSays
    PROVE  FileSays'
<1>1. Live' = Live /\ Meta' = Meta
  BY OnFileIs
<1>2. /\ NewestOf(Live) = saved.docs /\ saved.exists = Meta.exists /\ saved.defs = Defs(Meta.idx)
      /\ saved.docs # Empty => saved.exists
      /\ \A n \in DOMAIN Meta.idx : Holds(Loaded(Meta.idx[n]), saved.docs, Clean)
  BY DEF FileSays
<1>3. \A n \in DOMAIN Meta'.idx : Holds(Loaded(Meta'.idx[n]), saved'.docs, Clean')
  <2>. HIDE DEF Clean
  <2>. QED BY <1>1, <1>2, FewerHolds
<1>. QED BY <1>1, <1>2, <1>3 DEF FileSays

\* A step of an open store that leaves the file alone.
LEMMA StepInMemory ==
    ASSUME DocInv, up, up' = up, log' = log, saved' = saved, rewrite' = rewrite,
           ~Late' => exposed' = exposed,
           docs' \in Collections, ixs' \in Seq(FineIxs), IsInjective(Defs(ixs)'),
           dirty' \subseteq DOMAIN docs', dels' \subseteq Key,
           drop' \in Drops,
           exists' \in BOOLEAN, docs' # Empty \/ ixs' # <<>> => exists',
           ~Late' => Held(ixs', docs', Clean), log # <<>> /\ ~Late' => Pending'
    PROVE  DocInv'
<1>1. TypeOK /\ Typed
  BY DEF DocInv
<1>2. TypeOK'
  <2>1. {up', exists', rewrite'} \subseteq BOOLEAN
    BY <1>1 DEF TypeOK
  <2>2. DOMAIN docs' \subseteq Key /\ \A i \in DOMAIN docs' : docs'[i] \in Contents
    BY CollectionParts
  <2>3. ToSet(Defs(ixs')) \subseteq IndexDefs
    BY DefsTyped
  <2>4. drop'.pc \in {"idle", "delete"} /\ drop'.todo \subseteq Key
    BY DEF Drops
  <2>. QED BY <2>1, <2>2, <2>3, <2>4 DEF TypeOK
<1>3. Typed'
  BY <1>1 DEF Typed
<1>4. ~Late' => ~Late /\ Clean' = Clean
  BY DEF Late, Clean
<1>5. ~Late' => \A n \in DOMAIN ixs' : Holds(ixs'[n], docs', Clean')
  BY <1>4 DEF Held
<1>6. log' # <<>> /\ ~Late' => FileSays'
  <2>1. ASSUME log' # <<>>, ~Late' PROVE FileSays'
    <3>1. FileSays /\ (Clean' => Clean)
      BY <1>4, <2>1 DEF DocInv
    <3>. QED BY <3>1, FileSaysStays
  <2>. QED BY <2>1
<1>. QED BY <1>2, <1>3, <1>5, <1>6 DEF DocInv

\* What holds of an open store.
LEMMA OpenStore ==
    ASSUME DocInv, up
    PROVE  /\ docs \in Collections /\ ixs \in Seq(FineIxs) /\ IsInjective(Defs(ixs))
           /\ dirty \subseteq DOMAIN docs /\ dels \subseteq Key /\ exists \in BOOLEAN
           /\ drop \in Drops
           /\ (docs # Empty \/ ixs # <<>> => exists)
           /\ (~Late => Held(ixs, docs, Clean)) /\ (log # <<>> /\ ~Late => Pending)
BY DEF DocInv, Typed, TypeOK, Held

LEMMA PendingParts ==
    Pending <=> /\ dels \intersect DOMAIN docs \subseteq dirty
                /\ \A i \in DOMAIN docs \ dirty : i \in DOMAIN saved.docs /\ saved.docs[i] = docs[i]
                /\ DOMAIN saved.docs \ DOMAIN docs \subseteq dels
BY DEF Pending

LEMMA CleanIs == Clean \in BOOLEAN
BY DEF Clean

LEMMA KeptIs ==
    ASSUME NEW s, NEW t, Kept(s, t)
    PROVE  t \in Seq(FineIxs) /\ Defs(t) = Defs(s) /\ (t # <<>> => s # <<>>)
<1>1. t \in Seq(FineIxs) /\ Defs(t) = Defs(s) /\ DOMAIN t = DOMAIN s
  BY KeptDefs
<1>2. s = <<>> => t = <<>>
  BY <1>1
<1>. QED BY <1>1, <1>2

LEMMA KeptIxs ==
    ASSUME IsInjective(Defs(ixs)), Kept(ixs, ixs')
    PROVE  /\ ixs' \in Seq(FineIxs) /\ IsInjective(Defs(ixs)')
           /\ ixs' # <<>> => ixs # <<>>
<1>1. ixs' \in Seq(FineIxs) /\ Defs(ixs') = Defs(ixs) /\ (ixs' # <<>> => ixs # <<>>)
  BY KeptIs
<1>2. Defs(ixs)' = Defs(ixs')
  BY DEF Defs
<1>. QED BY <1>1, <1>2

LEMMA PendingStays ==
    ASSUME Pending, UNCHANGED <<docs, dirty, dels, saved>>
    PROVE  Pending'
BY PendingParts DEF Pending

LEMMA PendingStored ==
    ASSUME Pending, docs \in Collections, NEW i \in Key, NEW c \in Contents, Stored(i, c),
           saved' = saved
    PROVE  Pending'
<1>1. docs' = With(docs, i, c) /\ dirty' = dirty \union {i} /\ dels' = dels
  BY DEF Stored
<1>2. /\ DOMAIN docs' = DOMAIN docs \union {i}
      /\ \A k \in DOMAIN docs : k # i => docs'[k] = docs[k]
  BY <1>1, WithIs
<1>3. /\ dels \intersect DOMAIN docs \subseteq dirty
      /\ \A k \in DOMAIN docs \ dirty : k \in DOMAIN saved.docs /\ saved.docs[k] = docs[k]
      /\ DOMAIN saved.docs \ DOMAIN docs \subseteq dels
  BY PendingParts
<1>4. dels' \intersect DOMAIN docs' \subseteq dirty'
  BY <1>1, <1>2, <1>3
<1>5. ASSUME NEW k \in DOMAIN docs' \ dirty' PROVE k \in DOMAIN saved'.docs /\ saved'.docs[k] = docs'[k]
  BY <1>1, <1>2, <1>3, <1>5
<1>6. DOMAIN saved'.docs \ DOMAIN docs' \subseteq dels'
  BY <1>1, <1>2, <1>3
<1>. QED BY <1>4, <1>5, <1>6 DEF Pending

\* A mutation keeps the indexes, or gives a document to all of them.
LEMMA StoredOrNot ==
    ASSUME DocInv, up, Counted, UNCHANGED <<drop, exposed>>, Kept(ixs, ixs'),
           exists' \in BOOLEAN, exists => exists',
           \/ /\ UNCHANGED <<docs, dirty, dels>>
              /\ ~Late => Held(ixs', docs, Clean)
           \/ \E i \in Key, c \in Contents :
                 /\ Stored(i, c)
                 /\ ~Late => Held(ixs', With(docs, i, c), Clean)
    PROVE  DocInv'
<1>1. /\ docs \in Collections /\ ixs \in Seq(FineIxs) /\ IsInjective(Defs(ixs))
      /\ dirty \subseteq DOMAIN docs /\ dels \subseteq Key
      /\ drop \in Drops
      /\ (docs # Empty \/ ixs # <<>> => exists)
      /\ (~Late => Held(ixs, docs, Clean)) /\ (log # <<>> /\ ~Late => Pending)
  BY OpenStore
<1>2. /\ up' = up /\ log' = log /\ saved' = saved /\ rewrite' = rewrite
      /\ drop' = drop /\ exposed' = exposed
  BY DEF Counted
<1>3. ixs' \in Seq(FineIxs) /\ IsInjective(Defs(ixs)') /\ (ixs' # <<>> => ixs # <<>>)
  BY <1>1, KeptIxs
<1>4. ~Late' => ~Late
  BY <1>2 DEF Late
<1>5. CASE UNCHANGED <<docs, dirty, dels>> /\ (~Late => Held(ixs', docs, Clean))
  <2>1. log # <<>> /\ ~Late' => Pending'
    <3>1. Pending => Pending'
      BY <1>2, <1>5, PendingStays
    <3>. QED BY <1>1, <1>4, <3>1
  <2>2. ~Late' => Held(ixs', docs', Clean)
    <3>1. docs' = docs
      BY <1>5
    <3>. QED BY <1>4, <1>5, <3>1
  <2>. QED BY <1>1, <1>2, <1>3, <1>5, <2>1, <2>2, StepInMemory
<1>6. ASSUME NEW i \in Key, NEW c \in Contents, Stored(i, c), ~Late => Held(ixs', With(docs, i, c), Clean)
      PROVE  DocInv'
  <2>1. docs' = With(docs, i, c) /\ dirty' = dirty \union {i} /\ dels' = dels /\ exists' = TRUE
    BY <1>6 DEF Stored
  <2>2. docs' \in Collections /\ DOMAIN docs' = DOMAIN docs \union {i}
    BY <1>1, <2>1, WithIs
  <2>3. dirty' \subseteq DOMAIN docs'
    BY <1>1, <2>1, <2>2
  <2>4. log # <<>> /\ ~Late' => Pending'
    <3>1. Pending => Pending'
      BY <1>1, <1>2, <1>6, PendingStored
    <3>. QED BY <1>1, <1>4, <3>1
  <2>5. ~Late' => Held(ixs', docs', Clean)
    BY <1>4, <1>6, <2>1
  <2>. QED BY <1>1, <1>2, <1>3, <2>1, <2>2, <2>3, <2>4, <2>5, StepInMemory
<1>. QED BY <1>5, <1>6

LEMMA InsertStep ==
    ASSUME DocInv, NEW i \in Key, NEW c \in Contents, Insert(i, c)
    PROVE  DocInv'
<1> DEFINE r == ApplyIndexes(ixs, NoOld, c, i)
<1>1. /\ up /\ i \notin DOMAIN docs /\ Counted /\ ixs' = r.ixs /\ exists' = TRUE
      /\ UNCHANGED <<drop, exposed>>
      /\ IF r.ok THEN Stored(i, c) ELSE UNCHANGED <<docs, dirty, dels>>
  BY DEF Insert, MayWrite, Stored
<1>2. docs \in Collections /\ ixs \in Seq(FineIxs) /\ (~Late => Held(ixs, docs, Clean))
  BY <1>1, OpenStore
<1>3. /\ Kept(ixs, r.ixs)
      /\ \A ds \in Collections, pure \in BOOLEAN : i \notin DOMAIN ds /\ Held(ixs, ds, pure) =>
            IF r.ok THEN Held(r.ixs, With(ds, i, c), pure) ELSE Held(r.ixs, ds, pure)
  BY <1>2, AppliedInsert
<1>. HIDE DEF r
<1>4. Clean \in BOOLEAN
  BY CleanIs
<1>5. ~Late => IF r.ok THEN Held(r.ixs, With(docs, i, c), Clean) ELSE Held(r.ixs, docs, Clean)
  BY <1>1, <1>2, <1>3, <1>4
<1>. QED BY <1>1, <1>3, <1>5, StoredOrNot

LEMMA ChangeStep ==
    ASSUME DocInv, NEW i \in Key, NEW c \in Contents, Change(i, c)
    PROVE  DocInv'
<1> DEFINE r == ApplyIndexes(ixs, docs[i], c, i)
<1>1. /\ up /\ i \in DOMAIN docs /\ docs[i] # c /\ Counted /\ ixs' = r.ixs
      /\ UNCHANGED <<drop, exposed>>
      /\ IF r.ok THEN Stored(i, c) ELSE UNCHANGED <<exists, docs, dirty, dels>>
  BY DEF Change, MayWrite
<1>2. /\ docs \in Collections /\ ixs \in Seq(FineIxs) /\ (~Late => Held(ixs, docs, Clean))
      /\ exists \in BOOLEAN
  BY <1>1, OpenStore
<1>3. /\ Kept(ixs, r.ixs)
      /\ \A pure \in BOOLEAN : Held(ixs, docs, pure) =>
            IF r.ok THEN Held(r.ixs, With(docs, i, c), pure) ELSE Held(r.ixs, docs, pure)
  BY <1>1, <1>2, AppliedChange
<1>. HIDE DEF r
<1>4. Clean \in BOOLEAN
  BY CleanIs
<1>5. ~Late => IF r.ok THEN Held(r.ixs, With(docs, i, c), Clean) ELSE Held(r.ixs, docs, Clean)
  BY <1>2, <1>3, <1>4
<1>6. exists' \in BOOLEAN /\ (exists => exists')
  BY <1>1, <1>2 DEF Stored
<1>. QED BY <1>1, <1>3, <1>5, <1>6, StoredOrNot

LEMMA PendingRemoved ==
    ASSUME Pending, docs \in Collections, NEW i \in DOMAIN docs, Removed(i), saved' = saved,
           log # <<>>
    PROVE  Pending'
<1>1. docs' = Less(docs, i) /\ dirty' = dirty \ {i} /\ dels' = dels \union {i}
  BY DEF Removed, Undirtied
<1>2. DOMAIN docs' = DOMAIN docs \ {i} /\ \A k \in DOMAIN docs : k # i => docs'[k] = docs[k]
  BY <1>1, LessIs
<1>3. /\ dels \intersect DOMAIN docs \subseteq dirty
      /\ \A k \in DOMAIN docs \ dirty : k \in DOMAIN saved.docs /\ saved.docs[k] = docs[k]
      /\ DOMAIN saved.docs \ DOMAIN docs \subseteq dels
  BY PendingParts
<1>4. dels' \intersect DOMAIN docs' \subseteq dirty'
  BY <1>1, <1>2, <1>3
<1>5. ASSUME NEW k \in DOMAIN docs' \ dirty' PROVE k \in DOMAIN saved'.docs /\ saved'.docs[k] = docs'[k]
  BY <1>1, <1>2, <1>3, <1>5
<1>6. DOMAIN saved'.docs \ DOMAIN docs' \subseteq dels'
  BY <1>1, <1>2, <1>3
<1>. QED BY <1>4, <1>5, <1>6 DEF Pending

LEMMA RemovedStep ==
    ASSUME DocInv, up, NEW i \in DOMAIN docs, Removed(i),
           UNCHANGED <<up, rewrite, log, saved, exposed>>,
           drop' \in Drops
    PROVE  DocInv'
<1>1. /\ docs \in Collections /\ ixs \in Seq(FineIxs) /\ IsInjective(Defs(ixs))
      /\ dirty \subseteq DOMAIN docs /\ dels \subseteq Key /\ exists \in BOOLEAN
      /\ (docs # Empty \/ ixs # <<>> => exists)
      /\ (~Late => Held(ixs, docs, Clean)) /\ (log # <<>> /\ ~Late => Pending)
  BY OpenStore
<1> DEFINE t == [n \in DOMAIN ixs |-> RemoveDoc(ixs[n], docs[i], i)]
<1>2. /\ ixs' = t /\ docs' = Less(docs, i) /\ dirty' = dirty \ {i}
      /\ dels' \subseteq dels \union {i} /\ exists' = exists
  BY DEF Removed, Undirtied
<1>3. /\ Kept(ixs, t)
      /\ \A pure \in BOOLEAN : Held(ixs, docs, pure) => Held(t, Less(docs, i), pure)
  BY <1>1, AllTakenOut
<1>. HIDE DEF t
<1>4. ixs' \in Seq(FineIxs) /\ IsInjective(Defs(ixs)') /\ (ixs' # <<>> => ixs # <<>>)
  BY <1>1, <1>2, <1>3, KeptIxs
<1>5. docs' \in Collections /\ DOMAIN docs' = DOMAIN docs \ {i}
  BY <1>1, <1>2, LessIs
<1>6. ~Late' => ~Late
  BY DEF Late
<1>7. ~Late' => Held(ixs', docs', Clean)
  <2>1. Clean \in BOOLEAN
    BY CleanIs
  <2>. QED BY <1>1, <1>2, <1>3, <1>6, <2>1
<1>8. log # <<>> /\ ~Late' => Pending'
  <2>1. log # <<>> /\ Pending => Pending'
    BY <1>1, PendingRemoved
  <2>. QED BY <1>1, <1>6, <2>1
<1>9. dirty' \subseteq DOMAIN docs'
  BY <1>1, <1>2, <1>5
<1>10. docs # Empty
  BY EmptyIs
<1>11. exists' \in BOOLEAN /\ (docs' # Empty \/ ixs' # <<>> => exists')
  BY <1>1, <1>2, <1>10
<1>12. dels' \subseteq Key
  <2>1. i \in Key
    BY <1>1, CollectionParts
  <2>. QED BY <1>1, <1>2, <2>1
<1>13. /\ up' = up /\ log' = log /\ saved' = saved /\ rewrite' = rewrite /\ exposed' = exposed
  OBVIOUS
<1>. QED BY <1>4, <1>5, <1>7, <1>8, <1>9, <1>11, <1>12, <1>13, StepInMemory

LEMMA DeleteStep ==
    ASSUME DocInv, NEW i \in Key, Delete(i)
    PROVE  DocInv'
<1>1. up /\ i \in DOMAIN docs /\ Removed(i) /\ UNCHANGED <<up, rewrite, log, saved, exposed>> /\ drop' = drop
  BY DEF Delete, MayWrite, Counted
<1>2. drop \in Drops
  BY <1>1, OpenStore
<1>. QED BY <1>1, <1>2, RemovedStep

\* A step that changes neither documents nor file.
LEMMA StepInIndexes ==
    ASSUME DocInv, up, UNCHANGED <<up, log, saved, rewrite, exposed, docs, dirty, dels>>,
           drop' \in Drops,
           exists' \in BOOLEAN, docs # Empty \/ ixs' # <<>> => exists',
           ixs' \in Seq(FineIxs), IsInjective(Defs(ixs)'),
           ~Late => Held(ixs', docs, Clean)
    PROVE  DocInv'
<1>1. /\ docs \in Collections /\ dirty \subseteq DOMAIN docs /\ dels \subseteq Key
      /\ (log # <<>> /\ ~Late => Pending)
  BY OpenStore
<1>2. /\ up' = up /\ log' = log /\ saved' = saved /\ rewrite' = rewrite /\ exposed' = exposed
      /\ docs' = docs /\ dirty' = dirty /\ dels' = dels
  OBVIOUS
<1>3. ~Late' => ~Late
  BY <1>2 DEF Late
<1>4. ~Late' => Held(ixs', docs', Clean)
  BY <1>2, <1>3
<1>5. log # <<>> /\ ~Late' => Pending'
  <2>1. Pending => Pending'
    BY <1>2, PendingStays
  <2>. QED BY <1>1, <1>3, <2>1
<1>. QED BY <1>1, <1>2, <1>4, <1>5, StepInMemory

LEMMA DropDeleteStep ==
    ASSUME DocInv, DropDelete
    PROVE  DocInv'
<1> DEFINE i == CHOOSE i \in drop.todo : \A j \in drop.todo : i <= j
<1>1. /\ up /\ UNCHANGED <<up, rewrite, log, saved, exposed>>
      /\ IF i \in DOMAIN docs
         THEN Removed(i) /\ drop' = [drop EXCEPT !.todo = @ \ {i}]
         ELSE drop' = NotDropping /\ UNCHANGED <<exists, docs, ixs, dirty, dels>>
  BY DEF DropDelete
<1>. HIDE DEF i
<1>2. drop \in Drops
  BY <1>1, OpenStore
<1>3. CASE i \in DOMAIN docs
  <2>1. drop' \in Drops
    BY <1>1, <1>2, <1>3 DEF Drops
  <2>. QED BY <1>1, <1>3, <2>1, RemovedStep
<1>4. CASE i \notin DOMAIN docs
  <2>1. drop' \in Drops
    BY <1>1, <1>4 DEF NotDropping, Drops
  <2>2. /\ ixs \in Seq(FineIxs) /\ IsInjective(Defs(ixs)) /\ exists \in BOOLEAN
        /\ (docs # Empty \/ ixs # <<>> => exists) /\ (~Late => Held(ixs, docs, Clean))
    BY <1>1, OpenStore
  <2>3. ixs' = ixs /\ exists' = exists /\ UNCHANGED <<docs, dirty, dels>>
    BY <1>1, <1>4
  <2>4. Defs(ixs)' = Defs(ixs)
    BY <2>3 DEF Defs
  <2>. QED BY <1>1, <2>1, <2>2, <2>3, <2>4, StepInIndexes
<1>. QED BY <1>3, <1>4

LEMMA DropBeginStep ==
    ASSUME DocInv, DropBegin
    PROVE  DocInv'
<1>1. /\ up /\ UNCHANGED <<up, rewrite, log, saved, exposed, docs, dirty, dels>>
      /\ exists' = exists /\ ixs' = ixs /\ drop' = [pc |-> "delete", todo |-> DOMAIN docs]
  BY DEF DropBegin, MayWrite, Counted
<1>2. /\ docs \in Collections /\ ixs \in Seq(FineIxs) /\ IsInjective(Defs(ixs)) /\ exists \in BOOLEAN
      /\ (docs # Empty \/ ixs # <<>> => exists) /\ (~Late => Held(ixs, docs, Clean))
  BY <1>1, OpenStore
<1>3. drop' \in Drops
  BY <1>1, <1>2, CollectionParts DEF Drops
<1>4. Defs(ixs)' = Defs(ixs)
  BY <1>1 DEF Defs
<1>. QED BY <1>1, <1>2, <1>3, <1>4, StepInIndexes

LEMMA CreateStep ==
    ASSUME DocInv, CreateCollection
    PROVE  DocInv'
<1>1. /\ up /\ UNCHANGED <<up, rewrite, log, saved, exposed, docs, dirty, dels>>
      /\ exists' = TRUE /\ ixs' = ixs /\ drop' = drop
  BY DEF CreateCollection, MayWrite, Counted
<1>2. /\ ixs \in Seq(FineIxs) /\ IsInjective(Defs(ixs)) /\ (~Late => Held(ixs, docs, Clean))
      /\ drop \in Drops
  BY <1>1, OpenStore
<1>3. Defs(ixs)' = Defs(ixs)
  BY <1>1 DEF Defs
<1>. QED BY <1>1, <1>2, <1>3, StepInIndexes

LEMMA SearchStep ==
    ASSUME DocInv, NEW n \in DOMAIN ixs, SearchIndex(n)
    PROVE  DocInv'
<1>1. /\ up /\ UNCHANGED <<up, rewrite, log, saved, exposed, docs, dirty, dels>>
      /\ exists' = exists /\ drop' = drop /\ ixs' = [ixs EXCEPT ![n] = EnsureOrd(@)]
  BY DEF SearchIndex
<1>2. /\ ixs \in Seq(FineIxs) /\ IsInjective(Defs(ixs)) /\ exists \in BOOLEAN
      /\ (docs # Empty \/ ixs # <<>> => exists) /\ (~Late => Held(ixs, docs, Clean))
      /\ drop \in Drops
  BY <1>1, OpenStore
<1>3. /\ Kept(ixs, ixs')
      /\ \A ds, pure : Held(ixs, ds, pure) => Held(ixs', ds, pure)
  <2> DEFINE t == [ixs EXCEPT ![n] = EnsureOrd(@)]
  <2>1. Kept(ixs, t) /\ \A ds, pure : Held(ixs, ds, pure) => Held(t, ds, pure)
    BY <1>2, SortedHolds
  <2>2. ixs' = t
    BY <1>1
  <2>. HIDE DEF t
  <2>. QED BY <2>1, <2>2
<1>4. ixs' \in Seq(FineIxs) /\ IsInjective(Defs(ixs)') /\ (ixs' # <<>> => ixs # <<>>)
  BY <1>2, <1>3, KeptIxs
<1>5. ~Late => Held(ixs', docs, Clean)
  BY <1>2, <1>3
<1>. QED BY <1>1, <1>2, <1>4, <1>5, StepInIndexes

LEMMA AppendedIx ==
    ASSUME NEW s \in Seq(FineIxs), IsInjective(Defs(s)), NEW x \in FineIxs,
           \A n \in DOMAIN s : s[n].fields # x.fields
    PROVE  /\ Append(s, x) \in Seq(FineIxs) /\ IsInjective(Defs(Append(s, x)))
           /\ \A ds, pure : Held(s, ds, pure) /\ Holds(x, ds, pure) => Held(Append(s, x), ds, pure)
<1> DEFINE t == Append(s, x)
           L == Len(s)
<1>1. /\ t \in Seq(FineIxs) /\ L \in Nat /\ DOMAIN s = 1..L /\ DOMAIN t = 1..(L + 1)
      /\ \A n \in 1..L : t[n] = s[n]
      /\ t[L + 1] = x
  OBVIOUS
<1>. HIDE DEF t, L
<1>2. \A n \in 1..(L + 1) : n \in 1..L \/ n = L + 1
  BY <1>1
<1>3. /\ DOMAIN Defs(s) = 1..L /\ \A n \in 1..L : Defs(s)[n] = DefOf(s[n])
      /\ DOMAIN Defs(t) = 1..(L + 1) /\ \A n \in 1..(L + 1) : Defs(t)[n] = DefOf(t[n])
  BY <1>1, DefsTyped
<1>4. \A n \in 1..L : DefOf(s[n]) # DefOf(x)
  <2>1. ASSUME NEW n \in 1..L PROVE DefOf(s[n]) # DefOf(x)
    <3> DEFINE y == s[n]
    <3>1. y.fields # x.fields
      BY <1>1
    <3>. HIDE DEF y
    <3>2. DefOf(y).fields = y.fields /\ DefOf(x).fields = x.fields
      BY DefParts
    <3>3. DefOf(y) # DefOf(x)
      BY <3>1, <3>2
    <3>. QED BY <3>3 DEF y
  <2>. QED BY <2>1
<1>5. \A m, n \in 1..L : DefOf(s[m]) = DefOf(s[n]) => m = n
  BY <1>3 DEF IsInjective
<1>6. \A m, n \in 1..(L + 1) : DefOf(t[m]) = DefOf(t[n]) => m = n
  <2> DEFINE d(y) == DefOf(y)
  <2>1. /\ \A n \in 1..L : d(s[n]) # d(x)
        /\ \A m, n \in 1..L : d(s[m]) = d(s[n]) => m = n
    BY <1>4, <1>5
  <2>. HIDE DEF d
  <2>2. \A m, n \in 1..(L + 1) : d(t[m]) = d(t[n]) => m = n
    BY <1>1, <1>2, <2>1
  <2>. QED BY <2>2 DEF d
<1>7. IsInjective(Defs(t))
  BY <1>3, <1>6 DEF IsInjective
<1>8. ASSUME NEW ds, NEW pure, Held(s, ds, pure), Holds(x, ds, pure) PROVE Held(t, ds, pure)
  <2>1. \A n \in 1..L : Holds(s[n], ds, pure)
    BY <1>1, <1>8 DEF Held
  <2>2. ASSUME NEW n \in 1..(L + 1) PROVE Holds(t[n], ds, pure)
    <3>1. CASE n \in 1..L
      BY <1>1, <2>1, <3>1
    <3>2. CASE n = L + 1
      BY <1>1, <1>8, <3>2
    <3>. QED BY <1>2, <2>2, <3>1, <3>2
  <2>. QED BY <1>1, <2>2 DEF Held
<1>. QED BY <1>1, <1>7, <1>8 DEF t

LEMMA RemovedIx ==
    ASSUME NEW s \in Seq(FineIxs), IsInjective(Defs(s)), NEW i \in DOMAIN s
    PROVE  /\ RemoveAt(s, i) \in Seq(FineIxs) /\ IsInjective(Defs(RemoveAt(s, i)))
           /\ \A ds, pure : Held(s, ds, pure) => Held(RemoveAt(s, i), ds, pure)
<1> DEFINE t == RemoveAt(s, i)
           L == Len(s)
           from(n) == IF n < i THEN n ELSE n + 1
<1>1. L \in Nat /\ DOMAIN s = 1..L /\ i \in 1..L
  OBVIOUS
<1>2. t \in Seq(FineIxs) /\ TakenOut(t, s, i)
  BY <1>1, TakenOutAt
<1>3. Len(t) = L - 1 /\ \A n \in 1..(L - 1) : t[n] = IF n < i THEN s[n] ELSE s[n + 1]
  BY <1>2 DEF TakenOut
<1>. HIDE DEF t
<1>4. DOMAIN t = 1..(L - 1)
  BY <1>2, <1>3
<1>. HIDE DEF L
<1>5. /\ \A n \in 1..(L - 1) : from(n) \in 1..L /\ t[n] = s[from(n)]
      /\ \A m, n \in 1..(L - 1) : from(m) = from(n) => m = n
  BY <1>1, <1>3
<1>. HIDE DEF from
<1>6. /\ DOMAIN Defs(s) = 1..L /\ \A n \in 1..L : Defs(s)[n] = DefOf(s[n])
      /\ DOMAIN Defs(t) = 1..(L - 1) /\ \A n \in 1..(L - 1) : Defs(t)[n] = DefOf(t[n])
  BY <1>1, <1>2, <1>4, DefsTyped
<1>7. \A m, n \in 1..L : DefOf(s[m]) = DefOf(s[n]) => m = n
  BY <1>6 DEF IsInjective
<1>8. ASSUME NEW m \in 1..(L - 1), NEW n \in 1..(L - 1), Defs(t)[m] = Defs(t)[n] PROVE m = n
  <2>1. DefOf(s[from(m)]) = DefOf(s[from(n)])
    BY <1>5, <1>6, <1>8
  <2>2. from(m) \in 1..L /\ from(n) \in 1..L
    BY <1>5
  <2>3. from(m) = from(n)
    BY <1>7, <2>1, <2>2
  <2>. QED BY <1>5, <2>3
<1>9. IsInjective(Defs(t))
  BY <1>6, <1>8 DEF IsInjective
<1>10. ASSUME NEW ds, NEW pure, Held(s, ds, pure) PROVE Held(t, ds, pure)
  <2>1. \A n \in 1..L : Holds(s[n], ds, pure)
    BY <1>1, <1>10 DEF Held
  <2>2. \A n \in 1..(L - 1) : Holds(t[n], ds, pure)
    BY <1>5, <2>1
  <2>. QED BY <1>4, <2>2 DEF Held
<1>. QED BY <1>2, <1>9, <1>10 DEF t

LEMMA EnsureIndexStep ==
    ASSUME DocInv, NEW def \in IndexDefs, EnsureIndex(def)
    PROVE  DocInv'
<1> DEFINE vs == Listed(docs, DOMAIN docs)
           x == Built(def, vs)
<1>1. /\ up /\ UNCHANGED <<up, rewrite, log, saved, exposed, docs, dirty, dels>>
      /\ exists' = TRUE /\ drop' = drop
      /\ \A n \in DOMAIN ixs : ixs[n].fields # def.fields
      /\ ixs' = IF Refused(def, vs) = {} THEN Append(ixs, x) ELSE ixs
  BY DEF EnsureIndex, MayWrite, Counted
<1>2. /\ docs \in Collections /\ ixs \in Seq(FineIxs) /\ IsInjective(Defs(ixs))
      /\ drop \in Drops /\ (~Late => Held(ixs, docs, Clean))
  BY <1>1, OpenStore
<1>3. Clean \in BOOLEAN
  BY CleanIs
<1>4. CASE Refused(def, vs) = {}
  <2>1. vs \in Seq(Version)
    BY <1>2, ListedIs
  <2>2. Holds(x, docs, Clean)
    BY <1>2, <1>3, <1>4, EnsuredHolds
  <2>. HIDE DEF vs
  <2>3. x \in FineIxs /\ x.fields = def.fields
    BY <2>1, BuiltIs
  <2>. HIDE DEF x
  <2>4. /\ Append(ixs, x) \in Seq(FineIxs) /\ IsInjective(Defs(Append(ixs, x)))
        /\ \A ds, pure : Held(ixs, ds, pure) /\ Holds(x, ds, pure) => Held(Append(ixs, x), ds, pure)
    BY <1>1, <1>2, <2>3, AppendedIx
  <2>5. ixs' = Append(ixs, x)
    BY <1>1, <1>4
  <2>6. Defs(ixs)' = Defs(ixs')
    BY DEF Defs
  <2>7. ixs' \in Seq(FineIxs) /\ IsInjective(Defs(ixs)') /\ (~Late => Held(ixs', docs, Clean))
    BY <1>2, <2>2, <2>4, <2>5, <2>6
  <2>. QED BY <1>1, <1>2, <2>7, StepInIndexes
<1>5. CASE Refused(def, vs) # {}
  <2>1. ixs' = ixs
    BY <1>1, <1>5
  <2>2. Defs(ixs)' = Defs(ixs)
    BY <2>1 DEF Defs
  <2>. QED BY <1>1, <1>2, <2>1, <2>2, StepInIndexes
<1>. QED BY <1>4, <1>5

LEMMA DropIndexStep ==
    ASSUME DocInv, NEW n \in DOMAIN ixs, DropIndex(n)
    PROVE  DocInv'
<1> DEFINE t == RemoveAt(ixs, n)
<1>1. /\ up /\ UNCHANGED <<up, rewrite, log, saved, exposed, docs, dirty, dels>>
      /\ exists' = exists /\ drop' = drop /\ ixs' = t
  BY DEF DropIndex, MayWrite, Counted
<1>2. /\ ixs \in Seq(FineIxs) /\ IsInjective(Defs(ixs)) /\ exists \in BOOLEAN
      /\ drop \in Drops /\ (docs # Empty \/ ixs # <<>> => exists)
      /\ (~Late => Held(ixs, docs, Clean))
  BY <1>1, OpenStore
<1>3. /\ t \in Seq(FineIxs) /\ IsInjective(Defs(t))
      /\ \A ds, pure : Held(ixs, ds, pure) => Held(t, ds, pure)
  BY <1>2, RemovedIx
<1>. HIDE DEF t
<1>4. Defs(ixs)' = Defs(t)
  BY <1>1 DEF Defs
<1>5. ixs # <<>>
  OBVIOUS
<1>6. ~Late => Held(ixs', docs, Clean)
  BY <1>1, <1>2, <1>3
<1>. QED BY <1>1, <1>2, <1>3, <1>4, <1>5, <1>6, StepInIndexes

LEMMA NoIxs ==
    /\ <<>> \in Seq(FineIxs) /\ IsInjective(Defs(<<>>)) /\ Defs(<<>>) = <<>>
    /\ \A ds, pure : Held(<<>>, ds, pure)
<1>1. <<>> \in Seq(FineIxs) /\ DOMAIN <<>> = {}
  OBVIOUS
<1>2. Defs(<<>>) = <<>>
  BY DEF Defs
<1>. QED BY <1>1, <1>2 DEF Held, IsInjective

LEMMA DropEndStep ==
    ASSUME DocInv, DropEnd
    PROVE  DocInv'
<1>1. /\ up /\ up' = up /\ UNCHANGED <<dels, rewrite, log, saved>> /\ drop' = NotDropping
      /\ exists' = FALSE /\ docs' = Empty /\ ixs' = <<>> /\ dirty' = {}
      /\ exposed' = exposed \union (IF docs = Empty THEN {} ELSE {"dropped_late"})
  BY DEF DropEnd
<1>2. dels \subseteq Key /\ (log # <<>> /\ ~Late => Pending) /\ docs \in Collections
  BY <1>1, OpenStore
<1>3. ~Late' => docs = Empty /\ ~Late /\ exposed' = exposed
  BY <1>1 DEF Late
<1>4. drop' \in Drops /\ exists' \in BOOLEAN
  BY <1>1 DEF NotDropping, Drops
<1>5. Empty \in Collections /\ DOMAIN Empty = {}
  BY EmptyIs
<1>6. Defs(ixs)' = Defs(<<>>)
  BY <1>1 DEF Defs
<1>7. /\ ixs' \in Seq(FineIxs) /\ IsInjective(Defs(ixs)')
      /\ ~Late' => Held(ixs', docs', Clean)
  BY <1>1, <1>6, NoIxs
<1>8. log # <<>> /\ ~Late' => Pending'
  <2>1. ASSUME docs = Empty, Pending PROVE Pending'
    <3>1. DOMAIN saved.docs \ DOMAIN docs \subseteq dels
      BY <2>1, PendingParts
    <3>2. DOMAIN docs' = {} /\ DOMAIN docs = {}
      BY <1>1, <1>5, <2>1
    <3>. QED BY <1>1, <3>1, <3>2 DEF Pending
  <2>. QED BY <1>2, <1>3, <2>1
<1>9. dirty' \subseteq DOMAIN docs' /\ docs' \in Collections /\ ~(docs' # Empty \/ ixs' # <<>>)
  BY <1>1, <1>5
<1>. QED BY <1>1, <1>2, <1>3, <1>4, <1>7, <1>8, <1>9, StepInMemory

\* What a flush writes is what is in memory.
LEMMA BatchIs ==
    ASSUME DocInv, up, NEW full \in BOOLEAN
    PROVE  /\ Batch(full) \in Batches
           /\ Batch(full).dels = (IF full THEN {} ELSE dels)
           /\ Batch(full).docs = Listed(docs, WrittenIds(full))
           /\ Batch(full).exists = exists
           /\ Defs(Batch(full).idx) = Defs(ixs)
           /\ ~Late => \A n \in DOMAIN Batch(full).idx : Holds(Loaded(Batch(full).idx[n]), docs, Clean)
<1> DEFINE D == IF full THEN {} ELSE dels
           vs == Listed(docs, WrittenIds(full))
           sus == \E i \in WrittenIds(full) : \E n \in DOMAIN ixs : ~Covers(ixs[n], docs[i], i)
           idx == [n \in DOMAIN ixs |-> Payload(ixs[n])]
<1>1. Batch(full) = [dels |-> D, docs |-> vs, suspect |-> sus, exists |-> exists, idx |-> idx]
  BY DEF Batch
<1>2. /\ docs \in Collections /\ ixs \in Seq(FineIxs) /\ IsInjective(Defs(ixs))
      /\ dirty \subseteq DOMAIN docs /\ dels \subseteq Key /\ exists \in BOOLEAN
      /\ (docs # Empty \/ ixs # <<>> => exists) /\ (~Late => Held(ixs, docs, Clean))
  BY OpenStore
<1>3. WrittenIds(full) \in SUBSET DOMAIN docs
  BY <1>2 DEF WrittenIds
<1>4. vs \in Seq(Version)
  BY <1>2, <1>3, ListedIs
<1>5. /\ idx \in Seq(FinePayloads) /\ Defs(idx) = Defs(ixs) /\ (idx # <<>> => ixs # <<>>)
      /\ \A ds, pure : Held(ixs, ds, pure) => \A n \in DOMAIN idx : Holds(Loaded(idx[n]), ds, pure)
  BY <1>2, PayloadsFine
<1>6. sus \in BOOLEAN
  OBVIOUS
<1>7. D \in SUBSET Key
  BY <1>2
<1>. HIDE DEF D, vs, sus, idx
<1> DEFINE b == Batch(full)
<1>8. /\ b.dels = D /\ b.docs = vs /\ b.exists = exists /\ b.idx = idx
  BY <1>1
<1>9. b = [dels |-> D, docs |-> vs, suspect |-> sus, exists |-> exists, idx |-> idx]
  BY <1>1
<1>. HIDE DEF b
<1>10. b \in Batches
  BY <1>2, <1>4, <1>5, <1>6, <1>7, <1>9, Batched
<1>11. ~Late => \A n \in DOMAIN b.idx : Holds(Loaded(b.idx[n]), docs, Clean)
  BY <1>2, <1>5, <1>8
<1>. QED BY <1>5, <1>8, <1>10, <1>11 DEF b, D, vs

\* A flush: the memory is on file.
LEMMA SavedStep ==
    ASSUME DocInv, up, NEW full \in BOOLEAN,
           UNCHANGED <<up, exists, docs, drop, exposed>>,
           ixs' = [n \in DOMAIN ixs |-> Serialized(ixs[n])],
           dirty' = {}, dels' = {}, rewrite' = FALSE,
           saved' = [exists |-> exists, docs |-> docs, defs |-> Defs(ixs)],
           log' \in Seq(Batches), log' # <<>>, log'[Len(log')] = Batch(full),
           ~Late => NewestOf(LiveOf(log')) = docs
    PROVE  DocInv'
<1>1. /\ docs \in Collections /\ ixs \in Seq(FineIxs) /\ IsInjective(Defs(ixs))
      /\ exists \in BOOLEAN /\ drop \in Drops
      /\ (docs # Empty \/ ixs # <<>> => exists) /\ (~Late => Held(ixs, docs, Clean))
  BY OpenStore
<1>2. /\ up' = up /\ exists' = exists /\ docs' = docs /\ drop' = drop /\ exposed' = exposed
      /\ saved'.exists = exists /\ saved'.docs = docs /\ saved'.defs = Defs(ixs)
  OBVIOUS
<1>3. /\ Kept(ixs, ixs')
      /\ \A ds, pure : Held(ixs, ds, pure) => Held(ixs', ds, pure)
  <2> DEFINE t == [n \in DOMAIN ixs |-> Serialized(ixs[n])]
  <2>1. Kept(ixs, t) /\ \A ds, pure : Held(ixs, ds, pure) => Held(t, ds, pure)
    BY <1>1, AllSerialized
  <2>2. ixs' = t
    OBVIOUS
  <2>. HIDE DEF t
  <2>. QED BY <2>1, <2>2
<1>4. ixs' \in Seq(FineIxs) /\ IsInjective(Defs(ixs)') /\ (ixs' # <<>> => ixs # <<>>)
  BY <1>1, <1>3, KeptIxs
<1>5. (Late' <=> Late) /\ (Clean' <=> Clean)
  BY <1>2 DEF Late, Clean
<1>6. TypeOK'
  <2>1. {up', exists', rewrite'} \subseteq BOOLEAN
    BY <1>1, <1>2
  <2>2. DOMAIN docs' \subseteq Key /\ \A i \in DOMAIN docs' : docs'[i] \in Contents
    BY <1>1, <1>2, CollectionParts
  <2>3. ToSet(Defs(ixs')) \subseteq IndexDefs
    BY <1>4, DefsTyped
  <2>4. drop'.pc \in {"idle", "delete"} /\ drop'.todo \subseteq Key
    BY <1>1, <1>2 DEF Drops
  <2>. QED BY <1>1, <1>2, <1>4, <2>1, <2>2, <2>3, <2>4 DEF TypeOK
<1>7. Typed'
  BY <1>1, <1>2, <1>4 DEF Typed
<1>8. ~Late' => \A n \in DOMAIN ixs' : Holds(ixs'[n], docs', Clean')
  <2>1. ~Late => Held(ixs', docs, Clean)
    BY <1>1, <1>3
  <2>2. Clean' = Clean
    BY <1>2 DEF Clean
  <2>3. ~Late' => Held(ixs', docs', Clean')
    BY <1>2, <1>5, <2>1, <2>2
  <2>. QED BY <2>3 DEF Held
<1>9. Pending'
  BY <1>2 DEF Pending
<1>10. ASSUME ~Late PROVE FileSays'
  <2> DEFINE b == Batch(full)
  <2>1. b.exists = exists /\ Defs(b.idx) = Defs(ixs)
    BY BatchIs
  <2>2. \A n \in DOMAIN b.idx : Holds(Loaded(b.idx[n]), docs, Clean)
    BY <1>10, BatchIs
  <2>3. Meta' = b /\ Live' = LiveOf(log')
    BY OnFileIs
  <2>. HIDE DEF b
  <2>4. NewestOf(Live') = saved'.docs
    BY <1>2, <1>10, <2>3
  <2>5. Clean' = Clean
    BY <1>2 DEF Clean
  <2>6. \A n \in DOMAIN Meta'.idx : Holds(Loaded(Meta'.idx[n]), saved'.docs, Clean')
    BY <1>2, <2>2, <2>3, <2>5
  <2>7. saved'.exists = Meta'.exists /\ saved'.defs = Defs(Meta'.idx)
    BY <1>2, <2>1, <2>3
  <2>8. saved'.docs # Empty => saved'.exists
    BY <1>1, <1>2
  <2>. QED BY <2>4, <2>6, <2>7, <2>8 DEF FileSays
<1>. QED BY <1>5, <1>6, <1>7, <1>8, <1>9, <1>10 DEF DocInv

\* A full flush: the file has one batch.
LEMMA RewrittenStep ==
    ASSUME DocInv, up, UNCHANGED <<up, exists, docs, drop, exposed>>,
           ixs' = [n \in DOMAIN ixs |-> Serialized(ixs[n])],
           dirty' = {}, dels' = {}, rewrite' = FALSE,
           saved' = [exists |-> exists, docs |-> docs, defs |-> Defs(ixs)],
           log' = <<Batch(TRUE)>>
    PROVE  DocInv'
<1> DEFINE b == Batch(TRUE)
<1>1. docs \in Collections
  BY OpenStore
<1>2. b \in Batches /\ b.docs = Listed(docs, WrittenIds(TRUE))
  BY BatchIs
<1>3. WrittenIds(TRUE) = DOMAIN docs
  BY DEF WrittenIds
<1>4. b.docs = Listed(docs, DOMAIN docs)
  BY <1>2, <1>3
<1>5. log' = <<b>>
  OBVIOUS
<1>6. NewestOf(b.docs) = docs
  BY <1>1, <1>4, AllListed
<1>. HIDE DEF b
<1>7. /\ <<b>> \in Seq(Batches) /\ Len(<<b>>) = 1 /\ <<b>>[1] = b /\ <<b>> # <<>>
      /\ NewestOf(LiveOf(<<b>>)) = NewestOf(b.docs)
  BY <1>2, FirstSays
<1>8. /\ log' \in Seq(Batches) /\ log' # <<>> /\ log'[Len(log')] = b
      /\ NewestOf(LiveOf(log')) = docs
  BY <1>5, <1>6, <1>7
<1>9. log'[Len(log')] = Batch(TRUE)
  BY <1>8 DEF b
<1>. QED BY <1>8, <1>9, SavedStep

\* A flush of what changed says, behind what is on file, what is in memory.
LEMMA AppendedStep ==
    ASSUME DocInv, up, ~rewrite, UNCHANGED <<up, exists, docs, drop, exposed>>,
           ixs' = [n \in DOMAIN ixs |-> Serialized(ixs[n])],
           dirty' = {}, dels' = {}, rewrite' = FALSE,
           saved' = [exists |-> exists, docs |-> docs, defs |-> Defs(ixs)],
           log' = Append(log, Batch(FALSE))
    PROVE  DocInv'
<1> DEFINE b == Batch(FALSE)
<1>1. /\ docs \in Collections /\ dirty \subseteq DOMAIN docs
      /\ (log # <<>> /\ ~Late => Pending)
  BY OpenStore
<1>2. log \in Seq(Batches) /\ log # <<>> /\ (log # <<>> /\ ~Late => FileSays)
      /\ saved.docs \in Collections
  BY DEF DocInv, Typed
<1>3. b \in Batches /\ b.docs = Listed(docs, WrittenIds(FALSE)) /\ b.dels = dels
  BY BatchIs
<1>4. WrittenIds(FALSE) = dirty
  BY DEF WrittenIds
<1>5. b.docs = Listed(docs, dirty)
  BY <1>3, <1>4
<1>6. log' = Append(log, b)
  OBVIOUS
<1>. HIDE DEF b
<1>7. log' \in Seq(Batches) /\ log' # <<>> /\ log'[Len(log')] = b
  <2>1. Append(log, b) \in Seq(Batches) /\ Append(log, b) # <<>>
        /\ Append(log, b)[Len(Append(log, b))] = b
    BY <1>2, <1>3
  <2>. QED BY <1>6, <2>1
<1>8. ASSUME ~Late PROVE NewestOf(LiveOf(log')) = docs
  <2> DEFINE now == NewestOf(LiveOf(log'))
             new == NewestOf(b.docs)
             old == saved.docs
  <2>1. Updated(NewestOf(LiveOf(Append(log, b))), NewestOf(LiveOf(log)), NewestOf(b.docs), b.dels)
    BY <1>2, <1>3, AppendedSays
  <2>2. NewestOf(LiveOf(log)) = saved.docs
    <3>1. NewestOf(Live) = saved.docs
      BY <1>2, <1>8 DEF FileSays
    <3>. QED BY <3>1, OnFileIs
  <2>3. Updated(now, old, new, dels)
    BY <1>3, <1>6, <2>1, <2>2
  <2>4. (\A i : i \in DOMAIN new <=> i \in dirty) /\ \A i \in dirty : new[i] = docs[i]
    BY <1>1, <1>5, ListedSays
  <2>5. now \in Collections
    <3>1. LiveOf(log') \in Seq(Version)
      BY <1>7, LiveIs
    <3>. QED BY <3>1, NewestTyped
  <2>. HIDE DEF now, new
  <2>6. /\ \A i : i \in DOMAIN now <=> i \in DOMAIN new \/ (i \in DOMAIN old /\ i \notin dels)
        /\ \A i \in DOMAIN new : now[i] = new[i]
        /\ \A i \in DOMAIN old : i \notin DOMAIN new /\ i \notin dels => now[i] = old[i]
    BY <2>3 DEF Updated
  <2>7. /\ dels \intersect DOMAIN docs \subseteq dirty
        /\ \A i \in DOMAIN docs \ dirty : i \in DOMAIN old /\ old[i] = docs[i]
        /\ DOMAIN old \ DOMAIN docs \subseteq dels
    BY <1>1, <1>2, <1>8, PendingParts
  <2>. HIDE DEF old
  <2>8. DOMAIN now = DOMAIN docs
    BY <1>1, <2>4, <2>6, <2>7
  <2>9. \A i \in DOMAIN docs : now[i] = docs[i]
    BY <1>1, <2>4, <2>6, <2>7
  <2>10. now = docs
    BY <1>1, <2>5, <2>8, <2>9, SameCollection
  <2>. QED BY <2>10 DEF now
<1>9. log'[Len(log')] = Batch(FALSE)
  BY <1>7 DEF b
<1>. QED BY <1>7, <1>8, <1>9, SavedStep

LEMMA FlushStep ==
    ASSUME DocInv, Flush
    PROVE  DocInv'
<1>1. /\ up /\ UNCHANGED <<up, exists, docs, drop, exposed>>
      /\ ixs' = [n \in DOMAIN ixs |-> Serialized(ixs[n])]
      /\ dirty' = {} /\ dels' = {} /\ rewrite' = FALSE
      /\ saved' = [exists |-> exists, docs |-> docs, defs |-> Defs(ixs)]
      /\ log' = IF rewrite THEN <<Batch(TRUE)>> ELSE Append(log, Batch(FALSE))
  BY DEF Flush
<1>2. CASE rewrite
  BY <1>1, <1>2, RewrittenStep
<1>3. CASE ~rewrite
  BY <1>1, <1>3, AppendedStep
<1>. QED BY <1>2, <1>3

LEMMA CompactStep ==
    ASSUME DocInv, Compact
    PROVE  DocInv'
<1>1. rewrite \in BOOLEAN
  BY DEF DocInv, TypeOK
<1>2. /\ up /\ UNCHANGED <<up, exists, docs, drop, exposed>>
      /\ ixs' = [n \in DOMAIN ixs |-> Serialized(ixs[n])]
      /\ dirty' = {} /\ dels' = {} /\ rewrite' = FALSE
      /\ saved' = [exists |-> exists, docs |-> docs, defs |-> Defs(ixs)]
      /\ log' = <<Batch(TRUE)>>
  BY <1>1 DEF Compact
<1>. QED BY <1>2, RewrittenStep

LEMMA CrashStep ==
    ASSUME DocInv, Crash
    PROVE  DocInv'
<1>1. /\ ~up' /\ up' \in BOOLEAN /\ exists' = FALSE /\ docs' = Empty /\ ixs' = <<>> /\ dirty' = {}
      /\ dels' = {} /\ rewrite' = FALSE /\ drop' = NotDropping /\ log # <<>>
      /\ log' = log /\ saved' = saved /\ exposed' = exposed
  BY DEF Crash
<1>2. Empty \in Collections /\ DOMAIN Empty = {}
  BY EmptyIs
<1>3. <<>> \in Seq(FineIxs) /\ IsInjective(Defs(<<>>)) /\ Defs(<<>>) = <<>>
  BY NoIxs
<1>4. Defs(ixs)' = Defs(<<>>)
  BY <1>1 DEF Defs
<1>5. drop' \in Drops /\ drop'.pc \in {"idle", "delete"} /\ drop'.todo \subseteq Key
  BY <1>1 DEF NotDropping, Drops
<1>6. TypeOK'
  <2>1. ToSet(Defs(ixs)') \subseteq IndexDefs
    BY <1>3, <1>4 DEF ToSet
  <2>2. {up', exists', rewrite'} \subseteq BOOLEAN
    BY <1>1
  <2>. QED BY <1>1, <1>2, <1>3, <1>4, <1>5, <2>1, <2>2 DEF TypeOK
<1>7. Typed'
  BY <1>1, <1>2, <1>3, <1>5 DEF Typed, DocInv
<1>8. ASSUME ~Late' PROVE FileSays'
  <2>1. ~Late /\ (Clean' => Clean)
    BY <1>1, <1>8 DEF Late, Clean
  <2>. QED BY <1>1, <2>1, FileSaysStays DEF DocInv
<1>. QED BY <1>1, <1>6, <1>7, <1>8 DEF DocInv

LEMMA LoadedIxs ==
    ASSUME NEW idx \in Seq(FinePayloads), NEW t, t = [n \in DOMAIN idx |-> Loaded(idx[n])]
    PROVE  /\ t \in Seq(FineIxs) /\ Defs(t) = Defs(idx) /\ DOMAIN t = DOMAIN idx
           /\ t # <<>> => idx # <<>>
<1> DEFINE L == Len(idx)
<1>1. L \in Nat /\ DOMAIN idx = 1..L /\ \A n \in 1..L : idx[n] \in FinePayloads
  OBVIOUS
<1>2. \A n \in 1..L : /\ t[n] = Loaded(idx[n]) /\ t[n] \in FineIxs /\ DefOf(t[n]) = DefOf(idx[n])
  BY <1>1, LoadedFine
<1>3. t \in [1..L -> FineIxs]
  BY <1>1, <1>2
<1>. HIDE DEF L
<1>4. t \in Seq(FineIxs) /\ DOMAIN t = 1..L
  BY <1>1, <1>3, SeqOfFunction
<1>5. Defs(t) = Defs(idx)
  BY <1>1, <1>2, <1>4 DEF Defs, DefOf
<1>6. idx = <<>> => t = <<>>
  OBVIOUS
<1>. QED BY <1>1, <1>4, <1>5, <1>6

LEMMA BuiltIxs ==
    ASSUME NEW vs \in Seq(Version), NEW defs \in Seq(IndexDefs),
           NEW t, t = [n \in DOMAIN defs |-> Built(defs[n], vs)]
    PROVE  /\ t \in Seq(FineIxs) /\ Defs(t) = defs /\ DOMAIN t = DOMAIN defs
           /\ t # <<>> => defs # <<>>
<1> DEFINE L == Len(defs)
<1>1. L \in Nat /\ DOMAIN defs = 1..L /\ \A n \in 1..L : defs[n] \in IndexDefs
  OBVIOUS
<1>2. \A n \in 1..L : /\ t[n] = Built(defs[n], vs) /\ t[n] \in FineIxs /\ DefOf(t[n]) = defs[n]
  BY <1>1, BuiltIs
<1>3. t \in [1..L -> FineIxs]
  BY <1>1, <1>2
<1>. HIDE DEF L
<1>4. t \in Seq(FineIxs) /\ DOMAIN t = 1..L
  BY <1>1, <1>3, SeqOfFunction
<1>5. Defs(t) = [n \in 1..L |-> defs[n]]
  BY <1>1, <1>2, <1>4 DEF Defs, DefOf
<1>6. defs = [n \in 1..L |-> defs[n]]
  BY <1>1
<1>7. defs = <<>> => t = <<>>
  OBVIOUS
<1>. QED BY <1>1, <1>4, <1>5, <1>6, <1>7

GivesBack == exists' = saved.exists /\ docs' = saved.docs /\ Defs(ixs') = saved.defs

\* What the file says is in memory.
LEMMA OpenedStep ==
    ASSUME DocInv, ~up, up', UNCHANGED <<dirty, dels, log, drop, saved>>,
           {up', rewrite', exists'} \subseteq BOOLEAN, docs' \in Collections, ixs' \in Seq(FineIxs),
           Defs(ixs)' = Defs(Meta.idx), docs' # Empty \/ ixs' # <<>> => exists',
           Late' <=> Late, Clean' => Clean,
           ~Late => docs' = saved.docs /\ exists' = saved.exists /\ Held(ixs', docs', Clean')
    PROVE  DocInv' /\ (~Late' => GivesBack)
<1>1. /\ log # <<>> /\ log \in Seq(Batches) /\ dirty = {} /\ dels = {} /\ drop \in Drops
      /\ saved.docs \in Collections /\ (~Late => FileSays)
  BY DEF DocInv, Typed
<1>2. IsInjective(Defs(Meta.idx))
  <2>1. Meta \in Batches
    BY <1>1 DEF Meta
  <2>. QED BY <2>1, BatchParts
<1>3. TypeOK'
  <2>1. {up', exists', rewrite'} \subseteq BOOLEAN
    OBVIOUS
  <2>2. DOMAIN docs' \subseteq Key /\ \A i \in DOMAIN docs' : docs'[i] \in Contents
    BY CollectionParts
  <2>3. ToSet(Defs(ixs')) \subseteq IndexDefs
    BY DefsTyped
  <2>4. drop'.pc \in {"idle", "delete"} /\ drop'.todo \subseteq Key
    BY <1>1 DEF Drops
  <2>5. IsInjective(Defs(ixs)')
    BY <1>2
  <2>. QED BY <1>1, <2>1, <2>2, <2>3, <2>4, <2>5 DEF TypeOK
<1>4. Typed'
  BY <1>1 DEF Typed
<1>5. ~Late' => \A n \in DOMAIN ixs' : Holds(ixs'[n], docs', Clean')
  BY DEF Held
<1>6. ~Late' => FileSays'
  <2>1. ~Late => FileSays'
    BY <1>1, FileSaysStays
  <2>. QED BY <2>1
<1>7. ~Late' => Pending'
  <2>1. ASSUME ~Late PROVE Pending'
    <3>1. docs' = saved'.docs /\ dels' = {}
      BY <1>1, <2>1
    <3>. QED BY <3>1 DEF Pending
  <2>. QED BY <2>1
<1>8. ~Late' => GivesBack
  <2>1. ASSUME ~Late PROVE GivesBack
    <3>1. saved.defs = Defs(Meta.idx)
      BY <1>1, <2>1 DEF FileSays
    <3>2. Defs(ixs') = Defs(ixs)'
      BY DEF Defs
    <3>. QED BY <2>1, <3>1, <3>2 DEF GivesBack
  <2>. QED BY <2>1
<1>9. DocInv'
  BY <1>3, <1>4, <1>5, <1>6, <1>7 DEF DocInv
<1>. QED BY <1>8, <1>9

LEMMA OpenedPlainly ==
    ASSUME DocInv, Open, ~NeedEager
    PROVE  DocInv' /\ (up' /\ ~Late' => GivesBack)
<1> DEFINE m == Meta
           loaded == [n \in DOMAIN m.idx |-> Loaded(m.idx[n])]
           ds == NewestOf(Live)
<1>1. ~up /\ log # <<>> /\ log \in Seq(Batches) /\ (~Late => FileSays)
  BY DEF DocInv, Typed, Open
<1>2. m \in Batches
  BY <1>1 DEF Meta
<1>3. m.idx \in Seq(FinePayloads) /\ m.exists \in BOOLEAN /\ (m.idx # <<>> => m.exists)
  BY <1>2, BatchParts
<1>4. ds \in Collections
  <2>1. LiveOf(log) \in Seq(Version)
    BY <1>1, LiveIs
  <2>. QED BY <2>1, NewestTyped, OnFileIs
<1>5. Opened.ok /\ Opened.exists = m.exists /\ Opened.docs = (IF m.exists THEN ds ELSE Empty)
      /\ Opened.ixs = [n \in DOMAIN m.idx |->
                          LoadRows(NewIndex(m.idx[n].fields, m.idx[n].unique),
                                   LastPayload(DefOf(m.idx[n])))]
  BY DEF Opened
<1>6. \A n \in DOMAIN m.idx : LastPayload(DefOf(m.idx[n])) = m.idx[n]
  BY <1>1, LastPayloadIs
<1>7. Opened.ixs = loaded
  <2>. HIDE DEF m
  <2>. QED BY <1>5, <1>6 DEF Loaded
<1>8. /\ up' = TRUE /\ exists' = m.exists /\ docs' = (IF m.exists THEN ds ELSE Empty)
      /\ ixs' = loaded /\ rewrite' = FALSE /\ exposed' = exposed
      /\ UNCHANGED <<dirty, dels, log, drop, saved>>
  <2>1. Opened.ok = TRUE
    BY DEF Opened
  <2>2. /\ up' = Opened.ok /\ exists' = Opened.exists /\ docs' = Opened.docs /\ ixs' = Opened.ixs
        /\ rewrite' = NeedEager /\ exposed' = exposed \union {} \union {}
        /\ UNCHANGED <<dirty, dels, log, drop, saved>>
    <3>. HIDE DEF m
    <3>. QED BY <2>1 DEF Open
  <2>3. NeedEager = FALSE
    BY DEF NeedEager
  <2>4. exposed \union {} \union {} = exposed
    OBVIOUS
  <2>. HIDE DEF m, ds, loaded
  <2>. QED BY <1>5, <1>7, <2>1, <2>2, <2>3, <2>4
<1>9. /\ loaded \in Seq(FineIxs) /\ Defs(loaded) = Defs(m.idx) /\ DOMAIN loaded = DOMAIN m.idx
      /\ loaded # <<>> => m.idx # <<>>
  <2>. HIDE DEF m
  <2>. QED BY <1>3, LoadedIxs
<1>10. ASSUME ~Late
       PROVE  /\ docs' = saved.docs /\ exists' = saved.exists /\ Held(ixs', docs', Clean')
  <2>1. /\ ds = saved.docs /\ saved.exists = m.exists /\ (saved.docs # Empty => saved.exists)
        /\ \A n \in DOMAIN m.idx : Holds(Loaded(m.idx[n]), saved.docs, Clean)
    BY <1>1, <1>10 DEF FileSays
  <2>2. \A n \in DOMAIN loaded : Holds(loaded[n], saved.docs, Clean)
    <3>. HIDE DEF m
    <3>. QED BY <2>1
  <2>3. Clean' = Clean
    BY <1>8 DEF Clean
  <2>. HIDE DEF m, ds, loaded
  <2>4. docs' = saved.docs /\ exists' = saved.exists
    BY <1>3, <1>8, <2>1
  <2>. QED BY <1>8, <2>2, <2>3, <2>4 DEF Held
<1>11. Defs(ixs)' = Defs(Meta.idx)
  <2>1. Defs(ixs)' = Defs(ixs')
    BY DEF Defs
  <2>. HIDE DEF loaded
  <2>. QED BY <1>8, <1>9, <2>1
<1>12. docs' \in Collections /\ (docs' # Empty \/ ixs' # <<>> => exists')
  <2>1. Empty \in Collections
    BY EmptyIs
  <2>. HIDE DEF m, ds, loaded
  <2>. QED BY <1>3, <1>4, <1>8, <1>9, <2>1
<1>13. {up', rewrite', exists'} \subseteq BOOLEAN /\ ixs' \in Seq(FineIxs) /\ up'
  <2>. HIDE DEF m, ds, loaded
  <2>. QED BY <1>3, <1>8, <1>9
<1>14. (Late' <=> Late) /\ (Clean' => Clean) /\ UNCHANGED <<dirty, dels, log, drop, saved>>
  <2>. HIDE DEF m, ds, loaded
  <2>. QED BY <1>8 DEF Late, Clean
<1>. HIDE DEF m, ds, loaded
<1>. QED BY <1>1, <1>10, <1>11, <1>12, <1>13, <1>14, OpenedStep

\* A step that leaves the store closed.
LEMMA ClosedStep ==
    ASSUME DocInv, ~up, up' = FALSE, UNCHANGED <<mem, drop>>,
           log' \in Seq(Batches), log' # <<>>, saved'.docs \in Collections, ~Late' => FileSays'
    PROVE  DocInv'
<1>1. /\ exists' = exists /\ docs' = docs /\ ixs' = ixs /\ dirty' = dirty /\ dels' = dels
      /\ rewrite' = rewrite /\ drop' = drop
  BY DEF mem
<1>2. Defs(ixs)' = Defs(ixs)
  BY <1>1 DEF Defs
<1>3. TypeOK'
  <2>1. TypeOK
    BY DEF DocInv
  <2>2. {up', exists', rewrite'} \subseteq BOOLEAN
    BY <1>1, <2>1 DEF TypeOK
  <2>. QED BY <1>1, <1>2, <2>1, <2>2 DEF TypeOK
<1>4. Typed'
  BY <1>1 DEF Typed, DocInv
<1>. QED BY <1>3, <1>4 DEF DocInv

LEMMA OpenedEagerly ==
    ASSUME DocInv, Open, NeedEager
    PROVE  DocInv' /\ (up' /\ ~Late' => GivesBack)
<1> DEFINE vs == Live
           s == StableSort(vs, LowerId)
           defs == Defs(Meta.idx)
           built == [n \in DOMAIN defs |-> Built(defs[n], s)]
           all == \A n \in DOMAIN defs : Refused(defs[n], s) = {}
           more == Len(vs) > Cardinality(DOMAIN NewestOf(vs))
<1>1. /\ ~up /\ log # <<>> /\ log \in Seq(Batches) /\ (~Late => FileSays)
      /\ saved.docs \in Collections
  BY DEF DocInv, Typed, Open
<1>2. /\ Meta \in Batches /\ Meta.idx \in Seq(FinePayloads) /\ Meta.exists \in BOOLEAN
      /\ (Meta.idx # <<>> => Meta.exists)
  <2>1. Meta \in Batches
    BY <1>1 DEF Meta
  <2>. QED BY <2>1, BatchParts
<1>3. vs \in Seq(Version)
  BY <1>1, LiveIs, OnFileIs
<1>4. s \in Seq(Version)
  BY <1>3, SortedVersions
<1>5. NewestOf(vs) \in Collections
  BY <1>3, NewestTyped
<1>6. defs \in Seq(IndexDefs) /\ (defs # <<>> => Meta.idx # <<>>)
  <2>1. defs \in Seq(IndexDefs) /\ Len(defs) = Len(Meta.idx)
    BY <1>2, DefsFine
  <2>. HIDE DEF defs
  <2>2. Meta.idx = <<>> => Len(defs) = 0
    BY <2>1
  <2>. QED BY <2>1, <2>2
<1>7. /\ Loading(vs).ok = all /\ Loading(vs).exists = (Meta.exists \/ vs # <<>>)
      /\ Loading(vs).docs = NewestOf(vs) /\ Loading(vs).ixs = built
  BY DEF Loading
<1>8. /\ up' = all /\ UNCHANGED <<dirty, dels, log, drop, saved>>
      /\ IF all
         THEN /\ exists' = (Meta.exists \/ vs # <<>>) /\ docs' = NewestOf(vs) /\ ixs' = built
              /\ rewrite' \in BOOLEAN
         ELSE UNCHANGED <<exists, docs, ixs, rewrite>>
      /\ \E X \in SUBSET {"undropped"} :
            exposed' = (exposed \union (IF more THEN {"eager_versions"} ELSE {})) \union X
  <2>1. /\ up' = Loading(vs).ok /\ UNCHANGED <<dirty, dels, log, drop, saved>>
        /\ IF Loading(vs).ok
           THEN /\ exists' = Loading(vs).exists /\ docs' = Loading(vs).docs /\ ixs' = Loading(vs).ixs
                /\ rewrite' = NeedEager
           ELSE UNCHANGED <<exists, docs, ixs, rewrite>>
    <3>. HIDE DEF vs
    <3>. QED BY DEF Open, vs
  <2>2. \E X \in SUBSET {"undropped"} :
            exposed' = (exposed \union (IF more THEN {"eager_versions"} ELSE {})) \union X
    BY DEF Open
  <2>3. NeedEager \in BOOLEAN
    BY DEF NeedEager
  <2>. HIDE DEF vs, built, all, more
  <2>. QED BY <1>7, <2>1, <2>2, <2>3
<1>. HIDE DEF built, more
<1>9. (Late' <=> Late) /\ (Clean' => Clean /\ ~more)
  <2>1. PICK X \in SUBSET {"undropped"} :
            exposed' = (exposed \union (IF more THEN {"eager_versions"} ELSE {})) \union X
    BY <1>8
  <2>. QED BY <2>1 DEF Late, Clean
<1>. HIDE DEF vs, s, defs
<1>10. CASE ~all
  <2>. HIDE DEF all
  <2>1. up' = FALSE /\ UNCHANGED <<exists, docs, ixs, rewrite, dirty, dels, log, drop, saved>>
    BY <1>8, <1>10
  <2>2. ~Late' => FileSays'
    <3>1. ~Late => FileSays'
      BY <1>1, <1>9, <2>1, FileSaysStays
    <3>. QED BY <1>9, <3>1
  <2>3. UNCHANGED <<mem, drop>> /\ log' \in Seq(Batches) /\ log' # <<>> /\ saved'.docs \in Collections
    BY <1>1, <2>1 DEF mem
  <2>4. DocInv'
    BY <1>1, <2>1, <2>2, <2>3, ClosedStep
  <2>. QED BY <2>1, <2>4
<1>11. CASE all
  <2>1. /\ up' /\ up' \in BOOLEAN /\ UNCHANGED <<dirty, dels, log, drop, saved>>
        /\ exists' = (Meta.exists \/ vs # <<>>) /\ docs' = NewestOf(vs) /\ ixs' = built
        /\ rewrite' \in BOOLEAN
    BY <1>8, <1>11
  <2>2. built \in Seq(FineIxs) /\ Defs(built) = defs /\ DOMAIN built = DOMAIN defs
        /\ (built # <<>> => defs # <<>>)
    <3>1. built = [n \in DOMAIN defs |-> Built(defs[n], s)]
      BY DEF built
    <3>. QED BY <1>4, <1>6, <3>1, BuiltIxs
  <2>3. \A n \in DOMAIN defs : Refused(defs[n], s) = {} /\ defs[n] \in IndexDefs
                               /\ built[n] = Built(defs[n], s)
    <3>1. \A n \in DOMAIN defs : Refused(defs[n], s) = {}
      BY <1>11
    <3>. QED BY <1>6, <3>1 DEF built
  <2>4. Held(built, NewestOf(vs), Clean')
    <3>1. Clean' \in BOOLEAN
      BY DEF Clean
    <3>2. Clean' => ~(Len(vs) > Cardinality(DOMAIN NewestOf(vs)))
      BY <1>9 DEF more
    <3>3. ASSUME NEW n \in DOMAIN defs PROVE Holds(built[n], NewestOf(vs), Clean')
      <4> DEFINE def == defs[n]
                 pure == Clean'
      <4>1. def \in IndexDefs /\ Refused(def, StableSort(vs, LowerId)) = {}
        BY <2>3 DEF s
      <4>2. pure \in BOOLEAN /\ (pure => ~(Len(vs) > Cardinality(DOMAIN NewestOf(vs))))
        BY <3>1, <3>2
      <4>. HIDE DEF def, pure
      <4>3. Holds(Built(def, StableSort(vs, LowerId)), NewestOf(vs), pure)
        BY <1>3, <4>1, <4>2, LoadedAllHolds
      <4>4. built[n] = Built(def, StableSort(vs, LowerId))
        BY <2>3 DEF s, def
      <4>. QED BY <4>3, <4>4 DEF pure
    <3>. QED BY <2>2, <3>3 DEF Held
  <2>5. NewestOf(vs) # Empty => vs # <<>>
    <3>1. ASSUME vs = <<>> PROVE NewestOf(vs) = Empty
      <4>1. DOMAIN vs = {}
        BY <3>1
      <4>2. DOMAIN NewestOf(vs) = {}
        BY <1>3, <4>1, HasNewest
      <4>. QED BY <1>5, <4>2, EmptyIs
    <3>. QED BY <3>1
  <2>6. vs # <<>> => NewestOf(vs) # Empty
    <3>1. ASSUME vs # <<>> PROVE NewestOf(vs) # Empty
      <4>1. 1 \in DOMAIN vs
        BY <1>3, <3>1
      <4>2. vs[1].id \in DOMAIN NewestOf(vs)
        BY <1>3, <4>1, HasNewest
      <4>. QED BY <4>2, EmptyIs
    <3>. QED BY <3>1
  <2>7. docs' \in Collections /\ ixs' \in Seq(FineIxs) /\ {up', rewrite', exists'} \subseteq BOOLEAN
    BY <1>2, <1>5, <2>1, <2>2
  <2>8. docs' # Empty \/ ixs' # <<>> => exists'
    BY <1>2, <1>6, <2>1, <2>2, <2>5
  <2>9. Defs(ixs)' = Defs(Meta.idx)
    <3>1. Defs(ixs)' = Defs(ixs')
      BY DEF Defs
    <3>. QED BY <2>1, <2>2, <3>1 DEF defs
  <2>10. ~Late => docs' = saved.docs /\ exists' = saved.exists /\ Held(ixs', docs', Clean')
    <3>1. ASSUME ~Late PROVE docs' = saved.docs /\ exists' = saved.exists
      <4>1. NewestOf(vs) = saved.docs /\ saved.exists = Meta.exists
            /\ (saved.docs # Empty => saved.exists)
        BY <1>1, <3>1 DEF FileSays, vs
      <4>. QED BY <1>2, <2>1, <2>6, <4>1
    <3>2. Held(ixs', docs', Clean')
      BY <2>1, <2>4
    <3>. QED BY <3>1, <3>2
  <2>. QED BY <1>1, <1>9, <2>1, <2>7, <2>8, <2>9, <2>10, OpenedStep
<1>. QED BY <1>10, <1>11

LEMMA OpenStep ==
    ASSUME DocInv, Open
    PROVE  DocInv' /\ (up' /\ ~Late' => GivesBack)
<1>1. CASE NeedEager
  BY <1>1, OpenedEagerly
<1>2. CASE ~NeedEager
  BY <1>2, OpenedPlainly
<1>. QED BY <1>1, <1>2

\* What Repair builds (repair.go:218-286): its indexes cover the documents it
\* keeps, unique ones with one owner for a key, and hold nothing else where it
\* dropped none.
THEOREM RebuiltParts ==
    ASSUME log \in Seq(Batches)
    PROVE  /\ Rebuilt.docs \in Collections /\ Rebuilt.ixs \in Seq(FineIxs)
           /\ Defs(Rebuilt.ixs) = RepairDefs
           /\ Held(Rebuilt.ixs, Rebuilt.docs, FALSE)
           /\ DOMAIN Rebuilt.docs = DOMAIN OldestOf(Versions) =>
                 Held(Rebuilt.ixs, Rebuilt.docs, TRUE)
           /\ Rebuilt.docs # Empty => Versions # <<>>
<1> DEFINE r == Rebuilt
           s == r.ixs
           ds == r.docs
           d0 == OldestOf(Versions)
           defs == RepairDefs
           L == Len(defs)
<1>1. BuiltUpTo(r, d0, defs, L)
  BY RebuiltIs
<1>2. defs \in Seq(IndexDefs)
  BY RepairDefsAre
<1>3. d0 \in Collections /\ (d0 # Empty => Versions # <<>>)
  <2>1. Versions \in Seq(Version)
    BY LiveIs, OnFileIs
  <2>. QED BY <2>1, OldestTyped
<1>. HIDE DEF r, d0, defs, L
<1>4. /\ ds \in Collections /\ s \in Seq(FineIxs) /\ Len(s) = L
      /\ \A i \in DOMAIN ds : i \in DOMAIN d0 /\ ds[i] = d0[i]
      /\ \A n \in 1..L : /\ DefOf(s[n]) = defs[n] /\ Holds(s[n], ds, FALSE)
                         /\ s[n].rows \subseteq RowsOfAll(d0, DOMAIN d0, s[n].fields)
  BY <1>1 DEF BuiltUpTo, Builds
<1>. HIDE DEF s, ds
<1>5. L \in Nat /\ DOMAIN defs = 1..L /\ DOMAIN s = 1..L
  BY <1>2, <1>4 DEF L
<1>6. Defs(s) = defs
  <2>1. Defs(s) = [n \in 1..L |-> defs[n]]
    BY <1>4, <1>5 DEF Defs, DefOf
  <2>2. defs = [n \in 1..L |-> defs[n]]
    BY <1>2, <1>5
  <2>. QED BY <2>1, <2>2
<1>7. Held(s, ds, FALSE)
  BY <1>4, <1>5 DEF Held
<1>8. ASSUME DOMAIN ds = DOMAIN d0 PROVE Held(s, ds, TRUE)
  <2>1. ds = d0
    BY <1>3, <1>4, <1>8, SameCollection
  <2>2. ASSUME NEW n \in 1..L PROVE Holds(s[n], ds, TRUE)
    <3> DEFINE x == s[n]
    <3>1. Holds(x, ds, FALSE) /\ x.rows \subseteq RowsOfAll(ds, DOMAIN ds, x.fields)
      BY <1>4, <2>1
    <3>. HIDE DEF x
    <3>2. Holds(x, ds, TRUE)
      BY <3>1 DEF Holds, RowsHold
    <3>. QED BY <3>2 DEF x
  <2>. QED BY <1>5, <2>2 DEF Held
<1>9. ds # Empty => d0 # Empty
  <2>1. ASSUME d0 = Empty PROVE ds = Empty
    <3>1. DOMAIN ds = {}
      BY <1>4, <2>1, EmptyIs
    <3>. QED BY <1>4, <3>1, EmptyIs
  <2>. QED BY <2>1
<1>10. /\ ds \in Collections /\ s \in Seq(FineIxs) /\ Defs(s) = defs /\ Held(s, ds, FALSE)
       /\ DOMAIN ds = DOMAIN d0 => Held(s, ds, TRUE)
       /\ ds # Empty => Versions # <<>>
  BY <1>3, <1>4, <1>6, <1>7, <1>8, <1>9
<1>. QED BY <1>10 DEF s, ds, r, d0, defs

LEMMA RepairStep ==
    ASSUME DocInv, Repair
    PROVE  DocInv'
<1> DEFINE r == Rebuilt
           s == r.ixs
           ds == r.docs
           d0 == OldestOf(Versions)
           defs == RepairDefs
           there == ListedAt # {} \/ Versions # <<>>
           idx == [n \in DOMAIN s |-> Payload(s[n])]
           vs == Listed(ds, DOMAIN ds)
           b == [dels |-> {}, docs |-> vs, suspect |-> FALSE, exists |-> there, idx |-> idx]
<1>1. log \in Seq(Batches)
  BY DEF DocInv, Typed
<1>2. /\ ~up /\ up \in BOOLEAN /\ UNCHANGED <<up, mem, drop>> /\ log' = <<b>>
      /\ saved'.exists = there /\ saved'.docs = ds /\ saved'.defs = defs
      /\ exposed' = exposed \union (IF DOMAIN ds # DOMAIN d0 THEN {"repair_rows"} ELSE {})
  BY DEF Repair, DocInv, TypeOK
<1>3. /\ ds \in Collections /\ s \in Seq(FineIxs) /\ Defs(s) = defs /\ Held(s, ds, FALSE)
      /\ DOMAIN ds = DOMAIN d0 => Held(s, ds, TRUE)
      /\ ds # Empty => Versions # <<>>
  BY <1>1, RebuiltParts
<1>4. IsInjective(defs) /\ (defs # <<>> => ListedAt # {})
  BY <1>1, RepairDefsAre
<1>5. vs \in Seq(Version) /\ NewestOf(vs) = ds
  BY <1>3, ListedIs, AllListed
<1>. HIDE DEF s, ds, d0, defs
<1>6. /\ idx \in Seq(FinePayloads) /\ Defs(idx) = Defs(s) /\ (idx # <<>> => s # <<>>)
      /\ \A c, pure : Held(s, c, pure) => \A n \in DOMAIN idx : Holds(Loaded(idx[n]), c, pure)
  BY <1>3, PayloadsFine
<1>7. s # <<>> => defs # <<>>
  <2>1. DOMAIN defs = DOMAIN s
    BY <1>3, DefsTyped
  <2>2. DOMAIN s = {} => s = <<>>
    <3>1. s \in Seq(FineIxs)
      BY <1>3
    <3>2. DOMAIN s = 1..Len(s) /\ Len(s) \in Nat
      BY <3>1
    <3>3. Len(s) = 0 => s = <<>>
      BY <3>1, EmptySeq
    <3>. QED BY <3>2, <3>3
  <2>3. defs = <<>> => DOMAIN defs = {}
    OBVIOUS
  <2>. QED BY <2>1, <2>2, <2>3
<1>. HIDE DEF idx, vs
<1>8. there \in BOOLEAN /\ (idx # <<>> => there) /\ (ds # Empty => there)
  BY <1>3, <1>4, <1>6, <1>7
<1>. HIDE DEF there
<1>9. b.docs = vs /\ b.exists = there /\ b.idx = idx
  OBVIOUS
<1>10. b = [dels |-> {}, docs |-> vs, suspect |-> FALSE, exists |-> there, idx |-> idx]
  OBVIOUS
<1>. HIDE DEF b
<1>11. b \in Batches
  BY <1>3, <1>4, <1>5, <1>6, <1>8, <1>10, Batched
<1>12. /\ <<b>> \in Seq(Batches) /\ Len(<<b>>) = 1 /\ <<b>>[1] = b /\ <<b>> # <<>>
       /\ NewestOf(LiveOf(<<b>>)) = NewestOf(b.docs)
  BY <1>11, FirstSays
<1>13. /\ log' \in Seq(Batches) /\ log' # <<>> /\ log'[Len(log')] = b
       /\ NewestOf(LiveOf(log')) = ds
  BY <1>2, <1>5, <1>9, <1>12
<1>14. FileSays'
  <2>1. Meta' = b /\ Live' = LiveOf(log')
    BY <1>13, OnFileIs
  <2>2. Held(s, ds, Clean')
    <3>1. Clean' => DOMAIN ds = DOMAIN d0
      BY <1>2 DEF Clean
    <3>2. Clean' \in BOOLEAN
      BY DEF Clean
    <3>. QED BY <1>3, <3>1, <3>2
  <2>3. \A n \in DOMAIN Meta'.idx : Holds(Loaded(Meta'.idx[n]), saved'.docs, Clean')
    BY <1>2, <1>6, <1>9, <2>1, <2>2
  <2>4. NewestOf(Live') = saved'.docs
    BY <1>2, <1>13, <2>1
  <2>5. saved'.exists = Meta'.exists /\ saved'.defs = Defs(Meta'.idx)
    BY <1>2, <1>3, <1>6, <1>9, <2>1
  <2>6. saved'.docs # Empty => saved'.exists
    BY <1>2, <1>8
  <2>. QED BY <2>3, <2>4, <2>5, <2>6 DEF FileSays
<1>15. up' = FALSE /\ UNCHANGED <<mem, drop>> /\ saved'.docs \in Collections
  BY <1>2, <1>3
<1>. QED BY <1>2, <1>13, <1>14, <1>15, ClosedStep

LEMMA InitStep ==
    ASSUME Init
    PROVE  DocInv
<1>1. Empty \in Collections /\ DOMAIN Empty = {}
  BY EmptyIs
<1>2. <<>> \in Seq(FineIxs) /\ IsInjective(Defs(<<>>)) /\ Defs(<<>>) = <<>>
  BY NoIxs
<1>3. /\ up = TRUE /\ exists = FALSE /\ docs = Empty /\ ixs = <<>> /\ dirty = {} /\ dels = {}
      /\ rewrite = TRUE /\ log = <<>> /\ drop = NotDropping /\ saved = Nothing /\ exposed = {}
  BY DEF Init
<1>4. drop \in Drops /\ drop.pc \in {"idle", "delete"} /\ drop.todo \subseteq Key
  BY <1>3 DEF NotDropping, Drops
<1>5. ToSet(Defs(ixs)) \subseteq IndexDefs
  BY <1>2, <1>3 DEF ToSet
<1>6. {up, exists, rewrite} \subseteq BOOLEAN
  BY <1>3
<1>7. TypeOK
  BY <1>1, <1>2, <1>3, <1>4, <1>5, <1>6 DEF TypeOK
<1>8. Typed
  BY <1>1, <1>2, <1>3, <1>4 DEF Typed, Nothing
<1>9. \A n \in DOMAIN ixs : Holds(ixs[n], docs, Clean)
  BY <1>2, <1>3
<1>. QED BY <1>3, <1>7, <1>8, <1>9 DEF DocInv

LEMMA StutterStep ==
    ASSUME DocInv, UNCHANGED vars
    PROVE  DocInv'
<1>1. /\ up' = up /\ exists' = exists /\ docs' = docs /\ ixs' = ixs /\ dirty' = dirty /\ dels' = dels
      /\ rewrite' = rewrite /\ log' = log /\ drop' = drop /\ saved' = saved /\ exposed' = exposed
  BY DEF vars, mem
<1>2. TypeOK' <=> TypeOK
  BY <1>1 DEF TypeOK, Defs, ToSet
<1>3. Typed' <=> Typed
  BY <1>1 DEF Typed
<1>4. (Late' <=> Late) /\ Clean' = Clean
  BY <1>1 DEF Late, Clean
<1>5. FileSays => FileSays'
  BY <1>1, <1>4, FileSaysStays
<1>6. Pending => Pending'
  BY <1>1, PendingStays
<1>7. (\A n \in DOMAIN ixs : Holds(ixs[n], docs, Clean))
         => \A n \in DOMAIN ixs' : Holds(ixs'[n], docs', Clean')
  <2>. HIDE DEF Clean
  <2>. QED BY <1>1, <1>4
<1>. QED BY <1>1, <1>2, <1>3, <1>4, <1>5, <1>6, <1>7 DEF DocInv

\* Only Open opens the store.
LEMMA OnlyOpenOpens ==
    ASSUME ~up, up', [Next]_vars
    PROVE  Open
<1>1. CASE UNCHANGED vars
  BY <1>1 DEF vars
<1>2. CASE Mutate
  BY <1>2 DEF Mutate, MayWrite, Insert, Change, Delete, EnsureIndex, DropIndex, CreateCollection,
              DropBegin, DropDelete, DropEnd
<1>3. CASE OnFile
  BY <1>3 DEF OnFile, Flush, Compact, Crash, Repair
<1>4. CASE \E n \in DOMAIN ixs : SearchIndex(n)
  BY <1>4 DEF SearchIndex
<1>. QED BY <1>1, <1>2, <1>3, <1>4 DEF Next

-----------------------------------------------------------------------------
(* What is shown of Documents *)

\* DocInv is inductive: every call of the store (db/store.go), every flush, and
\* every Open and Repair of a file (db/filev2.go, db/repair.go) keeps the rows of
\* the indexes, what is on file and what is known to be missing there in step
\* with the documents.
THEOREM DocumentsInvariant ==
    Spec => []DocInv
<1>1. Init => DocInv
  BY InitStep
<1>2. DocInv /\ [Next]_vars => DocInv'
  <2>1. SUFFICES ASSUME DocInv, [Next]_vars PROVE DocInv'
    OBVIOUS
  <2>2. ASSUME NEW i \in Key, NEW c \in Contents, Insert(i, c) PROVE DocInv'
    BY <2>1, <2>2, InsertStep
  <2>3. ASSUME NEW i \in Key, NEW c \in Contents, Change(i, c) PROVE DocInv'
    BY <2>1, <2>3, ChangeStep
  <2>4. ASSUME NEW i \in Key, Delete(i) PROVE DocInv'
    BY <2>1, <2>4, DeleteStep
  <2>5. ASSUME NEW def \in IndexDefs, EnsureIndex(def) PROVE DocInv'
    BY <2>1, <2>5, EnsureIndexStep
  <2>6. ASSUME NEW n \in DOMAIN ixs, DropIndex(n) PROVE DocInv'
    BY <2>1, <2>6, DropIndexStep
  <2>7. CASE CreateCollection
    BY <2>1, <2>7, CreateStep
  <2>8. CASE DropBegin
    BY <2>1, <2>8, DropBeginStep
  <2>9. CASE DropDelete
    BY <2>1, <2>9, DropDeleteStep
  <2>10. CASE DropEnd
    BY <2>1, <2>10, DropEndStep
  <2>11. CASE Flush
    BY <2>1, <2>11, FlushStep
  <2>12. CASE Compact
    BY <2>1, <2>12, CompactStep
  <2>13. CASE Crash
    BY <2>1, <2>13, CrashStep
  <2>14. CASE Open
    BY <2>1, <2>14, OpenStep
  <2>15. CASE Repair
    BY <2>1, <2>15, RepairStep
  <2>16. ASSUME NEW n \in DOMAIN ixs, SearchIndex(n) PROVE DocInv'
    BY <2>1, <2>16, SearchStep
  <2>17. CASE UNCHANGED vars
    BY <2>1, <2>17, StutterStep
  <2>18. CASE Mutate
    BY <2>2, <2>3, <2>4, <2>5, <2>6, <2>7, <2>8, <2>9, <2>10, <2>18 DEF Mutate
  <2>19. CASE OnFile
    BY <2>11, <2>12, <2>13, <2>14, <2>15, <2>19 DEF OnFile
  <2>. QED BY <2>1, <2>16, <2>17, <2>18, <2>19 DEF Next
<1>. QED BY <1>1, <1>2, PTL DEF Spec

\* In every state of an open store that has met none of the known faults the
\* rows of every index are those of the documents, and its list of keys and its
\* flat view agree with them (store.go:204-229, index.go:133-264, 702-809).
THEOREM IndexesAreExact ==
    Spec => []IndexesHoldTheDocuments
<1>1. DocInv => IndexesHoldTheDocuments
  <2>1. SUFFICES ASSUME DocInv, up, Clean, NEW n \in DOMAIN ixs
                 PROVE  /\ ixs[n].rows = RowsOfAll(docs, DOMAIN docs, ixs[n].fields)
                        /\ Coherent(ixs[n])
    BY DEF IndexesHoldTheDocuments, DocInv
  <2> DEFINE ix == ixs[n]
  <2>2. ~Late
    BY <2>1 DEF Clean, Late
  <2>3. ixs \in Seq(FineIxs) /\ Held(ixs, docs, Clean)
    BY <2>1, <2>2, OpenStore
  <2>4. ix \in FineIxs
    BY <2>1, <2>3, IxAt
  <2>5. Holds(ix, docs, Clean)
    BY <2>1, <2>3 DEF Held
  <2>. HIDE DEF ix
  <2>6. ix.rows = RowsOfAll(docs, DOMAIN docs, ix.fields)
    BY <2>1, <2>5 DEF Holds, RowsHold
  <2>7. Coherent(ix)
    BY <2>4, FineParts
  <2>. QED BY <2>6, <2>7 DEF ix
<1>. QED BY <1>1, DocumentsInvariant, PTL

\* Where a unique index stands, no two documents share one of its keys: after
\* refused writes, after Open, and after Repair too (index.go:139-167,
\* repair.go:242-286).
THEOREM UniqueIsUnique ==
    Spec => []UniqueMeansOneOwner
<1>1. DocInv => UniqueMeansOneOwner
  <2>1. SUFFICES ASSUME DocInv, up, ~Late, NEW n \in DOMAIN ixs, ixs[n].unique,
                        NEW i \in DOMAIN docs, NEW j \in DOMAIN docs, i # j,
                        NEW k, k \in RowsOf(docs[i], ixs[n].fields),
                        k \in RowsOf(docs[j], ixs[n].fields)
                 PROVE  FALSE
    BY DEF UniqueMeansOneOwner, Late
  <2> DEFINE fs == ixs[n].fields
             R == ixs[n].rows
  <2>2. Held(ixs, docs, Clean)
    BY <2>1, OpenStore
  <2>3. Holds(ixs[n], docs, Clean)
    BY <2>1, <2>2 DEF Held
  <2>4. RowsOfAll(docs, DOMAIN docs, fs) \subseteq R /\ OneOwner(R)
    BY <2>1, <2>3 DEF Holds, RowsHold
  <2>5. k \in RowsOf(docs[i], fs) /\ k \in RowsOf(docs[j], fs)
    BY <2>1
  <2>. HIDE DEF fs, R
  <2> DEFINE a == [key |-> k, id |-> i]
             b == [key |-> k, id |-> j]
  <2>6. a \in Mine(docs[i], fs, i) /\ b \in Mine(docs[j], fs, j)
    BY <2>5, MineIs
  <2>7. a \in R /\ b \in R
    BY <2>1, <2>4, <2>6, AllRows
  <2>8. a.key = b.key /\ a.id = i /\ b.id = j
    OBVIOUS
  <2>. HIDE DEF a, b
  <2>9. a.id = b.id
    BY <2>4, <2>7, <2>8 DEF OneOwner
  <2>. QED BY <2>1, <2>8, <2>9
<1>. QED BY <1>1, DocumentsInvariant, PTL

\* Open gives back the collection that was saved last, its documents and its
\* index definitions, from a file of any number of flushes, deletions and
\* rewrites, on either of its paths (filev2.go:871-1052).
THEOREM OpenIsFaithful ==
    Spec => OpenGivesWhatWasSaved
<1>1. DocInv /\ [Next]_vars =>
         [~up /\ up' /\ "dropped_late" \notin exposed' =>
             /\ exists' = saved.exists /\ docs' = saved.docs
             /\ Defs(ixs') = saved.defs]_vars
  <2>1. SUFFICES ASSUME DocInv, [Next]_vars, ~up, up', ~Late' PROVE GivesBack
    BY DEF GivesBack, Late
  <2>2. Open
    BY <2>1, OnlyOpenOpens
  <2>. QED BY <2>1, <2>2, OpenStep
<1>. QED BY <1>1, DocumentsInvariant, PTL DEF Spec, OpenGivesWhatWasSaved
=============================================================================
