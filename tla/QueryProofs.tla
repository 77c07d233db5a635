---------------------------- MODULE QueryProofs ----------------------------
(***************************************************************************)
(* Find and Count of Documents proved to answer as a scan of the whole     *)
(* collection would (QueryPlan), for all contents, indexes and filters.    *)
(*                                                                         *)
(* The indexes are exact (DocumentsProofs), so what a search of an index   *)
(* returns can be said in terms of the documents. A plan's candidates      *)
(* contain every document that matches; one that counts itself exact has   *)
(* no others; and no document that matches is listed twice.                *)
(***************************************************************************)
EXTENDS DocumentsProofs

-----------------------------------------------------------------------------
(* Lists in which some elements are only once *)

OnceIn(s, U) == \A i, j \in DOMAIN s : s[i] \in U /\ s[i] = s[j] => i = j

LEMMA OnceAppended ==
    ASSUME NEW K, NEW s \in Seq(K), NEW x \in K, NEW U, OnceIn(s, U),
           x \in U => x \notin ToSet(s)
    PROVE  OnceIn(Append(s, x), U)
<1> DEFINE r == Append(s, x)
           L == Len(s)
<1>1. /\ L \in Nat /\ DOMAIN s = 1..L /\ DOMAIN r = 1..L + 1 /\ r[L + 1] = x
      /\ \A i \in 1..L : r[i] = s[i]
  OBVIOUS
<1>2. \A i \in 1..L : s[i] \in ToSet(s)
  BY <1>1 DEF ToSet
<1>. HIDE DEF r, L
<1>3. ASSUME NEW i \in 1..L + 1, NEW j \in 1..L + 1, r[i] \in U, r[i] = r[j] PROVE i = j
  <2>1. CASE i \in 1..L /\ j \in 1..L
    BY <1>1, <1>3, <2>1 DEF OnceIn
  <2>2. CASE i = L + 1 /\ j \in 1..L
    BY <1>1, <1>2, <1>3, <2>2
  <2>3. CASE i \in 1..L /\ j = L + 1
    BY <1>1, <1>2, <1>3, <2>3
  <2>. QED BY <1>1, <1>3, <2>1, <2>2, <2>3
<1>. QED BY <1>1, <1>3 DEF OnceIn, r

LEMMA OnceJoined ==
    ASSUME NEW K, NEW s \in Seq(K), NEW t \in Seq(K), NEW U
    PROVE  /\ ToSet(s \o t) = ToSet(s) \union ToSet(t)
           /\ OnceIn(s, U) /\ OnceIn(t, U) /\ ToSet(s) \intersect ToSet(t) \intersect U = {} =>
                 OnceIn(s \o t, U)
<1> DEFINE r == s \o t
           L == Len(s)
           M == Len(t)
<1>1. /\ r \in Seq(K) /\ L \in Nat /\ M \in Nat /\ Len(r) = L + M
      /\ \A i \in 1..(L + M) : r[i] = IF i <= L THEN s[i] ELSE t[i - L]
  BY TwoLists
<1>2. DOMAIN s = 1..L /\ DOMAIN t = 1..M /\ DOMAIN r = 1..(L + M)
  BY <1>1
<1>3. /\ \A i \in 1..L : s[i] \in ToSet(s)
      /\ \A i \in 1..M : t[i] \in ToSet(t)
  BY <1>2 DEF ToSet
<1>. HIDE DEF r, L, M
<1>4. /\ \A i \in 1..L : i \in 1..(L + M) /\ r[i] = s[i]
      /\ \A i \in 1..M : L + i \in 1..(L + M) /\ r[L + i] = t[i]
  <2>1. ASSUME NEW i \in 1..M PROVE L + i \in 1..(L + M) /\ ~(L + i <= L) /\ (L + i) - L = i
    BY <1>1
  <2>2. ASSUME NEW i \in 1..L PROVE i \in 1..(L + M) /\ i <= L
    BY <1>1
  <2>. QED BY <1>1, <2>1, <2>2
<1>5. \A i \in 1..(L + M) : i \in 1..L \/ \E j \in 1..M : i = L + j
  <2>1. ASSUME NEW i \in 1..(L + M), i \notin 1..L PROVE i - L \in 1..M /\ i = L + (i - L)
    BY <1>1, <2>1
  <2>. QED BY <2>1
<1>6. ToSet(r) = ToSet(s) \union ToSet(t)
  BY <1>2, <1>4, <1>5 DEF ToSet
<1>7. ASSUME OnceIn(s, U), OnceIn(t, U), ToSet(s) \intersect ToSet(t) \intersect U = {},
             NEW i \in 1..(L + M), NEW j \in 1..(L + M), r[i] \in U, r[i] = r[j]
      PROVE  i = j
  <2>1. CASE i \in 1..L /\ j \in 1..L
    BY <1>2, <1>4, <1>7, <2>1 DEF OnceIn
  <2>2. ASSUME NEW a \in 1..M, NEW b \in 1..M, i = L + a, j = L + b PROVE i = j
    BY <1>2, <1>4, <1>7, <2>2 DEF OnceIn
  <2>3. ASSUME NEW b \in 1..M, i \in 1..L, j = L + b PROVE FALSE
    BY <1>3, <1>4, <1>7, <2>3
  <2>4. ASSUME NEW b \in 1..M, j \in 1..L, i = L + b PROVE FALSE
    BY <1>3, <1>4, <1>7, <2>4
  <2>. QED BY <1>5, <2>1, <2>2, <2>3, <2>4
<1>8. OnceIn(s, U) /\ OnceIn(t, U) /\ ToSet(s) \intersect ToSet(t) \intersect U = {} => OnceIn(r, U)
  BY <1>2, <1>7 DEF OnceIn
<1>. QED BY <1>6, <1>8 DEF r

\* Lists put together: what they hold, and what is in no two of them.
LEMMA JoinedOnce ==
    ASSUME NEW K, NEW ss \in Seq(Seq(K)), NEW U
    PROVE  /\ Joined(ss) \in Seq(K)
           /\ ToSet(Joined(ss)) = UNION {ToSet(ss[n]) : n \in 1..Len(ss)}
           /\ /\ \A n \in 1..Len(ss) : OnceIn(ss[n], U)
              /\ \A n, m \in 1..Len(ss) :
                    n # m => ToSet(ss[n]) \intersect ToSet(ss[m]) \intersect U = {}
              => OnceIn(Joined(ss), U)
<1> DEFINE L == Len(ss)
           A == Seq(K)
           Apart == /\ \A n \in 1..L : OnceIn(ss[n], U)
                    /\ \A n, m \in 1..L :
                          n # m => ToSet(ss[n]) \intersect ToSet(ss[m]) \intersect U = {}
           Upto(m) == UNION {ToSet(ss[n]) : n \in 1..m}
<1>1. L \in Nat /\ \A m \in 1..L : ss[m] \in A
  OBVIOUS
<1>2. PICK f : /\ f \in [0..L -> A] /\ f[0] = <<>>
               /\ \A m \in 1..L : f[m] = f[m - 1] \o ss[m]
               /\ Joined(ss) = f[L]
  BY JoinedRuns
<1>. HIDE DEF L
<1> DEFINE T == {m \in 0..L : ToSet(f[m]) = Upto(m) /\ (Apart => OnceIn(f[m], U))}
<1>3. 0 \in T
  <2>1. ToSet(f[0]) = {} /\ OnceIn(f[0], U)
    BY <1>2 DEF ToSet, OnceIn
  <2>2. Upto(0) = {} /\ 0 \in 0..L
    BY <1>1
  <2>. HIDE DEF Upto, Apart
  <2>. QED BY <2>1, <2>2
<1>4. ASSUME NEW m \in 0..L, m # 0, m - 1 \in T PROVE m \in T
  <2>1. m \in 1..L /\ m - 1 \in 0..L /\ 1..m = 1..(m - 1) \union {m} /\ m \notin 1..(m - 1)
        /\ 1..(m - 1) \subseteq 1..L
    BY <1>1, <1>4
  <2>2. f[m] = f[m - 1] \o ss[m] /\ f[m - 1] \in A /\ ss[m] \in A
    BY <1>1, <1>2, <2>1
  <2>3. Upto(m) = Upto(m - 1) \union ToSet(ss[m])
    BY <2>1
  <2>4. ToSet(f[m - 1]) = Upto(m - 1) /\ (Apart => OnceIn(f[m - 1], U))
    BY <1>4
  <2>5. Apart => OnceIn(ss[m], U) /\ Upto(m - 1) \intersect ToSet(ss[m]) \intersect U = {}
    <3>1. SUFFICES ASSUME Apart
                   PROVE  OnceIn(ss[m], U) /\ Upto(m - 1) \intersect ToSet(ss[m]) \intersect U = {}
      OBVIOUS
    <3>2. OnceIn(ss[m], U)
      BY <2>1, <3>1
    <3>3. ASSUME NEW x \in Upto(m - 1), x \in ToSet(ss[m]), x \in U PROVE FALSE
      <4>1. PICK n \in 1..(m - 1) : x \in ToSet(ss[n])
        BY <3>3
      <4>2. n \in 1..L /\ n # m
        BY <2>1, <4>1
      <4>. QED BY <2>1, <3>1, <3>3, <4>1, <4>2
    <3>. QED BY <3>2, <3>3
  <2>. HIDE DEF Upto, Apart
  <2>6. /\ ToSet(f[m]) = ToSet(f[m - 1]) \union ToSet(ss[m])
        /\ OnceIn(f[m - 1], U) /\ OnceIn(ss[m], U)
           /\ ToSet(f[m - 1]) \intersect ToSet(ss[m]) \intersect U = {} => OnceIn(f[m], U)
    <3> DEFINE s == f[m - 1]
               t == ss[m]
    <3>1. s \in Seq(K) /\ t \in Seq(K) /\ f[m] = s \o t
      BY <2>2
    <3>. HIDE DEF s, t
    <3>2. /\ ToSet(s \o t) = ToSet(s) \union ToSet(t)
          /\ OnceIn(s, U) /\ OnceIn(t, U) /\ ToSet(s) \intersect ToSet(t) \intersect U = {} =>
                OnceIn(s \o t, U)
      BY <3>1, OnceJoined
    <3>. QED BY <3>1, <3>2 DEF s, t
  <2>. QED BY <2>3, <2>4, <2>5, <2>6
<1>5. L \in T
  <2>. HIDE DEF T
  <2>1. 0..L \subseteq T
    BY <1>1, <1>3, <1>4, AllTheWay
  <2>. QED BY <1>1, <2>1
<1>6. ToSet(f[L]) = Upto(L) /\ (Apart => OnceIn(f[L], U)) /\ f[L] \in A
  BY <1>1, <1>2, <1>5
<1>. QED BY <1>2, <1>6 DEF L

\* What the members of a list in a set are, and that they do not become more.
LEMMA AmongIs ==
    ASSUME NEW K, NEW s \in Seq(K), NEW T, NEW U
    PROVE  /\ Among(s, T) \in Seq(K) /\ ToSet(Among(s, T)) = ToSet(s) \intersect T
           /\ OnceIn(s, U) => OnceIn(Among(s, T), U)
<1> DEFINE L == Len(s)
           A == Seq(K)
           Put(t, x) == IF x \in T THEN Append(t, x) ELSE t
           f == CHOOSE f : f = [m \in 0..L |-> IF m = 0 THEN <<>>
                                ELSE IF s[m] \in T THEN Append(f[m - 1], s[m]) ELSE f[m - 1]]
           step == [m \in 1..L |-> [t \in A |-> Put(t, s[m])]]
           none == <<>>
<1>1. L \in Nat /\ none \in A /\ \A m \in 1..L : s[m] \in K
  OBVIOUS
<1>2. ASSUME NEW t \in A, NEW x \in K
      PROVE  /\ Put(t, x) \in A
             /\ ToSet(Put(t, x)) = ToSet(t) \union ({x} \intersect T)
             /\ OnceIn(t, U) /\ (x \in U => x \notin ToSet(t)) => OnceIn(Put(t, x), U)
  <2>1. CASE x \in T
    <3>1. Put(t, x) = Append(t, x)
      BY <2>1
    <3>2. Append(t, x) \in A /\ ToSet(Append(t, x)) = ToSet(t) \union {x}
      BY Appended
    <3>3. OnceIn(t, U) /\ (x \in U => x \notin ToSet(t)) => OnceIn(Append(t, x), U)
      BY OnceAppended
    <3>. HIDE DEF Put, A
    <3>. QED BY <2>1, <3>1, <3>2, <3>3
  <2>2. CASE x \notin T
    BY <2>2
  <2>. QED BY <2>1, <2>2
<1>3. Steps(step, L, A)
  <2>1. \A m \in 1..L : \A t \in A : Put(t, s[m]) \in A
    <3>. HIDE DEF L, A, Put
    <3>. QED BY <1>1, <1>2
  <2>. HIDE DEF A, L, Put
  <2>. QED BY <2>1 DEF Steps
<1>4. PICK g : Goes(g, L, A, none, step)
  <2>. HIDE DEF A, L, none, step
  <2>. QED BY <1>1, <1>3, Run
<1>5. g \in [0..L -> A] /\ g[0] = <<>> /\ \A m \in 1..L : g[m] = Put(g[m - 1], s[m])
  <2>. HIDE DEF A, L, Put
  <2>1. \A m \in 1..L : m - 1 \in 0..L
    BY <1>1
  <2>2. g \in [0..L -> A] /\ g[0] = none /\ \A m \in 1..L : g[m] = step[m][g[m - 1]]
    <3>. HIDE DEF step, none
    <3>. QED BY <1>4, Goings
  <2>. HIDE DEF none
  <2>3. ASSUME NEW m \in 1..L PROVE g[m] = Put(g[m - 1], s[m])
    <3>1. g[m - 1] \in A
      BY <2>1, <2>2
    <3>. QED BY <2>2, <3>1
  <2>. QED BY <2>2, <2>3 DEF none
<1>. HIDE DEF A, L
<1>6. \A m \in 0..L : m # 0 => m \in 1..L
  BY <1>1
<1>7. g = [m \in 0..L |-> IF m = 0 THEN <<>> ELSE IF s[m] \in T THEN Append(g[m - 1], s[m]) ELSE g[m - 1]]
  BY <1>5, <1>6
<1>8. f = [m \in 0..L |-> IF m = 0 THEN <<>> ELSE IF s[m] \in T THEN Append(f[m - 1], s[m]) ELSE f[m - 1]]
  BY <1>7, Zenon
<1>9. Among(s, T) = f[L]
  BY Zenon DEF Among, f, L
<1>. HIDE DEF f
<1>10. 0 \in 0..L /\ \A m \in 1..L : m \in 0..L /\ m # 0
  BY <1>1
<1>11. f[0] = <<>> /\ \A m \in 1..L : f[m] = Put(f[m - 1], s[m])
  BY <1>8, <1>10
<1>. HIDE DEF Put
<1> DEFINE R == {m \in 0..L : /\ f[m] \in A /\ ToSet(f[m]) = FirstOf(s, m) \intersect T
                              /\ OnceIn(s, U) => OnceIn(f[m], U)}
<1>12. 0 \in R
  <2>1. f[0] \in A /\ ToSet(f[0]) = {} /\ OnceIn(f[0], U)
    BY <1>1, <1>11 DEF ToSet, OnceIn
  <2>2. FirstOf(s, 0) = {}
    BY FirstOfAll
  <2>. QED BY <1>10, <2>1, <2>2
<1>13. ASSUME NEW m \in 0..L, m # 0, m - 1 \in R PROVE m \in R
  <2>1. m \in 1..L
    BY <1>6, <1>13
  <2>2. f[m] = Put(f[m - 1], s[m]) /\ s[m] \in K
    BY <1>1, <1>11, <2>1
  <2>3. FirstOf(s, m) = FirstOf(s, m - 1) \union {s[m]}
    BY <1>13, FirstOfNext DEF L
  <2>4. OnceIn(s, U) /\ s[m] \in U => s[m] \notin FirstOf(s, m - 1)
    <3>1. DOMAIN s = 1..L /\ 1..(m - 1) \subseteq 1..L /\ m \notin 1..(m - 1)
      BY <2>1, <1>1 DEF L
    <3>. QED BY <2>1, <3>1 DEF OnceIn, FirstOf
  <2>5. /\ f[m - 1] \in A /\ ToSet(f[m - 1]) = FirstOf(s, m - 1) \intersect T
        /\ OnceIn(s, U) => OnceIn(f[m - 1], U)
    BY <1>13
  <2>6. /\ f[m] \in A /\ ToSet(f[m]) = ToSet(f[m - 1]) \union ({s[m]} \intersect T)
        /\ OnceIn(f[m - 1], U) /\ (s[m] \in U => s[m] \notin ToSet(f[m - 1])) => OnceIn(f[m], U)
    BY <1>2, <2>2, <2>5
  <2>. QED BY <2>3, <2>4, <2>5, <2>6
<1>14. L \in R
  <2>. HIDE DEF R
  <2>1. 0..L \subseteq R
    BY <1>1, <1>12, <1>13, AllTheWay
  <2>. QED BY <1>1, <2>1
<1>15. FirstOf(s, L) = ToSet(s)
  BY FirstOfAll DEF L
<1>. QED BY <1>9, <1>14, <1>15 DEF A

-----------------------------------------------------------------------------
(* Lists of _ids in their order *)

Asc(s) == \A i, j \in DOMAIN s : i < j => s[i] < s[j]

LEMMA InsertedAsc ==
    ASSUME NEW s \in Seq(Nat), NEW x \in Nat,
           NEW i \in 1..Len(s) + 1, NEW r \in Seq(Nat), Inserted(r, s, i, x), Asc(s),
           \A j \in 1..Len(s) : IF j < i THEN s[j] < x ELSE x < s[j]
    PROVE  Asc(r)
<1> DEFINE L == Len(s)
<1>1. L \in Nat /\ DOMAIN s = 1..L /\ DOMAIN r = 1..L + 1 /\ i \in 1..L + 1
  BY DEF Inserted
<1>2. \A j \in 1..L + 1 : r[j] = IF j < i THEN s[j] ELSE IF j = i THEN x ELSE s[j - 1]
  BY DEF Inserted
<1>3. \A j, k \in 1..L : j < k => s[j] < s[k]
  BY <1>1 DEF Asc
<1>4. \A j \in 1..L : IF j < i THEN s[j] < x ELSE x < s[j]
  OBVIOUS
<1>. HIDE DEF L
<1>5. ASSUME NEW j \in 1..L + 1, NEW k \in 1..L + 1, j < k PROVE r[j] < r[k]
  <2>1. CASE k < i
    <3>1. j \in 1..L /\ k \in 1..L /\ j < i
      BY <1>1, <1>5, <2>1
    <3>. QED BY <1>2, <1>3, <1>5, <2>1, <3>1
  <2>2. CASE k = i
    <3>1. j \in 1..L /\ j < i
      BY <1>1, <1>5, <2>2
    <3>2. r[j] = s[j] /\ r[k] = x
      BY <1>1, <1>2, <2>2, <3>1
    <3>3. s[j] < x
      BY <1>4, <3>1
    <3>. QED BY <3>2, <3>3
  <2>3. CASE k > i /\ j < i
    <3>1. j \in 1..L /\ k - 1 \in 1..L /\ j < k - 1 /\ ~(k < i) /\ k # i
      BY <1>1, <1>5, <2>3
    <3>. QED BY <1>2, <1>3, <2>3, <3>1
  <2>4. CASE k > i /\ j = i
    <3>1. k - 1 \in 1..L /\ ~(k - 1 < i) /\ ~(k < i) /\ k # i /\ ~(j < i)
      BY <1>1, <1>5, <2>4
    <3>. QED BY <1>2, <1>4, <2>4, <3>1
  <2>5. CASE k > i /\ j > i
    <3>1. j - 1 \in 1..L /\ k - 1 \in 1..L /\ j - 1 < k - 1 /\ ~(k < i) /\ k # i /\ ~(j < i) /\ j # i
      BY <1>1, <1>5, <2>5
    <3>. QED BY <1>2, <1>3, <2>5, <3>1
  <2>. QED BY <1>1, <2>1, <2>2, <2>3, <2>4, <2>5
<1>. QED BY <1>1, <1>5 DEF Asc

\* Sorting by _id.
LEMMA SortedIds ==
    ASSUME NEW s \in Seq(Nat)
    PROVE  /\ ById(s) \in Seq(Nat)
           /\ ToSet(ById(s)) = ToSet(s)
           /\ Distinct(s) => Asc(ById(s))
<1> DEFINE K == Nat
           L == Len(s)
           A == Seq(K)
           Put(t, x) == InsertStable(t, x, LowerNumber)
<1>1. L \in Nat /\ \A i \in 1..L : s[i] \in K
  OBVIOUS
<1>2. ASSUME NEW t \in A, NEW x \in K
      PROVE  /\ Put(t, x) \in A /\ ToSet(Put(t, x)) = ToSet(t) \union {x}
             /\ Asc(t) /\ x \notin ToSet(t) => Asc(Put(t, x))
  <2> DEFINE P == {j \in DOMAIN t : ~LowerNumber(x, t[j])}
             p == Max({0} \union P)
             r == Spliced(t, p, x)
  <2>1. P \in SUBSET (1..Len(t)) /\ Len(t) \in Nat
    OBVIOUS
  <2>2. /\ r \in Seq(K) /\ Inserted(r, t, p + 1, x) /\ p + 1 \in 1..Len(t) + 1
        /\ p \in {0} \union P /\ \A y \in P : y <= p
    <3>. HIDE DEF P, p
    <3>1. p \in {0} \union P /\ \A y \in P : y <= p
      BY <2>1, GreatestOf DEF p
    <3>2. p \in 0..Len(t) /\ p + 1 \in 1..Len(t) + 1
      BY <2>1, <3>1
    <3>3. t \in Seq(K) /\ x \in K
      OBVIOUS
    <3>. HIDE DEF r, A, L, Put, K
    <3>. QED BY <3>1, <3>2, <3>3, SplicedIn DEF r
  <2>3. Put(t, x) = r
    BY Zenon DEF InsertStable, Spliced
  <2>4. ASSUME Asc(t), x \notin ToSet(t) PROVE Asc(r)
    <3>1. \A j \in 1..Len(t) : IF j < p + 1 THEN t[j] < x ELSE x < t[j]
      <4>1. TAKE j \in 1..Len(t)
      <4>2. t[j] \in K /\ t[j] # x /\ j \in DOMAIN t
        BY <2>4 DEF ToSet
      <4>3. CASE j < p + 1
        <5>1. p \in P /\ p \in DOMAIN t /\ t[p] \in K /\ ~(x < t[p]) /\ t[p] # x
          <6>1. p \in P
            <7>. HIDE DEF P, p
            <7>. QED BY <2>1, <2>2, <4>3
          <6>2. t[p] # x
            BY <2>4, <6>1 DEF ToSet
          <6>. HIDE DEF p
          <6>. QED BY <6>1, <6>2 DEF LowerNumber
        <5>. HIDE DEF P, p
        <5>2. t[p] < x
          BY <5>1
        <5>3. j = p \/ t[j] < t[p]
          <6>1. j < p \/ j = p
            BY <2>1, <4>3, <5>1
          <6>. QED BY <2>4, <4>2, <5>1, <6>1 DEF Asc
        <5>4. t[j] < x
          BY <4>2, <5>1, <5>2, <5>3
        <5>. QED BY <4>3, <5>4
      <4>4. CASE ~(j < p + 1)
        <5>1. j \notin P
          <6>. HIDE DEF P, p
          <6>. QED BY <2>1, <2>2, <4>4
        <5>2. x < t[j]
          BY <4>2, <5>1 DEF LowerNumber
        <5>. QED BY <4>4, <5>2
      <4>. QED BY <4>3, <4>4
    <3>. HIDE DEF p, r
    <3>. QED BY <2>2, <2>4, <3>1, InsertedAsc
  <2>5. ToSet(r) = ToSet(t) \union {x}
    <3> DEFINE q == p + 1
    <3>1. r \in Seq(K) /\ Inserted(r, t, q, x) /\ q \in 1..Len(t) + 1 /\ t \in Seq(K)
      BY <2>2
    <3>2. x \in K
      OBVIOUS
    <3>. HIDE DEF q, r, A, L, Put, p, K
    <3>. QED BY <3>1, <3>2, InsertedSet
  <2>. HIDE DEF p, r, Put
  <2>. QED BY <2>2, <2>3, <2>4, <2>5
<1> DEFINE f == CHOOSE f : f = [m \in 0..L |-> IF m = 0 THEN <<>> ELSE Put(f[m - 1], s[m])]
<1>3. /\ f \in [0..L -> A] /\ f[0] = <<>>
      /\ \A m \in 0..L : m # 0 => f[m] = Put(f[m - 1], s[m])
  <2> DEFINE step == [i \in 1..L |-> [t \in A |-> Put(t, s[i])]]
             none == <<>>
  <2>. HIDE DEF Put
  <2>1. Steps(step, L, A) /\ none \in A
    <3>. HIDE DEF K
    <3>1. none \in A
      OBVIOUS
    <3>. HIDE DEF A, L, none
    <3>. QED BY <1>1, <1>2, <3>1 DEF Steps
  <2>2. PICK g : Goes(g, L, A, none, step)
    <3>. HIDE DEF A, L, none, step
    <3>. QED BY <1>1, <2>1, Run
  <2>3. g \in [0..L -> A] /\ g[0] = <<>> /\ \A m \in 1..L : g[m] = Put(g[m - 1], s[m])
    <3>. HIDE DEF A, L
    <3>1. \A m \in 1..L : m - 1 \in 0..L
      BY <1>1
    <3>2. g \in [0..L -> A] /\ g[0] = none /\ \A m \in 1..L : g[m] = step[m][g[m - 1]]
      <4>. HIDE DEF step, none
      <4>. QED BY <2>2, Goings
    <3>. HIDE DEF none
    <3>3. ASSUME NEW m \in 1..L PROVE g[m] = Put(g[m - 1], s[m])
      <4>1. g[m - 1] \in A
        BY <3>1, <3>2
      <4>. QED BY <3>2, <4>1
    <3>. QED BY <3>2, <3>3 DEF none
  <2>. HIDE DEF A, L
  <2>4. \A m \in 0..L : m # 0 => m \in 1..L
    BY <1>1
  <2>5. g = [m \in 0..L |-> IF m = 0 THEN <<>> ELSE Put(g[m - 1], s[m])]
    BY <2>3, <2>4
  <2>6. f = [m \in 0..L |-> IF m = 0 THEN <<>> ELSE Put(f[m - 1], s[m])]
    BY <2>5, Zenon
  <2>. HIDE DEF f
  <2>7. 0 \in 0..L
    BY <1>1
  <2>8. f[0] = <<>> /\ \A m \in 0..L : m # 0 => f[m] = Put(f[m - 1], s[m])
    BY <2>6, <2>7
  <2> DEFINE T == {m \in 0..L : f[m] \in A}
  <2>9. 0 \in T
    BY <2>1, <2>7, <2>8
  <2>10. ASSUME NEW m \in 0..L, m # 0, m - 1 \in T PROVE m \in T
    BY <1>1, <1>2, <2>4, <2>8, <2>10
  <2>11. 0..L \subseteq T
    <3>. HIDE DEF T
    <3>. QED BY <1>1, <2>9, <2>10, AllTheWay
  <2>. QED BY <2>6, <2>8, <2>11
<1>4. ById(s) = f[L]
  BY Zenon DEF ById, StableSort, f, L, Put
<1>. HIDE DEF f, Put
<1> DEFINE T == {m \in 0..L : /\ ToSet(f[m]) = FirstOf(s, m)
                              /\ Distinct(s) => Asc(f[m])}
<1>5. 0 \in T
  <2>1. f[0] = <<>>
    BY <1>1, <1>3
  <2>2. ToSet(f[0]) = {} /\ Asc(f[0])
    BY <2>1 DEF ToSet, Asc
  <2>3. FirstOf(s, 0) = {} /\ 0 \in 0..L
    BY <1>1, FirstOfAll
  <2>. HIDE DEF L
  <2>. QED BY <2>2, <2>3
<1>6. ASSUME NEW m \in 0..L, m # 0, m - 1 \in T PROVE m \in T
  <2>1. /\ FirstOf(s, m) = FirstOf(s, m - 1) \union {s[m]} /\ s[m] \in K
        /\ Distinct(s) => s[m] \notin FirstOf(s, m - 1)
    BY <1>6, FirstOfNext
  <2>2. f[m - 1] \in A /\ f[m] = Put(f[m - 1], s[m])
    BY <1>1, <1>3, <1>6
  <2>3. ToSet(f[m - 1]) = FirstOf(s, m - 1) /\ (Distinct(s) => Asc(f[m - 1]))
    BY <1>6
  <2>4. /\ ToSet(f[m]) = ToSet(f[m - 1]) \union {s[m]}
        /\ Asc(f[m - 1]) /\ s[m] \notin ToSet(f[m - 1]) => Asc(f[m])
    BY <1>2, <2>1, <2>2
  <2>. QED BY <2>1, <2>3, <2>4
<1>7. L \in T
  <2>. HIDE DEF T
  <2>1. 0..L \subseteq T
    BY <1>1, <1>5, <1>6, AllTheWay
  <2>. QED BY <1>1, <2>1
<1>8. FirstOf(s, L) = ToSet(s)
  BY FirstOfAll
<1>. QED BY <1>1, <1>3, <1>4, <1>7, <1>8

LEMMA SameFunction ==
    ASSUME NEW S, NEW T, NEW s \in [S -> T], NEW t \in [S -> T], \A x \in S : s[x] = t[x]
    PROVE  s = t
OBVIOUS

\* Two lists of the same numbers that both go up are the same.
LEMMA SameAsc ==
    ASSUME NEW s \in Seq(Nat), NEW t \in Seq(Nat), Asc(s), Asc(t), ToSet(s) = ToSet(t)
    PROVE  s = t
<1> DEFINE L == Len(s)
           M == Len(t)
<1>1. /\ L \in Nat /\ M \in Nat /\ DOMAIN s = 1..L /\ DOMAIN t = 1..M
      /\ \A i \in 1..L : s[i] \in Nat
      /\ \A i \in 1..M : t[i] \in Nat
  OBVIOUS
<1>2. /\ \A i \in 1..L : \E j \in 1..M : s[i] = t[j]
      /\ \A i \in 1..M : \E j \in 1..L : t[i] = s[j]
  BY <1>1 DEF ToSet
<1>3. /\ \A i, j \in 1..L : i < j => s[i] < s[j]
      /\ \A i, j \in 1..M : i < j => t[i] < t[j]
  BY <1>1 DEF Asc
<1>. HIDE DEF L, M
<1>4. \A n \in 1..L : n \in 1..M => s[n] = t[n]
  <2> DEFINE D == {n \in 1..L : n \in 1..M /\ s[n] # t[n]}
  <2>1. SUFFICES ASSUME D # {} PROVE FALSE
    OBVIOUS
  <2>2. PICK n \in D : \A k \in D : n <= k
    <3>1. D \in SUBSET Nat
      BY <1>1
    <3>. HIDE DEF D
    <3>. QED BY <2>1, <3>1, LeastExists
  <2>3. n \in 1..L /\ n \in 1..M /\ s[n] # t[n] /\ s[n] \in Nat /\ t[n] \in Nat
    BY <1>1, <2>2
  <2>4. \A k \in 1..L : k < n => k \in 1..M /\ s[k] = t[k]
    BY <1>1, <2>2, <2>3
  <2>5. CASE s[n] < t[n]
    <3>1. PICK m \in 1..M : s[n] = t[m]
      BY <1>2, <2>3
    <3>2. CASE m < n
      <4>1. m \in 1..L /\ s[m] = t[m]
        BY <1>1, <2>3, <2>4, <3>2
      <4>. QED BY <1>1, <1>3, <2>3, <3>1, <3>2, <4>1
    <3>3. CASE m > n
      BY <1>1, <1>3, <2>3, <2>5, <3>1, <3>3
    <3>. QED BY <1>1, <2>3, <3>1, <3>2, <3>3
  <2>6. CASE t[n] < s[n]
    <3>1. PICK m \in 1..L : t[n] = s[m]
      BY <1>2, <2>3
    <3>2. CASE m < n
      <4>1. m \in 1..M /\ s[m] = t[m]
        BY <1>1, <2>3, <2>4, <3>2
      <4>. QED BY <1>1, <1>3, <2>3, <3>1, <3>2, <4>1
    <3>3. CASE m > n
      BY <1>1, <1>3, <2>3, <2>6, <3>1, <3>3
    <3>. QED BY <1>1, <2>3, <3>1, <3>2, <3>3
  <2>. QED BY <2>3, <2>5, <2>6
<1>5. L = M
  <2>1. ASSUME L < M PROVE FALSE
    <3>1. L + 1 \in 1..M
      BY <1>1, <2>1
    <3>2. PICK j \in 1..L : t[L + 1] = s[j]
      BY <1>2, <3>1
    <3>3. j \in 1..M /\ j < L + 1 /\ s[j] = t[j]
      BY <1>1, <1>4, <2>1
    <3>. QED BY <1>1, <1>3, <3>1, <3>2, <3>3
  <2>2. ASSUME M < L PROVE FALSE
    <3>1. M + 1 \in 1..L
      BY <1>1, <2>2
    <3>2. PICK j \in 1..M : s[M + 1] = t[j]
      BY <1>2, <3>1
    <3>3. j \in 1..L /\ j < M + 1 /\ s[j] = t[j]
      BY <1>1, <1>4, <2>2
    <3>. QED BY <1>1, <1>3, <3>1, <3>2, <3>3
  <2>. QED BY <1>1, <2>1, <2>2
<1>6. s \in [1..L -> Nat] /\ t \in [1..L -> Nat]
  <2>1. s \in [1..Len(s) -> Nat] /\ t \in [1..Len(t) -> Nat]
    OBVIOUS
  <2>. QED BY <1>5, <2>1 DEF L, M
<1>7. \A n \in 1..L : s[n] = t[n]
  BY <1>4, <1>5
<1> DEFINE I == 1..L
<1>8. s \in [I -> Nat] /\ t \in [I -> Nat] /\ \A n \in I : s[n] = t[n]
  BY <1>6, <1>7
<1>. HIDE DEF I
<1>. QED BY <1>8, SameFunction

LEMMA SameById ==
    ASSUME NEW s \in Seq(Nat), NEW t \in Seq(Nat), Distinct(s), Distinct(t), ToSet(s) = ToSet(t)
    PROVE  ById(s) = ById(t)
<1>1. /\ ById(s) \in Seq(Nat) /\ ToSet(ById(s)) = ToSet(s) /\ Asc(ById(s))
      /\ ById(t) \in Seq(Nat) /\ ToSet(ById(t)) = ToSet(t) /\ Asc(ById(t))
  BY SortedIds
<1>. QED BY <1>1, SameAsc

\* A list without repetitions is as long as there are members.
LEMMA DistinctLength ==
    ASSUME NEW s \in Seq(Nat), Distinct(s)
    PROVE  IsFiniteSet(ToSet(s)) /\ Cardinality(ToSet(s)) = Len(s)
<1>1. Len(s) \in Nat /\ DOMAIN s = 1..Len(s)
  OBVIOUS
<1>2. IsFiniteSet(1..Len(s)) /\ Cardinality(1..Len(s)) = Len(s)
  <2> DEFINE L == Len(s)
  <2>. HIDE DEF L
  <2>1. L \in Nat
    BY <1>1 DEF L
  <2>2. IsFiniteSet(1..L) /\ Cardinality(1..L) = L
    BY <2>1, FS_Interval
  <2>. QED BY <2>2 DEF L
<1>3. s \in Surjection(1..Len(s), ToSet(s)) /\ s \in Injection(1..Len(s), ToSet(s))
  <2>1. s \in [1..Len(s) -> ToSet(s)]
    BY <1>1 DEF ToSet
  <2>2. \A a, b \in 1..Len(s) : s[a] = s[b] => a = b
    BY <1>1 DEF Distinct
  <2>3. \A x \in ToSet(s) : \E a \in 1..Len(s) : s[a] = x
    BY <1>1 DEF ToSet
  <2>. QED BY <2>1, <2>2, <2>3 DEF Surjection, Injection, IsInjective
<1>. QED BY <1>2, <1>3, FS_Surjection

LEMMA ByIdLength ==
    ASSUME NEW s \in Seq(Nat), Distinct(s)
    PROVE  Len(ById(s)) = Len(s)
<1>1. ById(s) \in Seq(Nat) /\ ToSet(ById(s)) = ToSet(s) /\ Asc(ById(s))
  BY SortedIds
<1>2. Distinct(ById(s))
  <2> DEFINE r == ById(s)
  <2>1. \A i \in DOMAIN r : r[i] \in Nat /\ i \in Nat
    BY <1>1
  <2>. HIDE DEF r
  <2>2. Asc(r)
    BY <1>1 DEF r
  <2>3. ASSUME NEW i \in DOMAIN r, NEW j \in DOMAIN r, r[i] = r[j] PROVE i = j
    BY <2>1, <2>2, <2>3 DEF Asc
  <2>4. Distinct(r)
    BY <2>3 DEF Distinct
  <2>. QED BY <2>4 DEF r
<1>. QED BY <1>1, <1>2, DistinctLength

-----------------------------------------------------------------------------
(* What an index that is exact has for a document *)

\* An index that holds the documents ds and nothing else.
Shows(ix, ds) == ix \in FineIxs /\ ix.rows = RowsOfAll(ds, DOMAIN ds, ix.fields)

LEMMA ShownIds ==
    ASSUME NEW ds \in Collections, NEW ix, Shows(ix, ds), NEW k
    PROVE  IdsOf(ix, k) = {i \in DOMAIN ds : k \in RowsOf(ds[i], ix.fields)}
<1> DEFINE fs == ix.fields
<1>1. ix.rows = RowsOfAll(ds, DOMAIN ds, fs)
  BY DEF Shows
<1>. HIDE DEF fs
<1>2. ASSUME NEW i \in IdsOf(ix, k) PROVE i \in DOMAIN ds /\ k \in RowsOf(ds[i], fs)
  <2>1. PICK r \in ix.rows : r.key = k /\ r.id = i
    BY <1>2 DEF IdsOf
  <2>2. PICK j \in DOMAIN ds : r \in Mine(ds[j], fs, j)
    BY <1>1, <2>1, AllRows
  <2>3. r.id = j /\ r.key \in RowsOf(ds[j], fs)
    BY <2>2, MineHas
  <2>. QED BY <2>1, <2>3
<1>3. ASSUME NEW i \in DOMAIN ds, k \in RowsOf(ds[i], fs) PROVE i \in IdsOf(ix, k)
  <2> DEFINE r == [key |-> k, id |-> i]
  <2>1. r \in Mine(ds[i], fs, i)
    BY <1>3, MineIs
  <2>2. r \in ix.rows
    BY <1>1, <2>1, AllRows
  <2>. QED BY <2>2 DEF IdsOf
<1>. QED BY <1>2, <1>3 DEF fs

\* A key of a document has, at each place, a value of the field there.
LEMMA RowIn ==
    ASSUME NEW d \in Contents, NEW fs \in Seq(STRING) \ {<<>>}, NEW k
    PROVE  /\ k \in RowsOf(d, fs) =>
                 k \in KeysOf(fs) /\ \A n \in 1..Len(fs) : k[n] \in Expanded(Lookup(d, fs[n]))
           /\ k \in KeysOf(fs) /\ (\A n \in 1..Len(fs) : k[n] \in Expanded(Lookup(d, fs[n]))) =>
                 k \in RowsOf(d, fs)
<1> DEFINE L == Len(fs)
           B == UNION {Expanded(Lookup(d, fs[i])) : i \in DOMAIN fs}
<1>1. DOMAIN fs = 1..L
  BY FieldsAre
<1>2. RowsOf(d, fs) = {x \in [DOMAIN fs -> B] : \A i \in DOMAIN fs : x[i] \in Expanded(Lookup(d, fs[i]))}
  BY DEF RowsOf
<1>3. RowsOf(d, fs) \in SUBSET KeysOf(fs)
  BY DocumentKeys
<1>4. \A i \in DOMAIN fs : Expanded(Lookup(d, fs[i])) \in SUBSET B
  OBVIOUS
<1>. HIDE DEF B
<1>5. ASSUME k \in KeysOf(fs), \A n \in 1..L : k[n] \in Expanded(Lookup(d, fs[n]))
      PROVE  k \in RowsOf(d, fs)
  <2>1. k \in [1..L -> Scalar]
    BY <1>5 DEF KeysOf
  <2>. HIDE DEF L
  <2>2. k \in [DOMAIN fs -> B]
    BY <1>1, <1>4, <1>5, <2>1
  <2>. QED BY <1>1, <1>2, <1>5, <2>2
<1>. QED BY <1>1, <1>2, <1>3, <1>5

\* What a field that holds no array is indexed by.
LEMMA OneValue ==
    ASSUME NEW d \in Contents, NEW f
    PROVE  /\ \E v \in Scalar : v \in Expanded(Lookup(d, f))
           /\ (f \in DOMAIN d => d[f].t # "arr") =>
                 Lookup(d, f) \in Scalar /\ Expanded(Lookup(d, f)) = {Lookup(d, f)}
<1> DEFINE x == Lookup(d, f)
<1>1. x \in Scalar \union [t : {"arr"}, v : Seq(Int)]
  BY LookedUp
<1>2. Expanded(x) \in SUBSET Scalar
  <2>. HIDE DEF x
  <2>. QED BY <1>1, ExpandedKeys
<1>3. \E v : v \in Expanded(x)
  <2>. HIDE DEF x
  <2>1. CASE x.t # "arr"
    BY <2>1 DEF Expanded
  <2>2. CASE x.t = "arr" /\ x.v = <<>>
    BY <2>2 DEF Expanded
  <2>3. CASE x.t = "arr" /\ x.v # <<>>
    <3>1. x.v \in Seq(Int)
      BY <1>1, <2>3, ScalarParts
    <3>2. 1 \in DOMAIN x.v
      BY <2>3, <3>1
    <3>3. Expanded(x) = {Num(x.v[i]) : i \in DOMAIN x.v}
      BY <2>3 DEF Expanded
    <3>. QED BY <3>2, <3>3
  <2>. QED BY <2>1, <2>2, <2>3
<1>4. ASSUME f \in DOMAIN d => d[f].t # "arr" PROVE x.t # "arr"
  <2>1. x = Nil \/ (f \in DOMAIN d /\ x = d[f]) \/ \E n : x = Num(n)
    <3>1. CASE f \notin DOMAIN d \/ d[f] = Missing
      <4>1. LookupMulti(d, f) = <<>>
        BY <3>1 DEF LookupMulti
      <4>. QED BY <4>1 DEF Lookup
    <3>2. CASE f \in DOMAIN d /\ d[f] # Missing /\ d[f].t # "many"
      <4>1. LookupMulti(d, f) = <<d[f]>>
        BY <3>2 DEF LookupMulti
      <4>2. <<d[f]>> # <<>> /\ Head(<<d[f]>>) = d[f]
        OBVIOUS
      <4>. QED BY <3>2, <4>1, <4>2 DEF Lookup
    <3>3. CASE f \in DOMAIN d /\ d[f] # Missing /\ d[f].t = "many"
      <4> DEFINE y == d[f]
                 e == Elements(y)
      <4>1. LookupMulti(d, f) = e
        BY <3>3 DEF LookupMulti
      <4>2. y.v \in Seq(Int)
        <5>1. y \in Value
          BY <3>3, ContentsAssumption
        <5>. HIDE DEF y
        <5>2. y.t = "many"
          BY <3>3 DEF y
        <5>3. y \in [t : {"arr", "many"}, v : Seq(Int)]
          BY <5>1, <5>2, ScalarParts DEF Value, Missing
        <5>. QED BY <5>3
      <4>3. CASE e = <<>>
        BY <4>1, <4>3 DEF Lookup
      <4>4. CASE e # <<>>
        <5>1. e = [i \in DOMAIN y.v |-> Num(y.v[i])]
          BY DEF Elements
        <5>2. DOMAIN y.v = 1..Len(y.v) /\ Len(y.v) \in Nat
          BY <4>2
        <5>3. \A i \in DOMAIN y.v : Num(y.v[i]) \in Scalar
          BY <4>2, NumIsScalar
        <5>. HIDE DEF y, e
        <5>4. e \in [1..Len(y.v) -> Scalar]
          BY <5>1, <5>2, <5>3
        <5>5. e \in Seq(Scalar)
          BY <5>2, <5>4, SeqOfFunction
        <5>6. Head(e) = e[1] /\ 1 \in DOMAIN e
          BY <4>4, <5>5
        <5>7. e[1] = Num(y.v[1])
          BY <5>1, <5>6
        <5>. QED BY <4>1, <4>4, <5>6, <5>7 DEF Lookup
      <4>. QED BY <4>3, <4>4
    <3>. QED BY <3>1, <3>2, <3>3
  <2>. HIDE DEF x
  <2>2. Nil.t = "nil" /\ \A n : Num(n).t = "num"
    BY DEF Nil, Num
  <2>. QED BY <1>4, <2>1, <2>2
<1>5. ASSUME f \in DOMAIN d => d[f].t # "arr" PROVE x \in Scalar /\ Expanded(x) = {x}
  <2>1. x.t # "arr"
    BY <1>4, <1>5
  <2>. HIDE DEF x
  <2>. QED BY <1>1, <2>1 DEF Expanded
<1>. QED BY <1>2, <1>3, <1>5

\* Every document has a key, with any value of the first field in the first place.
LEMMA KeyWith ==
    ASSUME NEW d \in Contents, NEW fs \in Seq(STRING) \ {<<>>}, NEW m \in 0..Len(fs),
           NEW w \in [1..m -> Scalar], \A n \in 1..m : w[n] \in Expanded(Lookup(d, fs[n]))
    PROVE  \E k \in RowsOf(d, fs) : \A n \in 1..m : k[n] = w[n]
<1> DEFINE L == Len(fs)
           E(n) == Expanded(Lookup(d, fs[n]))
           any == [n \in 1..L |-> CHOOSE v \in Scalar : v \in E(n)]
           k == [n \in 1..L |-> IF n \in 1..m THEN w[n] ELSE any[n]]
<1>1. L \in Nat /\ m \in Nat /\ 1..m \subseteq 1..L
  BY FieldsAre
<1>. HIDE DEF L
<1>2. \A n \in 1..L : any[n] \in Scalar /\ any[n] \in E(n)
  <2>1. \A n \in 1..L : \E v \in Scalar : v \in E(n)
    BY OneValue
  <2>. HIDE DEF E
  <2>. QED BY <2>1
<1>. HIDE DEF E, any
<1>3. \A n \in 1..m : w[n] \in Scalar /\ w[n] \in E(n)
  BY DEF E
<1>4. k \in [1..L -> Scalar] /\ \A n \in 1..L : k[n] \in E(n)
  BY <1>2, <1>3
<1>5. \A n \in 1..m : k[n] = w[n]
  BY <1>1
<1>. HIDE DEF k
<1>6. k \in RowsOf(d, fs)
  BY <1>4, RowIn DEF KeysOf, L, E
<1>. QED BY <1>5, <1>6

-----------------------------------------------------------------------------
(* Binary searches in the ordered keys *)

\* sort.Search over places that go on to the end of the list.
LEMMA SearchSplits ==
    ASSUME NEW K, NEW s \in Seq(K), NEW places \in SUBSET (1..Len(s)),
           \A i, j \in 1..Len(s) : i < j /\ i \in places => j \in places
    PROVE  /\ Search(s, places) \in 1..Len(s) + 1
           /\ \A j \in 1..Len(s) : j >= Search(s, places) <=> j \in places
<1> DEFINE L == Len(s)
           p == Search(s, places)
<1>1. /\ p \in 1..L + 1 /\ p \in places \union {L + 1}
      /\ \A j \in 1..L : j < p => j \notin places
  BY SearchFinds
<1>2. L \in Nat
  OBVIOUS
<1>. HIDE DEF p, L
<1>3. \A j \in 1..L : j >= p => j \in places
  <2>1. TAKE j \in 1..L
  <2>2. HAVE j >= p
  <2>3. p \in places
    BY <1>1, <1>2, <2>2
  <2>4. p \in 1..L
    BY <2>3 DEF L
  <2>5. j = p \/ p < j
    BY <1>1, <1>2, <2>2
  <2>. QED BY <2>3, <2>4, <2>5 DEF L
<1>4. \A j \in 1..L : j >= p <=> j \in places
  BY <1>1, <1>2, <1>3
<1>. QED BY <1>1, <1>4 DEF p, L

\* A value is at least v, or past it.
Reached(a, v, past) ==
    IF past THEN CompareOrdered(a, v) > 0 ELSE CompareOrdered(a, v) >= 0

LEMMA ReachedOn ==
    ASSUME NEW a \in Scalar, NEW b \in Scalar, NEW v \in Scalar, NEW past \in BOOLEAN,
           CompareOrdered(a, b) <= 0, Reached(a, v, past)
    PROVE  Reached(b, v, past)
<1>1. /\ TypeRank(a) = IF a.t = "nil" THEN 0 ELSE IF a.t = "num" THEN 1 ELSE IF a.t = "str" THEN 2 ELSE 3
      /\ TypeRank(b) = IF b.t = "nil" THEN 0 ELSE IF b.t = "num" THEN 1 ELSE IF b.t = "str" THEN 2 ELSE 3
      /\ TypeRank(v) = IF v.t = "nil" THEN 0 ELSE IF v.t = "num" THEN 1 ELSE IF v.t = "str" THEN 2 ELSE 3
  BY RankIs
<1>2. /\ a.t \in {"nil", "num", "str", "bool"} /\ (a.t # "nil" => a.v[1] \in Int)
      /\ b.t \in {"nil", "num", "str", "bool"} /\ (b.t # "nil" => b.v[1] \in Int)
      /\ v.t \in {"nil", "num", "str", "bool"} /\ (v.t # "nil" => v.v[1] \in Int)
  BY ScalarParts
<1>3. /\ CompareOrdered(a, b) \in Int /\ CompareOrdered(a, v) \in Int /\ CompareOrdered(b, v) \in Int
      /\ CompareOrdered(a, b) = 0 <=> a = b
      /\ CompareOrdered(a, v) = 0 <=> a = v
      /\ CompareOrdered(b, v) = 0 <=> b = v
      /\ CompareOrdered(a, b) < 0 <=>
            TypeRank(a) < TypeRank(b) \/ (a.t = b.t /\ a.t # "nil" /\ a.v[1] < b.v[1])
      /\ CompareOrdered(a, v) < 0 <=>
            TypeRank(a) < TypeRank(v) \/ (a.t = v.t /\ a.t # "nil" /\ a.v[1] < v.v[1])
      /\ CompareOrdered(b, v) < 0 <=>
            TypeRank(b) < TypeRank(v) \/ (b.t = v.t /\ b.t # "nil" /\ b.v[1] < v.v[1])
  BY ValueOrder
<1> DEFINE ab == CompareOrdered(a, b)
           av == CompareOrdered(a, v)
           bv == CompareOrdered(b, v)
           ra == TypeRank(a)
           rb == TypeRank(b)
           rv == TypeRank(v)
<1>4. ab <= 0 /\ (IF past THEN av > 0 ELSE av >= 0)
  BY DEF Reached
<1>5. IF past THEN bv > 0 ELSE bv >= 0
  <2>1. CASE ab = 0
    BY <1>3, <1>4, <2>1
  <2>2. CASE ab < 0
    <3>1. ~(av < 0) /\ ra \in Nat /\ rb \in Nat /\ rv \in Nat
      BY <1>1, <1>3, <1>4
    <3>2. ~(ra < rv) /\ ~(a.t = v.t /\ a.t # "nil" /\ a.v[1] < v.v[1])
      BY <1>3, <3>1
    <3>3. ra < rb \/ (a.t = b.t /\ a.t # "nil" /\ a.v[1] < b.v[1])
      BY <1>3, <2>2
    <3>4. CASE ra < rb
      <4>1. rv < rb /\ b.t # v.t
        BY <1>1, <1>2, <3>1, <3>2, <3>4
      <4>2. bv # 0 /\ ~(bv < 0)
        BY <1>3, <3>1, <4>1
      <4>. QED BY <1>3, <4>2
    <3>5. CASE a.t = b.t /\ a.t # "nil" /\ a.v[1] < b.v[1]
      <4>1. ra = rb
        BY <1>1, <3>5
      <4>2. ~(bv < 0)
        <5>1. ~(rb < rv)
          BY <3>2, <4>1
        <5>2. ~(b.t = v.t /\ b.t # "nil" /\ b.v[1] < v.v[1])
          BY <1>2, <3>2, <3>5
        <5>. QED BY <1>3, <5>1, <5>2
      <4>3. b # v
        BY <1>2, <3>2, <3>5
      <4>. QED BY <1>3, <4>2, <4>3
    <3>. QED BY <3>3, <3>4, <3>5
  <2>. QED BY <1>3, <1>4, <2>1, <2>2
<1>. QED BY <1>5 DEF Reached

\* The first values of keys go up with the keys.
LEMMA FirstValues ==
    ASSUME NEW fs, Len(fs) \in Nat \ {0}, NEW a \in KeysOf(fs), NEW b \in KeysOf(fs), OrdLess(a, b)
    PROVE  /\ a[1] \in Scalar /\ b[1] \in Scalar
           /\ CompareOrdered(a[1], b[1]) <= 0 /\ TypeRank(a[1]) <= TypeRank(b[1])
<1>1. a[1] \in Scalar /\ b[1] \in Scalar
  BY DEF KeysOf
<1>2. CompareOrdered(a[1], b[1]) \in Int
  BY <1>1, ValueOrder
<1>3. CompareOrdered(a[1], b[1]) <= 0
  BY <1>2 DEF OrdLess
<1>4. TypeRank(a[1]) <= TypeRank(b[1])
  <2>1. TypeRank(a[1]) \in Nat /\ TypeRank(b[1]) \in Nat
    BY <1>1, RankIs
  <2>2. CASE CompareOrdered(a[1], b[1]) = 0
    BY <1>1, <2>1, <2>2, ValueOrder
  <2>3. CASE CompareOrdered(a[1], b[1]) < 0
    <3>1. TypeRank(a[1]) < TypeRank(b[1]) \/ a[1].t = b[1].t
      BY <1>1, <2>3, ValueOrder
    <3>2. a[1].t = b[1].t => TypeRank(a[1]) = TypeRank(b[1])
      BY <1>1, RankIs
    <3>. QED BY <2>1, <3>1, <3>2
  <2>. QED BY <1>2, <1>3, <2>2, <2>3
<1>. QED BY <1>1, <1>3, <1>4

\* What an index looks like when a search has sorted it.
Sorted(ix) ==
    /\ ix.ord \in Seq(KeysOf(ix.fields)) /\ InOrder(ix.ord) /\ Distinct(ix.ord)
    /\ ToSet(ix.ord) = KeysIn(ix.rows)
    /\ ix.matrix # <<>> => ix.matrix = FlatOf(ix)

LEMMA SortedIs ==
    ASSUME NEW ds \in Collections, NEW ix, Shows(ix, ds)
    PROVE  /\ Shows(EnsureOrd(ix), ds) /\ Sorted(EnsureOrd(ix))
           /\ EnsureOrd(ix).fields = ix.fields
           /\ \A k : IdsOf(EnsureOrd(ix), k) = IdsOf(ix, k)
<1> DEFINE s == EnsureOrd(ix)
           fs == ix.fields
           u == ix.unique
<1>1. ix \in FineIxs
  BY DEF Shows
<1>2. ix \in IxOf(fs, u) /\ Coherent(ix) /\ Len(fs) \in Nat \ {0}
  BY <1>1, FineParts
<1>3. s \in FineIxs /\ s.fields = fs /\ s.rows = ix.rows
  BY <1>1, EnsureOrdFine
<1>4. s \in IxOf(fs, u) /\ Coherent(s) /\ s.sorted
  <2>. HIDE DEF fs, u
  <2>. QED BY <1>2, EnsureOrdKeeps
<1>5. Shows(s, ds)
  BY <1>3 DEF Shows
<1>. HIDE DEF s, fs, u
<1>6. /\ Ranked(s) /\ ToSet(s.ord) = KeysIn(s.rows)
      /\ (s.matrix # <<>> => s.sorted /\ s.matrix = FlatOf(s))
  BY <1>4, CoherentParts
<1>7. s.ord \in Seq(KeysOf(fs))
  BY <1>4, IxParts
<1>8. Sorted(s)
  BY <1>3, <1>4, <1>6, <1>7 DEF Sorted, Ranked
<1>9. \A k : IdsOf(s, k) = IdsOf(ix, k)
  BY <1>3 DEF IdsOf
<1>. QED BY <1>3, <1>5, <1>8, <1>9 DEF s, fs

LEMMA SeekSplits ==
    ASSUME NEW ix, Sorted(ix), Len(ix.fields) \in Nat \ {0}, NEW v \in Scalar, NEW past \in BOOLEAN
    PROVE  /\ Seek(ix, v, past) \in 1..Len(ix.ord) + 1
           /\ \A j \in 1..Len(ix.ord) : j >= Seek(ix, v, past) <=> Reached(ix.ord[j][1], v, past)
<1> DEFINE s == ix.ord
           K == KeysOf(ix.fields)
           from(a) == IF TypeRank(a) # TypeRank(v) THEN TypeRank(a) > TypeRank(v)
                      ELSE CompareOrdered(a, v) >= IF past THEN 1 ELSE 0
           places == {i \in DOMAIN s : from(s[i][1])}
<1>1. s \in Seq(K) /\ DOMAIN s = 1..Len(s) /\ Len(s) \in Nat
  BY DEF Sorted
<1>2. \A i \in 1..Len(s) : s[i] \in K /\ s[i][1] \in Scalar
  <2>1. \A k \in K : k[1] \in Scalar
    BY DEF KeysOf
  <2>. HIDE DEF s, K
  <2>. QED BY <1>1, <2>1
<1>3. ASSUME NEW a \in Scalar PROVE from(a) <=> Reached(a, v, past)
  <2>1. TypeRank(a) \in Nat /\ TypeRank(v) \in Nat
    BY RankIs
  <2>2. /\ CompareOrdered(a, v) \in Int
        /\ CompareOrdered(a, v) = 0 <=> a = v
        /\ CompareOrdered(a, v) < 0 <=>
              TypeRank(a) < TypeRank(v) \/ (a.t = v.t /\ a.t # "nil" /\ a.v[1] < v.v[1])
    BY ValueOrder
  <2>3. TypeRank(a) # TypeRank(v) => a.t # v.t /\ a # v
    BY RankIs
  <2>. QED BY <2>1, <2>2, <2>3 DEF Reached
<1>4. Seek(ix, v, past) = Search(s, places)
  BY Zenon DEF Seek
<1>. HIDE DEF from
<1>5. ASSUME NEW i \in 1..Len(s), NEW j \in 1..Len(s), i < j, i \in places PROVE j \in places
  <2>1. OrdLess(s[i], s[j])
    BY <1>1, <1>5 DEF Sorted, InOrder
  <2>2. CompareOrdered(s[i][1], s[j][1]) <= 0
    <3> DEFINE a == s[i]
               b == s[j]
    <3>1. a \in K /\ b \in K /\ OrdLess(a, b)
      BY <1>2, <2>1
    <3>. HIDE DEF a, b
    <3>2. CompareOrdered(a[1], b[1]) <= 0
      BY <3>1, FirstValues
    <3>. QED BY <3>2 DEF a, b
  <2>3. Reached(s[i][1], v, past) /\ s[i][1] \in Scalar /\ s[j][1] \in Scalar
    BY <1>2, <1>3, <1>5
  <2>4. Reached(s[j][1], v, past)
    BY <2>2, <2>3, ReachedOn
  <2>. QED BY <1>1, <1>3, <2>3, <2>4
<1>6. places \in SUBSET (1..Len(s))
  BY <1>1
<1>7. /\ Search(s, places) \in 1..Len(s) + 1
      /\ \A j \in 1..Len(s) : j >= Search(s, places) <=> j \in places
  <2>. HIDE DEF places, s, K
  <2>. QED BY <1>1, <1>5, <1>6, SearchSplits
<1>8. \A j \in 1..Len(s) : j \in places <=> Reached(s[j][1], v, past)
  BY <1>1, <1>2, <1>3
<1>. HIDE DEF places, s
<1>9. /\ Seek(ix, v, past) \in 1..Len(s) + 1
      /\ \A j \in 1..Len(s) : j >= Seek(ix, v, past) <=> Reached(s[j][1], v, past)
  BY <1>4, <1>7, <1>8
<1>. QED BY <1>9 DEF s

LEMMA RankSplits ==
    ASSUME NEW ix, Sorted(ix), Len(ix.fields) \in Nat \ {0}, NEW rank \in Nat
    PROVE  /\ RankFrom(ix, rank) \in 1..Len(ix.ord) + 1
           /\ \A j \in 1..Len(ix.ord) : j >= RankFrom(ix, rank) <=> TypeRank(ix.ord[j][1]) >= rank
<1> DEFINE s == ix.ord
           K == KeysOf(ix.fields)
           places == {i \in DOMAIN s : TypeRank(s[i][1]) >= rank}
<1>1. s \in Seq(K) /\ DOMAIN s = 1..Len(s) /\ Len(s) \in Nat
  BY DEF Sorted
<1>2. \A i \in 1..Len(s) : s[i] \in K /\ s[i][1] \in Scalar
  <2>1. \A k \in K : k[1] \in Scalar
    BY DEF KeysOf
  <2>. HIDE DEF s, K
  <2>. QED BY <1>1, <2>1
<1>4. RankFrom(ix, rank) = Search(s, places)
  BY Zenon DEF RankFrom
<1>5. ASSUME NEW i \in 1..Len(s), NEW j \in 1..Len(s), i < j, i \in places PROVE j \in places
  <2>1. OrdLess(s[i], s[j])
    BY <1>1, <1>5 DEF Sorted, InOrder
  <2>2. TypeRank(s[i][1]) <= TypeRank(s[j][1])
    <3> DEFINE a == s[i]
               b == s[j]
    <3>1. a \in K /\ b \in K /\ OrdLess(a, b)
      BY <1>2, <2>1
    <3>. HIDE DEF a, b
    <3>2. TypeRank(a[1]) <= TypeRank(b[1])
      BY <3>1, FirstValues
    <3>. QED BY <3>2 DEF a, b
  <2>3. TypeRank(s[i][1]) \in Nat /\ TypeRank(s[j][1]) \in Nat
    BY <1>2, RankIs
  <2>. QED BY <1>1, <1>5, <2>2, <2>3
<1>6. places \in SUBSET (1..Len(s))
  BY <1>1
<1>7. /\ Search(s, places) \in 1..Len(s) + 1
      /\ \A j \in 1..Len(s) : j >= Search(s, places) <=> j \in places
  <2>. HIDE DEF places, s, K
  <2>. QED BY <1>1, <1>5, <1>6, SearchSplits
<1>8. \A j \in 1..Len(s) : j \in places <=> TypeRank(s[j][1]) >= rank
  BY <1>1
<1>. HIDE DEF places, s
<1>9. /\ RankFrom(ix, rank) \in 1..Len(s) + 1
      /\ \A j \in 1..Len(s) : j >= RankFrom(ix, rank) <=> TypeRank(s[j][1]) >= rank
  BY <1>4, <1>7, <1>8
<1>. QED BY <1>9 DEF s

-----------------------------------------------------------------------------
(* The documents a search of an index returns *)

LEMMA ValueAt ==
    ASSUME NEW a \in Scalar, NEW v \in Scalar
    PROVE  a = v <=> Reached(a, v, FALSE) /\ ~Reached(a, v, TRUE)
<1>1. CompareOrdered(a, v) \in Int /\ (CompareOrdered(a, v) = 0 <=> a = v)
  BY ValueOrder
<1>. QED BY <1>1 DEF Reached

\* All documents that have a key are there.
LEMMA KeyHere ==
    ASSUME NEW ds \in Collections, NEW ix, Shows(ix, ds), NEW k
    PROVE  k \in KeysIn(ix.rows) <=> \E i \in DOMAIN ds : k \in RowsOf(ds[i], ix.fields)
<1>1. IdsOf(ix, k) = {} <=> k \notin KeysIn(ix.rows)
  BY NoIds
<1>2. IdsOf(ix, k) = {i \in DOMAIN ds : k \in RowsOf(ds[i], ix.fields)}
  BY ShownIds
<1>. QED BY <1>1, <1>2

\* The documents with a key that begins with values.
Beginning(ds, fs, values) ==
    {i \in DOMAIN ds : \E k \in RowsOf(ds[i], fs) : \A n \in 1..Len(values) : k[n] = values[n]}

\* seekPrefix (index.go:324-417) finds just these.
LEMMA PrefixFound ==
    ASSUME NEW ds \in Collections, NEW ix, Shows(ix, ds), NEW values \in Seq(Scalar),
           Len(values) \in 1..Len(ix.fields)
    PROVE  SeekPrefix(ix, values) = Beginning(ds, ix.fields, values)
<1> DEFINE s == EnsureOrd(ix)
           fs == ix.fields
           n == Len(values)
           begins(k) == SubSeq(k, 1, n) = values
           start == Seek(s, values[1], FALSE)
           end == Seek(s, values[1], TRUE)
           keys == IF Ordered(values[1]) THEN {s.ord[i] : i \in start..end - 1}
                   ELSE {r.key : r \in ix.rows}
           found == UNION {IdsOf(ix, k) : k \in {k \in keys : begins(k)}}
<1>1. ix \in FineIxs
  BY DEF Shows
<1>2. fs \in Seq(STRING) \ {<<>>} /\ Len(fs) \in Nat \ {0}
  BY <1>1, FineParts
<1>3. /\ Sorted(s) /\ s.fields = fs /\ s.rows = ix.rows
  <2>1. s.rows = ix.rows
    BY <1>1, EnsureOrdFine
  <2>. QED BY <2>1, SortedIs
<1>4. n \in 1..Len(fs) /\ n \in Nat /\ n >= 1 /\ values[1] \in Scalar
      /\ \A j \in 1..n : values[j] \in Scalar
  BY <1>2
<1>5. ASSUME NEW k \in KeysOf(fs) PROVE begins(k) <=> \A j \in 1..n : k[j] = values[j]
  <2>1. k \in Seq(Scalar) /\ Len(k) = Len(fs)
    <3> DEFINE m == Len(fs)
    <3>1. k \in [1..m -> Scalar] /\ m \in Nat
      BY <1>2 DEF KeysOf
    <3>. HIDE DEF m
    <3>2. k \in Seq(Scalar) /\ Len(k) = m
      BY <3>1, SeqOfFunction
    <3>. QED BY <3>2 DEF m
  <2> DEFINE r == SubSeq(k, 1, n)
  <2>2. r \in Seq(Scalar) /\ Len(r) = n /\ \A i \in 1..n : r[i] = k[i]
    <3>1. n \in Nat /\ n <= Len(k) /\ 1 <= n + 1 /\ 1 \in Nat /\ 1 >= 1
      BY <1>2, <1>4, <2>1
    <3>. HIDE DEF n
    <3>2. /\ r \in Seq(Scalar) /\ Len(r) = n - 1 + 1
          /\ \A i \in 1..(n - 1 + 1) : r[i] = k[1 + i - 1]
      BY <2>1, <3>1, PartOfList
    <3>3. n - 1 + 1 = n /\ \A i \in 1..n : 1 + i - 1 = i
      BY <3>1
    <3>. QED BY <3>2, <3>3
  <2>3. values \in [1..n -> Scalar] /\ r \in [1..n -> Scalar]
    <3>. HIDE DEF r
    <3>1. r \in [1..Len(r) -> Scalar]
      BY <2>2
    <3>2. values \in [1..Len(values) -> Scalar]
      OBVIOUS
    <3>. QED BY <2>2, <3>1, <3>2
  <2>. HIDE DEF r, n
  <2>4. r = values <=> \A j \in 1..n : k[j] = values[j]
    BY <2>2, <2>3
  <2>. QED BY <2>4 DEF r
<1>6. \A k \in KeysIn(ix.rows) : k \in KeysOf(fs)
  <2>1. TAKE k \in KeysIn(ix.rows)
  <2>2. PICK i \in DOMAIN ds : k \in RowsOf(ds[i], fs)
    BY KeyHere
  <2>3. ds[i] \in Contents
    BY CollectionParts
  <2>. QED BY <1>2, <2>2, <2>3, DocumentKeys
<1>7. ASSUME NEW k \in KeysIn(ix.rows), begins(k) PROVE k \in keys
  <2>1. CASE ~Ordered(values[1])
    BY <2>1 DEF KeysIn
  <2>2. CASE Ordered(values[1])
    <3>1. k[1] = values[1]
      BY <1>4, <1>5, <1>6, <1>7
    <3>2. k \in ToSet(s.ord)
      BY <1>3 DEF Sorted
    <3>3. PICK i \in DOMAIN s.ord : s.ord[i] = k
      BY <3>2 DEF ToSet
    <3>4. i \in 1..Len(s.ord) /\ Len(s.ord) \in Nat
      BY <1>3, <3>3 DEF Sorted
    <3>5. /\ start \in 1..Len(s.ord) + 1 /\ end \in 1..Len(s.ord) + 1
          /\ i >= start <=> Reached(k[1], values[1], FALSE)
          /\ i >= end <=> Reached(k[1], values[1], TRUE)
      <4>1. Len(s.fields) \in Nat \ {0}
        BY <1>2, <1>3
      <4>. HIDE DEF s, fs
      <4>. QED BY <1>3, <1>4, <3>3, <3>4, <4>1, SeekSplits
    <3>6. i >= start /\ ~(i >= end)
      BY <1>4, <3>1, <3>5, ValueAt
    <3>7. i \in start..end - 1
      <4>. HIDE DEF start, end, s
      <4>. QED BY <3>4, <3>5, <3>6
    <3>8. k \in {s.ord[j] : j \in start..end - 1}
      <4>. HIDE DEF start, end, s
      <4>. QED BY <3>3, <3>7
    <3>. HIDE DEF start, end, s
    <3>. QED BY <2>2, <3>8
  <2>. QED BY <2>1, <2>2
<1>8. keys \subseteq KeysIn(ix.rows)
  <2>1. CASE ~Ordered(values[1])
    BY <2>1 DEF KeysIn
  <2>2. CASE Ordered(values[1])
    <3>1. /\ start \in 1..Len(s.ord) + 1 /\ end \in 1..Len(s.ord) + 1
      <4>1. Len(s.fields) \in Nat \ {0}
        BY <1>2, <1>3
      <4>. HIDE DEF s, fs
      <4>. QED BY <1>3, <1>4, <4>1, SeekSplits
    <3>2. Len(s.ord) \in Nat /\ DOMAIN s.ord = 1..Len(s.ord) /\ ToSet(s.ord) = KeysIn(ix.rows)
      BY <1>3 DEF Sorted
    <3>3. \A i \in start..end - 1 : i \in DOMAIN s.ord
      <4>. HIDE DEF start, end, s
      <4>. QED BY <3>1, <3>2
    <3>4. \A i \in start..end - 1 : s.ord[i] \in KeysIn(ix.rows)
      <4>. HIDE DEF start, end, s
      <4>. QED BY <3>2, <3>3 DEF ToSet
    <3>. HIDE DEF start, end, s
    <3>. QED BY <2>2, <3>4
  <2>. QED BY <2>1, <2>2
<1>9. found = Beginning(ds, fs, values)
  <2>1. ASSUME NEW i \in found PROVE i \in Beginning(ds, fs, values)
    <3>. HIDE DEF keys
    <3>1. PICK k \in keys : begins(k) /\ i \in IdsOf(ix, k)
      BY <2>1
    <3>. HIDE DEF begins
    <3>2. i \in DOMAIN ds /\ k \in RowsOf(ds[i], fs)
      BY <3>1, ShownIds
    <3>3. \A j \in 1..n : k[j] = values[j]
      BY <1>5, <1>6, <1>8, <3>1
    <3>. QED BY <3>2, <3>3 DEF Beginning
  <2>2. ASSUME NEW i \in Beginning(ds, fs, values) PROVE i \in found
    <3>1. PICK k \in RowsOf(ds[i], fs) : \A j \in 1..n : k[j] = values[j]
      BY <2>2 DEF Beginning
    <3>2. i \in DOMAIN ds /\ i \in IdsOf(ix, k)
      BY <2>2, <3>1, ShownIds DEF Beginning
    <3>3. k \in KeysIn(ix.rows)
      BY <3>1, <3>2, KeyHere
    <3>4. begins(k)
      <4>. HIDE DEF begins
      <4>. QED BY <1>5, <1>6, <3>1, <3>3
    <3>5. k \in keys
      <4>. HIDE DEF begins, keys
      <4>. QED BY <1>7, <3>3, <3>4
    <3>. HIDE DEF keys, begins
    <3>. QED BY <3>2, <3>4, <3>5
  <2>. HIDE DEF found
  <2>. QED BY <2>1, <2>2
<1>10. CASE n = Len(fs)
  <2>1. SeekPrefix(ix, values) = IdsOf(ix, values)
    BY <1>10, Zenon DEF SeekPrefix, LookupIDs
  <2>2. values \in KeysOf(fs)
    <3>1. values \in [1..Len(values) -> Scalar]
      OBVIOUS
    <3>. QED BY <1>10, <3>1 DEF KeysOf
  <2>3. IdsOf(ix, values) = {i \in DOMAIN ds : values \in RowsOf(ds[i], fs)}
    BY ShownIds
  <2>4. ASSUME NEW i \in DOMAIN ds
        PROVE  values \in RowsOf(ds[i], fs) <=>
                  \E k \in RowsOf(ds[i], fs) : \A j \in 1..n : k[j] = values[j]
    <3>1. \A k \in RowsOf(ds[i], fs) : k \in KeysOf(fs)
      BY <1>2, DocumentKeys, CollectionParts
    <3>2. \A k \in KeysOf(fs) : (\A j \in 1..n : k[j] = values[j]) => k = values
      <4> DEFINE m == Len(fs)
      <4>1. KeysOf(fs) = [1..m -> Scalar] /\ n = m
        BY <1>10 DEF KeysOf
      <4>. HIDE DEF m, n
      <4>2. \A k \in [1..m -> Scalar] : (\A j \in 1..m : k[j] = values[j]) => k = values
        <5>1. values \in [1..m -> Scalar]
          BY <2>2, <4>1
        <5>2. \A k \in [1..m -> Scalar] : (\A j \in 1..m : k[j] = values[j]) => k = values
          <6> DEFINE I == 1..m
          <6>1. values \in [I -> Scalar]
            BY <5>1
          <6>. HIDE DEF I
          <6>2. \A k \in [I -> Scalar] : (\A j \in I : k[j] = values[j]) => k = values
            BY <6>1, SameFunction
          <6>. QED BY <6>2 DEF I
        <5>. QED BY <5>2
      <4>. QED BY <4>1, <4>2
    <3>. QED BY <3>1, <3>2
  <2>. QED BY <2>1, <2>3, <2>4 DEF Beginning
<1>11. CASE n # Len(fs)
  <2>1. SeekPrefix(ix, values) = found
    BY <1>11, Zenon DEF SeekPrefix
  <2>. HIDE DEF found
  <2>. QED BY <1>9, <2>1
<1>. QED BY <1>10, <1>11

\* Where the fields hold no arrays, the documents whose values are these.
LEMMA PrefixValues ==
    ASSUME NEW ds \in Collections, NEW ix, Shows(ix, ds), NEW values \in Seq(Scalar),
           Len(values) \in 1..Len(ix.fields),
           \A n \in 1..Len(values) : \A i \in DOMAIN ds :
              ix.fields[n] \in DOMAIN ds[i] => ds[i][ix.fields[n]].t # "arr"
    PROVE  SeekPrefix(ix, values) =
              {i \in DOMAIN ds : \A n \in 1..Len(values) : Lookup(ds[i], ix.fields[n]) = values[n]}
<1> DEFINE fs == ix.fields
           m == Len(values)
<1>1. fs \in Seq(STRING) \ {<<>>} /\ Len(fs) \in Nat \ {0}
  BY FineParts DEF Shows
<1>2. m \in 0..Len(fs) /\ values \in [1..m -> Scalar] /\ \A n \in 1..m : n \in 1..Len(fs)
  BY <1>1
<1>3. SeekPrefix(ix, values) = Beginning(ds, fs, values)
  BY PrefixFound
<1>4. \A n \in 1..m : \A i \in DOMAIN ds : fs[n] \in DOMAIN ds[i] => ds[i][fs[n]].t # "arr"
  OBVIOUS
<1>. HIDE DEF fs, m
<1>5. ASSUME NEW i \in DOMAIN ds
      PROVE  (\E k \in RowsOf(ds[i], fs) : \A n \in 1..m : k[n] = values[n]) <=>
                 \A n \in 1..m : Lookup(ds[i], fs[n]) = values[n]
  <2> DEFINE d == ds[i]
  <2>1. d \in Contents
    BY CollectionParts
  <2>2. \A n \in 1..m : fs[n] \in DOMAIN d => d[fs[n]].t # "arr"
    BY <1>4
  <2>. HIDE DEF d
  <2>3. \A n \in 1..m : Expanded(Lookup(d, fs[n])) = {Lookup(d, fs[n])}
    BY <2>1, <2>2, OneValue
  <2>4. ASSUME NEW k \in RowsOf(d, fs), \A n \in 1..m : k[n] = values[n], NEW n \in 1..m
        PROVE  Lookup(d, fs[n]) = values[n]
    <3>1. k[n] \in Expanded(Lookup(d, fs[n]))
      BY <1>1, <1>2, <2>1, <2>4, RowIn
    <3>. QED BY <2>3, <2>4, <3>1
  <2>5. ASSUME \A n \in 1..m : Lookup(d, fs[n]) = values[n]
        PROVE  \E k \in RowsOf(d, fs) : \A n \in 1..m : k[n] = values[n]
    <3>1. \A n \in 1..m : values[n] \in Expanded(Lookup(d, fs[n]))
      BY <2>3, <2>5
    <3>. QED BY <1>1, <1>2, <2>1, <3>1, KeyWith
  <2>6. (\E k \in RowsOf(d, fs) : \A n \in 1..m : k[n] = values[n]) <=>
           \A n \in 1..m : Lookup(d, fs[n]) = values[n]
    BY <2>4, <2>5
  <2>. QED BY <2>6 DEF d
<1>6. Beginning(ds, fs, values) = {i \in DOMAIN ds : \A n \in 1..m : Lookup(ds[i], fs[n]) = values[n]}
  BY <1>5 DEF Beginning, m
<1>. QED BY <1>3, <1>6 DEF fs, m

-----------------------------------------------------------------------------
(* The documents a range returns *)

Bounds == {NoBound} \union (Scalar \X BOOLEAN)

BoundedBelow(x, lo) ==
    lo # NoBound => /\ x.t = lo[1].t /\ x.t \in {"num", "str"}
                    /\ IF lo[2] THEN lo[1].v[1] <= x.v[1] ELSE lo[1].v[1] < x.v[1]

BoundedAbove(x, hi) ==
    hi # NoBound => /\ x.t = hi[1].t /\ x.t \in {"num", "str"}
                    /\ IF hi[2] THEN x.v[1] <= hi[1].v[1] ELSE x.v[1] < hi[1].v[1]

LEMMA BoundIs ==
    ASSUME NEW b \in Bounds, b # NoBound
    PROVE  b[1] \in Scalar /\ b[2] \in BOOLEAN
BY DEF Bounds

LEMMA ReachedIs ==
    ASSUME NEW x \in Scalar, NEW v \in Scalar, x.t = v.t, x.t \in {"num", "str"}
    PROVE  /\ x.v[1] \in Int /\ v.v[1] \in Int
           /\ Reached(x, v, FALSE) <=> v.v[1] <= x.v[1]
           /\ Reached(x, v, TRUE) <=> v.v[1] < x.v[1]
<1>1. x.v[1] \in Int /\ v.v[1] \in Int
  BY ScalarParts
<1>2. /\ CompareOrdered(x, v) \in Int
      /\ CompareOrdered(x, v) = 0 <=> x = v
      /\ CompareOrdered(x, v) < 0 <=>
            TypeRank(x) < TypeRank(v) \/ (x.t = v.t /\ x.t # "nil" /\ x.v[1] < v.v[1])
  BY ValueOrder
<1>3. TypeRank(x) = TypeRank(v) /\ TypeRank(x) \in Nat
  BY RankIs
<1>4. x = v <=> x.v[1] = v.v[1]
  BY SameScalar
<1>. QED BY <1>1, <1>2, <1>3, <1>4 DEF Reached

\* Where the _ids of the key at a place are taken from does not matter.
LEMMA IdsAtIs ==
    ASSUME NEW ds \in Collections, NEW ix, Shows(ix, ds), Sorted(ix), NEW i \in 1..Len(ix.ord)
    PROVE  /\ IdsAt(ix, i) \in Seq(Key) /\ Distinct(IdsAt(ix, i))
           /\ ToSet(IdsAt(ix, i)) = {j \in DOMAIN ds : ix.ord[i] \in RowsOf(ds[j], ix.fields)}
<1> DEFINE k == ix.ord[i]
           S == IdsOf(ix, k)
           s == SetAsc(S)
<1>1. ix.ord \in Seq(KeysOf(ix.fields)) /\ (ix.matrix # <<>> => ix.matrix = FlatOf(ix))
      /\ DOMAIN ix.ord = 1..Len(ix.ord)
  BY DEF Sorted
<1>2. IdsAt(ix, i) = s
  <2>1. CASE Len(ix.matrix) # Len(ix.ord)
    BY <2>1 DEF IdsAt
  <2>2. CASE Len(ix.matrix) = Len(ix.ord)
    <3>1. ix.matrix # <<>>
      <4>1. SUFFICES ASSUME ix.matrix = <<>> PROVE FALSE
        OBVIOUS
      <4>2. Len(ix.ord) = 0
        BY <2>2, <4>1
      <4>. QED BY <4>2
    <3>2. ix.matrix = FlatOf(ix)
      BY <1>1, <3>1
    <3>3. ix.matrix[i] = [key |-> k, ids |-> s]
      BY <1>1, <3>2 DEF FlatOf
    <3>4. IdsAt(ix, i) = ix.matrix[i].ids
      BY <2>2 DEF IdsAt
    <3>. HIDE DEF k, s
    <3>. QED BY <3>3, <3>4
  <2>. QED BY <2>1, <2>2
<1>3. S = {j \in DOMAIN ds : k \in RowsOf(ds[j], ix.fields)}
  BY ShownIds
<1>4. N \in Nat /\ Key = 1..N
  BY DocumentsAssumption DEF Key
<1>5. IsFiniteSet(Key) /\ Key \in SUBSET Nat
  BY <1>4, FS_Interval
<1>6. S \in SUBSET Key
  BY <1>3, CollectionParts
<1>. HIDE DEF S
<1>7. IsFiniteSet(S) /\ S \in SUBSET Nat
  BY <1>5, <1>6, FS_Subset
<1>8. s \in Seq(S) /\ ToSet(s) = S /\ Distinct(s)
  BY <1>7, SetAscLists DEF Lists
<1>. HIDE DEF s
<1>9. s \in Seq(Key)
  BY <1>6, <1>8
<1>. QED BY <1>2, <1>3, <1>8, <1>9 DEF k

\* collectRange (index.go:495-532), from one place up to another.
LEMMA CollectedIs ==
    ASSUME NEW ds \in Collections, NEW ix, Shows(ix, ds), Sorted(ix),
           NEW a \in 1..Len(ix.ord) + 1, NEW b \in 1..Len(ix.ord) + 1
    PROVE  /\ CollectRange(ix, a, b) \in Seq(Key)
           /\ \A j : j \in ToSet(CollectRange(ix, a, b)) <=>
                 j \in DOMAIN ds /\ \E i \in a..b - 1 : ix.ord[i] \in RowsOf(ds[j], ix.fields)
           /\ \A U : (\A j \in U \intersect DOMAIN ds : \A k, l \in RowsOf(ds[j], ix.fields) : k = l)
                         => OnceIn(CollectRange(ix, a, b), U)
<1> DEFINE s == ix.ord
           L == Len(ix.ord)
           m == IF b > a THEN b - a ELSE 0
           ss == [j \in 1..m |-> IdsAt(ix, a + j - 1)]
           has(j, i) == s[i] \in RowsOf(ds[j], ix.fields)
<1>1. s \in Seq(KeysOf(ix.fields)) /\ Distinct(s) /\ L \in Nat /\ DOMAIN s = 1..L
  BY DEF Sorted
<1>2. a \in 1..L + 1 /\ b \in 1..L + 1
  OBVIOUS
<1>. HIDE DEF L
<1>3. m \in Nat /\ 1..m = 1..(b - a)
  BY <1>1, <1>2
<1>4. CollectRange(ix, a, b) = Joined(ss)
  <2>1. CollectRange(ix, a, b) = Joined([j \in 1..(b - a) |-> IdsAt(ix, a + j - 1)])
    BY Zenon DEF CollectRange
  <2>. HIDE DEF m
  <2>. QED BY <1>3, <2>1
<1>5. \A j \in 1..m : a + j - 1 \in 1..L /\ a + j - 1 \in a..b - 1
  BY <1>1, <1>2
<1>6. \A i \in a..b - 1 : i - a + 1 \in 1..m /\ a + (i - a + 1) - 1 = i
  BY <1>1, <1>2
<1>. HIDE DEF m, s, has
<1>7. \A i \in 1..L : /\ IdsAt(ix, i) \in Seq(Key) /\ Distinct(IdsAt(ix, i))
                      /\ ToSet(IdsAt(ix, i)) = {j \in DOMAIN ds : has(j, i)}
  BY IdsAtIs DEF L, has, s
<1>8. /\ ss \in Seq(Seq(Key)) /\ Len(ss) = m
      /\ \A j \in 1..m : ss[j] = IdsAt(ix, a + j - 1)
  <2>1. ss \in [1..m -> Seq(Key)]
    BY <1>5, <1>7
  <2>2. \A j \in 1..m : ss[j] = IdsAt(ix, a + j - 1)
    OBVIOUS
  <2>. HIDE DEF ss
  <2>3. ss \in Seq(Seq(Key)) /\ Len(ss) = m
    BY <1>3, <2>1, SeqOfFunction
  <2>. QED BY <2>2, <2>3
<1>. HIDE DEF ss
<1>9. \A j \in 1..m : Distinct(ss[j]) /\ ToSet(ss[j]) = {x \in DOMAIN ds : has(x, a + j - 1)}
  BY <1>5, <1>7, <1>8
<1>10. /\ Joined(ss) \in Seq(Key)
       /\ ToSet(Joined(ss)) = UNION {ToSet(ss[n]) : n \in 1..m}
  BY <1>8, JoinedOnce
<1>11. ASSUME NEW x
       PROVE  x \in ToSet(Joined(ss)) <=> x \in DOMAIN ds /\ \E i \in a..b - 1 : has(x, i)
  <2>1. x \in ToSet(Joined(ss)) <=> \E n \in 1..m : x \in DOMAIN ds /\ has(x, a + n - 1)
    BY <1>9, <1>10
  <2>2. (\E n \in 1..m : has(x, a + n - 1)) <=> \E i \in a..b - 1 : has(x, i)
    <3>1. ASSUME NEW n \in 1..m, has(x, a + n - 1) PROVE \E i \in a..b - 1 : has(x, i)
      <4>1. a + n - 1 \in a..b - 1
        BY <1>5
      <4>. QED BY <3>1, <4>1
    <3>2. ASSUME NEW i \in a..b - 1, has(x, i) PROVE \E n \in 1..m : has(x, a + n - 1)
      <4> DEFINE n == i - a + 1
      <4>1. n \in 1..m /\ a + n - 1 = i
        BY <1>6
      <4>2. has(x, a + n - 1)
        BY <3>2, <4>1
      <4>. HIDE DEF n
      <4>. QED BY <4>1, <4>2
    <3>. QED BY <3>1, <3>2
  <2>. QED BY <2>1, <2>2
<1>12. ASSUME NEW U, \A j \in U \intersect DOMAIN ds : \A k, l \in RowsOf(ds[j], ix.fields) : k = l
       PROVE  OnceIn(Joined(ss), U)
  <2>1. \A n \in 1..m : OnceIn(ss[n], U)
    BY <1>9 DEF OnceIn, Distinct
  <2>2. ASSUME NEW n \in 1..m, NEW o \in 1..m, n # o,
               NEW x \in ToSet(ss[n]) \intersect ToSet(ss[o]) \intersect U
        PROVE  FALSE
    <3>1. x \in DOMAIN ds /\ x \in U /\ has(x, a + n - 1) /\ has(x, a + o - 1)
      BY <1>9, <2>2
    <3>2. s[a + n - 1] = s[a + o - 1]
      BY <1>12, <3>1 DEF has
    <3>3. a + n - 1 \in DOMAIN s /\ a + o - 1 \in DOMAIN s
      BY <1>1, <1>5
    <3>4. a + n - 1 = a + o - 1
      BY <1>1, <3>2, <3>3 DEF Distinct
    <3>. QED BY <1>2, <1>3, <2>2, <3>4
  <2>3. \A n, o \in 1..m : n # o => ToSet(ss[n]) \intersect ToSet(ss[o]) \intersect U = {}
    BY <2>2
  <2>. QED BY <1>8, <2>1, <2>3, JoinedOnce
<1>. QED BY <1>4, <1>10, <1>11, <1>12 DEF has, s

\* seekRange (index.go:421-489) finds at least the documents in the range, and
\* those of a single key once.
LEMMA RangeFound ==
    ASSUME NEW ds \in Collections, NEW ix, Shows(ix, ds),
           NEW lo \in Bounds, NEW hi \in Bounds, lo # NoBound \/ hi # NoBound
    PROVE  /\ SeekRange(ix, lo, hi) \in Seq(Key)
           /\ ToSet(SeekRange(ix, lo, hi)) \subseteq DOMAIN ds
           /\ \A j \in DOMAIN ds : \A k \in RowsOf(ds[j], ix.fields) :
                 BoundedBelow(k[1], lo) /\ BoundedAbove(k[1], hi) => j \in ToSet(SeekRange(ix, lo, hi))
           /\ \A U : (\A j \in U \intersect DOMAIN ds : \A k, l \in RowsOf(ds[j], ix.fields) : k = l)
                         => OnceIn(SeekRange(ix, lo, hi), U)
<1> DEFINE s == EnsureOrd(ix)
           v == IF lo = NoBound THEN hi[1] ELSE lo[1]
           fs == ix.fields
           none == ~Ordered(v) \/ (hi # NoBound /\ TypeRank(hi[1]) # TypeRank(v))
           a == LowerEnd(s, lo, TypeRank(v))
           b == UpperEnd(s, hi, TypeRank(v))
           r == SeekRange(ix, lo, hi)
<1>1. fs \in Seq(STRING) \ {<<>>} /\ Len(fs) \in Nat \ {0}
  BY FineParts DEF Shows
<1>2. Shows(s, ds) /\ Sorted(s) /\ s.fields = fs
  BY SortedIs
<1>3. v \in Scalar /\ TypeRank(v) \in Nat
  <2>1. v \in Scalar
    BY BoundIs
  <2>. HIDE DEF v
  <2>. QED BY <2>1, RankIs
<1>4. r = IF none THEN <<>> ELSE CollectRange(s, a, b)
  BY Zenon DEF SeekRange
<1>5. \A j \in DOMAIN ds : \A k \in RowsOf(ds[j], fs) : k \in KeysOf(fs) /\ k[1] \in Scalar
  <2>1. \A j \in DOMAIN ds : RowsOf(ds[j], fs) \subseteq KeysOf(fs)
    BY <1>1, DocumentKeys, CollectionParts
  <2>2. \A k \in KeysOf(fs) : k[1] \in Scalar
    BY <1>1 DEF KeysOf
  <2>. QED BY <2>1, <2>2
<1>6. CASE none
  <2>1. r = <<>>
    BY <1>4, <1>6
  <2>2. ASSUME NEW x \in Scalar, BoundedBelow(x, lo), BoundedAbove(x, hi) PROVE FALSE
    <3>1. x.t = v.t /\ x.t \in {"num", "str"} /\ (hi # NoBound => hi[1].t = v.t)
      BY <2>2 DEF BoundedBelow, BoundedAbove
    <3>. HIDE DEF v
    <3>2. TypeRank(v) \in {1, 2}
      BY <1>3, <3>1, RankIs
    <3>3. hi # NoBound => TypeRank(hi[1]) = TypeRank(v)
      BY <1>3, <3>1, RankIs, BoundIs
    <3>. QED BY <1>6, <3>2, <3>3 DEF Ordered
  <2>3. r \in Seq(Key) /\ ToSet(r) = {} /\ \A U : OnceIn(r, U)
    BY <2>1 DEF ToSet, OnceIn
  <2>. HIDE DEF r
  <2>. QED BY <1>5, <2>2, <2>3 DEF r
<1>7. CASE ~none
  <2>1. a \in 1..Len(s.ord) + 1 /\ b \in 1..Len(s.ord) + 1
    <3>. HIDE DEF s, v
    <3>1. lo # NoBound => a \in 1..Len(s.ord) + 1
      BY <1>1, <1>2, BoundIs, SeekSplits DEF LowerEnd
    <3>2. lo = NoBound => a \in 1..Len(s.ord) + 1
      BY <1>1, <1>2, <1>3, RankSplits DEF LowerEnd
    <3>3. hi # NoBound => b \in 1..Len(s.ord) + 1
      BY <1>1, <1>2, BoundIs, SeekSplits DEF UpperEnd
    <3>4. hi = NoBound => b \in 1..Len(s.ord) + 1
      <4>1. TypeRank(v) + 1 \in Nat
        BY <1>3
      <4>. QED BY <1>1, <1>2, <4>1, RankSplits DEF UpperEnd
    <3>. QED BY <3>1, <3>2, <3>3, <3>4
  <2>2. r = CollectRange(s, a, b)
    BY <1>4, <1>7
  <2>3. ASSUME NEW j \in DOMAIN ds, NEW k \in RowsOf(ds[j], fs),
               BoundedBelow(k[1], lo), BoundedAbove(k[1], hi)
        PROVE  \E i \in a..b - 1 : s.ord[i] = k
    <3>1. k \in ToSet(s.ord)
      BY <1>2, <2>3, KeyHere DEF Sorted
    <3>2. PICK i \in DOMAIN s.ord : s.ord[i] = k
      BY <3>1 DEF ToSet
    <3>3. Len(s.ord) \in Nat /\ i \in 1..Len(s.ord)
      BY <1>2, <3>2 DEF Sorted
    <3> DEFINE x == k[1]
    <3>4. x \in Scalar /\ s.ord[i][1] = x
      BY <1>5, <3>2
    <3>5. x.t = v.t /\ x.t \in {"num", "str"} /\ BoundedBelow(x, lo) /\ BoundedAbove(x, hi)
      BY <2>3 DEF BoundedBelow, BoundedAbove
    <3>6. TypeRank(x) = TypeRank(v)
      <4>. HIDE DEF v, x
      <4>. QED BY <1>3, <3>4, <3>5, RankIs
    <3>7. i >= a
      <4>1. CASE lo = NoBound
        <5>1. a = RankFrom(s, TypeRank(v))
          BY <4>1 DEF LowerEnd
        <5>2. i >= RankFrom(s, TypeRank(v)) <=> TypeRank(s.ord[i][1]) >= TypeRank(v)
          <6>. HIDE DEF s, v
          <6>. QED BY <1>1, <1>2, <1>3, <3>3, RankSplits
        <5>. HIDE DEF v, x, s, a
        <5>. QED BY <1>3, <3>4, <3>6, <5>1, <5>2
      <4>2. CASE lo # NoBound
        <5>1. a = Seek(s, lo[1], ~lo[2]) /\ lo[1] \in Scalar /\ lo[2] \in BOOLEAN
          BY <4>2, BoundIs DEF LowerEnd
        <5>2. i >= Seek(s, lo[1], ~lo[2]) <=> Reached(s.ord[i][1], lo[1], ~lo[2])
          <6>. HIDE DEF s, v, a
          <6>1. (~lo[2]) \in BOOLEAN
            BY <5>1
          <6>. QED BY <1>1, <1>2, <3>3, <5>1, <6>1, SeekSplits
        <5>. HIDE DEF x
        <5>3. /\ x.t = lo[1].t /\ x.t \in {"num", "str"}
              /\ IF lo[2] THEN lo[1].v[1] <= x.v[1] ELSE lo[1].v[1] < x.v[1]
          BY <3>5, <4>2 DEF BoundedBelow
        <5>4. Reached(x, lo[1], ~lo[2])
          <6>1. CASE lo[2]
            <7>1. Reached(x, lo[1], FALSE)
              BY <3>4, <5>1, <5>3, <6>1, ReachedIs
            <7>. QED BY <6>1, <7>1 DEF Reached
          <6>2. CASE ~lo[2]
            <7>1. Reached(x, lo[1], TRUE)
              BY <3>4, <5>1, <5>3, <6>2, ReachedIs
            <7>. QED BY <6>2, <7>1 DEF Reached
          <6>. QED BY <6>1, <6>2
        <5>. QED BY <3>4, <5>1, <5>2, <5>4
      <4>. QED BY <4>1, <4>2
    <3>8. ~(i >= b)
      <4>1. CASE hi = NoBound
        <5>1. b = RankFrom(s, TypeRank(v) + 1)
          BY <4>1 DEF UpperEnd
        <5>2. i >= RankFrom(s, TypeRank(v) + 1) <=> TypeRank(s.ord[i][1]) >= TypeRank(v) + 1
          <6>. HIDE DEF s, v
          <6>1. TypeRank(v) + 1 \in Nat
            BY <1>3
          <6>. QED BY <1>1, <1>2, <3>3, <6>1, RankSplits
        <5>3. ~(TypeRank(v) >= TypeRank(v) + 1)
          BY <1>3
        <5>. HIDE DEF v, x, s, b
        <5>. QED BY <3>4, <3>6, <5>1, <5>2, <5>3
      <4>2. CASE hi # NoBound
        <5>1. b = Seek(s, hi[1], hi[2]) /\ hi[1] \in Scalar /\ hi[2] \in BOOLEAN
          BY <4>2, BoundIs DEF UpperEnd
        <5>2. i >= Seek(s, hi[1], hi[2]) <=> Reached(s.ord[i][1], hi[1], hi[2])
          <6>. HIDE DEF s, v, b
          <6>. QED BY <1>1, <1>2, <3>3, <5>1, SeekSplits
        <5>. HIDE DEF x
        <5>3. /\ x.t = hi[1].t /\ x.t \in {"num", "str"}
              /\ IF hi[2] THEN x.v[1] <= hi[1].v[1] ELSE x.v[1] < hi[1].v[1]
          BY <3>5, <4>2 DEF BoundedAbove
        <5> DEFINE h == hi[1]
        <5>5. h \in Scalar /\ x.t = h.t
          BY <5>1, <5>3
        <5>. HIDE DEF h
        <5>6. /\ x.v[1] \in Int /\ h.v[1] \in Int
              /\ Reached(x, h, FALSE) <=> h.v[1] <= x.v[1]
              /\ Reached(x, h, TRUE) <=> h.v[1] < x.v[1]
          BY <3>4, <5>3, <5>5, ReachedIs
        <5>4. ~Reached(x, hi[1], hi[2])
          <6>1. CASE hi[2]
            <7> DEFINE p == x.v[1]
                       q == h.v[1]
            <7>2. p <= q
              BY <5>3, <6>1 DEF h
            <7>3. p \in Int /\ q \in Int /\ (Reached(x, h, FALSE) <=> q <= p) /\ (Reached(x, h, TRUE) <=> q < p)
              BY <5>6
            <7>. HIDE DEF p, q
            <7>5. ~(q < p)
              BY <7>2, <7>3
            <7>4. ~Reached(x, h, TRUE)
              BY <7>3, <7>5, Zenon
            <7>1. ~Reached(x, hi[1], TRUE)
              BY <7>4 DEF h
            <7>. QED BY <6>1, <7>1 DEF Reached
          <6>2. CASE ~hi[2]
            <7> DEFINE p == x.v[1]
                       q == h.v[1]
            <7>2. p < q
              BY <5>3, <6>2 DEF h
            <7>3. p \in Int /\ q \in Int /\ (Reached(x, h, FALSE) <=> q <= p) /\ (Reached(x, h, TRUE) <=> q < p)
              BY <5>6
            <7>. HIDE DEF p, q
            <7>5. ~(q <= p)
              BY <7>2, <7>3
            <7>4. ~Reached(x, h, FALSE)
              BY <7>3, <7>5, Zenon
            <7>1. ~Reached(x, hi[1], FALSE)
              BY <7>4 DEF h
            <7>. QED BY <6>2, <7>1 DEF Reached
          <6>. QED BY <6>1, <6>2
        <5>. QED BY <3>4, <5>1, <5>2, <5>4
      <4>. QED BY <4>1, <4>2
    <3>9. i \in a..b - 1
      <4>. HIDE DEF a, b, s
      <4>. QED BY <2>1, <3>3, <3>7, <3>8
    <3>. HIDE DEF a, b, s
    <3>. QED BY <3>2, <3>9
  <2>. HIDE DEF a, b, s, r
  <2>4. /\ CollectRange(s, a, b) \in Seq(Key)
        /\ \A j : j \in ToSet(CollectRange(s, a, b)) <=>
              j \in DOMAIN ds /\ \E i \in a..b - 1 : s.ord[i] \in RowsOf(ds[j], fs)
        /\ \A U : (\A j \in U \intersect DOMAIN ds : \A k, l \in RowsOf(ds[j], fs) : k = l)
                      => OnceIn(CollectRange(s, a, b), U)
    BY <1>2, <2>1, CollectedIs
  <2>5. ToSet(r) \subseteq DOMAIN ds
    BY <2>2, <2>4
  <2>6. \A j \in DOMAIN ds : \A k \in RowsOf(ds[j], fs) :
           BoundedBelow(k[1], lo) /\ BoundedAbove(k[1], hi) => j \in ToSet(r)
    BY <2>2, <2>3, <2>4
  <2>. QED BY <2>2, <2>4, <2>5, <2>6 DEF r
<1>. QED BY <1>6, <1>7

-----------------------------------------------------------------------------
(* What conditions ask of a field *)

LEMMA EqOp ==
    ASSUME NEW v, NEW a
    PROVE  /\ MatchOneOp("$eq", v, TRUE, a) <=> v = a
           /\ MatchOneOp("$eq", v, FALSE, a) <=> a = Nil
BY DEF MatchOneOp

LEMMA InOp ==
    ASSUME NEW v, NEW a
    PROVE  /\ MatchOneOp("$in", v, TRUE, a) <=> v \in ToSet(a)
           /\ ~MatchOneOp("$in", v, FALSE, a)
BY DEF MatchOneOp, ToSet

LEMMA RangeOp ==
    ASSUME NEW v, NEW a, NEW op \in RangeOps
    PROVE  /\ MatchOneOp(op, v, TRUE, a) => CompareOp(op, v, a)
           /\ ~MatchOneOp(op, v, FALSE, a)
<1>1. MatchOneOp(op, v, TRUE, a) => CompareOp(op, v, a)
  BY DEF MatchOneOp, RangeOps
<1>2. ~MatchOneOp(op, v, FALSE, a)
  BY DEF MatchOneOp, RangeOps
<1>. QED BY <1>1, <1>2

\* What is found of a field whose values are not many.
LEMMA OneFound ==
    ASSUME NEW d \in Contents, NEW f, f \in DOMAIN d => d[f].t # "many"
    PROVE  \/ LookupMulti(d, f) = <<>> /\ Lookup(d, f) = Nil
           \/ /\ f \in DOMAIN d /\ LookupMulti(d, f) = <<d[f]>> /\ Lookup(d, f) = d[f]
              /\ d[f] \in Value
<1>1. CASE f \notin DOMAIN d \/ d[f] = Missing
  <2>1. LookupMulti(d, f) = <<>>
    BY <1>1 DEF LookupMulti
  <2>. QED BY <2>1 DEF Lookup
<1>2. CASE f \in DOMAIN d /\ d[f] # Missing
  <2>1. LookupMulti(d, f) = <<d[f]>>
    BY <1>2 DEF LookupMulti
  <2>2. <<d[f]>> # <<>> /\ Head(<<d[f]>>) = d[f]
    OBVIOUS
  <2>3. Lookup(d, f) = d[f]
    BY <2>1, <2>2 DEF Lookup
  <2>4. d[f] \in Value
    BY <1>2, ContentsAssumption
  <2>. QED BY <1>2, <2>1, <2>3, <2>4
<1>. QED BY <1>1, <1>2

\* A list of one value.
LEMMA SingleList ==
    ASSUME NEW x, NEW S
    PROVE  /\ DOMAIN <<x>> = {1} /\ <<x>>[1] = x /\ ToSet(<<x>>) = {x} /\ Len(<<x>>) = 1
           /\ x \in S => <<x>> \in Seq(S)
           /\ <<x>> # <<>>
BY DEF ToSet

LEMMA EqValues ==
    ASSUME NEW cond, IsCondition(cond), IsEq(cond)
    PROVE  /\ EqVals(cond) \in Seq(Scalar)
           /\ cond.kind = "is" => EqVals(cond) = <<cond.arg>>
           /\ cond.kind = "ops" => \/ DOMAIN cond.arg = {"$eq"} /\ EqVals(cond) = <<cond.arg["$eq"]>>
                                   \/ DOMAIN cond.arg = {"$in"} /\ EqVals(cond) = cond.arg["$in"]
           /\ cond.kind \in {"is", "ops"}
<1>1. CASE cond.kind = "is"
  <2>1. EqVals(cond) = <<cond.arg>> /\ cond.arg \in Scalar
    BY <1>1 DEF EqVals, IsCondition
  <2>. QED BY <1>1, <2>1, SingleList
<1>2. CASE cond.kind = "ops"
  <2> DEFINE arg == cond.arg
  <2>1. \A op \in DOMAIN arg : /\ op = "$eq" => arg[op] \in Scalar
                               /\ op = "$in" => arg[op] \in Seq(Scalar)
    BY <1>2 DEF IsCondition
  <2>2. DOMAIN arg = {"$eq"} \/ DOMAIN arg = {"$in"}
    BY <1>2 DEF IsEq, IsIn
  <2>3. CASE DOMAIN arg = {"$eq"}
    <3>1. ~IsIn(cond)
      BY <2>3 DEF IsIn
    <3>2. EqVals(cond) = <<arg["$eq"]>>
      BY <1>2, <3>1 DEF EqVals
    <3>3. arg["$eq"] \in Scalar
      BY <2>1, <2>3
    <3>4. <<arg["$eq"]>> \in Seq(Scalar)
      BY <3>3, SingleList
    <3>. QED BY <1>2, <2>3, <3>2, <3>4
  <2>4. CASE DOMAIN arg = {"$in"}
    <3>1. IsIn(cond)
      BY <1>2, <2>4 DEF IsIn
    <3>2. EqVals(cond) = arg["$in"]
      BY <1>2, <3>1 DEF EqVals
    <3>. QED BY <1>2, <2>1, <2>4, <3>2
  <2>. QED BY <2>2, <2>3, <2>4
<1>. QED BY <1>1, <1>2 DEF IsCondition

\* An equality asks the value of a field to be one of a few.
LEMMA EqMeans ==
    ASSUME NEW d \in Contents, NEW f, NEW cond, IsCondition(cond), IsEq(cond),
           f \in DOMAIN d => d[f].t \notin {"arr", "many"},
           Nil \in ToSet(EqVals(cond)) => ~IsIn(cond)
    PROVE  MatchField(d, f, cond) <=> Lookup(d, f) \in ToSet(EqVals(cond))
<1> DEFINE vals == LookupMulti(d, f)
           x == Lookup(d, f)
           arg == cond.arg
<1>1. \/ vals = <<>> /\ x = Nil
      \/ vals = <<x>>
  BY OneFound
<1>2. vals = <<x>> => vals # <<>> /\ DOMAIN vals = {1} /\ vals[1] = x
  <2>. HIDE DEF vals, x
  <2>. QED BY SingleList
<1>3. CASE cond.kind = "is"
  <2>1. EqVals(cond) = <<arg>>
    BY <1>3, EqValues
  <2>2. ToSet(EqVals(cond)) = {arg}
    BY <2>1, SingleList
  <2>3. vals = <<>> => (MatchField(d, f, cond) <=> arg = Nil)
    BY <1>3 DEF MatchField
  <2>4. vals # <<>> => (MatchField(d, f, cond) <=> \E i \in DOMAIN vals : vals[i] = arg)
    BY <1>3 DEF MatchField
  <2>. HIDE DEF vals, x, arg
  <2>5. MatchField(d, f, cond) <=> x \in ToSet(EqVals(cond))
    BY <1>1, <1>2, <2>2, <2>3, <2>4
  <2>. QED BY <2>5 DEF x
<1>4. CASE cond.kind = "ops"
  <2>1. MatchField(d, f, cond) <=> MatchOpsMulti(vals, arg)
    BY <1>4 DEF MatchField
  <2>2. /\ vals = <<>> => (MatchOpsMulti(vals, arg) <=> MatchOps(Nil, FALSE, arg))
        /\ vals # <<>> => (MatchOpsMulti(vals, arg) <=> \E i \in DOMAIN vals : MatchOps(vals[i], TRUE, arg))
    <3>. HIDE DEF vals, arg
    <3>. QED BY Zenon DEF MatchOpsMulti
  <2>3. \/ DOMAIN arg = {"$eq"} /\ EqVals(cond) = <<arg["$eq"]>>
        \/ DOMAIN arg = {"$in"} /\ EqVals(cond) = arg["$in"]
    BY <1>4, EqValues
  <2>4. CASE DOMAIN arg = {"$eq"} /\ EqVals(cond) = <<arg["$eq"]>>
    <3>1. ASSUME NEW v, NEW e
          PROVE  MatchOps(v, e, arg) <=> MatchOneOp("$eq", v, e, arg["$eq"])
      BY <2>4 DEF MatchOps
    <3>2. ToSet(EqVals(cond)) = {arg["$eq"]}
      BY <2>4, SingleList
    <3>. HIDE DEF vals, x, arg
    <3>3. MatchOps(Nil, FALSE, arg) <=> arg["$eq"] = Nil
      BY <3>1, EqOp, Zenon
    <3>4. MatchOps(x, TRUE, arg) <=> x = arg["$eq"]
      BY <3>1, EqOp, Zenon
    <3>5. MatchField(d, f, cond) <=> x \in ToSet(EqVals(cond))
      <4>1. CASE vals = <<>> /\ x = Nil
        BY <2>1, <2>2, <3>2, <3>3, <4>1
      <4>2. CASE vals = <<x>>
        BY <1>2, <2>1, <2>2, <3>2, <3>4, <4>2
      <4>. QED BY <1>1, <4>1, <4>2
    <3>. QED BY <3>5 DEF x
  <2>5. CASE DOMAIN arg = {"$in"} /\ EqVals(cond) = arg["$in"]
    <3>1. ASSUME NEW v, NEW e
          PROVE  MatchOps(v, e, arg) <=> MatchOneOp("$in", v, e, arg["$in"])
      BY <2>5 DEF MatchOps
    <3>2. Nil \notin ToSet(arg["$in"])
      BY <1>4, <2>5 DEF IsIn
    <3>. HIDE DEF vals, x, arg
    <3>3. ~MatchOps(Nil, FALSE, arg)
      BY <3>1, InOp, Zenon
    <3>4. MatchOps(x, TRUE, arg) <=> x \in ToSet(arg["$in"])
      BY <3>1, InOp, Zenon
    <3>5. MatchField(d, f, cond) <=> x \in ToSet(EqVals(cond))
      <4>1. CASE vals = <<>> /\ x = Nil
        BY <2>1, <2>2, <2>5, <3>2, <3>3, <4>1
      <4>2. CASE vals = <<x>>
        BY <1>2, <2>1, <2>2, <2>5, <3>4, <4>2
      <4>. QED BY <1>1, <4>1, <4>2
    <3>. QED BY <3>5 DEF x
  <2>. QED BY <2>3, <2>4, <2>5
<1>. QED BY <1>3, <1>4 DEF IsCondition

PairOf(v, b) == <<v, b>>

LEMMA PairBound ==
    ASSUME NEW v, NEW b \in BOOLEAN
    PROVE  /\ v \in Scalar => PairOf(v, b) \in Bounds
           /\ PairOf(v, b) # NoBound
           /\ PairOf(v, b)[1] = v /\ PairOf(v, b)[2] = b
BY DEF PairOf, Bounds, NoBound

LEMMA RangeBounds ==
    ASSUME NEW cond, IsCondition(cond), IsRange(cond)
    PROVE  /\ Lo(cond) \in Bounds /\ Hi(cond) \in Bounds
           /\ Lo(cond) # NoBound \/ Hi(cond) # NoBound
           /\ Lo(cond) = NoBound \/ \E op \in DOMAIN cond.arg :
                 /\ op \in {"$gt", "$gte"} /\ cond.arg[op] \in Scalar
                 /\ Lo(cond)[1] = cond.arg[op] /\ Lo(cond)[2] = (op = "$gte")
           /\ Hi(cond) = NoBound \/ \E op \in DOMAIN cond.arg :
                 /\ op \in {"$lt", "$lte"} /\ cond.arg[op] \in Scalar
                 /\ Hi(cond)[1] = cond.arg[op] /\ Hi(cond)[2] = (op = "$lte")
<1> DEFINE arg == cond.arg
<1>1. /\ cond.kind = "ops" /\ DOMAIN arg \subseteq RangeOps /\ DOMAIN arg # {}
      /\ \A op \in DOMAIN arg : arg[op] \in Scalar
  BY DEF IsCondition, IsRange
<1>2. ASSUME NEW open, NEW closed, open # closed
      PROVE  /\ Bound(cond, open, closed) \in Bounds
             /\ Bound(cond, open, closed) = NoBound <=> open \notin DOMAIN arg /\ closed \notin DOMAIN arg
             /\ \/ Bound(cond, open, closed) = NoBound
                \/ \E op \in DOMAIN arg :
                      /\ op \in {open, closed} /\ arg[op] \in Scalar
                      /\ Bound(cond, open, closed)[1] = arg[op]
                      /\ Bound(cond, open, closed)[2] = (op = closed)
  <2>1. CASE open \in DOMAIN arg
    <3>1. Bound(cond, open, closed) = <<arg[open], FALSE>>
      BY <2>1 DEF Bound
    <3>. HIDE DEF arg
    <3>2. open \in DOMAIN arg /\ arg[open] \in Scalar
      BY <1>1, <2>1
    <3>3. PairOf(arg[open], FALSE) \in Bounds /\ PairOf(arg[open], FALSE) # NoBound
      BY <3>2, PairBound
    <3>4. PairOf(arg[open], FALSE)[1] = arg[open] /\ PairOf(arg[open], FALSE)[2] = (open = closed)
      BY <1>2, PairBound
    <3>5. Bound(cond, open, closed) = PairOf(arg[open], FALSE)
      BY <3>1 DEF PairOf
    <3>. QED BY <3>2, <3>3, <3>4, <3>5
  <2>2. CASE open \notin DOMAIN arg /\ closed \in DOMAIN arg
    <3>1. Bound(cond, open, closed) = <<arg[closed], TRUE>>
      BY <2>2 DEF Bound
    <3>. HIDE DEF arg
    <3>2. closed \in DOMAIN arg /\ arg[closed] \in Scalar
      BY <1>1, <2>2
    <3>3. PairOf(arg[closed], TRUE) \in Bounds /\ PairOf(arg[closed], TRUE) # NoBound
      BY <3>2, PairBound
    <3>4. PairOf(arg[closed], TRUE)[1] = arg[closed] /\ PairOf(arg[closed], TRUE)[2] = (closed = closed)
      BY <1>2, PairBound
    <3>5. Bound(cond, open, closed) = PairOf(arg[closed], TRUE)
      BY <3>1 DEF PairOf
    <3>. QED BY <3>2, <3>3, <3>4, <3>5
  <2>3. CASE open \notin DOMAIN arg /\ closed \notin DOMAIN arg
    <3>1. Bound(cond, open, closed) = NoBound
      BY <2>3 DEF Bound
    <3>. QED BY <2>3, <3>1 DEF Bounds
  <2>. QED BY <2>1, <2>2, <2>3
<1>3. Lo(cond) = Bound(cond, "$gt", "$gte") /\ Hi(cond) = Bound(cond, "$lt", "$lte")
  BY DEF Lo, Hi
<1>4. /\ Lo(cond) \in Bounds
      /\ Lo(cond) = NoBound <=> "$gt" \notin DOMAIN arg /\ "$gte" \notin DOMAIN arg
      /\ Lo(cond) = NoBound \/ \E op \in DOMAIN arg :
            op \in {"$gt", "$gte"} /\ arg[op] \in Scalar /\ Lo(cond)[1] = arg[op] /\ Lo(cond)[2] = (op = "$gte")
  BY <1>2, <1>3
<1>5. /\ Hi(cond) \in Bounds
      /\ Hi(cond) = NoBound <=> "$lt" \notin DOMAIN arg /\ "$lte" \notin DOMAIN arg
      /\ Hi(cond) = NoBound \/ \E op \in DOMAIN arg :
            op \in {"$lt", "$lte"} /\ arg[op] \in Scalar /\ Hi(cond)[1] = arg[op] /\ Hi(cond)[2] = (op = "$lte")
  BY <1>2, <1>3
<1>6. Lo(cond) # NoBound \/ Hi(cond) # NoBound
  BY <1>1, <1>4, <1>5 DEF RangeOps
<1>. QED BY <1>4, <1>5, <1>6

\* What matches a range has one value, in it.
LEMMA RangeMeans ==
    ASSUME NEW d \in Contents, NEW f, NEW cond, IsCondition(cond), IsRange(cond),
           f \in DOMAIN d => d[f].t # "many", MatchField(d, f, cond)
    PROVE  /\ f \in DOMAIN d => d[f].t # "arr"
           /\ BoundedBelow(Lookup(d, f), Lo(cond)) /\ BoundedAbove(Lookup(d, f), Hi(cond))
<1> DEFINE vals == LookupMulti(d, f)
           x == Lookup(d, f)
           arg == cond.arg
<1>1. /\ cond.kind = "ops" /\ DOMAIN arg \subseteq RangeOps /\ DOMAIN arg # {}
      /\ \A op \in DOMAIN arg : arg[op] \in Scalar
  BY DEF IsCondition, IsRange
<1>2. MatchOpsMulti(vals, arg)
  BY <1>1 DEF MatchField
<1>3. ASSUME NEW v
      PROVE  /\ ~MatchOps(v, FALSE, arg)
             /\ MatchOps(v, TRUE, arg) => \A op \in DOMAIN arg : CompareOp(op, v, arg[op])
  <2>1. ASSUME NEW e, MatchOps(v, e, arg), NEW op \in DOMAIN arg
        PROVE  op \in RangeOps /\ MatchOneOp(op, v, e, arg[op])
    <3>1. op \in RangeOps /\ op # "$not"
      BY <1>1 DEF RangeOps
    <3>. HIDE DEF arg
    <3>. QED BY <2>1, <3>1 DEF MatchOps
  <2>. HIDE DEF arg
  <2>2. \A op \in RangeOps : ~MatchOneOp(op, v, FALSE, arg[op])
    BY RangeOp, Zenon
  <2>3. \A op \in RangeOps : MatchOneOp(op, v, TRUE, arg[op]) => CompareOp(op, v, arg[op])
    BY RangeOp, Zenon
  <2>4. ~MatchOps(v, FALSE, arg)
    BY <1>1, <2>1, <2>2, Zenon DEF arg
  <2>5. MatchOps(v, TRUE, arg) => \A op \in DOMAIN arg : CompareOp(op, v, arg[op])
    BY <2>1, <2>3, Zenon
  <2>. QED BY <2>4, <2>5
<1>4. f \in DOMAIN d /\ vals = <<x>> /\ x = d[f] /\ x \in Value
  <2>1. vals # <<>>
    BY <1>2, <1>3 DEF MatchOpsMulti
  <2>. QED BY <2>1, OneFound
<1>5. MatchOps(x, TRUE, arg)
  <2>1. vals # <<>> /\ DOMAIN vals = {1} /\ vals[1] = x
    <3>. HIDE DEF vals, x
    <3>. QED BY <1>4, SingleList
  <2>. HIDE DEF vals, x, arg
  <2>. QED BY <1>2, <2>1 DEF MatchOpsMulti
<1>. HIDE DEF vals, x, arg
<1>6. \A op \in DOMAIN arg : op \in RangeOps /\ arg[op] \in Scalar /\ CompareOp(op, x, arg[op])
  BY <1>1, <1>3, <1>5
<1>7. ASSUME NEW op \in DOMAIN arg
      PROVE  /\ x.t = arg[op].t /\ x.t \in {"num", "str"}
             /\ op = "$gt" => arg[op].v[1] < x.v[1]
             /\ op = "$gte" => arg[op].v[1] <= x.v[1]
             /\ op = "$lt" => x.v[1] < arg[op].v[1]
             /\ op = "$lte" => x.v[1] <= arg[op].v[1]
  <2> DEFINE y == arg[op]
  <2>1. y \in Scalar /\ CompareOp(op, x, y) /\ op \in RangeOps
    BY <1>6
  <2>. HIDE DEF y
  <2>2. Comparable(x, y)
    BY <2>1 DEF CompareOp
  <2>3. x.t = y.t /\ x.t \in {"num", "str"}
    BY <2>2 DEF Comparable
  <2>4. x \in Scalar
    BY <1>4, <2>3 DEF Value, Missing
  <2>5. x.v[1] \in Int /\ y.v[1] \in Int
    BY <2>1, <2>3, <2>4, ScalarParts
  <2>6. CompareValues(x, y) = IF x.v[1] < y.v[1] THEN -1 ELSE IF x.v[1] > y.v[1] THEN 1 ELSE 0
    BY <2>3 DEF CompareValues
  <2>7. /\ op = "$gt" => CompareValues(x, y) > 0
        /\ op = "$gte" => CompareValues(x, y) >= 0
        /\ op = "$lt" => CompareValues(x, y) < 0
        /\ op = "$lte" => CompareValues(x, y) <= 0
    BY <2>1 DEF CompareOp
  <2>8. /\ op = "$gt" => y.v[1] < x.v[1]
        /\ op = "$gte" => y.v[1] <= x.v[1]
        /\ op = "$lt" => x.v[1] < y.v[1]
        /\ op = "$lte" => x.v[1] <= y.v[1]
    BY <2>5, <2>6, <2>7
  <2>. QED BY <2>3, <2>8 DEF y
<1>8. BoundedBelow(x, Lo(cond))
  <2>1. Lo(cond) = NoBound \/ \E op \in DOMAIN arg :
           op \in {"$gt", "$gte"} /\ Lo(cond)[1] = arg[op] /\ Lo(cond)[2] = (op = "$gte")
    BY RangeBounds DEF arg
  <2>. QED BY <1>7, <2>1 DEF BoundedBelow
<1>9. BoundedAbove(x, Hi(cond))
  <2>1. Hi(cond) = NoBound \/ \E op \in DOMAIN arg :
           op \in {"$lt", "$lte"} /\ Hi(cond)[1] = arg[op] /\ Hi(cond)[2] = (op = "$lte")
    BY RangeBounds DEF arg
  <2>. QED BY <1>7, <2>1 DEF BoundedAbove
<1>10. f \in DOMAIN d => d[f].t # "arr"
  BY <1>1, <1>4, <1>7
<1>. QED BY <1>8, <1>9, <1>10 DEF x

-----------------------------------------------------------------------------
(* The candidates of a plan *)

\* A collection whose indexes are exact.
Answers(c) ==
    /\ c.docs \in Collections /\ c.ixs \in Seq(FineIxs)
    /\ \A n \in DOMAIN c.ixs : Shows(c.ixs[n], c.docs)

\* The conditions of a filter are conditions.
Asked(cs) == \A f \in DOMAIN cs : IsCondition(cs[f])

\* The documents that pass the condition on a field, and those that match.
Passing(c, cs, f) == {i \in Ids(c) : MatchField(c.docs[i], f, cs[f])}

Matching(c, filter) == {i \in Ids(c) : Match(c.docs[i], filter)}

LEMMA AnswersParts ==
    ASSUME NEW c, Answers(c)
    PROVE  /\ c.docs \in Collections /\ Ids(c) \in SUBSET Key /\ IsFiniteSet(Ids(c))
           /\ \A i \in Ids(c) : c.docs[i] \in Contents
           /\ \A n \in DOMAIN c.ixs :
                 /\ Shows(c.ixs[n], c.docs)
                 /\ c.ixs[n].fields \in Seq(STRING) \ {<<>>} /\ Len(c.ixs[n].fields) \in Nat \ {0}
           /\ \E n \in Nat : DOMAIN c.ixs = 1..n
<1>1. c.docs \in Collections /\ \A n \in DOMAIN c.ixs : Shows(c.ixs[n], c.docs)
  BY DEF Answers
<1>2. DOMAIN c.docs \in SUBSET Key /\ \A i \in DOMAIN c.docs : c.docs[i] \in Contents
  BY <1>1, CollectionParts
<1>3. IsFiniteSet(Key)
  BY DocumentsAssumption, FS_Interval DEF Key
<1>4. IsFiniteSet(DOMAIN c.docs)
  BY <1>2, <1>3, FS_Subset
<1>5. \A n \in DOMAIN c.ixs :
         c.ixs[n].fields \in Seq(STRING) \ {<<>>} /\ Len(c.ixs[n].fields) \in Nat \ {0}
  BY <1>1, FineParts DEF Shows
<1>6. \E n \in Nat : DOMAIN c.ixs = 1..n
  <2> DEFINE s == c.ixs
  <2>1. s \in Seq(FineIxs)
    BY DEF Answers
  <2>. HIDE DEF s
  <2>2. Len(s) \in Nat /\ DOMAIN s = 1..Len(s)
    BY <2>1
  <2>. QED BY <2>2 DEF s
<1>. QED BY <1>1, <1>2, <1>4, <1>5, <1>6 DEF Ids

LEMMA LeastPlace ==
    ASSUME NEW n \in Nat, NEW S \in SUBSET (1..n)
    PROVE  /\ FirstIndex(S) # 0 <=> S # {}
           /\ S # {} => FirstIndex(S) \in S
<1>1. CASE S = {}
  <2>1. FirstIndex(S) = 0
    BY <1>1, Zenon DEF FirstIndex
  <2>. QED BY <1>1, <2>1
<1>2. CASE S # {}
  <2>1. S \in SUBSET Nat
    OBVIOUS
  <2>2. \E m \in S : \A k \in S : m <= k
    BY <1>2, <2>1, LeastExists
  <2>3. Min(S) \in S
    BY <2>2 DEF Min
  <2>4. FirstIndex(S) = Min(S)
    BY <1>2 DEF FirstIndex
  <2>. QED BY <1>2, <2>3, <2>4
<1>. QED BY <1>1, <1>2

\* An index that is found is one of those that were looked for.
LEMMA IndexFound ==
    ASSUME NEW c, Answers(c), NEW f
    PROVE  /\ FieldIndex(c, f) # 0 =>
                 FieldIndex(c, f) \in DOMAIN c.ixs /\ c.ixs[FieldIndex(c, f)].fields = <<f>>
           /\ EqIndex(c, f) # 0 => EqIndex(c, f) \in DOMAIN c.ixs /\ c.ixs[EqIndex(c, f)].fields[1] = f
           /\ RangeIndex(c, f) # 0 =>
                 RangeIndex(c, f) \in DOMAIN c.ixs /\ c.ixs[RangeIndex(c, f)].fields[1] = f
<1>1. PICK n \in Nat : DOMAIN c.ixs = 1..n
  BY AnswersParts
<1> DEFINE A == {i \in DOMAIN c.ixs : c.ixs[i].fields = <<f>>}
           B == {i \in DOMAIN c.ixs : Len(c.ixs[i].fields) > 1 /\ c.ixs[i].fields[1] = f}
           C == {i \in DOMAIN c.ixs : c.ixs[i].fields[1] = f}
<1>2. A \in SUBSET (1..n) /\ B \in SUBSET (1..n) /\ C \in SUBSET (1..n)
  BY <1>1
<1>3. FieldIndex(c, f) = FirstIndex(A) /\ LeadingIndex(c, f) = FirstIndex(B) /\ RangeIndex(c, f) = FirstIndex(C)
  BY DEF FieldIndex, LeadingIndex, RangeIndex
<1>4. /\ FieldIndex(c, f) # 0 => FieldIndex(c, f) \in A
      /\ LeadingIndex(c, f) # 0 => LeadingIndex(c, f) \in B
      /\ RangeIndex(c, f) # 0 => RangeIndex(c, f) \in C
  <2>1. ASSUME NEW S \in SUBSET (1..n), FirstIndex(S) # 0 PROVE FirstIndex(S) \in S
    BY <2>1, LeastPlace
  <2>. HIDE DEF A, B, C
  <2>. QED BY <1>2, <1>3, <2>1
<1>5. FieldIndex(c, f) # 0 => c.ixs[FieldIndex(c, f)].fields = <<f>> /\ c.ixs[FieldIndex(c, f)].fields[1] = f
  <2>1. FieldIndex(c, f) # 0 => c.ixs[FieldIndex(c, f)].fields = <<f>>
    BY <1>4
  <2>. QED BY <2>1, SingleList
<1>. QED BY <1>4, <1>5 DEF EqIndex

LEMMA LeadingIs ==
    ASSUME NEW ix, NEW cs, Len(ix.fields) \in Nat
    PROVE  /\ Leading(ix, cs) \in 0..Len(ix.fields)
           /\ \A i \in 1..Leading(ix, cs) : Single(cs, ix.fields[i])
<1> DEFINE L == Len(ix.fields)
           S == {n \in 0..L : n = L \/ ~Single(cs, ix.fields[n + 1])}
<1>1. L \in Nat
  OBVIOUS
<1>2. Leading(ix, cs) = CHOOSE n \in 0..L :
         /\ \A i \in 1..n : Single(cs, ix.fields[i])
         /\ n = L \/ ~Single(cs, ix.fields[n + 1])
  BY DEF Leading
<1>3. S \in SUBSET Nat /\ L \in S
  BY <1>1
<1>4. PICK m \in S : \A k \in S : m <= k
  <2>. HIDE DEF S
  <2>. QED BY <1>3, LeastExists
<1>5. \A i \in 1..m : Single(cs, ix.fields[i])
  <2>1. SUFFICES ASSUME NEW i \in 1..m PROVE Single(cs, ix.fields[i])
    OBVIOUS
  <2>. HIDE DEF L
  <2>2. m \in 0..L
    BY <1>4
  <2>3. i - 1 \in 0..L /\ i - 1 < m /\ (i - 1) + 1 = i /\ i - 1 # L
    BY <1>1, <2>1, <2>2
  <2>4. i - 1 \notin S
    BY <1>4, <2>3, <2>2
  <2>. QED BY <2>3, <2>4
<1>. HIDE DEF L
<1>6. \E n \in 0..L :
         /\ \A i \in 1..n : Single(cs, ix.fields[i])
         /\ n = L \/ ~Single(cs, ix.fields[n + 1])
  BY <1>4, <1>5
<1>7. /\ Leading(ix, cs) \in 0..L
      /\ \A i \in 1..Leading(ix, cs) : Single(cs, ix.fields[i])
  BY <1>2, <1>6
<1>. QED BY <1>7 DEF L

\* What it is that both ways of reading agree on.
LEMMA EqAlike ==
    ASSUME NEW c, Answers(c), NEW filter, Asked(filter.fields), ReadAlike(c, filter),
           NEW f \in Consumed(c, filter.fields) \union EqServed(c, filter.fields),
           f \in EqFields(filter.fields)
    PROVE  /\ EqVals(filter.fields[f]) \in Seq(Scalar)
           /\ \A i \in Ids(c) : f \in DOMAIN c.docs[i] => c.docs[i][f].t # "arr"
           /\ Passing(c, filter.fields, f) =
                 {i \in Ids(c) : Lookup(c.docs[i], f) \in ToSet(EqVals(filter.fields[f]))}
<1> DEFINE cs == filter.fields
           cond == cs[f]
<1>1. IsCondition(cond) /\ IsEq(cond)
  BY DEF Asked, EqFields
<1>2. \A i \in Ids(c) : f \in DOMAIN c.docs[i] => c.docs[i][f].t \notin {"arr", "many"}
  BY DEF ReadAlike
<1>3. Nil \in ToSet(EqVals(cond)) => ~IsIn(cond)
  BY DEF ReadAlike
<1>. HIDE DEF cond
<1>4. EqVals(cond) \in Seq(Scalar)
  BY <1>1, EqValues
<1>5. \A i \in Ids(c) : MatchField(c.docs[i], f, cond) <=> Lookup(c.docs[i], f) \in ToSet(EqVals(cond))
  BY <1>1, <1>2, <1>3, AnswersParts, EqMeans
<1>6. Passing(c, cs, f) = {i \in Ids(c) : MatchField(c.docs[i], f, cond)}
  BY DEF Passing, cond
<1>. QED BY <1>2, <1>4, <1>5, <1>6 DEF cond

LEMMA OnlyValue ==
    ASSUME NEW S, NEW s \in Seq(S), Len(s) = 1
    PROVE  s[1] \in S /\ ToSet(s) = {s[1]}
<1>1. DOMAIN s = {1} /\ s[1] \in S
  OBVIOUS
<1>. QED BY <1>1 DEF ToSet

\* A compound index that serves finds the documents that pass the conditions on
\* its leading fields.
LEMMA CompoundFound ==
    ASSUME NEW c, Answers(c), NEW filter, Asked(filter.fields), ReadAlike(c, filter),
           NEW i \in Compounds(c, filter.fields)
    PROVE  CompoundHits(c.ixs[i], filter.fields) =
              {j \in Ids(c) : \A n \in 1..Leading(c.ixs[i], filter.fields) :
                  j \in Passing(c, filter.fields, c.ixs[i].fields[n])}
<1> DEFINE cs == filter.fields
           ix == c.ixs[i]
           L == Leading(ix, cs)
           w == [n \in 1..L |-> EqVals(cs[ix.fields[n]])[1]]
           ds == c.docs
<1>1. i \in DOMAIN c.ixs /\ Len(ix.fields) > 1 /\ L > 0
  BY DEF Compounds
<1>2. Shows(ix, ds) /\ Len(ix.fields) \in Nat \ {0} /\ ds \in Collections
  BY <1>1, AnswersParts
<1>3. L \in 0..Len(ix.fields) /\ \A n \in 1..L : Single(cs, ix.fields[n])
  <2>. HIDE DEF ix
  <2>. QED BY <1>2, LeadingIs
<1>4. L \in Nat /\ L \in 1..Len(ix.fields)
  BY <1>1, <1>2, <1>3
<1>5. ASSUME NEW n \in 1..L
      PROVE  /\ w[n] \in Scalar
             /\ \A j \in Ids(c) : ix.fields[n] \in DOMAIN ds[j] => ds[j][ix.fields[n]].t # "arr"
             /\ Passing(c, cs, ix.fields[n]) = {j \in Ids(c) : Lookup(ds[j], ix.fields[n]) = w[n]}
  <2> DEFINE f == ix.fields[n]
             vals == EqVals(cs[f])
  <2>1. f \in EqFields(cs) /\ Len(vals) = 1
    BY <1>3 DEF Single
  <2>2. f \in Consumed(c, cs)
    BY DEF Consumed
  <2>3. /\ vals \in Seq(Scalar)
        /\ \A j \in Ids(c) : f \in DOMAIN ds[j] => ds[j][f].t # "arr"
        /\ Passing(c, cs, f) = {j \in Ids(c) : Lookup(ds[j], f) \in ToSet(vals)}
    <3>. HIDE DEF f
    <3>. QED BY <2>1, <2>2, EqAlike
  <2>4. w[n] = vals[1]
    OBVIOUS
  <2>. HIDE DEF vals, f, w
  <2>5. vals[1] \in Scalar /\ ToSet(vals) = {vals[1]}
    BY <2>1, <2>3, OnlyValue
  <2>6. w[n] \in Scalar /\ Passing(c, cs, f) = {j \in Ids(c) : Lookup(ds[j], f) = w[n]}
    BY <2>3, <2>4, <2>5
  <2>. QED BY <2>3, <2>6 DEF f
<1>6. CompoundHits(ix, cs) = SeekPrefix(ix, w)
  BY DEF CompoundHits
<1>. HIDE DEF w, L, ix
<1>7. w \in Seq(Scalar) /\ Len(w) = L
  <2>1. w \in [1..L -> Scalar]
    BY <1>5 DEF w
  <2>. QED BY <1>4, <2>1, SeqOfFunction
<1>8. SeekPrefix(ix, w) =
         {j \in DOMAIN ds : \A n \in 1..Len(w) : Lookup(ds[j], ix.fields[n]) = w[n]}
  <2>1. \A n \in 1..Len(w) : \A j \in DOMAIN ds :
           ix.fields[n] \in DOMAIN ds[j] => ds[j][ix.fields[n]].t # "arr"
    BY <1>5, <1>7 DEF Ids
  <2>. QED BY <1>2, <1>4, <1>7, <2>1, PrefixValues
<1>9. CompoundHits(ix, cs) = {j \in Ids(c) : \A n \in 1..L : j \in Passing(c, cs, ix.fields[n])}
  BY <1>5, <1>6, <1>7, <1>8 DEF Ids
<1>. QED BY <1>9 DEF L, ix

\* What an index has for one value of its first field.
LEMMA ValueFound ==
    ASSUME NEW c, Answers(c), NEW f, EqIndex(c, f) # 0, NEW v \in Scalar,
           \A i \in Ids(c) : f \in DOMAIN c.docs[i] => c.docs[i][f].t # "arr"
    PROVE  /\ FieldIndex(c, f) # 0 =>
                 IdsOf(c.ixs[FieldIndex(c, f)], <<v>>) = {i \in Ids(c) : Lookup(c.docs[i], f) = v}
           /\ FieldIndex(c, f) = 0 =>
                 SeekPrefix(c.ixs[EqIndex(c, f)], <<v>>) = {i \in Ids(c) : Lookup(c.docs[i], f) = v}
<1> DEFINE ix == c.ixs[EqIndex(c, f)]
           w == <<v>>
<1>1. EqIndex(c, f) \in DOMAIN c.ixs /\ ix.fields[1] = f
  BY IndexFound
<1>2. Shows(ix, c.docs) /\ Len(ix.fields) \in Nat \ {0} /\ c.docs \in Collections
  BY <1>1, AnswersParts
<1>3. w \in Seq(Scalar) /\ Len(w) = 1 /\ w[1] = v /\ DOMAIN w = {1}
  BY SingleList
<1>4. FieldIndex(c, f) # 0 => ix.fields = <<f>> /\ ix = c.ixs[FieldIndex(c, f)]
  BY IndexFound DEF EqIndex
<1>5. FieldIndex(c, f) # 0 => Len(ix.fields) = 1
  <2>1. Len(<<f>>) = 1
    OBVIOUS
  <2>. QED BY <1>4, <2>1
<1>6. FieldIndex(c, f) # 0 => SeekPrefix(ix, w) = IdsOf(ix, w)
  <2>. HIDE DEF ix, w
  <2>. QED BY <1>3, <1>5, Zenon DEF SeekPrefix, LookupIDs
<1>. HIDE DEF ix, w
<1>7. SeekPrefix(ix, w) = {i \in DOMAIN c.docs : \A n \in 1..Len(w) : Lookup(c.docs[i], ix.fields[n]) = w[n]}
  <2>1. Len(w) \in 1..Len(ix.fields)
    BY <1>2, <1>3
  <2>2. \A n \in 1..Len(w) : \A i \in DOMAIN c.docs :
           ix.fields[n] \in DOMAIN c.docs[i] => c.docs[i][ix.fields[n]].t # "arr"
    BY <1>1, <1>3 DEF Ids
  <2>3. w \in Seq(Scalar)
    BY <1>3
  <2> DEFINE ds == c.docs
  <2>4. Shows(ix, ds) /\ ds \in Collections
    BY <1>2
  <2>5. \A n \in 1..Len(w) : \A i \in DOMAIN ds :
           ix.fields[n] \in DOMAIN ds[i] => ds[i][ix.fields[n]].t # "arr"
    BY <2>2
  <2>. HIDE DEF ds
  <2>6. SeekPrefix(ix, w) = {i \in DOMAIN ds : \A n \in 1..Len(w) : Lookup(ds[i], ix.fields[n]) = w[n]}
    BY <2>1, <2>3, <2>4, <2>5, PrefixValues
  <2>. QED BY <2>6 DEF ds
<1>8. SeekPrefix(ix, w) = {i \in Ids(c) : Lookup(c.docs[i], f) = v}
  BY <1>1, <1>3, <1>7 DEF Ids
<1>. QED BY <1>4, <1>6, <1>8 DEF w, ix

LEMMA EqFound ==
    ASSUME NEW c, Answers(c), NEW filter, Asked(filter.fields), ReadAlike(c, filter),
           NEW f \in EqServed(c, filter.fields)
    PROVE  EqHits(c, f, EqVals(filter.fields[f])) = Passing(c, filter.fields, f)
<1> DEFINE cs == filter.fields
           vals == EqVals(cs[f])
           ix == c.ixs[EqIndex(c, f)]
           hit(i) == IF FieldIndex(c, f) # 0 THEN LookupIDs(ix, <<vals[i]>>) ELSE SeekPrefix(ix, <<vals[i]>>)
           with(v) == {i \in Ids(c) : Lookup(c.docs[i], f) = v}
<1>1. f \in EqFields(cs) /\ EqIndex(c, f) # 0
  BY DEF EqServed
<1>2. /\ vals \in Seq(Scalar)
      /\ \A i \in Ids(c) : f \in DOMAIN c.docs[i] => c.docs[i][f].t # "arr"
      /\ Passing(c, cs, f) = {i \in Ids(c) : Lookup(c.docs[i], f) \in ToSet(vals)}
  BY <1>1, EqAlike
<1>. HIDE DEF vals
<1>3. \A i \in DOMAIN vals : vals[i] \in Scalar
  BY <1>2
<1>4. FieldIndex(c, f) # 0 => ix = c.ixs[FieldIndex(c, f)]
  BY DEF EqIndex
<1>5. ASSUME NEW i \in DOMAIN vals PROVE hit(i) = with(vals[i])
  <2> DEFINE v == vals[i]
  <2>1. v \in Scalar
    BY <1>3
  <2>. HIDE DEF v
  <2>2. /\ FieldIndex(c, f) # 0 =>
              IdsOf(c.ixs[FieldIndex(c, f)], <<v>>) = {j \in Ids(c) : Lookup(c.docs[j], f) = v}
        /\ FieldIndex(c, f) = 0 =>
              SeekPrefix(ix, <<v>>) = {j \in Ids(c) : Lookup(c.docs[j], f) = v}
    BY <1>1, <1>2, <2>1, ValueFound
  <2>. HIDE DEF ix
  <2>3. CASE FieldIndex(c, f) # 0
    BY <1>4, <2>2, <2>3 DEF v, LookupIDs
  <2>4. CASE FieldIndex(c, f) = 0
    BY <2>2, <2>4 DEF v
  <2>. QED BY <2>3, <2>4
<1>6. EqHits(c, f, vals) = UNION {hit(i) : i \in DOMAIN vals}
  BY Zenon DEF EqHits
<1>. HIDE DEF hit
<1>7. UNION {hit(i) : i \in DOMAIN vals} = UNION {with(vals[i]) : i \in DOMAIN vals}
  BY <1>5
<1>8. UNION {with(vals[i]) : i \in DOMAIN vals} = {i \in Ids(c) : Lookup(c.docs[i], f) \in ToSet(vals)}
  BY DEF ToSet
<1>. QED BY <1>2, <1>6, <1>7, <1>8 DEF vals

\* Every document has a key.
LEMMA SomeRow ==
    ASSUME NEW d \in Contents, NEW fs \in Seq(STRING) \ {<<>>}
    PROVE  \E k : k \in RowsOf(d, fs)
<1> DEFINE m == 0
           w == [n \in 1..m |-> Nil]
<1>1. m \in 0..Len(fs)
  BY FieldsAre
<1>2. w \in [1..m -> Scalar]
  BY DEF Scalar
<1>3. \A n \in 1..m : w[n] \in Expanded(Lookup(d, fs[n]))
  OBVIOUS
<1>. HIDE DEF m, w
<1>. QED BY <1>1, <1>2, <1>3, KeyWith

\* What a range leads to: every document that passes, and each of those once.
LEMMA RangeSought ==
    ASSUME NEW c, Answers(c), NEW filter, Asked(filter.fields), ReadAlike(c, filter),
           NEW f \in RangeServed(c, filter.fields)
    PROVE  /\ RangeSeek(c, f, filter.fields[f]) \in Seq(Key)
           /\ ToSet(RangeSeek(c, f, filter.fields[f])) \subseteq Ids(c)
           /\ Passing(c, filter.fields, f) \subseteq ToSet(RangeSeek(c, f, filter.fields[f]))
           /\ OnceIn(RangeSeek(c, f, filter.fields[f]), Passing(c, filter.fields, f))
<1> DEFINE cs == filter.fields
           cond == cs[f]
           n == RangeIndex(c, f)
           ix == c.ixs[n]
           fs == ix.fields
           ds == c.docs
           U == Passing(c, cs, f)
<1>1. f \in DOMAIN cs /\ IsRange(cond) /\ n # 0
  BY DEF RangeServed, RangeFields
<1>2. IsCondition(cond)
  BY <1>1 DEF Asked
<1>3. n \in DOMAIN c.ixs /\ fs[1] = f
  BY <1>1, IndexFound
<1>4. Shows(ix, ds) /\ fs \in Seq(STRING) \ {<<>>} /\ Len(fs) \in Nat \ {0} /\ ds \in Collections
  BY <1>3, AnswersParts
<1>5. ASSUME NEW j \in Ids(c)
      PROVE  /\ f \in DOMAIN ds[j] => ds[j][f].t # "many"
             /\ \A m \in DOMAIN fs \ {1} : fs[m] \in DOMAIN ds[j] => ds[j][fs[m]].t # "arr"
  <2> DEFINE later == {fs[m] : m \in DOMAIN fs \ {1}}
             holds(g) == IF g \in DOMAIN ds[j] THEN ds[j][g].t ELSE "missing"
  <2>1. holds(f) # "many" /\ \A g \in later : holds(g) # "arr"
    BY Zenon DEF ReadAlike
  <2>2. \A m \in DOMAIN fs \ {1} : fs[m] \in later
    OBVIOUS
  <2>. HIDE DEF later, fs
  <2>. QED BY <2>1, <2>2
<1>6. \A j \in Ids(c) : ds[j] \in Contents
  BY AnswersParts
<1>7. DOMAIN fs = 1..Len(fs) /\ 1 \in DOMAIN fs
  <2>. HIDE DEF fs
  <2>. QED BY <1>4
<1>. HIDE DEF cond, fs, n
<1>8. ASSUME NEW j \in U
      PROVE  /\ \A m \in 1..Len(fs) : fs[m] \in DOMAIN ds[j] => ds[j][fs[m]].t # "arr"
             /\ BoundedBelow(Lookup(ds[j], f), Lo(cond)) /\ BoundedAbove(Lookup(ds[j], f), Hi(cond))
  <2>1. j \in Ids(c) /\ MatchField(ds[j], f, cond)
    BY DEF Passing, cond
  <2>2. /\ f \in DOMAIN ds[j] => ds[j][f].t # "arr"
        /\ BoundedBelow(Lookup(ds[j], f), Lo(cond)) /\ BoundedAbove(Lookup(ds[j], f), Hi(cond))
    <3>1. ds[j] \in Contents /\ (f \in DOMAIN ds[j] => ds[j][f].t # "many")
      BY <1>5, <1>6, <2>1
    <3>. QED BY <1>1, <1>2, <2>1, <3>1, RangeMeans
  <2>3. \A m \in DOMAIN fs \ {1} : fs[m] \in DOMAIN ds[j] => ds[j][fs[m]].t # "arr"
    BY <1>5, <2>1
  <2>. QED BY <1>3, <1>7, <2>2, <2>3
<1>9. ASSUME NEW j \in U, NEW k \in RowsOf(ds[j], fs)
      PROVE  k \in KeysOf(fs) /\ \A m \in 1..Len(fs) : k[m] = Lookup(ds[j], fs[m])
  <2>1. j \in Ids(c)
    BY DEF Passing
  <2>2. k \in KeysOf(fs) /\ \A m \in 1..Len(fs) : k[m] \in Expanded(Lookup(ds[j], fs[m]))
    BY <1>4, <1>6, <2>1, RowIn
  <2>3. \A m \in 1..Len(fs) : Expanded(Lookup(ds[j], fs[m])) = {Lookup(ds[j], fs[m])}
    BY <1>6, <1>8, <2>1, OneValue
  <2>. QED BY <2>2, <2>3
<1>10. \A j \in U \intersect DOMAIN ds : \A k, l \in RowsOf(ds[j], fs) : k = l
  <2>1. SUFFICES ASSUME NEW j \in U, NEW k \in RowsOf(ds[j], fs), NEW l \in RowsOf(ds[j], fs)
                 PROVE  k = l
    OBVIOUS
  <2> DEFINE I == 1..Len(fs)
  <2>2. k \in [I -> Scalar] /\ l \in [I -> Scalar]
    BY <1>9 DEF KeysOf
  <2>3. \A m \in I : k[m] = l[m]
    BY <1>9
  <2>. HIDE DEF I
  <2>. QED BY <2>2, <2>3, SameFunction
<1>11. Lo(cond) \in Bounds /\ Hi(cond) \in Bounds /\ (Lo(cond) # NoBound \/ Hi(cond) # NoBound)
  BY <1>1, <1>2, RangeBounds
<1> DEFINE r == SeekRange(ix, Lo(cond), Hi(cond))
<1>12. /\ r \in Seq(Key) /\ ToSet(r) \subseteq DOMAIN ds
       /\ \A j \in DOMAIN ds : \A k \in RowsOf(ds[j], fs) :
             BoundedBelow(k[1], Lo(cond)) /\ BoundedAbove(k[1], Hi(cond)) => j \in ToSet(r)
       /\ \A T : (\A j \in T \intersect DOMAIN ds : \A k, l \in RowsOf(ds[j], fs) : k = l) => OnceIn(r, T)
  BY <1>4, <1>11, RangeFound DEF fs
<1>. HIDE DEF r, ds, ix, U
<1>13. OnceIn(r, U)
  BY <1>10, <1>12
<1>14. U \subseteq ToSet(r)
  <2>1. SUFFICES ASSUME NEW j \in U PROVE j \in ToSet(r)
    OBVIOUS
  <2>2. j \in DOMAIN ds /\ ds[j] \in Contents
    BY <1>6 DEF U, Passing, Ids, ds
  <2>3. \E k : k \in RowsOf(ds[j], fs)
    BY <1>4, <2>2, SomeRow
  <2>4. PICK k : k \in RowsOf(ds[j], fs)
    BY <2>3
  <2>5. k[1] = Lookup(ds[j], f)
    BY <1>3, <1>4, <1>7, <1>9, <2>4
  <2>. QED BY <1>8, <1>12, <2>2, <2>4, <2>5
<1>15. RangeSeek(c, f, cond) = r
  BY DEF RangeSeek, r, ix, n
<1>. QED BY <1>12, <1>13, <1>14, <1>15 DEF cond, U, ds, Ids

Candidates(c, cs) == {i \in UNION Hits(c, cs) : \A h \in Hits(c, cs) : i \in h}

LEMMA MatchingPasses ==
    ASSUME NEW c, NEW filter, NEW f \in DOMAIN filter.fields
    PROVE  /\ Matching(c, filter) \subseteq Passing(c, filter.fields, f)
           /\ Passing(c, filter.fields, f) \subseteq Ids(c)
BY DEF Matching, Passing, Match, MatchFields

LEMMA ServedFields ==
    ASSUME NEW c, Answers(c), NEW cs
    PROVE  /\ Consumed(c, cs) \subseteq EqFields(cs) /\ EqServed(c, cs) \subseteq EqFields(cs)
           /\ RangeServed(c, cs) \subseteq DOMAIN cs \ EqFields(cs)
           /\ EqFields(cs) \subseteq DOMAIN cs
           /\ \A i \in Compounds(c, cs) : \A n \in 1..Leading(c.ixs[i], cs) :
                 c.ixs[i].fields[n] \in EqFields(cs)
<1>1. ASSUME NEW i \in Compounds(c, cs), NEW n \in 1..Leading(c.ixs[i], cs)
      PROVE  c.ixs[i].fields[n] \in EqFields(cs)
  <2> DEFINE ix == c.ixs[i]
  <2>1. Len(ix.fields) \in Nat
    BY AnswersParts DEF Compounds
  <2>2. n \in 1..Leading(ix, cs)
    OBVIOUS
  <2>. HIDE DEF ix
  <2>3. Single(cs, ix.fields[n])
    BY <2>1, <2>2, LeadingIs
  <2>. QED BY <2>3 DEF Single, ix
<1>2. Consumed(c, cs) \subseteq EqFields(cs)
  BY <1>1 DEF Consumed
<1>3. EqServed(c, cs) \subseteq EqFields(cs)
  BY DEF EqServed
<1>4. RangeServed(c, cs) \subseteq DOMAIN cs \ EqFields(cs)
  BY DEF RangeServed, RangeFields, EqFields
<1>5. EqFields(cs) \subseteq DOMAIN cs
  BY DEF EqFields
<1>. QED BY <1>1, <1>2, <1>3, <1>4, <1>5

\* Every search finds all the documents that match, and documents only.
LEMMA HitsAre ==
    ASSUME NEW c, Answers(c), NEW filter, Asked(filter.fields), ReadAlike(c, filter),
           NEW h \in Hits(c, filter.fields)
    PROVE  Matching(c, filter) \subseteq h /\ h \subseteq Ids(c)
<1> DEFINE cs == filter.fields
<1>1. CASE h \in {CompoundHits(c.ixs[i], cs) : i \in Compounds(c, cs)}
  <2>1. PICK i \in Compounds(c, cs) : h = CompoundHits(c.ixs[i], cs)
    BY <1>1
  <2>2. h = {j \in Ids(c) : \A n \in 1..Leading(c.ixs[i], cs) : j \in Passing(c, cs, c.ixs[i].fields[n])}
    BY <2>1, CompoundFound
  <2>3. \A n \in 1..Leading(c.ixs[i], cs) : Matching(c, filter) \subseteq Passing(c, cs, c.ixs[i].fields[n])
    BY ServedFields, MatchingPasses
  <2>4. Matching(c, filter) \subseteq Ids(c)
    BY DEF Matching
  <2>. QED BY <2>2, <2>3, <2>4
<1>2. CASE h \in {EqHits(c, f, EqVals(cs[f])) : f \in EqServed(c, cs)}
  <2>1. PICK f \in EqServed(c, cs) : h = EqHits(c, f, EqVals(cs[f]))
    BY <1>2
  <2>2. h = Passing(c, cs, f)
    BY <2>1, EqFound
  <2>3. f \in DOMAIN cs
    BY ServedFields
  <2>. QED BY <2>2, <2>3, MatchingPasses
<1>3. CASE h \in {ToSet(RangeSeek(c, f, cs[f])) : f \in RangeServed(c, cs)}
  <2>1. PICK f \in RangeServed(c, cs) : h = ToSet(RangeSeek(c, f, cs[f]))
    BY <1>3
  <2>2. Passing(c, cs, f) \subseteq h /\ h \subseteq Ids(c)
    BY <2>1, RangeSought
  <2>3. f \in DOMAIN cs
    BY ServedFields
  <2>. QED BY <2>2, <2>3, MatchingPasses
<1>. QED BY <1>1, <1>2, <1>3 DEF Hits

\* The candidates of a plan contain the documents that match; those of a plan
\* that calls itself exact are these.
LEMMA CandidatesAre ==
    ASSUME NEW c, Answers(c), NEW filter, Asked(filter.fields), ReadAlike(c, filter), Used(c, filter)
    PROVE  /\ Matching(c, filter) \subseteq Candidates(c, filter.fields)
           /\ Candidates(c, filter.fields) \subseteq Ids(c)
           /\ Exact(c, filter) =>
                 /\ Candidates(c, filter.fields) = Matching(c, filter)
                 /\ RangeServed(c, filter.fields) = {}
<1> DEFINE cs == filter.fields
           H == Hits(c, cs)
           C == Candidates(c, cs)
<1>1. \A h \in H : Matching(c, filter) \subseteq h /\ h \subseteq Ids(c)
  BY HitsAre
<1>2. H # {}
  BY DEF Used, Hits
<1>3. Matching(c, filter) \subseteq C /\ C \subseteq Ids(c)
  <2>. HIDE DEF H
  <2>1. C = {i \in UNION H : \A h \in H : i \in h}
    BY DEF Candidates, H
  <2>. QED BY <1>1, <1>2, <2>1
<1>4. ASSUME Exact(c, filter) PROVE C \subseteq Matching(c, filter) /\ RangeServed(c, cs) = {}
  <2>1. filter.logic = <<>> /\ DOMAIN cs = Consumed(c, cs) \union EqServed(c, cs)
    BY <1>4, Zenon DEF Exact
  <2>2. DOMAIN cs = EqFields(cs) /\ RangeServed(c, cs) = {}
    BY <2>1, ServedFields
  <2>3. ASSUME NEW i \in C, NEW f \in DOMAIN cs PROVE MatchField(c.docs[i], f, cs[f])
    <3>1. \A h \in H : i \in h
      BY DEF Candidates
    <3>2. CASE f \in EqServed(c, cs)
      <4>1. EqHits(c, f, EqVals(cs[f])) \in H
        BY <3>2 DEF Hits
      <4>2. i \in Passing(c, cs, f)
        BY <3>1, <3>2, <4>1, EqFound
      <4>. QED BY <4>2 DEF Passing
    <3>3. CASE f \in Consumed(c, cs)
      <4>1. PICK n \in Compounds(c, cs) : f \in {c.ixs[n].fields[j] : j \in 1..Leading(c.ixs[n], cs)}
        BY <3>3 DEF Consumed
      <4>2. CompoundHits(c.ixs[n], cs) \in H
        BY <4>1 DEF Hits
      <4>3. i \in {j \in Ids(c) : \A m \in 1..Leading(c.ixs[n], cs) :
                     j \in Passing(c, cs, c.ixs[n].fields[m])}
        BY <3>1, <4>1, <4>2, CompoundFound
      <4>4. i \in Passing(c, cs, f)
        BY <4>1, <4>3
      <4>. QED BY <4>4 DEF Passing
    <3>. QED BY <2>1, <3>2, <3>3
  <2>4. \A i \in C : Match(c.docs[i], filter)
    <3>1. DOMAIN filter.logic = {}
      BY <2>1
    <3>. QED BY <2>3, <3>1 DEF Match, MatchFields
  <2>5. C \subseteq Matching(c, filter)
    BY <1>3, <2>4 DEF Matching
  <2>. QED BY <2>2, <2>5
<1>5. Exact(c, filter) => C = Matching(c, filter) /\ RangeServed(c, cs) = {}
  BY <1>3, <1>4
<1>. QED BY <1>3, <1>5

-----------------------------------------------------------------------------
(* Find *)

LEMMA PlanIs ==
    ASSUME NEW c, NEW filter, NEW p \in Plans(c, filter)
    PROVE  /\ p.cand = Candidates(c, filter.fields) /\ p.exact = Exact(c, filter)
           /\ \/ p.order = <<>>
              \/ \E f \in RangeServed(c, filter.fields) :
                    p.order = Among(RangeSeek(c, f, filter.fields[f]), Candidates(c, filter.fields))
<1> DEFINE cs == filter.fields
           cand == {i \in UNION Hits(c, cs) : \A h \in Hits(c, cs) : i \in h}
           plan(f) == [cand |-> cand, exact |-> Exact(c, filter), orderField |-> f,
                       order |-> IF f = "" THEN <<>> ELSE Among(RangeSeek(c, f, cs[f]), cand)]
<1>1. Plans(c, filter) =
         {plan(f) : f \in IF RangeServed(c, cs) = {} THEN {""} ELSE RangeServed(c, cs)}
  BY Zenon DEF Plans
<1>2. PICK f \in IF RangeServed(c, cs) = {} THEN {""} ELSE RangeServed(c, cs) : p = plan(f)
  BY <1>1, Zenon
<1>. HIDE DEF cand
<1>3. p.cand = cand /\ p.exact = Exact(c, filter)
      /\ p.order = IF f = "" THEN <<>> ELSE Among(RangeSeek(c, f, cs[f]), cand)
  BY <1>2, Zenon
<1>4. cand = Candidates(c, cs)
  BY Zenon DEF Candidates, cand
<1>5. CASE f = ""
  BY <1>3, <1>4, <1>5
<1>6. CASE f # ""
  <2>1. f \in RangeServed(c, cs)
    BY <1>2, <1>6
  <2>2. p.order = Among(RangeSeek(c, f, cs[f]), Candidates(c, cs))
    BY <1>3, <1>4, <1>6, Zenon
  <2>. QED BY <1>3, <1>4, <2>1, <2>2, Zenon
<1>. QED BY <1>5, <1>6

LEMMA SomePlan ==
    ASSUME NEW c, NEW filter
    PROVE  \E p : p \in Plans(c, filter)
<1> DEFINE cs == filter.fields
           cand == {i \in UNION Hits(c, cs) : \A h \in Hits(c, cs) : i \in h}
           plan(f) == [cand |-> cand, exact |-> Exact(c, filter), orderField |-> f,
                       order |-> IF f = "" THEN <<>> ELSE Among(RangeSeek(c, f, cs[f]), cand)]
           S == IF RangeServed(c, cs) = {} THEN {""} ELSE RangeServed(c, cs)
<1>1. Plans(c, filter) = {plan(f) : f \in S}
  BY Zenon DEF Plans
<1>2. \E f : f \in S
  BY DEF S
<1>. HIDE DEF S, plan
<1>. QED BY <1>1, <1>2

\* Any order of some documents lists each of them once.
LEMMA OrdersAre ==
    ASSUME NEW S \in SUBSET Key
    PROVE  /\ \A o \in Orders(S) : o \in Seq(Key) /\ ToSet(o) = S /\ Distinct(o)
           /\ SetAsc(S) \in Orders(S)
<1> DEFINE n == Cardinality(S)
<1>1. IsFiniteSet(S) /\ n \in Nat /\ S \in SUBSET Nat
  <2>1. IsFiniteSet(Key)
    BY DocumentsAssumption, FS_Interval DEF Key
  <2>2. Key \subseteq Nat
    BY DocumentsAssumption DEF Key
  <2>3. IsFiniteSet(S)
    BY <2>1, FS_Subset
  <2>. QED BY <2>2, <2>3, FS_CardinalityType
<1>2. IsFiniteSet(1..n) /\ Cardinality(1..n) = n
  <2>. HIDE DEF n
  <2>. QED BY <1>1, FS_Interval
<1>3. ASSUME NEW o \in Orders(S) PROVE o \in Seq(Key) /\ ToSet(o) = S /\ Distinct(o)
  <2>1. o \in [1..n -> S] /\ ToSet(o) = S
    BY DEF Orders
  <2>. HIDE DEF n
  <2>2. o \in Seq(S) /\ DOMAIN o = 1..n
    BY <1>1, <2>1, SeqOfFunction
  <2>3. o \in Surjection(1..n, S)
    <3>1. \A x \in S : \E i \in 1..n : o[i] = x
      BY <2>1, <2>2 DEF ToSet
    <3>. QED BY <2>1, <3>1 DEF Surjection
  <2>4. o \in Injection(1..n, S)
    <3>1. Cardinality(1..n) = Cardinality(S)
      BY <1>2 DEF n
    <3>. QED BY <1>2, <2>3, <3>1, FS_Surjection
  <2>5. Distinct(o)
    BY <2>2, <2>4 DEF Injection, IsInjective, Distinct
  <2>6. o \in Seq(Key)
    BY <2>2
  <2>. QED BY <2>1, <2>5, <2>6
<1>4. SetAsc(S) \in Orders(S)
  <2> DEFINE s == SetAsc(S)
  <2>1. Lists(s, S) /\ Len(s) = n
    BY <1>1, SetAscLists
  <2>. HIDE DEF s, n
  <2>2. s \in Seq(S) /\ ToSet(s) = S
    BY <2>1 DEF Lists
  <2>3. s \in [1..n -> S]
    BY <2>1, <2>2
  <2>4. s \in Orders(S)
    BY <2>2, <2>3 DEF Orders, n
  <2>. QED BY <2>4 DEF s
<1>. QED BY <1>3, <1>4

LEMMA WiderSeq ==
    ASSUME NEW S, NEW T, S \subseteq T, NEW s \in Seq(S)
    PROVE  s \in Seq(T)
OBVIOUS

\* What is left of a list of candidates when the documents are looked at: those
\* that match, each once.
LEMMA MaterializedIs ==
    ASSUME NEW c, NEW filter, NEW l \in Seq(Key), NEW rematch \in BOOLEAN, Ids(c) \in SUBSET Key,
           Matching(c, filter) \subseteq ToSet(l), ToSet(l) \subseteq Ids(c),
           ~rematch => ToSet(l) = Matching(c, filter), OnceIn(l, Matching(c, filter))
    PROVE  /\ Materialized(c, l, filter, rematch) \in Seq(Nat)
           /\ Distinct(Materialized(c, l, filter, rematch))
           /\ ToSet(Materialized(c, l, filter, rematch)) = Matching(c, filter)
<1> DEFINE M == Matching(c, filter)
           T == {i \in Ids(c) : rematch => Match(c.docs[i], filter)}
           m == Among(l, T)
<1>1. m \in Seq(Key) /\ ToSet(m) = ToSet(l) \intersect T /\ OnceIn(m, M)
  <2>. HIDE DEF T, M
  <2>1. OnceIn(l, M)
    BY DEF M
  <2>. QED BY <2>1, AmongIs
<1>2. rematch => T = M
  BY DEF Matching
<1>3. ~rematch => T = Ids(c)
  OBVIOUS
<1>4. ToSet(m) = M
  <2>. HIDE DEF T, m
  <2>. QED BY <1>1, <1>2, <1>3
<1>. HIDE DEF T, m, M
<1>5. Distinct(m)
  <2>1. \A i \in DOMAIN m : m[i] \in ToSet(m)
    BY DEF ToSet
  <2>. QED BY <1>1, <1>4, <2>1 DEF OnceIn, Distinct
<1>6. m \in Seq(Nat)
  <2>1. Key \subseteq Nat
    BY DocumentsAssumption DEF Key
  <2>2. m \in Seq(Key)
    BY <1>1
  <2>. QED BY <2>1, <2>2, WiderSeq
<1>7. Materialized(c, l, filter, rematch) = m
  BY Zenon DEF Materialized, m, T
<1>. QED BY <1>4, <1>5, <1>6, <1>7 DEF M

\* A page without a beginning or an end is the whole list.
LEMMA WholePage ==
    ASSUME NEW list \in Seq(Nat)
    PROVE  Page(list, Plainly) = list
<1> DEFINE opts == Plainly
           rest == IF opts.skip >= Len(list) THEN <<>> ELSE SubSeq(list, opts.skip + 1, Len(list))
<1>1. opts.skip = 0 /\ opts.limit = 0
  BY DEF Plainly
<1>2. Page(list, opts) = IF opts.limit > 0 /\ opts.limit < Len(rest) THEN SubSeq(rest, 1, opts.limit) ELSE rest
  BY Zenon DEF Page
<1>. HIDE DEF opts
<1>3. rest = list
  <2>1. CASE Len(list) = 0
    BY <1>1, <2>1
  <2>2. CASE Len(list) # 0
    <3>1. Len(list) > 0
      BY <2>2
    <3>2. rest = SubSeq(list, 1, Len(list))
      BY <1>1, <3>1
    <3>3. SubSeq(list, 1, Len(list)) = list
      OBVIOUS
    <3>. QED BY <3>2, <3>3
  <2>. QED BY <2>1, <2>2
<1>. HIDE DEF rest
<1>4. Page(list, opts) = rest
  BY <1>1, <1>2
<1>. QED BY <1>3, <1>4 DEF opts

\* Without a sort what is found comes by _id.
LEMMA FoundById ==
    ASSUME NEW c, NEW refs \in Seq(Nat), NEW ordered, NEW f
    PROVE  Page(Arranged(c, refs, ordered, f, Plainly), Plainly) = ById(refs)
<1>1. Plainly.sort = <<>>
  BY DEF Plainly
<1>2. Arranged(c, refs, ordered, f, Plainly) = ById(refs)
  BY <1>1, Zenon DEF Arranged
<1>3. ById(refs) \in Seq(Nat)
  BY SortedIds
<1>. QED BY <1>2, <1>3, WholePage

\* The list a plan goes through.
PlanList(p, l) == IF p.order # <<>> THEN l = p.order ELSE l \in Orders(p.cand)

LEMMA PlanListIs ==
    ASSUME NEW c, Answers(c), NEW filter, Asked(filter.fields), ReadAlike(c, filter), Used(c, filter),
           NEW p \in Plans(c, filter), NEW l, PlanList(p, l)
    PROVE  /\ l \in Seq(Key) /\ ToSet(l) = p.cand /\ OnceIn(l, Matching(c, filter))
           /\ Matching(c, filter) \subseteq p.cand /\ p.cand \subseteq Ids(c)
           /\ p.exact => p.cand = Matching(c, filter)
<1> DEFINE cs == filter.fields
           C == Candidates(c, cs)
           M == Matching(c, filter)
<1>1. /\ p.cand = C /\ p.exact = Exact(c, filter)
      /\ p.order = <<>> \/ \E f \in RangeServed(c, cs) : p.order = Among(RangeSeek(c, f, cs[f]), C)
  BY PlanIs
<1>2. M \subseteq C /\ C \subseteq Ids(c) /\ (Exact(c, filter) => C = M)
  BY CandidatesAre
<1>3. CASE p.order = <<>>
  <2>1. l \in Orders(C) /\ C \in SUBSET Key
    <3>1. Ids(c) \in SUBSET Key
      BY AnswersParts
    <3>. QED BY <1>1, <1>2, <1>3, <3>1 DEF PlanList
  <2>. HIDE DEF C
  <2>2. l \in Seq(Key) /\ ToSet(l) = C /\ Distinct(l)
    BY <2>1, OrdersAre
  <2>3. OnceIn(l, M)
    BY <2>2 DEF Distinct, OnceIn
  <2>. QED BY <1>1, <1>2, <2>2, <2>3
<1>4. CASE p.order # <<>>
  <2>1. PICK f \in RangeServed(c, cs) : p.order = Among(RangeSeek(c, f, cs[f]), C)
    BY <1>1, <1>4
  <2> DEFINE r == RangeSeek(c, f, cs[f])
             U == Passing(c, cs, f)
  <2>2. r \in Seq(Key) /\ OnceIn(r, U)
    BY RangeSought
  <2>3. ToSet(r) \in Hits(c, cs)
    BY DEF Hits
  <2>4. C \subseteq ToSet(r)
    BY <2>3 DEF Candidates
  <2>5. M \subseteq U
    BY ServedFields, MatchingPasses
  <2>6. l = Among(r, C)
    BY <1>4, <2>1 DEF PlanList
  <2>. HIDE DEF r, C, U
  <2>7. l \in Seq(Key) /\ ToSet(l) = ToSet(r) \intersect C /\ OnceIn(l, U)
    BY <2>2, <2>6, AmongIs
  <2>8. OnceIn(l, M)
    BY <2>5, <2>7 DEF OnceIn
  <2>. QED BY <1>1, <1>2, <2>4, <2>7, <2>8
<1>. QED BY <1>3, <1>4

\* What a scan goes through.
LEMMA ScanList ==
    ASSUME NEW c, Answers(c), NEW filter
    PROVE  /\ SetAsc(Ids(c)) \in Seq(Key) /\ ToSet(SetAsc(Ids(c))) = Ids(c)
           /\ OnceIn(SetAsc(Ids(c)), Matching(c, filter)) /\ Matching(c, filter) \subseteq Ids(c)
<1> DEFINE s == SetAsc(Ids(c))
<1>1. Ids(c) \in SUBSET Key
  BY AnswersParts
<1>2. s \in Seq(Key) /\ ToSet(s) = Ids(c) /\ Distinct(s)
  BY <1>1, OrdersAre
<1>. HIDE DEF s
<1>3. OnceIn(s, Matching(c, filter))
  BY <1>2 DEF Distinct, OnceIn
<1>. QED BY <1>2, <1>3 DEF Matching, s

\* A scan returns the documents that match, each once, by _id.
LEMMA ScanIs ==
    ASSUME NEW c, Answers(c), NEW filter
    PROVE  \E m \in Seq(Nat) :
              /\ Distinct(m) /\ ToSet(m) = Matching(c, filter)
              /\ Scan(c, filter, Plainly) = ById(m)
<1> DEFINE l == SetAsc(Ids(c))
           m == Materialized(c, l, filter, TRUE)
<1>1. l \in Seq(Key) /\ ToSet(l) = Ids(c) /\ OnceIn(l, Matching(c, filter)) /\ Matching(c, filter) \subseteq Ids(c)
  BY ScanList
<1>2. Ids(c) \in SUBSET Key
  BY AnswersParts
<1>3. Scan(c, filter, Plainly) = Page(Arranged(c, m, FALSE, "", Plainly), Plainly)
  BY Zenon DEF Scan
<1>. HIDE DEF l
<1>4. m \in Seq(Nat) /\ Distinct(m) /\ ToSet(m) = Matching(c, filter)
  BY <1>1, <1>2, MaterializedIs
<1>. HIDE DEF m
<1>5. Scan(c, filter, Plainly) = ById(m)
  BY <1>3, <1>4, FoundById
<1>. QED BY <1>4, <1>5

\* Through whichever plan, and whatever order the candidates come in, Find
\* returns what a scan returns.
LEMMA FoundByPlan ==
    ASSUME NEW c, Answers(c), NEW filter, Asked(filter.fields), ReadAlike(c, filter), Used(c, filter),
           NEW p \in Plans(c, filter)
    PROVE  FindBy(c, filter, Plainly, p) = {Scan(c, filter, Plainly)}
<1> DEFINE ordered == p.order # <<>>
           lists == IF ordered THEN {p.order} ELSE Orders(p.cand)
           mat(l) == Materialized(c, l, filter, ~p.exact)
           found(l) == Page(Arranged(c, mat(l), ordered, p.orderField, Plainly), Plainly)
           scan == Scan(c, filter, Plainly)
<1>1. FindBy(c, filter, Plainly, p) = {found(l) : l \in lists}
  BY Zenon DEF FindBy
<1>2. PICK m \in Seq(Nat) : Distinct(m) /\ ToSet(m) = Matching(c, filter) /\ scan = ById(m)
  BY ScanIs
<1>3. Ids(c) \in SUBSET Key
  BY AnswersParts
<1>4. ASSUME NEW l \in lists PROVE found(l) = scan
  <2>1. PlanList(p, l)
    BY DEF PlanList
  <2>2. /\ l \in Seq(Key) /\ ToSet(l) = p.cand /\ OnceIn(l, Matching(c, filter))
        /\ Matching(c, filter) \subseteq p.cand /\ p.cand \subseteq Ids(c)
        /\ p.exact => p.cand = Matching(c, filter)
    BY <2>1, PlanListIs
  <2> DEFINE rematch == ~p.exact
             t == Materialized(c, l, filter, rematch)
  <2>3. rematch \in BOOLEAN /\ (~rematch => ToSet(l) = Matching(c, filter))
    BY <2>2
  <2>. HIDE DEF rematch, lists, scan
  <2>4. t \in Seq(Nat) /\ Distinct(t) /\ ToSet(t) = Matching(c, filter)
    BY <1>3, <2>2, <2>3, MaterializedIs
  <2>. HIDE DEF t
  <2>5. ById(t) = scan
    BY <1>2, <2>4, SameById
  <2>6. Page(Arranged(c, t, ordered, p.orderField, Plainly), Plainly) = ById(t)
    <3>. HIDE DEF ordered
    <3>. QED BY <2>4, FoundById
  <2>7. mat(l) = t
    BY DEF t, rematch
  <2>. QED BY <2>5, <2>6, <2>7
<1>5. \E l : l \in lists
  <2>1. p.cand \in SUBSET Key
    BY <1>3, PlanIs, CandidatesAre
  <2>2. SetAsc(p.cand) \in Orders(p.cand)
    BY <2>1, OrdersAre
  <2>3. CASE ordered
    BY <2>3
  <2>4. CASE ~ordered
    BY <2>2, <2>4
  <2>. QED BY <2>3, <2>4
<1>. HIDE DEF lists, found, scan
<1>6. {found(l) : l \in lists} = {scan}
  BY <1>4, <1>5
<1>. QED BY <1>1, <1>6 DEF scan

LEMMA FindFinds ==
    ASSUME NEW c, Answers(c), NEW filter, Asked(filter.fields), ReadAlike(c, filter)
    PROVE  FindResults(c, filter, Plainly) = {Scan(c, filter, Plainly)}
<1>1. CASE ~Used(c, filter)
  BY <1>1, Zenon DEF FindResults
<1>2. CASE Used(c, filter)
  <2> DEFINE scan == Scan(c, filter, Plainly)
             by(p) == FindBy(c, filter, Plainly, p)
  <2>1. FindResults(c, filter, Plainly) = UNION {by(p) : p \in Plans(c, filter)}
    BY <1>2, Zenon DEF FindResults
  <2>2. \A p \in Plans(c, filter) : by(p) = {scan}
    BY <1>2, FoundByPlan
  <2>3. \E p : p \in Plans(c, filter)
    BY SomePlan
  <2>. HIDE DEF by, scan
  <2>4. UNION {by(p) : p \in Plans(c, filter)} = {scan}
    BY <2>2, <2>3
  <2>. QED BY <2>1, <2>4 DEF scan
<1>. QED BY <1>1, <1>2

\* The indexes of an open store are exact.
LEMMA OpenAnswers ==
    ASSUME DocInv, up, Clean
    PROVE  Answers(Coll)
<1>1. ~Late
  BY DEF Clean, Late
<1>2. docs \in Collections /\ ixs \in Seq(FineIxs) /\ Held(ixs, docs, Clean)
  BY <1>1, OpenStore
<1>3. Coll.docs = docs /\ Coll.ixs = ixs
  BY DEF Coll
<1>4. ASSUME NEW n \in DOMAIN ixs PROVE Shows(ixs[n], docs)
  <2> DEFINE ix == ixs[n]
  <2>1. ix \in FineIxs
    BY <1>2, IxAt
  <2>2. Holds(ix, docs, Clean)
    BY <1>2 DEF Held
  <2>. HIDE DEF ix
  <2>3. ix.rows = RowsOfAll(docs, DOMAIN docs, ix.fields)
    BY <2>2 DEF Holds, RowsHold
  <2>. QED BY <2>1, <2>3 DEF Shows, ix
<1>. QED BY <1>2, <1>3, <1>4 DEF Answers

\* Find returns through the indexes what a scan of the whole collection returns,
\* for every filter that both read alike (store.go:774-877, 989-1127).
THEOREM FindAgrees ==
    Spec => []FindIsScan
<1>1. DocInv => FindIsScan
  <2>1. SUFFICES ASSUME DocInv, up, Clean, NEW filter \in Filters, ReadAlike(Coll, filter)
                 PROVE  FindResults(Coll, filter, Plainly) = {Scan(Coll, filter, Plainly)}
    BY DEF FindIsScan
  <2>2. Answers(Coll)
    BY <2>1, OpenAnswers
  <2>3. Asked(filter.fields)
    BY FiltersAssumption DEF Asked
  <2>. HIDE DEF Coll
  <2>. QED BY <2>1, <2>2, <2>3, FindFinds
<1>. QED BY <1>1, DocumentsInvariant, PTL

-----------------------------------------------------------------------------
(* Count *)

\* A list that has each of some documents once is as long as they are many.
LEMMA AsMany ==
    ASSUME NEW m \in Seq(Nat), NEW M, Distinct(m), ToSet(m) = M
    PROVE  Len(m) = Cardinality(M) /\ Len(ById(m)) = Cardinality(M)
BY DistinctLength, ByIdLength

LEMMA ScanLength ==
    ASSUME NEW c, Answers(c), NEW filter
    PROVE  Len(Scan(c, filter, Plainly)) = Cardinality(Matching(c, filter))
<1>1. PICK m \in Seq(Nat) :
         /\ Distinct(m) /\ ToSet(m) = Matching(c, filter)
         /\ Scan(c, filter, Plainly) = ById(m)
  BY ScanIs
<1>. QED BY <1>1, AsMany

\* What is counted through a plan.
LEMMA CountedByPlan ==
    ASSUME NEW c, Answers(c), NEW filter, Asked(filter.fields), ReadAlike(c, filter), Used(c, filter),
           NEW p \in Plans(c, filter)
    PROVE  CountBy(c, filter, p) = Cardinality(Matching(c, filter))
<1>1. CASE p.exact
  <2>1. p.cand = Matching(c, filter)
    BY <1>1, PlanIs, CandidatesAre
  <2>2. CountBy(c, filter, p) = Cardinality(p.cand)
    BY <1>1, Zenon DEF CountBy
  <2>. QED BY <2>1, <2>2
<1>2. CASE ~p.exact
  <2> DEFINE l == IF p.order # <<>> THEN p.order ELSE SetAsc(p.cand)
             t == Materialized(c, l, filter, TRUE)
  <2>1. Ids(c) \in SUBSET Key
    BY AnswersParts
  <2>2. p.cand \in SUBSET Key
    BY <2>1, PlanIs, CandidatesAre
  <2>3. PlanList(p, l)
    BY <2>2, OrdersAre DEF PlanList
  <2>4. CountBy(c, filter, p) = Len(t)
    BY <1>2, Zenon DEF CountBy
  <2>. HIDE DEF l
  <2>5. /\ l \in Seq(Key) /\ ToSet(l) = p.cand /\ OnceIn(l, Matching(c, filter))
        /\ Matching(c, filter) \subseteq p.cand /\ p.cand \subseteq Ids(c)
    BY <2>3, PlanListIs
  <2>6. t \in Seq(Nat) /\ Distinct(t) /\ ToSet(t) = Matching(c, filter)
    BY <2>1, <2>5, MaterializedIs
  <2>. HIDE DEF t
  <2>7. Len(t) = Cardinality(Matching(c, filter))
    BY <2>6, AsMany
  <2>. QED BY <2>4, <2>7
<1>. QED BY <1>1, <1>2

\* How the sum over the values is counted.
LEMMA TotalRuns ==
    ASSUME NEW ix, NEW vals \in Seq(Scalar), \A k \in 1..Len(vals) : CountKey(ix, <<vals[k]>>) \in Nat
    PROVE  \E f : /\ f \in [0..Len(vals) -> Nat] /\ f[0] = 0
                  /\ \A m \in 1..Len(vals) : f[m] = f[m - 1] + CountKey(ix, <<vals[m]>>)
                  /\ Total(ix, vals) = f[Len(vals)]
<1> DEFINE L == Len(vals)
           n(m) == CountKey(ix, <<vals[m]>>)
           f == CHOOSE f : f = [m \in 0..L |-> IF m = 0 THEN 0 ELSE f[m - 1] + n(m)]
           step == [m \in 1..L |-> [t \in Nat |-> t + n(m)]]
<1>1. L \in Nat /\ \A m \in 1..L : n(m) \in Nat
  OBVIOUS
<1>8. Total(ix, vals) = f[L]
  BY Zenon DEF Total
<1>. HIDE DEF n
<1>2. Steps(step, L, Nat)
  <2>1. \A m \in 1..L : \A t \in Nat : t + n(m) \in Nat
    BY <1>1
  <2>. HIDE DEF L
  <2>. QED BY <2>1 DEF Steps
<1>3. PICK g : Goes(g, L, Nat, 0, step)
  <2>. HIDE DEF L, step
  <2>. QED BY <1>1, <1>2, Run
<1>4. g \in [0..L -> Nat] /\ g[0] = 0 /\ \A m \in 1..L : g[m] = g[m - 1] + n(m)
  <2>. HIDE DEF L
  <2>1. \A m \in 1..L : m - 1 \in 0..L
    BY <1>1
  <2>2. g \in [0..L -> Nat] /\ g[0] = 0 /\ \A m \in 1..L : g[m] = step[m][g[m - 1]]
    <3>. HIDE DEF step
    <3>. QED BY <1>3, Goings
  <2>3. ASSUME NEW m \in 1..L PROVE g[m] = g[m - 1] + n(m)
    <3>1. g[m - 1] \in Nat
      BY <2>1, <2>2
    <3>. QED BY <2>2, <3>1
  <2>. QED BY <2>2, <2>3
<1>. HIDE DEF L
<1>5. \A m \in 0..L : m # 0 => m \in 1..L
  BY <1>1
<1>6. g = [m \in 0..L |-> IF m = 0 THEN 0 ELSE g[m - 1] + n(m)]
  BY <1>4, <1>5
<1>7. f = [m \in 0..L |-> IF m = 0 THEN 0 ELSE f[m - 1] + n(m)]
  BY <1>6, Zenon
<1>. HIDE DEF f
<1>9. 0 \in 0..L /\ \A m \in 1..L : m \in 0..L /\ m # 0
  BY <1>1
<1>10. f[0] = 0 /\ \A m \in 1..L : f[m] = f[m - 1] + n(m)
  BY <1>7, <1>9
<1> DEFINE T == {m \in 0..L : f[m] = g[m]}
<1>11. 0 \in T
  BY <1>4, <1>9, <1>10
<1>12. ASSUME NEW m \in 0..L, m # 0, m - 1 \in T PROVE m \in T
  BY <1>4, <1>5, <1>10, <1>12
<1>13. 0..L \subseteq T
  <2>. HIDE DEF T
  <2>. QED BY <1>1, <1>11, <1>12, AllTheWay
<1>14. f \in [0..L -> Nat]
  BY <1>4, <1>7, <1>13
<1>15. \A m \in 1..L : f[m] = f[m - 1] + CountKey(ix, <<vals[m]>>)
  BY <1>10 DEF n
<1>. QED BY <1>8, <1>10, <1>14, <1>15 DEF L

\* Documents that are told apart by a value are counted value by value.
LEMMA TotalCounts ==
    ASSUME NEW ix, NEW vals \in Seq(Scalar), IsInjective(vals), NEW S, IsFiniteSet(S), NEW val,
           \A v \in Scalar : IdsOf(ix, <<v>>) = {i \in S : val[i] = v}
    PROVE  Total(ix, vals) = Cardinality({i \in S : val[i] \in ToSet(vals)})
<1> DEFINE L == Len(vals)
           with(v) == {i \in S : val[i] = v}
           upTo(m) == {i \in S : \E k \in 1..m : val[i] = vals[k]}
<1>1. L \in Nat /\ DOMAIN vals = 1..L /\ \A m \in 1..L : vals[m] \in Scalar
  OBVIOUS
<1>2. \A m \in 1..L : CountKey(ix, <<vals[m]>>) = Cardinality(with(vals[m]))
  BY <1>1 DEF CountKey
<1>3. \A v : IsFiniteSet(with(v)) /\ Cardinality(with(v)) \in Nat
  <2>1. SUFFICES ASSUME NEW v PROVE IsFiniteSet(with(v)) /\ Cardinality(with(v)) \in Nat
    OBVIOUS
  <2>2. with(v) \in SUBSET S
    OBVIOUS
  <2>. HIDE DEF with
  <2>. QED BY <2>2, FS_Subset, FS_CardinalityType
<1>4. \A m : IsFiniteSet(upTo(m))
  <2>1. SUFFICES ASSUME NEW m PROVE IsFiniteSet(upTo(m))
    OBVIOUS
  <2>2. upTo(m) \in SUBSET S
    OBVIOUS
  <2>. HIDE DEF upTo
  <2>. QED BY <2>2, FS_Subset
<1>5. \A k \in 1..L : CountKey(ix, <<vals[k]>>) \in Nat
  <2>. HIDE DEF with, L
  <2>. QED BY <1>2, <1>3
<1>6. PICK f : /\ f \in [0..L -> Nat] /\ f[0] = 0
               /\ \A m \in 1..L : f[m] = f[m - 1] + CountKey(ix, <<vals[m]>>)
               /\ Total(ix, vals) = f[L]
  BY <1>5, TotalRuns
<1>. HIDE DEF L
<1> DEFINE T == {m \in 0..L : f[m] = Cardinality(upTo(m))}
<1>7. 0 \in T
  <2>1. upTo(0) = {} /\ 0 \in 0..L
    BY <1>1
  <2>. QED BY <1>6, <2>1, FS_EmptySet
<1>8. ASSUME NEW m \in 0..L, m # 0, m - 1 \in T PROVE m \in T
  <2>1. m \in 1..L /\ m - 1 \in 0..L /\ 1..m = 1..(m - 1) \union {m} /\ m \notin 1..(m - 1)
        /\ 1..(m - 1) \subseteq 1..L
    BY <1>1, <1>8
  <2>2. upTo(m) = upTo(m - 1) \union with(vals[m])
    BY <2>1
  <2>3. upTo(m - 1) \intersect with(vals[m]) = {}
    <3>1. \A k \in 1..(m - 1) : vals[k] # vals[m]
      BY <1>1, <2>1 DEF IsInjective
    <3>. QED BY <3>1
  <2>4. f[m] = f[m - 1] + Cardinality(with(vals[m])) /\ f[m - 1] = Cardinality(upTo(m - 1))
    BY <1>2, <1>6, <1>8, <2>1
  <2>5. IsFiniteSet(upTo(m - 1)) /\ IsFiniteSet(with(vals[m]))
    BY <1>3, <1>4
  <2>. HIDE DEF upTo, with
  <2>6. Cardinality(upTo(m)) = Cardinality(upTo(m - 1)) + Cardinality(with(vals[m]))
    <3> DEFINE P == upTo(m - 1)
               Q == with(vals[m])
    <3>1. IsFiniteSet(P) /\ IsFiniteSet(Q) /\ P \intersect Q = {} /\ upTo(m) = P \union Q
      BY <2>2, <2>3, <2>5
    <3>. HIDE DEF P, Q
    <3>2. Cardinality(P \union Q) = Cardinality(P) + Cardinality(Q) - Cardinality(P \intersect Q)
      BY <3>1, FS_Union
    <3>3. Cardinality({}) = 0 /\ Cardinality(P) \in Nat /\ Cardinality(Q) \in Nat
      BY <3>1, FS_EmptySet, FS_CardinalityType
    <3>4. Cardinality(P \intersect Q) = 0
      BY <3>1, <3>3, Zenon
    <3>5. Cardinality(P \union Q) = Cardinality(P) + Cardinality(Q)
      BY <3>2, <3>3, <3>4
    <3>6. Cardinality(upTo(m)) = Cardinality(P) + Cardinality(Q)
      BY <3>1, <3>5, Zenon
    <3>. QED BY <3>6 DEF P, Q
  <2>. QED BY <2>4, <2>6
<1>9. L \in T
  <2>. HIDE DEF T
  <2>1. 0..L \subseteq T
    BY <1>1, <1>7, <1>8, AllTheWay
  <2>. QED BY <1>1, <2>1
<1>10. upTo(L) = {i \in S : val[i] \in ToSet(vals)}
  BY <1>1 DEF ToSet
<1>. QED BY <1>6, <1>9, <1>10

\* What is counted by the keys of an index.
LEMMA CountedByKeys ==
    ASSUME NEW c, Answers(c), NEW filter, Asked(filter.fields), IsFiniteSet(DOMAIN filter.fields),
           ReadAlike(c, filter), AsksOnce(filter), CountedByIndex(c, filter)
    PROVE  CountIndexed(c, filter) = Cardinality(Matching(c, filter))
<1> DEFINE cs == filter.fields
           f == CHOOSE f \in DOMAIN cs : TRUE
           vals == EqVals(cs[f])
           ix == c.ixs[FieldIndex(c, f)]
           val == [i \in Ids(c) |-> Lookup(c.docs[i], f)]
<1>1. /\ filter.logic = <<>> /\ Cardinality(DOMAIN cs) = 1
      /\ \A g \in DOMAIN cs : IsEq(cs[g]) /\ FieldIndex(c, g) # 0
  BY DEF CountedByIndex
<1>2. \E g : DOMAIN cs = {g}
  BY <1>1, FS_Singleton
<1>3. CountIndexed(c, filter) = Total(ix, vals)
  BY Zenon DEF CountIndexed
<1>4. DOMAIN cs = {f}
  BY <1>2
<1>. HIDE DEF f
<1>5. /\ f \in EqFields(cs) /\ FieldIndex(c, f) # 0 /\ EqIndex(c, f) # 0
      /\ f \in Consumed(c, cs) \union EqServed(c, cs)
  BY <1>1, <1>4 DEF EqFields, EqIndex, EqServed
<1>6. /\ vals \in Seq(Scalar)
      /\ \A i \in Ids(c) : f \in DOMAIN c.docs[i] => c.docs[i][f].t # "arr"
      /\ Passing(c, cs, f) = {i \in Ids(c) : Lookup(c.docs[i], f) \in ToSet(vals)}
  BY <1>5, EqAlike
<1>7. IsInjective(vals)
  BY <1>1, <1>4 DEF AsksOnce
<1>. HIDE DEF vals
<1>8. \A v \in Scalar : IdsOf(ix, <<v>>) = {i \in Ids(c) : Lookup(c.docs[i], f) = v}
  BY <1>5, <1>6, ValueFound
<1>. HIDE DEF ix
<1>9. \A v \in Scalar : IdsOf(ix, <<v>>) = {i \in Ids(c) : val[i] = v}
  BY <1>8
<1>10. {i \in Ids(c) : val[i] \in ToSet(vals)} = Passing(c, cs, f)
  BY <1>6
<1>. HIDE DEF val
<1>11. Total(ix, vals) = Cardinality({i \in Ids(c) : val[i] \in ToSet(vals)})
  BY <1>6, <1>7, <1>9, AnswersParts, TotalCounts
<1>12. Passing(c, cs, f) = Matching(c, filter)
  <2>1. DOMAIN filter.logic = {}
    BY <1>1
  <2>2. \A i : Match(c.docs[i], filter) <=> MatchField(c.docs[i], f, cs[f])
    BY <1>4, <2>1 DEF Match, MatchFields
  <2>. QED BY <2>2 DEF Passing, Matching
<1>. QED BY <1>3, <1>10, <1>11, <1>12

LEMMA CountCounts ==
    ASSUME NEW c, Answers(c), NEW filter, Asked(filter.fields), IsFiniteSet(DOMAIN filter.fields),
           ReadAlike(c, filter), AsksOnce(filter)
    PROVE  Counts(c, filter) = {Len(Scan(c, filter, Plainly))}
<1> DEFINE n == Cardinality(Matching(c, filter))
           by(p) == CountBy(c, filter, p)
<1>1. Len(Scan(c, filter, Plainly)) = n
  BY ScanLength
<1>2. CASE CountedByIndex(c, filter)
  <2>1. Counts(c, filter) = {CountIndexed(c, filter)}
    BY <1>2, Zenon DEF Counts
  <2>. QED BY <1>1, <1>2, <2>1, CountedByKeys
<1>3. CASE ~CountedByIndex(c, filter) /\ ~Used(c, filter)
  <2>1. Counts(c, filter) = {Len(Scan(c, filter, Plainly))}
    BY <1>3, Zenon DEF Counts
  <2>. QED BY <2>1
<1>4. CASE ~CountedByIndex(c, filter) /\ Used(c, filter)
  <2>1. Counts(c, filter) = {by(p) : p \in Plans(c, filter)}
    BY <1>4, Zenon DEF Counts
  <2>2. \A p \in Plans(c, filter) : by(p) = n
    BY <1>4, CountedByPlan
  <2>3. \E p : p \in Plans(c, filter)
    BY SomePlan
  <2>. HIDE DEF by, n
  <2>4. {by(p) : p \in Plans(c, filter)} = {n}
    BY <2>2, <2>3
  <2>. QED BY <1>1, <2>1, <2>4
<1>. QED BY <1>2, <1>3, <1>4

\* Count is the number of the documents that Find returns, whichever way it
\* counts, for every filter that both read alike and that asks for no value twice
\* (store.go:1340-1412).
THEOREM CountAgrees ==
    Spec => []CountIsFind
<1>1. DocInv => CountIsFind
  <2>1. SUFFICES ASSUME DocInv, up, Clean, NEW filter \in Filters, ReadAlike(Coll, filter),
                        AsksOnce(filter)
                 PROVE  Counts(Coll, filter) = {Len(Scan(Coll, filter, Plainly))}
    BY DEF CountIsFind
  <2>2. Answers(Coll)
    BY <2>1, OpenAnswers
  <2>3. Asked(filter.fields) /\ IsFiniteSet(DOMAIN filter.fields)
    BY FiltersAssumption DEF Asked
  <2>. HIDE DEF Coll
  <2>. QED BY <2>1, <2>2, <2>3, CountCounts
<1>. QED BY <1>1, DocumentsInvariant, PTL
=============================================================================
